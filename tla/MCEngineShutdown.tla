-------------------------- MODULE MCEngineShutdown --------------------------
(* The two feed connections of main.py, from their start to the end of the *)
(* process.                                                                *)
EXTENDS EngineShutdown, MCExecutionEngine
=============================================================================
