------------------------- MODULE MCExecutionEngine -------------------------
(* Small instances of ExecutionEngine: the two feed connections of main.py *)
(* with their symbols, or two coroutines of a test that share the symbols. *)
EXTENDS ExecutionEngine, TLC

CONSTANTS forex, crypto,  \* the two tasks
          eur, jpy, btc   \* the symbols, of which a run takes two or three

\* main.py: every symbol belongs to the connection of its market.
ByFeed == [t \in Tasks |-> Symbols \cap IF t = crypto THEN {btc} ELSE {eur, jpy}]

\* tests/test_execution_engine.py: two coroutines handle signals of a symbol.
Shared == [t \in Tasks |-> Symbols]

TokenSymmetry == Permutations(Tokens)
FeedSymmetry == Permutations(Tokens) \cup Permutations({eur, jpy})
SharedSymmetry == Permutations(Tokens) \cup Permutations(Tasks) \cup Permutations(Symbols)
=============================================================================
