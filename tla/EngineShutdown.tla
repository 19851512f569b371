--------------------------- MODULE EngineShutdown ---------------------------
(***************************************************************************)
(* The engine of ExecutionEngine from the start of the feeds to the end of *)
(* the process: shutdown() of src/main.py cancels the feed task, and with  *)
(* it the connections that run the handlers.  A task is a connection.      *)
(*                                                                         *)
(* A cancellation is thrown where the connection is suspended.  Inside the *)
(* broker call it ends the handler, and the request goes on in its thread, *)
(* whose result nobody awaits; inside the logger's thread or the alert it  *)
(* ends the handler with the trade already booked; in `await watchdog` of  *)
(* BotLock it is swallowed, and the connection goes on until its socket,   *)
(* which stop() has closed, ends it, or until asyncio.run cancels it once  *)
(* more.  What a task is doing:                                            *)
(*   "running";  "cancelling", cancel() was called and is not yet thrown;  *)
(*   "unwinding", the cancelled handler waits for its watchdog;  "ended".  *)
(***************************************************************************)
EXTENDS ExecutionEngine

VARIABLES phase,       \* "serving", "stopping" (in shutdown), "cleaning", "exited"
          task,        \* what every task is doing
          orphan,      \* orphan[t]: the request that outlived its handler, or None
          interrupted  \* history: the symbols whose order lost its handler

shutdownVars == <<phase, task, orphan, interrupted>>
allVars == <<vars, shutdownVars>>

Orphans == [symbol : Symbols, action : Entries \cup {"CLOSE"}]

ASSUME NoRequestIsNone == None \notin Orphans

ShutdownTypeOK ==
  /\ EngineTypeOK
  /\ phase \in {"serving", "stopping", "cleaning", "exited"}
  /\ task \in [Tasks -> {"running", "cancelling", "unwinding", "ended"}]
  /\ orphan \in [Tasks -> Orphans \cup {None}]
  /\ interrupted \subseteq Symbols

ShutdownInit == /\ EngineInit
                /\ phase = "serving"
                /\ task = [t \in Tasks |-> "running"]
                /\ orphan = [t \in Tasks |-> None]
                /\ interrupted = {}
-----------------------------------------------------------------------------
(* shutdown() and the end of asyncio.run *)

CancelAll == task' = [t \in Tasks |-> IF task[t] = "running" THEN "cancelling" ELSE task[t]]

\* `self._feed_task.cancel()` reaches every connection.
CancelsFeeds == /\ phase = "serving"
                /\ phase' = "stopping"
                /\ CancelAll
                /\ UNCHANGED <<vars, orphan, interrupted>>

\* gather() has raised with the first connection that ended, shutdown() has
\* returned, and asyncio.run cancels the tasks that are left.
CleansUp == /\ phase = "stopping"
            /\ \E t \in Tasks : task[t] = "ended"
            /\ phase' = "cleaning"
            /\ CancelAll
            /\ UNCHANGED <<vars, orphan, interrupted>>

\* asyncio.run waits for the tasks, and then for the threads.
Exits == /\ phase = "cleaning"
         /\ \A t \in Tasks : task[t] = "ended" /\ orphan[t] = None
         /\ phase' = "exited"
         /\ UNCHANGED <<vars, task, orphan, interrupted>>
-----------------------------------------------------------------------------
(* The CancelledError reaches task t *)

Becomes(t, what) == task' = [task EXCEPT ![t] = what]

\* Between two signals.
InterruptedIdle(t) == /\ stage[t] = "out"
                      /\ Becomes(t, "ended")
                      /\ UNCHANGED <<vars, phase, orphan, interrupted>>

\* `except asyncio.CancelledError: pass` takes it for the watchdog's own.
Swallowed(t) == /\ stage[t] = "leaving"
                /\ Becomes(t, "running")
                /\ UNCHANGED <<vars, phase, orphan, interrupted>>

EndsHandler(t) == /\ Finish(t)
                  /\ Becomes(t, IF stage'[t] = "out" THEN "ended" ELSE "unwinding")

\* The result of the request is dropped, whether it has come or not.
InterruptedOrder(t) ==
  /\ call[t] # "none"
  /\ EndsHandler(t)
  /\ orphan' = [orphan EXCEPT ![t] =
       IF call[t] = "sent" THEN [symbol |-> sym[t], action |-> act[t]] ELSE None]
  /\ interrupted' = interrupted \cup {sym[t]}
  /\ UNCHANGED <<bookVars, paused, position, lastRow, phase>>

\* Bug: a cancelled handler takes its trade back.
InterruptedRollsBack(t) ==
  /\ pc[t] = "logging"
  /\ openTrades' = [openTrades EXCEPT ![sym[t]] = None]
  /\ stateOpen' = [stateOpen EXCEPT ![sym[t]] = None]
  /\ EndsHandler(t)
  /\ UNCHANGED <<remaining, lastRow, paused, position, phase, orphan, interrupted>>

\* The thread of the logger writes its row nevertheless; no alert is sent.
InterruptedLog(t) ==
  /\ pc[t] = "logging"
  /\ \/ WriteRow(t)
     \/ RowsMayFail /\ UNCHANGED lastRow
  /\ EndsHandler(t)
  /\ UNCHANGED <<bookVars, paused, position, phase, orphan, interrupted>>

InterruptedAlert(t) ==
  /\ pc[t] = "alerting"
  /\ EndsHandler(t)
  /\ UNCHANGED <<bookVars, paused, position, lastRow, phase, orphan, interrupted>>

Interrupted(t) == /\ task[t] = "cancelling"
                  /\ \/ InterruptedIdle(t)
                     \/ Swallowed(t)
                     \/ InterruptedOrder(t)
                     \/ InterruptedLog(t)
                     \/ InterruptedAlert(t)

\* Bug: the cancellation of the watchdog leaves the `finally` block.
UnwindsUnreleased(t) == /\ task[t] = "unwinding"
                        /\ FinishLeaveKeepsLock(t)
                        /\ Becomes(t, "ended")
                        /\ UNCHANGED <<engineVars, phase, orphan, interrupted>>

\* The watchdog of a cancelled handler has ended, and so does its task.
Unwinds(t) == /\ task[t] = "unwinding"
              /\ HandlerLeaves(t)
              /\ Becomes(t, "ended")
              /\ UNCHANGED <<phase, orphan, interrupted>>

\* A connection that went on finds its socket closed.
SocketEnds(t) == /\ phase # "serving"
                 /\ task[t] = "running"
                 /\ stage[t] = "out"
                 /\ Becomes(t, "ended")
                 /\ UNCHANGED <<vars, phase, orphan, interrupted>>

\* The broker ends a request that nobody waits for.
OrphanFills(t) ==
  LET o == orphan[t]
      after == IF o.action = "CLOSE" THEN 0 ELSE position[o.symbol] + Side(o.action)
  IN /\ o # None
     /\ "filled" \in Outcomes
     /\ after \in (-MaxPosition)..MaxPosition
     /\ position' = [position EXCEPT ![o.symbol] = after]
     /\ orphan' = [orphan EXCEPT ![t] = None]
     /\ UNCHANGED <<lockVars, bookVars, paused, handlerVars, lastRow, phase, task, interrupted>>

OrphanRefused(t) == /\ orphan[t] # None
                    /\ Outcomes # {"filled"}
                    /\ orphan' = [orphan EXCEPT ![t] = None]
                    /\ UNCHANGED <<vars, phase, task, interrupted>>
-----------------------------------------------------------------------------
\* The bot answers until the feed task is over.
Commands == phase \in {"serving", "stopping"} /\ (Pause \/ Resume)

EngineStep == \/ \E t \in Tasks : /\ task[t] = "running"
                                  /\ HandlerStep(t) \/ \E s \in Symbols : SignalArrives(t, s)
              \/ \E t \in Tasks : BrokerStep(t)
              \/ \E k \in Tokens : WatchdogReleases(k)
              \/ TimePasses
              \/ Commands

ShutdownStep == \/ CancelsFeeds
                \/ CleansUp
                \/ Exits
                \/ \E t \in Tasks : \/ Interrupted(t)
                                    \/ Unwinds(t)
                                    \/ SocketEnds(t)
                                    \/ OrphanFills(t)
                                    \/ OrphanRefused(t)

ShutdownNext == (EngineStep /\ UNCHANGED shutdownVars) \/ ShutdownStep

ShutdownSpec == ShutdownInit /\ [][ShutdownNext]_allVars
-----------------------------------------------------------------------------
(* With the feeds of main.py, a graceful shutdown loses the result of one  *)
(* order per connection at most, and of nothing but an order it has        *)
(* interrupted: every other position at the broker is in the book, and     *)
(* every other trade in the book is at the broker (main.py, shutdown).     *)
ShutdownLosesOrdersOnly ==
  LET lost == {s \in Symbols : Waiting(s) = {} /\ position[s] # Side(openTrades[s])}
  IN /\ lost \subseteq interrupted
     /\ Cardinality(interrupted) \leq Cardinality(Tasks)

(* Once the process is gone no lock is held, and the strategy's copy and   *)
(* the journal agree with the book: the trade of an interrupted handler    *)
(* was booked, copied and journalled, or nothing of it was (main.py,       *)
(* shutdown: "clean up background tasks").                                 *)
ExitsSettled == phase = "exited" => \A s \in Symbols :
  /\ ~locked[s]
  /\ stateOpen[s] = openTrades[s]
  /\ IF s \in Open THEN lastRow[s] = openTrades[s] ELSE lastRow[s] \in {"CLOSE", None}

\* Where there is a position, a trade, or an order that may give one.
Exposed == Open \cup {sym[t] : t \in Placing}
                \cup {orphan[t].symbol : t \in {u \in Tasks : orphan[u] # None /\ orphan[u].action # "CLOSE"}}
                \cup {s \in Symbols : position[s] # 0}

(* While the engine is paused no symbol becomes exposed that was not: only *)
(* the orders of signals that had passed the guard can still be filled and *)
(* booked (engine.py, pause: "Pause new trade entries").                   *)
PauseFreezesExposure == [][paused => Exposed' \subseteq Exposed]_allVars

HandlersOf(s) == {t \in Tasks : sym[t] = s /\ pc[t] \in {"placing", "closing"}}

\* The action of the order under way for every symbol.
OrderOf == [s \in Symbols |-> IF HandlersOf(s) = {} THEN None
                              ELSE act[CHOOSE t \in HandlersOf(s) : TRUE]]

Cooling == {s \in Symbols : remaining[s] > 0}

Life == INSTANCE TradeLifecycle WITH
  trade <- openTrades, order <- OrderOf, cooling <- Cooling, halted <- paused

(* With the feeds of main.py, and a cooldown that is not zero, the engine  *)
(* implements the life cycle of a trade, in a shutdown too.                *)
ImplementsLifecycle == Life!LifeSpec
=============================================================================
