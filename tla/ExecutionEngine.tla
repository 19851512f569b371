-------------------------- MODULE ExecutionEngine --------------------------
(***************************************************************************)
(* src/execution/engine.py with the middleware it drives: the signal       *)
(* handlers of several tasks interleave on one event loop, each suspended  *)
(* in the broker call, in the CSV logger's thread or in the Telegram send. *)
(* Everything between two suspensions is one action:                       *)
(*   signal -> pause guard -> rate limiter -> BotLock -> book checks;      *)
(*   broker reply -> trade book -> symbol state -> cooldown -> receipt;    *)
(*   end of the log thread -> alert; end of the alert -> leaving the lock. *)
(* The broker is either SimulationBroker, which answers without            *)
(* suspending, or OANDABroker, whose request runs in a thread.             *)
(***************************************************************************)
EXTENDS BotLock

CONSTANTS MaxOpenTrades,  \* config.MAX_OPEN_TRADES
          Cooldown,       \* config.SIGNAL_COOLDOWN_SECONDS, in ticks
          Serves,         \* Serves[t]: the symbols whose signals task t handles
          Simulated,      \* TRADE_MODE is "simulation"
          Alerts,         \* the Telegram notifier is enabled
          RowsMayFail,    \* appending a CSV row may raise OSError
          Outcomes,       \* how a live broker request may end
          MaxPosition     \* bound of the lots held at the broker per symbol

Entries == {"BUY", "SELL"}

ASSUME FiniteAssumption == /\ IsFiniteSet(Symbols)
                           /\ IsFiniteSet(Tasks)
                           /\ Tasks # {}
ASSUME MaxOpenTradesAssumption == MaxOpenTrades \in Nat
ASSUME EngineCooldownAssumption == Cooldown \in Nat
ASSUME ServesAssumption == Serves \in [Tasks -> SUBSET Symbols]
ASSUME SwitchesAssumption == {Simulated, Alerts, RowsMayFail} \subseteq BOOLEAN
ASSUME OutcomesAssumption ==
  Outcomes \subseteq {"filled", "unfilled", "rejected", "lost"}
ASSUME MaxPositionAssumption == MaxPosition \in Nat \ {0}
ASSUME NoActionIsNone == None \notin Entries \cup {"CLOSE"}

VARIABLES remaining,   \* the cooldown that is left of every symbol
          openTrades,  \* _open_trades: the side of the open trade, or None
          stateOpen,   \* SymbolState.open_trade, what the strategy reads
          paused,      \* _paused
          pc,          \* where the handler of every task is suspended
          act,         \* signal.action of that handler
          call,        \* the fate of the broker request it waits for
          position,    \* lots at the broker: > 0 long, < 0 short (external)
          lastRow      \* the action of the last CSV row of every symbol

bookVars == <<openTrades, stateOpen, remaining>>
handlerVars == <<pc, act, call>>
engineVars == <<bookVars, paused, handlerVars, position, lastRow>>
vars == <<lockVars, engineVars>>

INSTANCE CooldownTimer

Replies == {"filled", "unfilled", "rejected", "lost"}
Suspensions == {"idle", "placing", "closing", "logging", "alerting"}

EngineTypeOK ==
  /\ TypeOK
  /\ TimerTypeOK
  /\ openTrades \in [Symbols -> Entries \cup {None}]
  /\ stateOpen \in [Symbols -> Entries \cup {None}]
  /\ paused \in BOOLEAN
  /\ pc \in [Tasks -> Suspensions]
  /\ act \in [Tasks -> Entries \cup {"CLOSE", None}]
  /\ call \in [Tasks -> Replies \cup {"none", "sent"}]
  /\ position \in [Symbols -> (-MaxPosition)..MaxPosition]
  /\ lastRow \in [Symbols -> Entries \cup {"CLOSE", None}]

EngineInit ==
  /\ LockInit
  /\ TimerInit
  /\ openTrades = [s \in Symbols |-> None]
  /\ stateOpen = [s \in Symbols |-> None]
  /\ paused = FALSE
  /\ pc = [t \in Tasks |-> "idle"]
  /\ act = [t \in Tasks |-> None]
  /\ call = [t \in Tasks |-> "none"]
  /\ position = [s \in Symbols |-> 0]
  /\ lastRow = [s \in Symbols |-> None]

Open == {s \in Symbols : openTrades[s] # None}
Placing == {t \in Tasks : pc[t] = "placing"}
-----------------------------------------------------------------------------
(* handle_signal, up to its first suspension *)

\* Bug: entries are let through while the symbol cools down.
PassesGuardsUncooled(t, s) == s \in Serves[t] /\ ~paused

\* Bug: the pause flag is not read.
PassesGuardsPaused(t, s) == s \in Serves[t] /\ IsAllowed(s)

\* The pause guard and the rate limiter, for an entry signal.
PassesGuards(t, s) == s \in Serves[t] /\ ~paused /\ IsAllowed(s)

\* Bug: the number of open trades is compared with > instead of >=.
MayOpenOneMore(s) == s \notin Open /\ Cardinality(Open) \leq MaxOpenTrades

\* Not open already, and fewer open trades than the maximum.
MayOpen(s) == s \notin Open /\ Cardinality(Open) < MaxOpenTrades

Suspend(t, where, a, c) == /\ pc' = [pc EXCEPT ![t] = where]
                           /\ act' = [act EXCEPT ![t] = a]
                           /\ call' = [call EXCEPT ![t] = c]

\* A signal of a locked symbol.  (A CLOSE meets no guard before the lock.)
DropSignal(t, s) == /\ s \in Serves[t]
                    /\ Drop(t, s)
                    /\ UNCHANGED engineVars

StartEntry(t, s, a) ==
  /\ ~Simulated
  /\ PassesGuards(t, s)
  /\ MayOpen(s)
  /\ Acquire(t, s)
  /\ Suspend(t, "placing", a, "sent")
  /\ UNCHANGED <<bookVars, paused, position, lastRow>>

StartClose(t, s) ==
  /\ ~Simulated
  /\ s \in Serves[t]
  /\ s \in Open
  /\ Acquire(t, s)
  /\ Suspend(t, "closing", "CLOSE", "sent")
  /\ UNCHANGED <<bookVars, paused, position, lastRow>>

\* The body returns at once: entry of an open symbol or beyond the maximum,
\* or CLOSE of a symbol that is not open.
SkipBody(t, s) ==
  /\ \/ PassesGuards(t, s) /\ ~MayOpen(s)
     \/ s \in Serves[t] /\ s \notin Open
  /\ AcquireAndReturn(t, s)
  /\ UNCHANGED engineVars
-----------------------------------------------------------------------------
(* The book update, and record_trade, after a successful broker call *)

\* Bug: the symbol state is not told that the trade was closed.
RecordCloseInBookOnly(s) == /\ openTrades' = [openTrades EXCEPT ![s] = None]
                            /\ UNCHANGED stateOpen
                            /\ RecordTrade(s)

\* Bug: an exit does not start a cooldown.
RecordCloseUncooled(s) == /\ openTrades' = [openTrades EXCEPT ![s] = None]
                          /\ stateOpen' = [stateOpen EXCEPT ![s] = None]
                          /\ UNCHANGED remaining

RecordClose(s) == /\ openTrades' = [openTrades EXCEPT ![s] = None]
                  /\ stateOpen' = [stateOpen EXCEPT ![s] = None]
                  /\ RecordTrade(s)

RecordEntry(s, a) == /\ openTrades' = [openTrades EXCEPT ![s] = a]
                     /\ stateOpen' = [stateOpen EXCEPT ![s] = a]
                     /\ RecordTrade(s)

Side(a) == IF a = "BUY" THEN 1 ELSE IF a = "SELL" THEN -1 ELSE 0

\* SimulationBroker.place_order fills at once and replaces the position.
SimulateEntry(t, s, a) ==
  /\ Simulated
  /\ PassesGuards(t, s)
  /\ MayOpen(s)
  /\ Acquire(t, s)
  /\ position' = [position EXCEPT ![s] = Side(a)]
  /\ RecordEntry(s, a)
  /\ Suspend(t, "logging", a, "none")
  /\ UNCHANGED <<paused, lastRow>>

\* Bug: the simulated position is read and not popped.
SimulateCloseKeeps(t, s) ==
  /\ Simulated
  /\ s \in Serves[t]
  /\ s \in Open
  /\ Acquire(t, s)
  /\ RecordClose(s)
  /\ Suspend(t, "logging", "CLOSE", "none")
  /\ UNCHANGED <<paused, position, lastRow>>

\* SimulationBroker.close_position pops the position.
SimulateClose(t, s) ==
  /\ Simulated
  /\ s \in Serves[t]
  /\ s \in Open
  /\ Acquire(t, s)
  /\ position' = [position EXCEPT ![s] = 0]
  /\ RecordClose(s)
  /\ Suspend(t, "logging", "CLOSE", "none")
  /\ UNCHANGED <<paused, lastRow>>
-----------------------------------------------------------------------------
(* The live broker's request, in its thread, and its reply *)

\* A market order adds to the net position; a close flattens it.
AfterFill(t) == IF act[t] = "CLOSE" THEN 0 ELSE position[sym[t]] + Side(act[t])

BrokerFills(t) ==
  /\ call[t] = "sent"
  /\ "filled" \in Outcomes
  /\ AfterFill(t) \in (-MaxPosition)..MaxPosition
  /\ position' = [position EXCEPT ![sym[t]] = AfterFill(t)]
  /\ call' = [call EXCEPT ![t] = "filled"]
  /\ UNCHANGED <<lockVars, bookVars, paused, pc, act, lastRow>>

\* "unfilled": a response without a fill transaction (a FOK order that was
\* cancelled).  "rejected": V20Error.  "lost": any other exception, raised
\* before or after the broker executed the request.
BrokerRefuses(t) ==
  /\ \/ call[t] = "sent" /\ \E r \in Outcomes \ {"filled"} : call' = [call EXCEPT ![t] = r]
     \/ /\ call[t] = "filled"
        /\ "lost" \in Outcomes
        /\ call' = [call EXCEPT ![t] = "lost"]
  /\ UNCHANGED <<lockVars, bookVars, paused, pc, act, position, lastRow>>

\* OrderResult.success: every response that is not an error, a fill or not.
Succeeds(t) == call[t] \in {"filled", "unfilled"}

\* Bug: the context manager is left without cancelling its watchdog.
FinishUncancelled(t) == /\ ReleaseIfHolder(sym[t], token[t])
                        /\ ForgetFrame(t)
                        /\ UNCHANGED <<dropped, watching, left>>
                        /\ Suspend(t, "idle", None, "none")

Finish(t) == /\ Leave(t)
             /\ Suspend(t, "idle", None, "none")

EntryConfirmed(t) ==
  /\ pc[t] = "placing"
  /\ Succeeds(t)
  /\ RecordEntry(sym[t], act[t])
  /\ Suspend(t, "logging", act[t], "none")
  /\ UNCHANGED <<lockVars, paused, position, lastRow>>

CloseConfirmed(t) ==
  /\ pc[t] = "closing"
  /\ Succeeds(t)
  /\ sym[t] \in Open
  /\ RecordClose(sym[t])
  /\ Suspend(t, "logging", "CLOSE", "none")
  /\ UNCHANGED <<lockVars, paused, position, lastRow>>

\* `del self._open_trades[symbol]` raises KeyError: another handler, let in
\* by the watchdog, closed the trade while this one waited for the broker.
CloseRaisesKeyError(t) ==
  /\ pc[t] = "closing"
  /\ Succeeds(t)
  /\ sym[t] \notin Open
  /\ Finish(t)
  /\ UNCHANGED <<bookVars, paused, position, lastRow>>

\* success is False, or the exception of the request leaves the handler.
OrderFails(t) ==
  /\ call[t] \in {"rejected", "lost"}
  /\ Finish(t)
  /\ UNCHANGED <<bookVars, paused, position, lastRow>>
-----------------------------------------------------------------------------
(* The rest of _post_trade *)

\* Bug: the logger writes the row of an exit as the entry it closed.
WriteEntryRow(t) ==
  lastRow' = [lastRow EXCEPT ![sym[t]] = IF act[t] = "CLOSE" THEN "BUY" ELSE act[t]]

WriteRow(t) == lastRow' = [lastRow EXCEPT ![sym[t]] = act[t]]

\* TradeLogger.log returns with the row written; then the alert is sent.
LogReturns(t) ==
  /\ pc[t] = "logging"
  /\ WriteRow(t)
  /\ IF Alerts THEN Suspend(t, "alerting", act[t], "none") /\ UNCHANGED lockVars
               ELSE Finish(t)
  /\ UNCHANGED <<bookVars, paused, position>>

\* The OSError of _write_row propagates out of the handler: no row, no alert.
LogRaises(t) ==
  /\ pc[t] = "logging"
  /\ RowsMayFail
  /\ Finish(t)
  /\ UNCHANGED <<bookVars, paused, position, lastRow>>

\* notify_trade returns, whether the message was sent or not.
AlertReturns(t) ==
  /\ pc[t] = "alerting"
  /\ Finish(t)
  /\ UNCHANGED <<bookVars, paused, position, lastRow>>

HandlerLeaves(t) == FinishLeave(t) /\ UNCHANGED engineVars
-----------------------------------------------------------------------------
(* The operator's commands, the watchdogs and time *)

Pause == /\ paused' = TRUE
         /\ UNCHANGED <<lockVars, bookVars, handlerVars, position, lastRow>>

Resume == /\ paused' = FALSE
          /\ UNCHANGED <<lockVars, bookVars, handlerVars, position, lastRow>>

WatchdogReleases(k) == WatchdogFires(k) /\ UNCHANGED engineVars

TimePasses ==
  /\ (\E k \in Tokens : left[k] > 0) \/ (\E s \in Symbols : remaining[s] > 0)
  /\ AgeWatchdogs
  /\ AgeCooldowns
  /\ UNCHANGED <<locked, holder, dropped, watching, stage, sym, token,
                 openTrades, stateOpen, paused, handlerVars, position, lastRow>>

SignalArrives(t, s) ==
  \/ \E a \in Entries : StartEntry(t, s, a) \/ SimulateEntry(t, s, a)
  \/ StartClose(t, s)
  \/ SimulateClose(t, s)
  \/ SkipBody(t, s)
  \/ DropSignal(t, s)

HandlerStep(t) == \/ EntryConfirmed(t)
                  \/ CloseConfirmed(t)
                  \/ CloseRaisesKeyError(t)
                  \/ OrderFails(t)
                  \/ LogReturns(t)
                  \/ LogRaises(t)
                  \/ AlertReturns(t)
                  \/ HandlerLeaves(t)

BrokerStep(t) == BrokerFills(t) \/ BrokerRefuses(t)

EngineNext == \/ \E t \in Tasks, s \in Symbols : SignalArrives(t, s)
              \/ \E t \in Tasks : HandlerStep(t) \/ BrokerStep(t)
              \/ \E k \in Tokens : WatchdogReleases(k)
              \/ TimePasses
              \/ Pause
              \/ Resume

EngineSpec == EngineInit /\ [][EngineNext]_vars
-----------------------------------------------------------------------------
(* What makes it correct *)

\* No symbol is handled by two tasks: the wiring of main.py, where a symbol
\* belongs to one feed connection and a connection awaits every tick.
DisjointServes == \A t, u \in Tasks : t # u => Serves[t] \cap Serves[u] = {}

Waiting(s) == {t \in Tasks : sym[t] = s /\ call[t] # "none"}
Logging(s) == {t \in Tasks : sym[t] = s /\ pc[t] = "logging"}

(* Where a handler is suspended, what it waits for and the frame it has in *)
(* BotLock agree; a handler only touches the symbols its task serves.      *)
HandlerInv == \A t \in Tasks :
  /\ pc[t] # "idle" <=> stage[t] = "body"
  /\ stage[t] # "out" => sym[t] \in Serves[t] /\ sym[t] \in Symbols
  /\ call[t] # "none" <=> pc[t] \in {"placing", "closing"}
  /\ pc[t] = "placing" => act[t] \in Entries
  /\ pc[t] = "closing" => act[t] = "CLOSE"
  /\ pc[t] \in {"logging", "alerting"} => act[t] \in Entries \cup {"CLOSE"}

(* The trade book of the engine and the copy the strategy reads in the     *)
(* SymbolState never disagree, in any interleaving of the handlers.        *)
BookMatchesState == openTrades = stateOpen

(* However a handler ends -- refused, raising in `del` or in the row it    *)
(* could not write -- it leaves no lock behind: a locked symbol is still   *)
(* being handled, and its next exit is not dropped for a dead handler      *)
(* (engine.py, line 209).                                                  *)
NoLockLeftBehind == \A s \in Symbols : locked[s] =>
  \E t \in Tasks : sym[t] = s /\ (pc[t] # "idle" \/ stage[t] = "leaving")

(* MAX_OPEN_TRADES is checked before the broker call and the book is       *)
(* written after it; every task but the last checker can overshoot by one, *)
(* and no schedule does worse.                                             *)
OpenTradesBound ==
  Cardinality(Open) + Cardinality(Placing) \leq MaxOpenTrades + Cardinality(Tasks) - 1

(* MAX_OPEN_TRADES is the maximum of simultaneous open positions           *)
(* (README.md, line 370).                                                  *)
MaxOpenTradesRespected == Cardinality(Open) \leq MaxOpenTrades

(* With the feeds of main.py, no order is at the broker for a symbol that  *)
(* cools down: the guard read before the lock still holds at the reply.    *)
NoEntryWhileCooling == \A t \in Placing : remaining[sym[t]] = 0

(* With the feeds of main.py, the lock is free whenever a signal arrives:  *)
(* no stop-loss or take-profit exit is ever counted as a duplicate.        *)
NothingDropped == \A s \in Symbols : dropped[s] = 0

(* With the feeds of main.py, once no row of a symbol is on its way, the   *)
(* CSV journal that /pnl and /performance replay ends in the state of the  *)
(* trade book: an entry row for an open trade, an exit row otherwise.      *)
JournalReplaysBook == \A s \in Symbols : Logging(s) = {} =>
  IF s \in Open THEN lastRow[s] = openTrades[s] ELSE lastRow[s] \in {"CLOSE", None}

(* With the feeds of main.py and a broker whose answers are fills or       *)
(* errors, the position at the broker is what the book says, except while  *)
(* the reply to a fill is on its way.                                      *)
BookMatchesBroker == \A s \in Symbols : Waiting(s) = {} =>
  position[s] = Side(openTrades[s])

(* The journal holds executed trades (trade_logger.py, line 57): after an  *)
(* entry row there is a position at the broker.                            *)
RowsAreExecuted == \A s \in Symbols :
  Waiting(s) = {} /\ Logging(s) = {} /\ lastRow[s] \in Entries => position[s] # 0

(* Every executed trade is recorded (README.md, Trade receipts): once the  *)
(* handler has ended, a position at the broker is in the book.             *)
ExecutedIsRecorded == \A s \in Symbols :
  Waiting(s) = {} /\ position[s] # 0 => s \in Open

(* The engine uses the lock only as BotLock allows.                        *)
ImplementsBotLock == LockSpec
=============================================================================
