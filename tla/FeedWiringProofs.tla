-------------------------- MODULE FeedWiringProofs -------------------------
(***************************************************************************)
(* What holds of ExecutionEngine under the wiring of main.py, where every  *)
(* symbol belongs to one feed connection (DisjointServes).  The argument   *)
(* is locality: a handler's step touches one symbol, which its task alone  *)
(* serves, so no other handler's facts about its own symbol are disturbed. *)
(***************************************************************************)
EXTENDS ExecutionEngineProofs

\* What a step of task t about symbol s leaves alone.
Local(t, s) ==
  /\ s \in Serves[t]
  /\ stage[t] # "out" => sym[t] = s
  /\ pc'[t] # "idle" => sym'[t] = s
  /\ \A u \in Tasks \ {t} :
        pc'[u] = pc[u] /\ act'[u] = act[u] /\ call'[u] = call[u] /\ sym'[u] = sym[u]
  /\ \A x \in Symbols \ {s} :
        /\ openTrades'[x] = openTrades[x]
        /\ remaining'[x] = remaining[x]
        /\ position'[x] = position[x]
        /\ lastRow'[x] = lastRow[x]

\* What a step of no handler leaves alone.
Global == UNCHANGED <<handlerVars, sym, openTrades, position, lastRow, dropped>>

LEMMA LeaveLocal ==
  ASSUME EngineInv, NEW t \in Tasks, Finish(t), UNCHANGED <<bookVars, position>>,
         UNCHANGED lastRow \/ lastRow' = [lastRow EXCEPT ![sym[t]] = act[t]]
  PROVE  sym[t] \in Symbols /\ Local(t, sym[t])
<1>1. TypeOK /\ HandlersTyped /\ HandlerInv /\ OutsideTyped
  BY EngineTypes DEF EngineInv
<1>2. /\ stage[t] = "body"
      /\ \A u \in Tasks \ {t} : stage'[u] = stage[u] /\ sym'[u] = sym[u]
  BY <1>1, LeaveFrame DEF Finish
<1>3. sym[t] \in Symbols /\ sym[t] \in Serves[t]
  BY <1>1, <1>2 DEF HandlerInv
<1> QED BY <1>1, <1>2, <1>3 DEF Local, Finish, Suspend, HandlersTyped, OutsideTyped, bookVars

\* A step that starts a handler is local to its symbol.
LEMMA SignalLocal ==
  ASSUME EngineInv, NEW t \in Tasks, NEW s \in Symbols, SignalArrives(t, s)
  PROVE  Local(t, s) /\ stage[t] = "out"
<1> DEFINE P == Local(t, s) /\ stage[t] = "out"
<1>0. TypeOK /\ HandlersTyped /\ BookTyped /\ OutsideTyped
  BY EngineTypes DEF EngineInv
<1> USE <1>0 DEF Local, HandlersTyped, BookTyped, OutsideTyped
<1>1. ASSUME NEW a \in Entries, StartEntry(t, s, a) PROVE P
  BY <1>1, AcquireFrame DEF StartEntry, PassesGuards, Suspend, bookVars, TypeOK
<1>2. ASSUME NEW a \in Entries, SimulateEntry(t, s, a) PROVE P
  BY <1>2, AcquireFrame
  DEF SimulateEntry, PassesGuards, Suspend, RecordEntry, RecordTrade, TimerTypeOK, TypeOK
<1>3. ASSUME StartClose(t, s) PROVE P
  BY <1>3, AcquireFrame DEF StartClose, Suspend, bookVars, TypeOK
<1>4. ASSUME SimulateClose(t, s) PROVE P
  BY <1>4, AcquireFrame
  DEF SimulateClose, Suspend, RecordClose, RecordTrade, TimerTypeOK, TypeOK
<1>5. ASSUME SkipBody(t, s) PROVE P
  BY <1>5 DEF SkipBody, PassesGuards, AcquireAndReturn, TakeLock, engineVars, bookVars,
     handlerVars, TypeOK
<1>6. ASSUME DropSignal(t, s) PROVE P
  <2>1. HandlerInv
    BY DEF EngineInv
  <2> QED BY <1>6, <2>1 DEF DropSignal, Drop, engineVars, bookVars, handlerVars, HandlerInv
<1> HIDE DEF P
<1>7. P
  BY <1>1, <1>2, <1>3, <1>4, <1>5, <1>6 DEF SignalArrives
<1> QED BY <1>7 DEF P

\* A later step of a handler is local to the symbol of its frame.
LEMMA HandlerLocal ==
  ASSUME EngineInv, NEW t \in Tasks, HandlerStep(t) \/ BrokerStep(t)
  PROVE  sym[t] \in Symbols /\ Local(t, sym[t]) /\ stage[t] # "out"
<1> DEFINE P == sym[t] \in Symbols /\ Local(t, sym[t]) /\ stage[t] # "out"
<1>0. TypeOK /\ HandlersTyped /\ BookTyped /\ OutsideTyped /\ HandlerInv
  BY EngineTypes DEF EngineInv
<1>i. ASSUME pc[t] # "idle" PROVE stage[t] # "out" /\ sym[t] \in Symbols /\ sym[t] \in Serves[t]
  BY <1>0, <1>i DEF HandlerInv
<1>w. ASSUME call[t] # "none" PROVE pc[t] # "idle"
  BY <1>0, <1>w DEF HandlerInv
<1>1. ASSUME EntryConfirmed(t) PROVE P
  <2>1. /\ pc[t] # "idle" /\ UNCHANGED <<sym, position, lastRow>>
        /\ RecordEntry(sym[t], act[t]) /\ Suspend(t, "logging", act[t], "none")
    BY <1>1 DEF EntryConfirmed, lockVars
  <2> QED BY <1>0, <1>i, <2>1
          DEF Local, HandlersTyped, BookTyped, Suspend, RecordEntry, RecordTrade, TimerTypeOK
<1>2. ASSUME CloseConfirmed(t) PROVE P
  <2>1. /\ pc[t] # "idle" /\ UNCHANGED <<sym, position, lastRow>>
        /\ RecordClose(sym[t]) /\ Suspend(t, "logging", "CLOSE", "none")
    BY <1>2 DEF CloseConfirmed, lockVars
  <2> QED BY <1>0, <1>i, <2>1
          DEF Local, HandlersTyped, BookTyped, Suspend, RecordClose, RecordTrade, TimerTypeOK
<1>3. ASSUME CloseRaisesKeyError(t) \/ OrderFails(t) \/ LogRaises(t) \/ AlertReturns(t) PROVE P
  <2>1. pc[t] # "idle"
    BY <1>3, <1>w DEF CloseRaisesKeyError, OrderFails, LogRaises, AlertReturns
  <2>2. Finish(t) /\ UNCHANGED <<bookVars, position, lastRow>>
    BY <1>3 DEF CloseRaisesKeyError, OrderFails, LogRaises, AlertReturns
  <2> QED BY <1>i, <2>1, <2>2, LeaveLocal
<1>4. ASSUME LogReturns(t) PROVE P
  <2>1. /\ pc[t] # "idle" /\ UNCHANGED <<bookVars, position>>
        /\ lastRow' = [lastRow EXCEPT ![sym[t]] = act[t]]
    BY <1>4 DEF LogReturns, WriteRow
  <2>2. CASE Finish(t)
    BY <1>i, <2>1, <2>2, LeaveLocal
  <2>3. CASE Suspend(t, "alerting", act[t], "none") /\ UNCHANGED lockVars
    BY <1>0, <1>i, <2>1, <2>3
    DEF Local, HandlersTyped, OutsideTyped, Suspend, lockVars, bookVars
  <2> QED BY <1>4, <2>2, <2>3 DEF LogReturns
<1>5. ASSUME HandlerLeaves(t) PROVE P
  <2>1. stage[t] = "leaving" /\ pc[t] = "idle" /\ pc'[t] = "idle"
    BY <1>0, <1>5 DEF HandlerLeaves, FinishLeave, HandlerInv, engineVars, handlerVars
  <2>2. \A u \in Tasks \ {t} : sym'[u] = sym[u]
    BY <1>0, <1>5, FinishLeaveFrame DEF HandlerLeaves
  <2>3. sym[t] \in Symbols /\ sym[t] \in Serves[t]
    BY <1>0, <2>1 DEF HandlerInv
  <2> QED BY <1>5, <2>1, <2>2, <2>3 DEF HandlerLeaves, engineVars, bookVars, handlerVars, Local
<1>6. ASSUME BrokerFills(t) PROVE P
  <2>1. /\ pc[t] # "idle" /\ UNCHANGED <<sym, bookVars, pc, act, lastRow>>
        /\ position' = [position EXCEPT ![sym[t]] = AfterFill(t)]
        /\ call' = [call EXCEPT ![t] = "filled"]
    BY <1>6, <1>w DEF BrokerFills, lockVars
  <2> QED BY <1>0, <1>i, <2>1 DEF Local, HandlersTyped, OutsideTyped, bookVars
<1>7. ASSUME BrokerRefuses(t) PROVE P
  <2>1. /\ pc[t] # "idle" /\ UNCHANGED <<sym, bookVars, pc, act, lastRow, position>>
        /\ \A u \in Tasks \ {t} : call'[u] = call[u]
    BY <1>0, <1>7, <1>w DEF BrokerRefuses, lockVars, HandlersTyped
  <2> QED BY <1>i, <2>1 DEF Local, bookVars
<1> HIDE DEF P
<1>8. P
  BY <1>1, <1>2, <1>3, <1>4, <1>5, <1>6, <1>7
  DEF HandlerStep, BrokerStep
<1> QED BY <1>8 DEF P

\* Under DisjointServes nobody else is inside the symbol a step is about.
LEMMA NobodyElse ==
  ASSUME DisjointServes, EngineInv, NEW t \in Tasks, NEW s \in Symbols, s \in Serves[t]
  PROVE  \A u \in Tasks \ {t} : stage[u] # "out" => sym[u] # s
BY DEF DisjointServes, EngineInv, HandlerInv

\* The two kinds of steps.
LEMMA StepKinds ==
  ASSUME EngineInv, [EngineNext]_vars
  PROVE  \/ Global /\ AgeCooldowns
         \/ Global /\ UNCHANGED remaining
         \/ \E t \in Tasks, s \in Symbols : SignalArrives(t, s)
         \/ \E t \in Tasks : HandlerStep(t) \/ BrokerStep(t)
<1>1. ASSUME NEW k \in Tokens, WatchdogReleases(k) PROVE Global /\ UNCHANGED remaining
  BY <1>1 DEF WatchdogReleases, WatchdogFires, Global, engineVars, bookVars
<1>2. CASE TimePasses
  BY <1>2 DEF TimePasses, Global
<1>3. CASE Pause \/ Resume
  BY <1>3 DEF Pause, Resume, Global, lockVars, bookVars
<1>4. CASE UNCHANGED vars
  BY <1>4 DEF vars, Global, lockVars, engineVars, bookVars
<1> QED BY <1>1, <1>2, <1>3, <1>4 DEF EngineNext
-----------------------------------------------------------------------------
(* No entry is at the broker while its symbol cools down. *)

LEMMA CoolingStep ==
  ASSUME DisjointServes, EngineInv, NoEntryWhileCooling, [EngineNext]_vars
  PROVE  NoEntryWhileCooling'
<1>0. TypeOK /\ HandlersTyped /\ BookTyped /\ HandlerInv
  BY EngineTypes DEF EngineInv
<1>g. ASSUME Global, \A s \in Symbols : remaining[s] = 0 => remaining'[s] = 0
      PROVE  NoEntryWhileCooling'
  <2>1. /\ pc' = pc /\ sym' = sym
        /\ \A t \in Tasks : pc[t] = "placing" => sym[t] \in Symbols
    BY <1>0, <1>g DEF Global, handlerVars, HandlerInv
  <2> QED BY <1>g, <2>1 DEF NoEntryWhileCooling, Placing
<1>1. ASSUME Global, AgeCooldowns PROVE NoEntryWhileCooling'
  <2>1. \A s \in Symbols : remaining[s] = 0 => remaining'[s] = 0
    BY <1>1 DEF AgeCooldowns
  <2> QED BY <1>1, <2>1, <1>g
<1>5. ASSUME Global, UNCHANGED remaining PROVE NoEntryWhileCooling'
  BY <1>5, <1>g
<1>2. ASSUME NEW t \in Tasks, NEW s \in Symbols, Local(t, s),
             pc'[t] = "placing" => remaining'[s] = 0
      PROVE  NoEntryWhileCooling'
  <2> SUFFICES ASSUME NEW u \in Tasks, pc'[u] = "placing" PROVE remaining'[sym'[u]] = 0
    BY DEF NoEntryWhileCooling, Placing
  <2>1. CASE u = t
    BY <1>2, <2>1 DEF Local
  <2>2. CASE u # t
    <3>1. pc[u] = "placing" /\ sym'[u] = sym[u]
      BY <1>2, <2>2 DEF Local
    <3>2. stage[u] # "out" /\ sym[u] \in Symbols /\ remaining[sym[u]] = 0
      BY <1>0, <3>1 DEF HandlerInv, NoEntryWhileCooling, Placing
    <3>3. sym[u] # s
      BY <1>2, <2>2, <3>2, NobodyElse DEF Local
    <3> QED BY <1>2, <3>1, <3>2, <3>3 DEF Local
  <2> QED BY <2>1, <2>2
<1>3. ASSUME NEW t \in Tasks, NEW s \in Symbols, SignalArrives(t, s)
      PROVE  pc'[t] = "placing" => remaining'[s] = 0
  <2>1. stage[t] = "out" /\ pc[t] = "idle"
    BY <1>0, <1>3, SignalLocal DEF HandlerInv
  <2> QED BY <1>0, <1>3, <2>1
          DEF SignalArrives, StartEntry, PassesGuards, IsAllowed, SimulateEntry, StartClose,
              SimulateClose, SkipBody, DropSignal, Suspend, HandlersTyped, bookVars,
              engineVars, handlerVars
<1>4. ASSUME NEW t \in Tasks, HandlerStep(t) \/ BrokerStep(t)
      PROVE  pc'[t] = "placing" => remaining'[sym[t]] = 0
  <2>1. pc'[t] # "placing" \/ UNCHANGED <<pc, remaining>>
    BY <1>0, <1>4
    DEF HandlerStep, BrokerStep, EntryConfirmed, CloseConfirmed, CloseRaisesKeyError,
        OrderFails, LogReturns, LogRaises, AlertReturns, HandlerLeaves, BrokerFills,
        BrokerRefuses, Finish, Suspend, HandlersTyped, bookVars, engineVars, handlerVars
  <2> QED BY <2>1 DEF NoEntryWhileCooling, Placing
<1> QED BY <1>1, <1>2, <1>3, <1>4, <1>5, StepKinds, SignalLocal, HandlerLocal

\* With one task per symbol, an entry order is never at the broker while
\* its symbol cools down.
THEOREM EntriesWaitForCooldown ==
  ASSUME DisjointServes PROVE EngineSpec => []NoEntryWhileCooling
<1>1. EngineInit => NoEntryWhileCooling
  BY DEF EngineInit, NoEntryWhileCooling, Placing
<1>2. EngineInv /\ NoEntryWhileCooling /\ [EngineNext]_vars => NoEntryWhileCooling'
  BY CoolingStep
<1> QED BY <1>1, <1>2, EngineInvariant, PTL DEF EngineSpec
-----------------------------------------------------------------------------
(* No signal finds its symbol locked. *)

LEMMA DropImpossible ==
  ASSUME DisjointServes, EngineInv, NEW t \in Tasks, NEW s \in Symbols, DropSignal(t, s)
  PROVE  FALSE
<1>1. holder[s] # None /\ s \in Serves[t] /\ stage[t] = "out"
  BY DEF DropSignal, Drop, EngineInv, LockInv, FlagMatchesHolder
<1>2. PICK u \in Tasks : sym[u] = s /\ HasLease(u)
  BY <1>1 DEF EngineInv, LockInv, HoldersHaveLease
<1>3. stage[u] # "out"
  BY <1>2 DEF HasLease
<1>4. u # t
  BY <1>1, <1>3
<1> QED BY <1>1, <1>2, <1>3, <1>4, NobodyElse

LEMMA DroppedStep ==
  ASSUME DisjointServes, EngineInv, [EngineNext]_vars
  PROVE  dropped' = dropped
<1>1. ASSUME NEW t \in Tasks, NEW s \in Symbols, SignalArrives(t, s) PROVE dropped' = dropped
  BY <1>1, DropImpossible
  DEF SignalArrives, StartEntry, SimulateEntry, StartClose, SimulateClose, SkipBody, Acquire,
      AcquireAndReturn, TakeLock
<1>2. ASSUME NEW t \in Tasks, Finish(t) PROVE dropped' = dropped
  BY <1>2 DEF Finish, Leave, CancelWatchdog, LeaveLate
<1>3. ASSUME NEW t \in Tasks, HandlerStep(t) \/ BrokerStep(t) PROVE dropped' = dropped
  BY <1>2, <1>3
  DEF HandlerStep, BrokerStep, EntryConfirmed, CloseConfirmed, CloseRaisesKeyError, OrderFails,
      LogReturns, LogRaises, AlertReturns, HandlerLeaves, FinishLeave, BrokerFills,
      BrokerRefuses, lockVars
<1> QED BY <1>1, <1>3, StepKinds DEF Global

\* With one task per symbol, no signal (an exit least of all) is dropped.
THEOREM FeedsDropNothing ==
  ASSUME DisjointServes PROVE EngineSpec => []NothingDropped
<1>1. EngineInit => NothingDropped
  BY DEF EngineInit, LockInit, NothingDropped
<1>2. EngineInv /\ NothingDropped /\ [EngineNext]_vars => NothingDropped'
  BY DroppedStep DEF NothingDropped
<1> QED BY <1>1, <1>2, EngineInvariant, PTL DEF EngineSpec
-----------------------------------------------------------------------------
(* The trade book, the position at the broker and the last row of the      *)
(* journal agree.  Neither BookMatchesBroker nor JournalReplaysBook is     *)
(* inductive: each says what holds when no handler is under way.  The      *)
(* strengthening says, for every handler, what its own symbol looks like   *)
(* while it is under way.                                                  *)

LEMMA SideValues == /\ Side("BUY") = 1
                    /\ Side("SELL") = -1
                    /\ Side("CLOSE") = 0
                    /\ Side(None) = 0
                    /\ \A a \in Entries \cup {"CLOSE", None} : Side(a) \in Int
BY NoActionIsNone DEF Side, Entries
-----------------------------------------------------------------------------
(* The book and the broker *)

\* The broker answers with a fill or with an error.
Reliable == Outcomes \subseteq {"filled", "rejected"}

\* What the broker holds for the symbol of a handler that waits for it.
BrokerTask(t) == call[t] # "none" =>
  /\ call[t] \in {"sent", "filled", "rejected"}
  /\ openTrades[sym[t]] = None <=> pc[t] = "placing"
  /\ position[sym[t]] = IF call[t] = "filled" THEN Side(act[t]) ELSE Side(openTrades[sym[t]])

\* Book and broker agree about symbol x, as far as its handlers know.
BrokerAt(x) == /\ Waiting(x) = {} => position[x] = Side(openTrades[x])
               /\ \A t \in Tasks : sym[t] = x => BrokerTask(t)

\* A step of t about s keeps BrokerAt everywhere if it does so for t and s.
LEMMA BrokerLocal ==
  ASSUME DisjointServes, EngineInv, HandlerInv',
         NEW t \in Tasks, NEW s \in Symbols, Local(t, s),
         NEW x \in Symbols, BrokerAt(x),
         x = s => /\ BrokerTask(t)'
                  /\ call'[t] = "none" => position'[s] = Side(openTrades'[s])
  PROVE  BrokerAt(x)'
<1>0. HandlerInv
  BY DEF EngineInv
<1>1. \A u \in Tasks : call[u] # "none" => stage[u] # "out" /\ sym[u] \in Symbols
  BY <1>0 DEF HandlerInv
<1>2. \A u \in Tasks \ {t} : call[u] # "none" => sym[u] # s
  BY <1>1, NobodyElse DEF Local
<1>t. call'[t] # "none" => sym'[t] = s
  BY DEF HandlerInv, Local
<1>3. ASSUME NEW u \in Tasks, sym'[u] = x PROVE BrokerTask(u)'
  <2>1. CASE u = t
    BY <1>3, <1>t, <2>1 DEF BrokerTask
  <2>2. CASE u # t
    <3>1. call'[u] = call[u] /\ pc'[u] = pc[u] /\ act'[u] = act[u] /\ sym'[u] = sym[u]
      BY <2>2 DEF Local
    <3>2. call[u] # "none" => /\ openTrades'[sym[u]] = openTrades[sym[u]]
                              /\ position'[sym[u]] = position[sym[u]]
      BY <1>1, <1>2, <2>2 DEF Local
    <3>3. BrokerTask(u)
      BY <1>3, <3>1 DEF BrokerAt
    <3> QED BY <3>1, <3>2, <3>3 DEF BrokerTask, Side
  <2> QED BY <2>1, <2>2
<1>4. ASSUME Waiting(x)' = {} PROVE position'[x] = Side(openTrades'[x])
  <2>1. CASE x = s
    <3>1. call'[t] = "none"
      BY <1>4, <1>t, <2>1 DEF Waiting
    <3> QED BY <2>1, <3>1
  <2>2. CASE x # s
    <3>1. Waiting(x) = {}
      BY <1>1, <1>4, <2>2 DEF Waiting, Local
    <3>2. position[x] = Side(openTrades[x])
      BY <3>1 DEF BrokerAt
    <3> QED BY <2>2, <3>2 DEF Local
  <2> QED BY <2>1, <2>2
<1> QED BY <1>3, <1>4 DEF BrokerAt, Side

LEMMA BrokerSignal ==
  ASSUME DisjointServes, EngineInv,
         NEW t \in Tasks, NEW s \in Symbols, SignalArrives(t, s), BrokerAt(s)
  PROVE  BrokerTask(t)' /\ (call'[t] = "none" => position'[s] = Side(openTrades'[s]))
<1> DEFINE P == BrokerTask(t)' /\ (call'[t] = "none" => position'[s] = Side(openTrades'[s]))
<1>0. TypeOK /\ HandlersTyped /\ BookTyped /\ OutsideTyped /\ HandlerInv
  BY EngineTypes DEF EngineInv
<1>1. Local(t, s) /\ stage[t] = "out" /\ call[t] = "none"
  BY <1>0, SignalLocal DEF HandlerInv
<1>2. position[s] = Side(openTrades[s])
  <2>1. Waiting(s) = {}
    BY <1>0, <1>1, NobodyElse DEF Waiting, HandlerInv, Local
  <2> QED BY <2>1 DEF BrokerAt
<1>3. ASSUME NEW a \in Entries, StartEntry(t, s, a) PROVE P
  <2>1. /\ sym'[t] = s /\ call'[t] = "sent" /\ pc'[t] = "placing"
        /\ UNCHANGED <<openTrades, position>> /\ openTrades[s] = None
    BY <1>0, <1>3, AcquireFrame
    DEF StartEntry, Suspend, MayOpen, Open, bookVars, TypeOK, HandlersTyped
  <2> QED BY <1>2, <2>1 DEF BrokerTask, Side
<1>4. ASSUME NEW a \in Entries, SimulateEntry(t, s, a) PROVE P
  <2>1. call'[t] = "none" /\ position'[s] = Side(a) /\ openTrades'[s] = a
    BY <1>0, <1>4 DEF SimulateEntry, Suspend, RecordEntry, HandlersTyped, BookTyped, OutsideTyped
  <2> QED BY <2>1 DEF BrokerTask, Side
<1>5. ASSUME StartClose(t, s) PROVE P
  <2>1. /\ sym'[t] = s /\ call'[t] = "sent" /\ pc'[t] = "closing"
        /\ UNCHANGED <<openTrades, position>> /\ openTrades[s] # None
    BY <1>0, <1>5, AcquireFrame DEF StartClose, Suspend, Open, bookVars, TypeOK, HandlersTyped
  <2> QED BY <1>2, <2>1 DEF BrokerTask, Side
<1>6. ASSUME SimulateClose(t, s) PROVE P
  <2>1. call'[t] = "none" /\ position'[s] = 0 /\ openTrades'[s] = None
    BY <1>0, <1>6 DEF SimulateClose, Suspend, RecordClose, HandlersTyped, BookTyped, OutsideTyped
  <2> QED BY <2>1, SideValues DEF BrokerTask, Side
<1>7. ASSUME SkipBody(t, s) \/ DropSignal(t, s) PROVE P
  <2>1. call'[t] = "none" /\ UNCHANGED <<openTrades, position>>
    BY <1>1, <1>7 DEF SkipBody, DropSignal, engineVars, bookVars, handlerVars
  <2> QED BY <1>2, <2>1 DEF BrokerTask, Side
<1> HIDE DEF P
<1>8. P
  BY <1>3, <1>4, <1>5, <1>6, <1>7 DEF SignalArrives
<1> QED BY <1>8 DEF P

LEMMA BrokerHandler ==
  ASSUME DisjointServes, Reliable, EngineInv,
         NEW t \in Tasks, HandlerStep(t) \/ BrokerStep(t), NEW s, s = sym[t], BrokerAt(s)
  PROVE  BrokerTask(t)' /\ (call'[t] = "none" => position'[s] = Side(openTrades'[s]))
<1> DEFINE P == BrokerTask(t)' /\ (call'[t] = "none" => position'[s] = Side(openTrades'[s]))
<1> HIDE DEF P
<1>0. HandlersTyped /\ BookTyped /\ OutsideTyped /\ HandlerInv /\ BrokerTask(t)
  BY EngineTypes DEF EngineInv, BrokerAt
<1>1. s \in Symbols /\ Local(t, s) /\ stage[t] # "out"
  BY HandlerLocal
<1>2. call[t] = "none" => position[s] = Side(openTrades[s])
  <2>1. call[t] = "none" => Waiting(s) = {}
    BY <1>0, <1>1, NobodyElse DEF Waiting, HandlerInv, Local
  <2> QED BY <2>1 DEF BrokerAt
<1>i. call[t] = "none" <=> pc[t] \notin {"placing", "closing"}
  BY <1>0 DEF HandlerInv
<1>f. ASSUME Finish(t), UNCHANGED <<openTrades, position>>, position[s] = Side(openTrades[s])
      PROVE  P
  <2>1. call'[t] = "none"
    BY <1>0, <1>f DEF Finish, Suspend, HandlersTyped
  <2> QED BY <1>f, <2>1 DEF P, BrokerTask, Side
<1>3. ASSUME EntryConfirmed(t) PROVE P
  <2>1. call[t] = "filled" /\ position[s] = Side(act[t])
    BY <1>0, <1>3 DEF EntryConfirmed, Succeeds, BrokerTask
  <2>2. call'[t] = "none" /\ UNCHANGED position /\ openTrades'[s] = act[t]
    BY <1>0, <1>1, <1>3 DEF EntryConfirmed, RecordEntry, Suspend, HandlersTyped, BookTyped
  <2> QED BY <2>1, <2>2 DEF P, BrokerTask, Side
<1>4. ASSUME CloseConfirmed(t) PROVE P
  <2>1. act[t] = "CLOSE" /\ position[s] = Side(act[t])
    BY <1>0, <1>4 DEF CloseConfirmed, Succeeds, BrokerTask, HandlerInv
  <2>2. call'[t] = "none" /\ UNCHANGED position /\ openTrades'[s] = None
    BY <1>0, <1>1, <1>4 DEF CloseConfirmed, RecordClose, Suspend, HandlersTyped, BookTyped
  <2> QED BY <2>1, <2>2, SideValues DEF P, BrokerTask, Side
<1>5. ASSUME CloseRaisesKeyError(t) PROVE P
  BY <1>0, <1>1, <1>5 DEF CloseRaisesKeyError, Succeeds, BrokerTask, Open
<1>6. ASSUME OrderFails(t) PROVE P
  <2>1. call[t] = "rejected" /\ position[s] = Side(openTrades[s])
    BY <1>0, <1>6 DEF OrderFails, BrokerTask
  <2> QED BY <1>6, <1>f, <2>1 DEF OrderFails, bookVars
<1>7. ASSUME LogRaises(t) \/ AlertReturns(t) PROVE P
  BY <1>2, <1>7, <1>f, <1>i DEF LogRaises, AlertReturns, bookVars
<1>8. ASSUME LogReturns(t) PROVE P
  <2>1. call[t] = "none" /\ UNCHANGED <<openTrades, position>>
    BY <1>8, <1>i DEF LogReturns, bookVars
  <2>2. call'[t] = "none"
    BY <1>0, <1>8 DEF LogReturns, Finish, Suspend, HandlersTyped
  <2> QED BY <1>2, <2>1, <2>2 DEF P, BrokerTask, Side
<1>9. ASSUME HandlerLeaves(t) PROVE P
  <2>1. stage[t] = "leaving" /\ UNCHANGED <<call, openTrades, position>>
    BY <1>9 DEF HandlerLeaves, FinishLeave, engineVars, bookVars, handlerVars
  <2>2. call[t] = "none"
    BY <1>0, <2>1 DEF HandlerInv
  <2> QED BY <1>2, <2>1, <2>2 DEF P, BrokerTask, Side
<1>10. ASSUME BrokerFills(t) PROVE P
  <2>1. /\ call[t] = "sent" /\ call'[t] = "filled"
        /\ UNCHANGED <<sym, pc, act, openTrades>>
        /\ position'[s] = AfterFill(t)
    BY <1>0, <1>1, <1>10 DEF BrokerFills, lockVars, bookVars, HandlersTyped, OutsideTyped
  <2>2. position[s] = Side(openTrades[s]) /\ (openTrades[s] = None <=> pc[t] = "placing")
    BY <1>0, <2>1 DEF BrokerTask
  <2>3. AfterFill(t) = Side(act[t])
    <3>1. CASE pc[t] = "placing"
      <4>1. act[t] \in Entries /\ act[t] # "CLOSE" /\ position[s] = 0
        BY <1>0, <2>2, <3>1, SideValues DEF HandlerInv, Entries
      <4> QED BY <4>1, SideValues DEF AfterFill, Entries
    <3>2. CASE pc[t] = "closing"
      BY <1>0, <3>2, SideValues DEF HandlerInv, AfterFill
    <3> QED BY <1>i, <2>1, <3>1, <3>2
  <2> QED BY <2>1, <2>2, <2>3 DEF P, BrokerTask, Side
<1>11. ASSUME BrokerRefuses(t) PROVE P
  <2>1. /\ call[t] = "sent" /\ call'[t] = "rejected"
        /\ UNCHANGED <<sym, pc, act, openTrades, position>>
    BY <1>0, <1>11 DEF BrokerRefuses, Reliable, lockVars, bookVars, HandlersTyped
  <2> QED BY <1>0, <2>1 DEF P, BrokerTask, Side
<1>12. P
  BY <1>3, <1>4, <1>5, <1>6, <1>7, <1>8, <1>9, <1>10, <1>11 DEF HandlerStep, BrokerStep
<1> QED BY <1>12 DEF P

\* What book and broker agree about they agree about after every step.
LEMMA BrokerAtStep ==
  ASSUME DisjointServes, Reliable, EngineInv, [EngineNext]_vars,
         NEW x \in Symbols, BrokerAt(x)
  PROVE  BrokerAt(x)'
<1>1. HandlerInv'
  BY HandlerStepLemma
<1>2. ASSUME NEW t \in Tasks, NEW s \in Symbols, SignalArrives(t, s) PROVE BrokerAt(x)'
  BY <1>1, <1>2, SignalLocal, BrokerSignal, BrokerLocal
<1>3. ASSUME NEW t \in Tasks, HandlerStep(t) \/ BrokerStep(t), NEW s, s = sym[t]
      PROVE  BrokerAt(x)'
  <2>1. s \in Symbols /\ Local(t, s)
    BY <1>3, HandlerLocal
  <2> QED BY <1>1, <1>3, <2>1, BrokerHandler, BrokerLocal
<1>4. ASSUME Global PROVE BrokerAt(x)'
  BY <1>4 DEF Global, handlerVars, BrokerAt, BrokerTask, Waiting, Side
<1> QED BY <1>2, <1>3, <1>4, StepKinds

\* With one task per symbol and a broker that fills or rejects, the position
\* at the broker is what the book says, but for a fill whose reply is on
\* its way.
THEOREM FeedsMatchBroker ==
  ASSUME DisjointServes, Reliable PROVE EngineSpec => []BookMatchesBroker
<1> DEFINE I == \A x \in Symbols : BrokerAt(x)
<1>1. EngineInit => I
  BY SideValues DEF EngineInit, BrokerAt, BrokerTask
<1>2. EngineInv /\ I /\ [EngineNext]_vars => I'
  BY BrokerAtStep
<1>3. I => BookMatchesBroker
  BY DEF BrokerAt, BookMatchesBroker
<1> QED BY <1>1, <1>2, <1>3, EngineInvariant, PTL DEF EngineSpec
-----------------------------------------------------------------------------
(* The book and the journal *)

\* While the row of a trade is on its way, the book shows the trade.
JournalTask(t) == pc[t] = "logging" =>
  openTrades[sym[t]] = IF act[t] = "CLOSE" THEN None ELSE act[t]

JournalInv == JournalReplaysBook /\ \A t \in Tasks : JournalTask(t)

\* The last row of symbol x is what JournalReplaysBook asks for.
Replayed(x) == IF x \in Open THEN lastRow[x] = openTrades[x] ELSE lastRow[x] \in {"CLOSE", None}

\* A step of t about s keeps JournalInv if it does so for t and s.
LEMMA JournalLocal ==
  ASSUME DisjointServes, EngineInv, HandlerInv', JournalInv,
         NEW t \in Tasks, NEW s \in Symbols, Local(t, s),
         JournalTask(t)',
         pc'[t] # "logging" => Replayed(s)'
  PROVE  JournalInv'
<1>0. HandlerInv
  BY DEF EngineInv
<1>1. \A u \in Tasks : pc[u] = "logging" => stage[u] # "out" /\ sym[u] \in Symbols
  BY <1>0 DEF HandlerInv
<1>2. \A u \in Tasks \ {t} : pc[u] = "logging" => sym[u] # s
  BY <1>1, NobodyElse DEF Local
<1>3. ASSUME NEW u \in Tasks \ {t} PROVE JournalTask(u)'
  <2>1. pc'[u] = pc[u] /\ act'[u] = act[u] /\ sym'[u] = sym[u]
    BY DEF Local
  <2>2. pc[u] = "logging" => openTrades'[sym[u]] = openTrades[sym[u]]
    BY <1>1, <1>2 DEF Local
  <2>3. JournalTask(u)
    BY DEF JournalInv
  <2> QED BY <2>1, <2>2, <2>3 DEF JournalTask
<1>4. ASSUME NEW x \in Symbols, Logging(x)' = {} PROVE Replayed(x)'
  <2>1. CASE x = s
    <3>1. pc'[t] # "logging"
      BY <1>4, <2>1 DEF Logging, Local
    <3> QED BY <2>1, <3>1
  <2>2. CASE x # s
    <3>1. Logging(x) = {}
      BY <1>1, <1>4, <2>2 DEF Logging, Local
    <3>2. Replayed(x)
      BY <3>1 DEF JournalInv, JournalReplaysBook, Replayed
    <3> QED BY <2>2, <3>2 DEF Local, Replayed, Open
  <2> QED BY <2>1, <2>2
<1>5. JournalReplaysBook'
  BY <1>4 DEF JournalReplaysBook, Replayed
<1> QED BY <1>3, <1>5 DEF JournalInv

LEMMA JournalStep ==
  ASSUME DisjointServes, ~RowsMayFail, EngineInv, JournalInv, [EngineNext]_vars
  PROVE  JournalInv'
<1> DEFINE P(t, s) == JournalTask(t)' /\ (pc'[t] # "logging" => Replayed(s)')
<1> HIDE DEF P
<1>0. TypeOK /\ HandlersTyped /\ BookTyped /\ OutsideTyped /\ HandlerInv
  BY EngineTypes DEF EngineInv
<1>r. ASSUME NEW t \in Tasks, NEW s \in Symbols, Local(t, s), pc[t] # "logging"
      PROVE  Replayed(s)
  <2>1. Logging(s) = {}
    BY <1>0, <1>r, NobodyElse DEF Logging, HandlerInv, Local
  <2> QED BY <2>1 DEF JournalInv, JournalReplaysBook, Replayed
<1>k. ASSUME NEW t \in Tasks, NEW s \in Symbols, Replayed(s), pc'[t] # "logging",
             UNCHANGED <<openTrades, lastRow>>
      PROVE  P(t, s)
  BY <1>k DEF P, JournalTask, Replayed, Open
<1>1. ASSUME NEW t \in Tasks, NEW s \in Symbols, SignalArrives(t, s) PROVE P(t, s)
  <2>1. Local(t, s) /\ pc[t] = "idle"
    BY <1>0, <1>1, SignalLocal DEF HandlerInv
  <2>2. Replayed(s)
    BY <1>r, <2>1
  <2>3. ASSUME NEW a \in Entries, StartEntry(t, s, a) PROVE P(t, s)
    BY <1>0, <1>k, <2>2, <2>3 DEF StartEntry, Suspend, HandlersTyped, bookVars
  <2>4. ASSUME StartClose(t, s) PROVE P(t, s)
    BY <1>0, <1>k, <2>2, <2>4 DEF StartClose, Suspend, HandlersTyped, bookVars
  <2>5. ASSUME SkipBody(t, s) \/ DropSignal(t, s) PROVE P(t, s)
    BY <1>k, <2>1, <2>2, <2>5 DEF SkipBody, DropSignal, engineVars, bookVars, handlerVars
  <2>6. ASSUME NEW a \in Entries, SimulateEntry(t, s, a) PROVE P(t, s)
    <3>1. sym'[t] = s /\ pc'[t] = "logging" /\ act'[t] = a /\ openTrades'[s] = a
      BY <1>0, <2>6, AcquireFrame
      DEF SimulateEntry, Suspend, RecordEntry, HandlersTyped, BookTyped, TypeOK
    <3> QED BY <3>1 DEF P, JournalTask, Entries
  <2>7. ASSUME SimulateClose(t, s) PROVE P(t, s)
    <3>1. sym'[t] = s /\ pc'[t] = "logging" /\ act'[t] = "CLOSE" /\ openTrades'[s] = None
      BY <1>0, <2>7, AcquireFrame
      DEF SimulateClose, Suspend, RecordClose, HandlersTyped, BookTyped, TypeOK
    <3> QED BY <3>1 DEF P, JournalTask
  <2> QED BY <1>1, <2>3, <2>4, <2>5, <2>6, <2>7 DEF SignalArrives
<1>2. ASSUME NEW t \in Tasks, HandlerStep(t) \/ BrokerStep(t), NEW s, s = sym[t]
      PROVE  P(t, s) /\ s \in Symbols /\ Local(t, s)
  <2>1. s \in Symbols /\ Local(t, s) /\ stage[t] # "out"
    BY <1>2, HandlerLocal
  <2>2. pc[t] # "logging" => Replayed(s)
    BY <1>r, <2>1
  <2>c. call[t] # "none" => pc[t] # "logging"
    BY <1>0 DEF HandlerInv
  <2>3. ASSUME EntryConfirmed(t) PROVE P(t, s)
    <3>1. /\ sym' = sym /\ pc'[t] = "logging" /\ act'[t] = act[t] /\ act[t] \in Entries
          /\ openTrades'[s] = act[t]
      BY <1>0, <1>2, <2>1, <2>3
      DEF EntryConfirmed, RecordEntry, Suspend, lockVars, HandlersTyped, BookTyped, HandlerInv
    <3> QED BY <1>2, <3>1 DEF P, JournalTask, Entries
  <2>4. ASSUME CloseConfirmed(t) PROVE P(t, s)
    <3>1. /\ sym' = sym /\ pc'[t] = "logging" /\ act'[t] = "CLOSE"
          /\ openTrades'[s] = None
      BY <1>0, <1>2, <2>1, <2>4
      DEF CloseConfirmed, RecordClose, Suspend, lockVars, HandlersTyped, BookTyped
    <3> QED BY <1>2, <3>1 DEF P, JournalTask
  <2>5. ASSUME CloseRaisesKeyError(t) \/ OrderFails(t) \/ AlertReturns(t) PROVE P(t, s)
    <3>1. pc'[t] = "idle" /\ pc[t] # "logging" /\ UNCHANGED <<openTrades, lastRow>>
      BY <1>0, <2>5, <2>c
      DEF CloseRaisesKeyError, OrderFails, AlertReturns, Finish, Suspend, HandlersTyped, bookVars
    <3> QED BY <1>k, <2>1, <2>2, <3>1
  <2>6. ~LogRaises(t)
    BY DEF LogRaises
  <2>7. ASSUME LogReturns(t) PROVE P(t, s)
    <3>1. pc'[t] \in {"idle", "alerting"} /\ UNCHANGED openTrades /\ lastRow'[s] = act[t]
      BY <1>0, <1>2, <2>1, <2>7
      DEF LogReturns, WriteRow, Finish, Suspend, HandlersTyped, OutsideTyped, bookVars
    <3>2. /\ openTrades[s] = IF act[t] = "CLOSE" THEN None ELSE act[t]
          /\ act[t] \in Entries \cup {"CLOSE"}
      BY <1>0, <1>2, <2>7 DEF LogReturns, JournalInv, JournalTask, HandlerInv
    <3>3. Replayed(s)'
      <4>1. s \in Open' <=> openTrades[s] # None
        BY <2>1, <3>1 DEF Open
      <4>2. CASE act[t] = "CLOSE"
        BY <3>1, <3>2, <4>1, <4>2 DEF Replayed
      <4>3. CASE act[t] \in Entries
        BY <3>1, <3>2, <4>1, <4>3 DEF Replayed, Entries
      <4> QED BY <3>2, <4>2, <4>3
    <3> QED BY <3>1, <3>3 DEF P, JournalTask
  <2>8. ASSUME HandlerLeaves(t) PROVE P(t, s)
    <3>1. /\ pc[t] = "idle" /\ pc'[t] = "idle"
          /\ UNCHANGED <<openTrades, lastRow>>
      BY <1>0, <2>8 DEF HandlerLeaves, FinishLeave, HandlerInv, engineVars, bookVars, handlerVars
    <3> QED BY <1>k, <2>1, <2>2, <3>1
  <2>9. ASSUME BrokerStep(t) PROVE P(t, s)
    <3>1. pc' = pc /\ pc[t] # "logging" /\ UNCHANGED <<openTrades, lastRow>>
      BY <2>9, <2>c DEF BrokerStep, BrokerFills, BrokerRefuses, bookVars
    <3> QED BY <1>k, <2>1, <2>2, <3>1
  <2> QED BY <1>2, <2>1, <2>3, <2>4, <2>5, <2>6, <2>7, <2>8, <2>9 DEF HandlerStep
<1>3. ASSUME Global PROVE JournalInv'
  BY <1>3 DEF Global, handlerVars, JournalInv, JournalReplaysBook, JournalTask, Logging, Open
<1>4. HandlerInv'
  BY HandlerStepLemma
<1>5. ASSUME NEW t \in Tasks, NEW s \in Symbols, Local(t, s), P(t, s) PROVE JournalInv'
  BY <1>4, <1>5, JournalLocal DEF P
<1> QED BY <1>1, <1>2, <1>3, <1>5, StepKinds, SignalLocal

\* With one task per symbol and a file that can be written, the journal ends
\* in the state of the trade book once no row is on its way, whatever the
\* broker answers.
THEOREM FeedsReplayBook ==
  ASSUME DisjointServes, ~RowsMayFail PROVE EngineSpec => []JournalReplaysBook
<1>1. EngineInit => JournalInv
  BY DEF EngineInit, JournalInv, JournalReplaysBook, JournalTask, Open
<1>2. EngineInv /\ JournalInv /\ [EngineNext]_vars => JournalInv'
  BY JournalStep
<1>3. JournalInv => JournalReplaysBook
  BY DEF JournalInv
<1> QED BY <1>1, <1>2, <1>3, EngineInvariant, PTL DEF EngineSpec
=============================================================================
