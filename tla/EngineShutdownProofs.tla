------------------------ MODULE EngineShutdownProofs ------------------------
(***************************************************************************)
(* Proofs about EngineShutdown, where handlers are cancelled too.  A step  *)
(* of the shutdown is, for the engine, a step it might have taken anyway,  *)
(* a handler that is cut off (Cut), or a request that changes the position *)
(* when nobody waits for it (Orphaned).  So the invariants of the engine   *)
(* need two more cases each.                                               *)
(* The sections that follow are about the invariant, a pause, the maximum  *)
(* of open trades, what holds under the wiring of main.py, the end of the  *)
(* process, what a shutdown loses, and the life cycle of a trade.          *)
(***************************************************************************)
EXTENDS EngineShutdown, FeedWiringProofs

\* A handler ends where it is, and perhaps its row is still written.
Cut(t) == /\ pc[t] # "alerting"
          /\ Finish(t)
          /\ UNCHANGED <<bookVars, paused, position>>
          /\ \/ UNCHANGED lastRow /\ (pc[t] = "logging" => RowsMayFail)
             \/ pc[t] = "logging" /\ WriteRow(t)

\* Only the position at the broker changes.
Orphaned == /\ UNCHANGED <<lockVars, bookVars, paused, handlerVars, lastRow>>
            /\ position' \in [Symbols -> (-MaxPosition)..MaxPosition]

OrphansTyped == orphan \in [Tasks -> Orphans \cup {None}]

\* What a step of EngineShutdown is for the engine.
LEMMA ShutdownKinds ==
  ASSUME EngineInv, OrphansTyped, [ShutdownNext]_allVars
  PROVE  \/ [EngineNext]_vars
         \/ \E t \in Tasks : Cut(t)
         \/ Orphaned
<1> DEFINE P == [EngineNext]_vars \/ (\E t \in Tasks : Cut(t)) \/ Orphaned
<1>0. /\ HandlerInv
      /\ position \in [Symbols -> (-MaxPosition)..MaxPosition]
  BY EngineTypes DEF EngineInv, OutsideTyped
<1>1. ASSUME EngineStep PROVE EngineNext
  BY <1>1 DEF EngineStep, EngineNext, Commands
<1>2. ASSUME CancelsFeeds \/ CleansUp \/ Exits PROVE UNCHANGED vars
  BY <1>2 DEF CancelsFeeds, CleansUp, Exits
<1>3. ASSUME NEW t \in Tasks, InterruptedIdle(t) \/ Swallowed(t) \/ SocketEnds(t) \/ OrphanRefused(t)
      PROVE  UNCHANGED vars
  BY <1>3 DEF InterruptedIdle, Swallowed, SocketEnds, OrphanRefused
<1>4. ASSUME NEW t \in Tasks, InterruptedOrder(t) PROVE Cut(t)
  BY <1>0, <1>4 DEF InterruptedOrder, EndsHandler, Cut, HandlerInv
<1>5. ASSUME NEW t \in Tasks, InterruptedLog(t) PROVE Cut(t)
  BY <1>5 DEF InterruptedLog, EndsHandler, Cut
<1>6. ASSUME NEW t \in Tasks, InterruptedAlert(t) PROVE EngineNext
  <2>1. AlertReturns(t)
    BY <1>6 DEF InterruptedAlert, EndsHandler, AlertReturns
  <2> QED BY <2>1 DEF EngineNext, HandlerStep
<1>7. ASSUME NEW t \in Tasks, Unwinds(t) PROVE EngineNext
  BY <1>7 DEF Unwinds, EngineNext, HandlerStep
<1>8. ASSUME NEW t \in Tasks, OrphanFills(t) PROVE Orphaned
  <2>1. orphan[t].symbol \in Symbols
    BY <1>8 DEF OrphanFills, OrphansTyped, Orphans
  <2> QED BY <1>0, <1>8, <2>1 DEF OrphanFills, Orphaned
<1>9. ASSUME UNCHANGED allVars PROVE UNCHANGED vars
  BY <1>9 DEF allVars
<1>10. ASSUME ShutdownStep PROVE P
  BY <1>2, <1>3, <1>4, <1>5, <1>6, <1>7, <1>8, <1>10 DEF ShutdownStep, Interrupted
<1> QED BY <1>1, <1>9, <1>10 DEF ShutdownNext
-----------------------------------------------------------------------------
(* The engine's invariant *)

LEMMA CutKeepsInv ==
  ASSUME EngineInv, NEW t \in Tasks, Cut(t)
  PROVE  EngineInv'
<1>0. TypeOK /\ LockInv /\ BookTyped /\ HandlersTyped /\ OutsideTyped /\ HandlerInv
  BY EngineTypes DEF EngineInv
<1>1. TypeOK' /\ LockInv'
  <2>1. [LockNext]_lockVars
    BY DEF Cut, Finish, LockNext
  <2> QED BY <1>0, <2>1, LockTypeStep, LockInvStep
<1>2. HandlerInv' /\ HandlersTyped'
  BY <1>0, LeaveFrame, NoActionIsNone
  DEF Cut, Finish, Suspend, HandlerInv, HandlersTyped, Suspensions, Replies, Entries
<1>3. BookTyped'
  BY <1>0 DEF Cut, BookTyped, TimerTypeOK, bookVars
<1>4. OutsideTyped'
  <2>1. pc[t] = "logging" => act[t] \in Entries \cup {"CLOSE"}
    BY <1>0 DEF HandlerInv
  <2> QED BY <1>0, <2>1 DEF Cut, OutsideTyped, WriteRow
<1> QED BY <1>1, <1>2, <1>3, <1>4, EngineTypes DEF EngineInv, EngineTypeOK, BookTyped, HandlersTyped, OutsideTyped

LEMMA OrphanedKeepsInv ==
  ASSUME EngineInv, Orphaned
  PROVE  EngineInv'
<1>0. TypeOK /\ LockInv /\ BookTyped /\ HandlersTyped /\ OutsideTyped /\ HandlerInv
  BY EngineTypes DEF EngineInv
<1>1. TypeOK' /\ LockInv'
  <2>1. [LockNext]_lockVars
    BY DEF Orphaned
  <2> QED BY <1>0, <2>1, LockTypeStep, LockInvStep
<1>2. HandlerInv' /\ HandlersTyped'
  BY <1>0 DEF Orphaned, HandlerInv, HandlersTyped, handlerVars, lockVars
<1>3. BookTyped' /\ OutsideTyped'
  BY <1>0 DEF Orphaned, BookTyped, OutsideTyped, TimerTypeOK, bookVars
<1> QED BY <1>1, <1>2, <1>3 DEF EngineInv, EngineTypeOK, BookTyped, HandlersTyped, OutsideTyped

LEMMA OrphanTypeStep ==
  ASSUME EngineInv, OrphansTyped, [ShutdownNext]_allVars
  PROVE  OrphansTyped'
<1>0. HandlerInv /\ HandlersTyped
  BY EngineTypes DEF EngineInv
<1>1. ASSUME NEW t \in Tasks, InterruptedOrder(t) PROVE OrphansTyped'
  <2>1. [symbol |-> sym[t], action |-> act[t]] \in Orphans
    BY <1>0, <1>1 DEF InterruptedOrder, HandlerInv, Orphans
  <2> QED BY <1>1, <2>1 DEF InterruptedOrder, OrphansTyped
<1>2. ASSUME NEW t \in Tasks, OrphanFills(t) \/ OrphanRefused(t) PROVE OrphansTyped'
  BY <1>2 DEF OrphanFills, OrphanRefused, OrphansTyped
<1>3. ASSUME UNCHANGED orphan PROVE OrphansTyped'
  BY <1>3 DEF OrphansTyped
<1> QED BY <1>1, <1>2, <1>3
        DEF ShutdownNext, ShutdownStep, shutdownVars, allVars, CancelsFeeds, CleansUp, Exits,
            Interrupted, InterruptedIdle, Swallowed, InterruptedLog, InterruptedAlert, Unwinds,
            SocketEnds

ShutdownInv == EngineInv /\ OrphansTyped

LEMMA ShutdownInvStep ==
  ASSUME ShutdownInv, [ShutdownNext]_allVars
  PROVE  ShutdownInv'
BY ShutdownKinds, EngineInvStep, CutKeepsInv, OrphanedKeepsInv, OrphanTypeStep DEF ShutdownInv

LEMMA ShutdownInitInv == ShutdownInit => ShutdownInv
BY EngineInitInv DEF ShutdownInit, ShutdownInv, OrphansTyped

\* The invariant of the engine survives the cancellation of its handlers.
THEOREM ShutdownInvariant == ShutdownSpec => []ShutdownInv
BY ShutdownInitInv, ShutdownInvStep, PTL DEF ShutdownSpec
-----------------------------------------------------------------------------
(* A pause *)

\* The symbols an orphan may still enter.
Entering == {orphan[t].symbol : t \in {u \in Tasks : orphan[u] # None /\ orphan[u].action # "CLOSE"}}

\* The four reasons for which a symbol is exposed.
LEMMA ExposedBecause ==
  /\ Exposed = Open \cup {sym[t] : t \in Placing} \cup Entering \cup {s \in Symbols : position[s] # 0}
  /\ Exposed' = Open' \cup {sym'[t] : t \in Placing'} \cup Entering'
                 \cup {s \in Symbols : position'[s] # 0}
BY DEF Exposed, Entering

\* A step that gives no symbol a new reason.
LEMMA NoNewReason ==
  ASSUME Open' \subseteq Exposed,
         \A t \in Placing' : sym'[t] \in Exposed,
         Entering' \subseteq Exposed,
         \A s \in Symbols : position'[s] # 0 => s \in Exposed
  PROVE  Exposed' \subseteq Exposed
BY ExposedBecause

\* The engine's own steps, while it is paused.
LEMMA PausedEngineStep ==
  ASSUME EngineInv, paused, [EngineNext]_vars, UNCHANGED orphan
  PROVE  Exposed' \subseteq Exposed
<1> DEFINE P == Exposed' \subseteq Exposed
<1>0. TypeOK /\ BookTyped /\ HandlersTyped /\ OutsideTyped /\ HandlerInv
  BY EngineTypes DEF EngineInv
<1>e. Entering' \subseteq Exposed
  BY ExposedBecause DEF Entering
<1>o. Open \subseteq Exposed /\ \A t \in Placing : sym[t] \in Exposed
  BY ExposedBecause
<1>p. \A s \in Symbols : position[s] # 0 => s \in Exposed
  BY ExposedBecause
\* A step of t that starts no entry, opens nothing and leaves the broker alone.
<1>q. ASSUME NEW t \in Tasks, Open' \subseteq Open, UNCHANGED position,
             pc'[t] # "placing",
             \A u \in Tasks \ {t} : pc'[u] = pc[u] /\ sym'[u] = sym[u]
      PROVE  P
  <2>1. \A u \in Placing' : u \in Placing /\ sym'[u] = sym[u]
    BY <1>q DEF Placing
  <2> QED BY <1>e, <1>o, <1>p, <1>q, <2>1, NoNewReason
<1>k. UNCHANGED <<openTrades, pc, sym, position>> => P
  <2> SUFFICES ASSUME UNCHANGED <<openTrades, pc, sym, position>> PROVE P
    OBVIOUS
  <2>1. Open' = Open /\ Placing' = Placing
    BY DEF Open, Placing
  <2> QED BY <1>e, <1>o, <1>p, <2>1, NoNewReason
<1> HIDE DEF P
<1>1. ASSUME NEW t \in Tasks, NEW s \in Symbols, SignalArrives(t, s) PROVE P
  <2>1. Local(t, s) /\ pc[t] = "idle"
    BY <1>0, <1>1, SignalLocal DEF HandlerInv
  <2>2. ASSUME StartClose(t, s) PROVE P
    <3>1. pc'[t] = "closing" /\ Open' = Open /\ UNCHANGED position
      BY <1>0, <2>2 DEF StartClose, Suspend, HandlersTyped, bookVars, Open
    <3> QED BY <1>q, <2>1, <3>1 DEF Local
  <2>3. ASSUME SimulateClose(t, s) PROVE P
    <3>1. /\ pc'[t] = "logging" /\ Open' \subseteq Open
          /\ position' = [position EXCEPT ![s] = 0]
      BY <1>0, <2>3 DEF SimulateClose, Suspend, RecordClose, HandlersTyped, BookTyped, Open
    <3>2. \A u \in Placing' : u \in Placing /\ sym'[u] = sym[u]
      BY <2>1, <3>1 DEF Placing, Local
    <3>3. \A x \in Symbols : position'[x] # 0 => position[x] # 0
      BY <1>0, <3>1 DEF OutsideTyped
    <3> QED BY <1>e, <1>o, <1>p, <3>1, <3>2, <3>3, NoNewReason DEF P
  <2>4. ASSUME SkipBody(t, s) \/ DropSignal(t, s) PROVE P
    <3>1. pc' = pc /\ Open' = Open /\ UNCHANGED position
      BY <2>4 DEF SkipBody, DropSignal, engineVars, bookVars, handlerVars, Open
    <3> QED BY <1>q, <2>1, <3>1 DEF Local
  <2> QED BY <1>1, <2>2, <2>3, <2>4 DEF SignalArrives, StartEntry, SimulateEntry, PassesGuards
<1>2. ASSUME NEW t \in Tasks, HandlerStep(t) \/ BrokerStep(t) PROVE P
  <2>1. sym[t] \in Symbols /\ Local(t, sym[t])
    BY <1>2, HandlerLocal
  <2>2. ASSUME EntryConfirmed(t) PROVE P
    <3>1. /\ t \in Placing /\ Open' \subseteq Open \cup {sym[t]}
          /\ pc'[t] = "logging" /\ UNCHANGED position
      BY <1>0, <2>1, <2>2
      DEF EntryConfirmed, RecordEntry, Suspend, Placing, Open, HandlersTyped, BookTyped
    <3>2. \A u \in Placing' : u \in Placing /\ sym'[u] = sym[u]
      BY <2>1, <3>1 DEF Placing, Local
    <3> QED BY <1>e, <1>o, <1>p, <3>1, <3>2, NoNewReason DEF P
  <2>3. ASSUME CloseConfirmed(t) PROVE P
    <3>1. pc'[t] = "logging" /\ Open' \subseteq Open /\ UNCHANGED position
      BY <1>0, <2>1, <2>3
      DEF CloseConfirmed, RecordClose, Suspend, Open, HandlersTyped, BookTyped
    <3> QED BY <1>q, <2>1, <3>1 DEF Local
  <2>4. ASSUME CloseRaisesKeyError(t) \/ OrderFails(t) \/ LogRaises(t) \/ AlertReturns(t) \/ LogReturns(t)
        PROVE P
    <3>1. pc'[t] # "placing" /\ Open' = Open /\ UNCHANGED position
      BY <1>0, <2>4
      DEF CloseRaisesKeyError, OrderFails, LogRaises, AlertReturns, LogReturns, Finish, Suspend,
          HandlersTyped, bookVars, Open
    <3> QED BY <1>q, <2>1, <3>1 DEF Local
  <2>5. ASSUME HandlerLeaves(t) PROVE P
    <3>1. pc'[t] # "placing" /\ Open' = Open /\ UNCHANGED position
      BY <1>0, <2>5
      DEF HandlerLeaves, FinishLeave, HandlerInv, engineVars, bookVars, handlerVars, Open
    <3> QED BY <1>q, <2>1, <3>1 DEF Local
  <2>6. ASSUME BrokerFills(t) PROVE P
    <3>1. /\ UNCHANGED <<openTrades, pc, sym>>
          /\ position' = [position EXCEPT ![sym[t]] = AfterFill(t)]
          /\ pc[t] = "placing" \/ act[t] = "CLOSE"
      BY <1>0, <2>6 DEF BrokerFills, bookVars, lockVars, HandlerInv
    <3>2. \A x \in Symbols : position'[x] # 0 => position[x] # 0 \/ (x = sym[t] /\ t \in Placing)
      <4>1. \A x \in Symbols \ {sym[t]} : position'[x] = position[x]
        BY <1>0, <3>1 DEF OutsideTyped
      <4>2. position'[sym[t]] = AfterFill(t)
        BY <1>0, <2>1, <3>1 DEF OutsideTyped
      <4>3. act[t] = "CLOSE" => AfterFill(t) = 0
        BY DEF AfterFill
      <4> QED BY <3>1, <4>1, <4>2, <4>3 DEF Placing
    <3>3. Open' = Open /\ Placing' = Placing
      BY <3>1 DEF Open, Placing
    <3> QED BY <1>e, <1>o, <1>p, <3>1, <3>2, <3>3, NoNewReason DEF P
  <2>7. ASSUME BrokerRefuses(t) PROVE P
    BY <1>k, <2>7 DEF BrokerRefuses, bookVars, lockVars
  <2> QED BY <1>2, <2>2, <2>3, <2>4, <2>5, <2>6, <2>7 DEF HandlerStep, BrokerStep
<1>3. ASSUME Global PROVE P
  BY <1>3, <1>k DEF Global, handlerVars
<1>4. P
  BY <1>1, <1>2, <1>3, StepKinds
<1> QED BY <1>4 DEF P

LEMMA CutPlacing ==
  ASSUME EngineInv, NEW t \in Tasks, Cut(t)
  PROVE  /\ Open' = Open
         /\ UNCHANGED position
         /\ Placing' = Placing \ {t}
         /\ \A u \in Placing' : sym'[u] = sym[u]
<1>1. TypeOK /\ HandlersTyped
  BY EngineTypes DEF EngineInv
<1>2. /\ pc' = [pc EXCEPT ![t] = "idle"]
      /\ UNCHANGED <<openTrades, position>>
      /\ \A u \in Tasks \ {t} : sym'[u] = sym[u]
  BY <1>1, LeaveFrame DEF Cut, Finish, Suspend, bookVars
<1>3. Placing' = Placing \ {t}
  BY <1>1, <1>2 DEF Placing, HandlersTyped
<1> QED BY <1>2, <1>3 DEF Open, Placing

LEMMA PausedStep ==
  ASSUME ShutdownInv, paused, [ShutdownNext]_allVars
  PROVE  Exposed' \subseteq Exposed
<1> DEFINE P == Exposed' \subseteq Exposed
<1>0. EngineInv /\ OrphansTyped /\ OutsideTyped /\ HandlerInv
  BY EngineTypes DEF EngineInv, ShutdownInv
<1>e. Entering \subseteq Exposed
  BY ExposedBecause
<1>o. Open \subseteq Exposed /\ \A t \in Placing : sym[t] \in Exposed
  BY ExposedBecause
<1>p. \A s \in Symbols : position[s] # 0 => s \in Exposed
  BY ExposedBecause
<1>n. [EngineNext]_vars /\ UNCHANGED orphan => P
  BY <1>0, PausedEngineStep
<1> HIDE DEF P
<1>1. ASSUME EngineStep, UNCHANGED shutdownVars PROVE P
  BY <1>1, <1>n DEF EngineStep, EngineNext, Commands, shutdownVars
<1>2. ASSUME UNCHANGED <<vars, orphan>> PROVE P
  BY <1>2, <1>n
<1>3. ASSUME NEW t \in Tasks, InterruptedOrder(t) PROVE P
  <2>1. Cut(t)
    BY <1>0, <1>3 DEF InterruptedOrder, EndsHandler, Cut, HandlerInv
  <2>2. Entering' \subseteq Entering \cup {sym[u] : u \in Placing}
    <3>1. act[t] # "CLOSE" => t \in Placing
      BY <1>0, <1>3 DEF InterruptedOrder, HandlerInv, Placing
    <3>2. \A u \in Tasks \ {t} : orphan'[u] = orphan[u]
      BY <1>3 DEF InterruptedOrder
    <3>3. orphan'[t] \in {[symbol |-> sym[t], action |-> act[t]], None}
      BY <1>0, <1>3 DEF InterruptedOrder, OrphansTyped
    <3> QED BY <3>1, <3>2, <3>3 DEF Entering
  <2> QED BY <1>0, <1>e, <1>o, <1>p, <2>1, <2>2, CutPlacing, NoNewReason DEF P
<1>4. ASSUME NEW t \in Tasks, InterruptedLog(t) PROVE P
  <2>1. Cut(t) /\ UNCHANGED orphan
    BY <1>4 DEF InterruptedLog, EndsHandler, Cut
  <2>2. Entering' = Entering
    BY <2>1 DEF Entering
  <2> QED BY <1>0, <1>e, <1>o, <1>p, <2>1, <2>2, CutPlacing, NoNewReason DEF P
<1>5. ASSUME NEW t \in Tasks, InterruptedAlert(t) \/ Unwinds(t) PROVE P
  <2>1. (AlertReturns(t) \/ HandlerLeaves(t)) /\ UNCHANGED orphan
    BY <1>5 DEF InterruptedAlert, EndsHandler, AlertReturns, Unwinds
  <2> QED BY <1>n, <2>1 DEF EngineNext, HandlerStep
<1>6. ASSUME NEW t \in Tasks, OrphanFills(t) PROVE P
  <2>1. /\ orphan[t] # None /\ orphan[t].symbol \in Symbols
        /\ orphan' = [orphan EXCEPT ![t] = None]
        /\ UNCHANGED <<openTrades, pc, sym>>
    BY <1>0, <1>6 DEF OrphanFills, OrphansTyped, Orphans, lockVars, bookVars, handlerVars
  <2>2. Open' = Open /\ Placing' = Placing
    BY <2>1 DEF Open, Placing
  <2>3. Entering' \subseteq Entering
    BY <1>0, <2>1 DEF Entering, OrphansTyped
  <2>4. \A x \in Symbols : position'[x] # 0 => position[x] # 0 \/ x \in Entering
    <3>1. \A x \in Symbols \ {orphan[t].symbol} : position'[x] = position[x]
      BY <1>0, <1>6 DEF OrphanFills, OutsideTyped
    <3>2. orphan[t].action = "CLOSE" => position'[orphan[t].symbol] = 0
      BY <1>0, <1>6, <2>1 DEF OrphanFills, OutsideTyped
    <3>3. orphan[t].action # "CLOSE" => orphan[t].symbol \in Entering
      BY <2>1 DEF Entering
    <3> QED BY <3>1, <3>2, <3>3
  <2> QED BY <1>e, <1>o, <1>p, <2>1, <2>2, <2>3, <2>4, NoNewReason DEF P
<1>7. ASSUME NEW t \in Tasks, OrphanRefused(t) PROVE P
  <2>1. orphan' = [orphan EXCEPT ![t] = None] /\ UNCHANGED <<openTrades, pc, sym, position>>
    BY <1>7 DEF OrphanRefused, vars, engineVars, lockVars, bookVars, handlerVars
  <2>2. Open' = Open /\ Placing' = Placing
    BY <2>1 DEF Open, Placing
  <2>3. Entering' \subseteq Entering
    BY <1>0, <2>1 DEF Entering, OrphansTyped
  <2> QED BY <1>e, <1>o, <1>p, <2>1, <2>2, <2>3, NoNewReason DEF P
<1>8. ASSUME ShutdownStep PROVE P
  BY <1>2, <1>3, <1>4, <1>5, <1>6, <1>7, <1>8
  DEF ShutdownStep, Interrupted, CancelsFeeds, CleansUp, Exits, InterruptedIdle, Swallowed,
      SocketEnds
<1>9. P
  BY <1>1, <1>2, <1>8 DEF ShutdownNext, allVars, shutdownVars
<1> QED BY <1>9 DEF P

\* While the engine is paused no symbol becomes exposed, whatever the tasks
\* share, however the broker answers and wherever the handlers are cancelled.
THEOREM PausedExposureFrozen == ShutdownSpec => PauseFreezesExposure
<1>1. ShutdownInv /\ [ShutdownNext]_allVars => [paused => Exposed' \subseteq Exposed]_allVars
  BY PausedStep
<1> QED BY <1>1, ShutdownInvariant, PTL DEF ShutdownSpec, PauseFreezesExposure
-----------------------------------------------------------------------------
(* MAX_OPEN_TRADES in a shutdown *)

\* Cancelled handlers and orphans add nothing to the open trades.
THEOREM ShutdownTradesBounded == ShutdownSpec => []OpenTradesBound
<1>1. ShutdownInit => OpenTradesBound
  <2> SUFFICES ASSUME EngineInit PROVE OpenTradesBound
    BY DEF ShutdownInit
  <2>1. Open = {} /\ Placing = {}
    BY DEF EngineInit, Open, Placing
  <2> QED BY <2>1, FS_EmptySet, TasksCounted, MaxOpenTradesAssumption DEF OpenTradesBound
<1>2. ShutdownInv /\ OpenTradesBound /\ [ShutdownNext]_allVars => OpenTradesBound'
  <2> SUFFICES ASSUME ShutdownInv, OpenTradesBound, [ShutdownNext]_allVars
               PROVE  OpenTradesBound'
    OBVIOUS
  <2>0. EngineInv
    BY DEF ShutdownInv
  <2>1. CASE [EngineNext]_vars
    BY <2>0, <2>1, BoundStep
  <2>2. ASSUME NEW t \in Tasks, Cut(t) PROVE OpenTradesBound'
    BY <2>0, <2>2, CutPlacing, BoundShrinks
  <2>3. CASE Orphaned
    <3>1. Open' = Open /\ Placing' = Placing
      BY <2>3 DEF Orphaned, Open, Placing, bookVars, handlerVars
    <3> QED BY <3>1, BoundShrinks
  <2> QED BY <2>1, <2>2, <2>3, ShutdownKinds DEF ShutdownInv
<1> QED BY <1>1, <1>2, ShutdownInvariant, PTL DEF ShutdownSpec
-----------------------------------------------------------------------------
(* What FeedWiringProofs proves of the engine holds until the process has  *)
(* ended.                                                                  *)

LEMMA OrphanedSame ==
  ASSUME Orphaned
  PROVE  UNCHANGED <<sym, dropped, openTrades, remaining, pc, act, lastRow>>
BY DEF Orphaned, lockVars, bookVars, handlerVars

\* With one task per symbol, no entry order of a running handler is at the
\* broker while its symbol cools down, in a shutdown either.
THEOREM ShutdownWaitsForCooldown ==
  ASSUME DisjointServes PROVE ShutdownSpec => []NoEntryWhileCooling
<1>1. ShutdownInit => NoEntryWhileCooling
  BY DEF ShutdownInit, EngineInit, NoEntryWhileCooling, Placing
<1>2. ShutdownInv /\ NoEntryWhileCooling /\ [ShutdownNext]_allVars => NoEntryWhileCooling'
  <2> SUFFICES ASSUME ShutdownInv, NoEntryWhileCooling, [ShutdownNext]_allVars
               PROVE  NoEntryWhileCooling'
    OBVIOUS
  <2>0. EngineInv
    BY DEF ShutdownInv
  <2>1. CASE [EngineNext]_vars
    BY <2>0, <2>1, CoolingStep
  <2>2. ASSUME NEW t \in Tasks, Cut(t) PROVE NoEntryWhileCooling'
    <3>1. UNCHANGED remaining
      BY <2>2 DEF Cut, bookVars
    <3> QED BY <2>0, <2>2, <3>1, CutPlacing DEF NoEntryWhileCooling
  <2>3. CASE Orphaned
    BY <2>3, OrphanedSame DEF NoEntryWhileCooling, Placing
  <2> QED BY <2>1, <2>2, <2>3, ShutdownKinds DEF ShutdownInv
<1> QED BY <1>1, <1>2, ShutdownInvariant, PTL DEF ShutdownSpec

\* With one task per symbol, no signal is dropped, in a shutdown either: a
\* handler that is cancelled frees its symbol before its task goes on.
THEOREM ShutdownDropsNothing ==
  ASSUME DisjointServes PROVE ShutdownSpec => []NothingDropped
<1>1. ShutdownInit => NothingDropped
  BY DEF ShutdownInit, EngineInit, LockInit, NothingDropped
<1>2. ShutdownInv /\ NothingDropped /\ [ShutdownNext]_allVars => NothingDropped'
  <2> SUFFICES ASSUME ShutdownInv, [ShutdownNext]_allVars PROVE dropped' = dropped
    BY DEF NothingDropped
  <2>0. EngineInv
    BY DEF ShutdownInv
  <2>1. CASE [EngineNext]_vars
    BY <2>0, <2>1, DroppedStep
  <2>2. ASSUME NEW t \in Tasks, Cut(t) PROVE dropped' = dropped
    BY <2>2 DEF Cut, Finish, Leave, CancelWatchdog, LeaveLate
  <2>3. CASE Orphaned
    BY <2>3, OrphanedSame
  <2> QED BY <2>1, <2>2, <2>3, ShutdownKinds DEF ShutdownInv
<1> QED BY <1>1, <1>2, ShutdownInvariant, PTL DEF ShutdownSpec

\* A handler that is cancelled while its row is on its way leaves the row.
LEMMA CutJournal ==
  ASSUME DisjointServes, ~RowsMayFail, EngineInv, JournalInv, NEW t \in Tasks, Cut(t),
         NEW s, s = sym[t]
  PROVE  JournalInv'
<1>0. HandlersTyped /\ OutsideTyped /\ HandlerInv
  BY EngineTypes DEF EngineInv
<1>1. s \in Symbols /\ Local(t, s)
  BY LeaveLocal DEF Cut, WriteRow
<1>2. HandlerInv'
  BY CutKeepsInv DEF EngineInv
<1>3. pc'[t] = "idle" /\ UNCHANGED openTrades
  BY <1>0 DEF Cut, Finish, Suspend, HandlersTyped, bookVars
<1>4. Replayed(s)'
  <2>1. CASE pc[t] # "logging"
    <3>1. Logging(s) = {}
      BY <1>0, <1>1, <2>1, NobodyElse DEF Logging, HandlerInv, Local
    <3>2. Replayed(s) /\ UNCHANGED lastRow
      BY <1>1, <2>1, <3>1 DEF JournalInv, JournalReplaysBook, Replayed, Cut
    <3> QED BY <1>3, <3>2 DEF Replayed, Open
  <2>2. CASE pc[t] = "logging"
    <3>1. lastRow'[s] = act[t]
      BY <1>0, <1>1, <2>2 DEF Cut, WriteRow, OutsideTyped
    <3>2. /\ openTrades[s] = IF act[t] = "CLOSE" THEN None ELSE act[t]
          /\ act[t] \in Entries \cup {"CLOSE"}
      BY <1>0, <2>2 DEF JournalInv, JournalTask, HandlerInv
    <3>3. s \in Open' <=> openTrades[s] # None
      BY <1>1, <1>3 DEF Open
    <3>4. CASE act[t] = "CLOSE"
      BY <1>3, <3>1, <3>2, <3>3, <3>4 DEF Replayed
    <3>5. CASE act[t] \in Entries
      BY <1>3, <3>1, <3>2, <3>3, <3>5 DEF Replayed, Entries
    <3> QED BY <3>2, <3>4, <3>5
  <2> QED BY <2>1, <2>2
<1> QED BY <1>1, <1>2, <1>3, <1>4, JournalLocal DEF JournalTask

\* With one task per symbol and a file that can be written, the journal ends
\* in the state of the trade book, at the end of the process too.
THEOREM ShutdownReplaysBook ==
  ASSUME DisjointServes, ~RowsMayFail PROVE ShutdownSpec => []JournalReplaysBook
<1>1. ShutdownInit => JournalInv
  BY DEF ShutdownInit, EngineInit, JournalInv, JournalReplaysBook, JournalTask, Open
<1>2. ShutdownInv /\ JournalInv /\ [ShutdownNext]_allVars => JournalInv'
  <2> SUFFICES ASSUME ShutdownInv, JournalInv, [ShutdownNext]_allVars PROVE JournalInv'
    OBVIOUS
  <2>0. EngineInv
    BY DEF ShutdownInv
  <2>1. CASE [EngineNext]_vars
    BY <2>0, <2>1, JournalStep
  <2>2. ASSUME NEW t \in Tasks, Cut(t) PROVE JournalInv'
    BY <2>0, <2>2, CutJournal
  <2>3. CASE Orphaned
    BY <2>3, OrphanedSame DEF JournalInv, JournalReplaysBook, JournalTask, Logging, Open
  <2> QED BY <2>1, <2>2, <2>3, ShutdownKinds DEF ShutdownInv
<1>3. JournalInv => JournalReplaysBook
  BY DEF JournalInv
<1> QED BY <1>1, <1>2, <1>3, ShutdownInvariant, PTL DEF ShutdownSpec
-----------------------------------------------------------------------------
(* The end of the process *)

\* A step of the engine moves the frame of a running task only.
LEMMA FramesOfRunning ==
  ASSUME TypeOK, HandlerInv, EngineStep, NEW u \in Tasks, task[u] # "running"
  PROVE  stage'[u] = stage[u]
<1> DEFINE P == stage'[u] = stage[u]
<1>1. ASSUME NEW t \in Tasks \ {u}, NEW s \in Symbols, SignalArrives(t, s) PROVE P
  <2>1. ASSUME Acquire(t, s) \/ AcquireAndReturn(t, s) \/ Drop(t, s) PROVE P
    BY <1>1, <2>1 DEF Acquire, AcquireAndReturn, Drop, TypeOK
  <2> QED BY <1>1, <2>1
          DEF SignalArrives, StartEntry, SimulateEntry, StartClose, SimulateClose, SkipBody,
              DropSignal
<1>2. ASSUME NEW t \in Tasks \ {u}, HandlerStep(t) PROVE P
  <2>1. ASSUME Finish(t) PROVE P
    BY <1>2, <2>1, LeaveFrame DEF Finish
  <2>2. ASSUME HandlerLeaves(t) PROVE P
    BY <1>2, <2>2, FinishLeaveFrame DEF HandlerLeaves
  <2> QED BY <1>2, <2>1, <2>2
          DEF HandlerStep, EntryConfirmed, CloseConfirmed, CloseRaisesKeyError, OrderFails,
              LogReturns, LogRaises, AlertReturns, lockVars
<1>3. ASSUME NEW t \in Tasks, BrokerStep(t) PROVE P
  BY <1>3 DEF BrokerStep, BrokerFills, BrokerRefuses, lockVars
<1>4. ASSUME NEW k \in Tokens, WatchdogReleases(k) PROVE P
  BY <1>4 DEF WatchdogReleases, WatchdogFires
<1>5. ASSUME TimePasses \/ Commands PROVE P
  BY <1>5 DEF TimePasses, Commands, Pause, Resume, lockVars
<1> HIDE DEF P
<1>6. P
  BY <1>1, <1>2, <1>3, <1>4, <1>5 DEF EngineStep
<1> QED BY <1>6 DEF P

\* A task that has ended has left the lock, and the process waits for all.
TaskInv == /\ task \in [Tasks -> {"running", "cancelling", "unwinding", "ended"}]
           /\ \A t \in Tasks : /\ task[t] = "ended" => stage[t] = "out"
                               /\ phase = "exited" => task[t] = "ended"

LEMMA TaskStep ==
  ASSUME ShutdownInv, TaskInv, [ShutdownNext]_allVars
  PROVE  TaskInv'
<1> DEFINE P == TaskInv'
<1>0. EngineInv /\ TypeOK /\ HandlerInv
  BY EngineTypes DEF ShutdownInv, EngineInv
\* Task t, which had not ended, is now `what`, and no other frame has moved.
<1>b. ASSUME NEW t \in Tasks, NEW what \in {"running", "unwinding", "ended"},
             task[t] # "ended", Becomes(t, what), UNCHANGED phase,
             what = "ended" => stage'[t] = "out",
             \A u \in Tasks \ {t} : stage'[u] = stage[u]
      PROVE  P
  BY <1>b DEF TaskInv, Becomes
<1>1. ASSUME EngineStep, UNCHANGED shutdownVars PROVE P
  <2>1. \A u \in Tasks : task[u] = "ended" => stage'[u] = stage[u]
    BY <1>0, <1>1, FramesOfRunning
  <2> QED BY <1>1, <2>1 DEF TaskInv, shutdownVars
<1>2. ASSUME CancelsFeeds \/ CleansUp PROVE P
  <2>1. stage' = stage /\ phase' # "exited" /\ CancelAll
    BY <1>2 DEF CancelsFeeds, CleansUp, vars, lockVars
  <2> QED BY <2>1 DEF CancelAll, TaskInv
<1>3. ASSUME Exits PROVE P
  BY <1>3 DEF Exits, vars, lockVars, TaskInv
<1> HIDE DEF P
<1>4. ASSUME NEW t \in Tasks, Interrupted(t) PROVE P
  <2>1. task[t] # "ended" /\ UNCHANGED phase
    BY <1>4 DEF Interrupted, InterruptedIdle, Swallowed, InterruptedOrder, InterruptedLog,
       InterruptedAlert
  <2>2. CASE InterruptedIdle(t) \/ Swallowed(t)
    BY <1>b, <2>1, <2>2 DEF InterruptedIdle, Swallowed, vars, lockVars
  <2>3. CASE EndsHandler(t)
    <3>1. stage'[t] \in {"leaving", "out"} /\ \A u \in Tasks \ {t} : stage'[u] = stage[u]
      BY <1>0, <2>3, LeaveFrame DEF EndsHandler, Finish
    <3> QED BY <1>b, <2>1, <2>3, <3>1 DEF EndsHandler
  <2> QED BY <1>4, <2>2, <2>3 DEF Interrupted, InterruptedOrder, InterruptedLog, InterruptedAlert
<1>5. ASSUME NEW t \in Tasks, Unwinds(t) PROVE P
  <2>1. stage'[t] = "out" /\ \A u \in Tasks \ {t} : stage'[u] = stage[u]
    BY <1>0, <1>5, FinishLeaveFrame DEF Unwinds, HandlerLeaves
  <2> QED BY <1>b, <1>5, <2>1 DEF Unwinds
<1>6. ASSUME NEW t \in Tasks, SocketEnds(t) PROVE P
  BY <1>b, <1>6 DEF SocketEnds, vars, lockVars
<1>7. ASSUME UNCHANGED <<stage, phase, task>> PROVE P
  BY <1>7 DEF P, TaskInv
<1>8. ASSUME NEW t \in Tasks, OrphanFills(t) \/ OrphanRefused(t) PROVE P
  BY <1>7, <1>8 DEF OrphanFills, OrphanRefused, vars, lockVars
<1>9. P
  BY <1>1, <1>2, <1>3, <1>4, <1>5, <1>6, <1>7, <1>8
  DEF ShutdownNext, ShutdownStep, allVars, vars, lockVars, shutdownVars
<1> QED BY <1>9 DEF P

\* Through a shutdown too, the strategy's copy is the book.
LEMMA ShutdownKeepsCopy ==
  ShutdownSpec => []BookMatchesState
<1>1. ShutdownInit => BookMatchesState
  BY DEF ShutdownInit, EngineInit, BookMatchesState
<1>2. ASSUME ShutdownInv, BookMatchesState, [ShutdownNext]_allVars PROVE BookMatchesState'
  <2>0. EngineInv
    BY <1>2 DEF ShutdownInv
  <2>1. CASE [EngineNext]_vars
    BY <1>2, <2>0, <2>1, BookStep DEF BookMoves, BookMatchesState, bookVars, RecordEntry, RecordClose
  <2>2. ASSUME NEW t \in Tasks, Cut(t) PROVE BookMatchesState'
    BY <1>2, <2>2 DEF Cut, BookMatchesState, bookVars
  <2>3. CASE Orphaned
    BY <1>2, <2>3 DEF Orphaned, BookMatchesState, bookVars
  <2> QED BY <1>2, <2>0, <2>1, <2>2, <2>3, ShutdownKinds DEF ShutdownInv
<1> QED BY <1>1, <1>2, ShutdownInvariant, PTL DEF ShutdownSpec

\* With one task per symbol and a file that can be written, a process that
\* has ended holds no lock, and the strategy's copy and the journal end in
\* the state of the book.
THEOREM ExitsAlwaysSettled ==
  ASSUME DisjointServes, ~RowsMayFail PROVE ShutdownSpec => []ExitsSettled
<1>1. ShutdownInit => TaskInv
  BY DEF ShutdownInit, TaskInv
<1>2. ShutdownInv /\ TaskInv /\ [ShutdownNext]_allVars => TaskInv'
  BY TaskStep
<1>3. ShutdownInv /\ TaskInv /\ JournalReplaysBook /\ BookMatchesState => ExitsSettled
  <2> SUFFICES ASSUME ShutdownInv, TaskInv, JournalReplaysBook, BookMatchesState,
                      phase = "exited", NEW s \in Symbols
               PROVE  /\ ~locked[s]
                      /\ stateOpen[s] = openTrades[s]
                      /\ IF s \in Open THEN lastRow[s] = openTrades[s]
                                       ELSE lastRow[s] \in {"CLOSE", None}
    BY DEF ExitsSettled
  <2>1. LockInv /\ HandlerInv
    BY DEF ShutdownInv, EngineInv
  <2>2. \A t \in Tasks : stage[t] = "out"
    BY DEF TaskInv
  <2>3. ~locked[s]
    BY <2>1, <2>2 DEF LockInv, FlagMatchesHolder, HoldersHaveLease, HasLease
  <2>4. Logging(s) = {}
    BY <2>1, <2>2 DEF HandlerInv, Logging
  <2> QED BY <2>3, <2>4 DEF JournalReplaysBook, BookMatchesState
<1> QED BY <1>1, <1>2, <1>3, ShutdownInvariant, ShutdownReplaysBook, ShutdownKeepsCopy, PTL
        DEF ShutdownSpec
-----------------------------------------------------------------------------
(* What a shutdown loses.  A symbol that is not interrupted agrees with    *)
(* the broker as in a run without a shutdown.  A task interrupts an order  *)
(* once, because it handles no signal afterwards.                          *)

Over == {t \in Tasks : task[t] \in {"unwinding", "ended"}}

LossInv == /\ interrupted \subseteq Symbols
           /\ \A x \in Symbols \ interrupted : BrokerAt(x)
           /\ \A t \in Tasks : orphan[t] # None => orphan[t].symbol \in interrupted

OnceInv == /\ task \in [Tasks -> {"running", "cancelling", "unwinding", "ended"}]
           /\ \A x \in interrupted : \E t \in Over : x \in Serves[t]
           /\ \A t \in Tasks, x, y \in interrupted : x \in Serves[t] /\ y \in Serves[t] => x = y

\* The steps of a shutdown that interrupt no order.
LEMMA KeepsLosses ==
  ASSUME DisjointServes, Reliable, ShutdownInv, LossInv, [EngineNext]_vars,
         UNCHANGED interrupted,
         \A t \in Tasks : orphan'[t] # None => orphan[t] # None /\ orphan'[t] = orphan[t]
  PROVE  LossInv'
<1>1. EngineInv
  BY DEF ShutdownInv
<1>2. \A x \in Symbols \ interrupted : BrokerAt(x)'
  BY <1>1, BrokerAtStep DEF LossInv
<1> QED BY <1>2 DEF LossInv

LEMMA LossStep ==
  ASSUME DisjointServes, Reliable, ShutdownInv, LossInv, [ShutdownNext]_allVars
  PROVE  LossInv'
<1> DEFINE P == LossInv'
<1>0. EngineInv /\ OrphansTyped /\ OutsideTyped /\ HandlersTyped /\ HandlerInv
  BY EngineTypes DEF EngineInv, ShutdownInv
<1>k. ASSUME [EngineNext]_vars, UNCHANGED interrupted,
             \/ UNCHANGED orphan
             \/ \E t \in Tasks : orphan' = [orphan EXCEPT ![t] = None]
      PROVE  P
  <2>1. \A t \in Tasks : orphan'[t] # None => orphan[t] # None /\ orphan'[t] = orphan[t]
    BY <1>0, <1>k DEF OrphansTyped
  <2> QED BY <1>k, <2>1, KeepsLosses
<1> HIDE DEF P
<1>1. ASSUME EngineStep, UNCHANGED shutdownVars PROVE P
  BY <1>1, <1>k DEF EngineStep, EngineNext, Commands, shutdownVars
<1>2. ASSUME UNCHANGED <<vars, orphan, interrupted>> PROVE P
  BY <1>2, <1>k
<1>3. ASSUME NEW t \in Tasks, OrphanRefused(t) PROVE P
  BY <1>3, <1>k DEF OrphanRefused
<1>4. ASSUME NEW t \in Tasks, InterruptedAlert(t) \/ Unwinds(t) PROVE P
  <2>1. (AlertReturns(t) \/ HandlerLeaves(t)) /\ UNCHANGED <<orphan, interrupted>>
    BY <1>4 DEF InterruptedAlert, EndsHandler, AlertReturns, Unwinds
  <2> QED BY <1>k, <2>1 DEF EngineNext, HandlerStep
\* A handler that is cut off disturbs its own symbol only.
<1>c. ASSUME NEW t \in Tasks, Cut(t), NEW s, s = sym[t]
      PROVE  /\ s \in Symbols /\ Local(t, s) /\ HandlerInv' /\ call'[t] = "none"
             /\ UNCHANGED <<openTrades, position>>
  <2>1. s \in Symbols /\ Local(t, s)
    BY <1>0, <1>c, LeaveLocal DEF Cut, WriteRow
  <2>2. HandlerInv'
    BY <1>0, <1>c, CutKeepsInv DEF EngineInv
  <2> QED BY <1>0, <1>c, <2>1, <2>2 DEF Cut, Finish, Suspend, HandlersTyped, bookVars
<1>5. ASSUME NEW t \in Tasks, InterruptedLog(t), NEW s, s = sym[t] PROVE P
  <2>1. Cut(t) /\ UNCHANGED <<orphan, interrupted>> /\ pc[t] = "logging"
    BY <1>5 DEF InterruptedLog, EndsHandler, Cut
  <2>2. BrokerAt(s) => position[s] = Side(openTrades[s])
    <3>1. call[t] = "none"
      BY <1>0, <2>1 DEF HandlerInv
    <3>2. Waiting(s) = {}
      BY <1>0, <1>5, <1>c, <2>1, <3>1, NobodyElse DEF Waiting, HandlerInv, Local
    <3> QED BY <3>2 DEF BrokerAt
  <2>3. BrokerTask(t)' /\ (BrokerAt(s) => position'[s] = Side(openTrades'[s]))
    BY <1>5, <1>c, <2>1, <2>2 DEF BrokerTask
  <2>4. \A x \in Symbols \ interrupted : BrokerAt(x)'
    BY <1>0, <1>5, <1>c, <2>1, <2>3, BrokerLocal DEF LossInv
  <2> QED BY <2>1, <2>4 DEF P, LossInv
<1>6. ASSUME NEW t \in Tasks, InterruptedOrder(t), NEW s, s = sym[t] PROVE P
  <2>1. Cut(t) /\ interrupted' = interrupted \cup {s}
    BY <1>0, <1>6 DEF InterruptedOrder, EndsHandler, Cut, HandlerInv
  <2>2. \A x \in Symbols \ interrupted' : BrokerAt(x)'
    BY <1>0, <1>6, <1>c, <2>1, BrokerLocal DEF LossInv
  <2>3. \A u \in Tasks : orphan'[u] # None => orphan'[u].symbol \in interrupted'
    <3>1. ASSUME NEW u \in Tasks \ {t}, orphan'[u] # None PROVE orphan'[u].symbol \in interrupted'
      BY <1>6, <2>1, <3>1 DEF InterruptedOrder, LossInv
    <3>2. orphan'[t] # None => orphan'[t].symbol = s
      BY <1>0, <1>6 DEF InterruptedOrder, OrphansTyped
    <3> QED BY <2>1, <3>1, <3>2
  <2> QED BY <1>6, <1>c, <2>1, <2>2, <2>3 DEF P, LossInv
<1>7. ASSUME NEW t \in Tasks, OrphanFills(t) PROVE P
  <2>1. /\ orphan[t].symbol \in interrupted
        /\ orphan' = [orphan EXCEPT ![t] = None]
        /\ UNCHANGED <<openTrades, pc, act, call, sym, interrupted>>
        /\ \A x \in Symbols \ {orphan[t].symbol} : position'[x] = position[x]
    BY <1>0, <1>7 DEF OrphanFills, LossInv, lockVars, bookVars, handlerVars, OutsideTyped
  <2>2. ASSUME NEW x \in Symbols \ interrupted PROVE BrokerAt(x)'
    <3>1. BrokerAt(x) /\ position'[x] = position[x]
      BY <2>1, <2>2 DEF LossInv
    <3> QED BY <2>1, <3>1 DEF BrokerAt, BrokerTask, Waiting, Side
  <2> QED BY <1>0, <2>1, <2>2 DEF P, LossInv, OrphansTyped
<1>8. P
  BY <1>1, <1>2, <1>3, <1>4, <1>5, <1>6, <1>7
  DEF ShutdownNext, ShutdownStep, Interrupted, CancelsFeeds, CleansUp, Exits, InterruptedIdle,
      Swallowed, SocketEnds, allVars, shutdownVars
<1> QED BY <1>8 DEF P

LEMMA OnceStep ==
  ASSUME DisjointServes, ShutdownInv, OnceInv, [ShutdownNext]_allVars
  PROVE  OnceInv'
<1> DEFINE P == OnceInv'
<1>0. TypeOK /\ HandlerInv
  BY EngineTypes DEF ShutdownInv, EngineInv
<1>b. ASSUME NEW t \in Tasks, NEW what \in {"running", "unwinding", "ended"}, Becomes(t, what),
             t \in Over => what # "running"
      PROVE  /\ task' \in [Tasks -> {"running", "cancelling", "unwinding", "ended"}]
             /\ Over \subseteq Over'
             /\ what # "running" => t \in Over'
  BY <1>b DEF OnceInv, Over, Becomes
<1>k. ASSUME UNCHANGED interrupted, Over \subseteq Over',
             task' \in [Tasks -> {"running", "cancelling", "unwinding", "ended"}]
      PROVE  P
  BY <1>k DEF OnceInv
<1>1. ASSUME CancelAll, UNCHANGED interrupted PROVE P
  BY <1>1, <1>k DEF CancelAll, OnceInv, Over
<1>2. ASSUME UNCHANGED <<task, interrupted>> PROVE P
  BY <1>2, <1>k DEF OnceInv, Over
<1> HIDE DEF P
<1>3. ASSUME NEW t \in Tasks, InterruptedOrder(t), task[t] = "cancelling", NEW s, s = sym[t]
      PROVE  P
  <2>1. interrupted' = interrupted \cup {s} /\ s \in Serves[t] /\ t \notin Over
    BY <1>0, <1>3 DEF InterruptedOrder, HandlerInv, Over
  <2>2. PICK what \in {"unwinding", "ended"} : Becomes(t, what)
    BY <1>3 DEF InterruptedOrder, EndsHandler
  <2>3. /\ task' \in [Tasks -> {"running", "cancelling", "unwinding", "ended"}]
        /\ Over \subseteq Over' /\ t \in Over'
    BY <1>b, <2>2
  <2>4. \A y \in interrupted : y \notin Serves[t]
    BY <2>1 DEF OnceInv, Over, DisjointServes
  <2>5. \A u \in Tasks : s \in Serves[u] => u = t
    BY <2>1 DEF DisjointServes
  <2>6. \A x \in interrupted' : \E u \in Over' : x \in Serves[u]
    BY <2>1, <2>3 DEF OnceInv
  <2>7. \A u \in Tasks, x, y \in interrupted' : x \in Serves[u] /\ y \in Serves[u] => x = y
    BY <2>1, <2>4, <2>5 DEF OnceInv
  <2> QED BY <2>3, <2>6, <2>7 DEF P, OnceInv
<1>4. ASSUME NEW t \in Tasks, Interrupted(t) PROVE P
  <2>1. task[t] = "cancelling" /\ t \notin Over
    BY <1>4 DEF Interrupted, Over
  <2>2. CASE InterruptedOrder(t)
    BY <1>3, <2>1, <2>2
  <2>3. CASE InterruptedIdle(t) \/ Swallowed(t) \/ InterruptedLog(t) \/ InterruptedAlert(t)
    <3>1. /\ UNCHANGED interrupted
          /\ \E what \in {"running", "unwinding", "ended"} : Becomes(t, what)
      BY <2>3 DEF InterruptedIdle, Swallowed, InterruptedLog, InterruptedAlert, EndsHandler
    <3> QED BY <1>b, <1>k, <2>1, <3>1
  <2> QED BY <1>4, <2>2, <2>3 DEF Interrupted
<1>5. ASSUME NEW t \in Tasks, Unwinds(t) \/ SocketEnds(t) PROVE P
  <2>1. Becomes(t, "ended") /\ UNCHANGED interrupted
    BY <1>5 DEF Unwinds, SocketEnds
  <2> QED BY <1>b, <1>k, <2>1
<1>6. P
  BY <1>1, <1>2, <1>4, <1>5
  DEF ShutdownNext, ShutdownStep, CancelsFeeds, CleansUp, Exits, OrphanFills, OrphanRefused,
      allVars, shutdownVars
<1> QED BY <1>6 DEF P

\* With one task per symbol and a broker that fills or rejects, a shutdown
\* loses the result of one interrupted order per task at most.
THEOREM ShutdownLosesOneOrderPerTask ==
  ASSUME DisjointServes, Reliable PROVE ShutdownSpec => []ShutdownLosesOrdersOnly
<1> DEFINE I == LossInv /\ OnceInv
<1>1. ShutdownInit => I
  BY SideValues
  DEF ShutdownInit, EngineInit, LossInv, OnceInv, BrokerAt, BrokerTask
<1>2. ShutdownInv /\ I /\ [ShutdownNext]_allVars => I'
  BY LossStep, OnceStep
<1>3. I => ShutdownLosesOrdersOnly
  <2> SUFFICES ASSUME I PROVE ShutdownLosesOrdersOnly
    OBVIOUS
  <2>1. {s \in Symbols : Waiting(s) = {} /\ position[s] # Side(openTrades[s])} \subseteq interrupted
    BY DEF LossInv, BrokerAt
  <2>2. Cardinality(interrupted) \leq Cardinality(Tasks)
    <3> DEFINE f == [x \in interrupted |-> CHOOSE t \in Tasks : x \in Serves[t]]
    <3>1. \A x \in interrupted : f[x] \in Tasks /\ x \in Serves[f[x]]
      BY DEF OnceInv, Over
    <3>2. f \in Injection(interrupted, Tasks)
      <4>1. \A x, y \in interrupted : f[x] = f[y] => x = y
        <5> HIDE DEF f
        <5> QED BY <3>1 DEF OnceInv
      <4>2. f \in [interrupted -> Tasks]
        BY <3>1
      <4> HIDE DEF f
      <4> QED BY <4>1, <4>2 DEF Injection, IsInjective
    <3> HIDE DEF f
    <3> QED BY <3>2, FiniteAssumption, FS_Injection
  <2> QED BY <2>1, <2>2 DEF ShutdownLosesOrdersOnly
<1> QED BY <1>1, <1>2, <1>3, ShutdownInvariant, PTL DEF ShutdownSpec
-----------------------------------------------------------------------------
(* The life cycle of a trade, under DisjointServes and with a cooldown     *)
(* that is not zero.  The order of a symbol is the action of the one       *)
(* handler that waits for the broker about it; OrderLocal says how a step  *)
(* that is local to a symbol moves it, and the lemmas named after the      *)
(* abstract actions turn such a step into one of TradeLifecycle.           *)

AtBroker(t) == pc[t] \in {"placing", "closing"}

\* The order of the symbol that a handler is about.
OrderBy(t) == IF AtBroker(t) THEN act[t] ELSE None

LEMMA OrderLocal ==
  ASSUME DisjointServes, EngineInv, NEW t \in Tasks, NEW s \in Symbols, Local(t, s)
  PROVE  /\ OrderOf[s] = OrderBy(t)
         /\ OrderOf' = [OrderOf EXCEPT ![s] = OrderBy(t)']
<1>0. HandlerInv
  BY DEF EngineInv
<1>1. \A u \in Tasks : AtBroker(u) => stage[u] # "out"
  BY <1>0 DEF HandlerInv, AtBroker
<1>2. \A u \in Tasks \ {t} : AtBroker(u) => sym[u] # s
  BY <1>1, NobodyElse DEF Local
<1>3. AtBroker(t) => sym[t] = s
  BY <1>1 DEF Local
<1>4. \A u \in Tasks \ {t} : /\ pc'[u] = pc[u]
                            /\ act'[u] = act[u]
                            /\ sym'[u] = sym[u]
  BY DEF Local
<1>5. pc'[t] \in {"placing", "closing"} => sym'[t] = s
  BY DEF Local
<1>6. HandlersOf(s) = IF AtBroker(t) THEN {t} ELSE {}
  BY <1>2, <1>3 DEF HandlersOf, AtBroker
<1>7. HandlersOf(s)' = IF AtBroker(t)' THEN {t} ELSE {}
  BY <1>2, <1>4, <1>5 DEF HandlersOf, AtBroker
<1>8. OrderOf[s] = OrderBy(t) /\ OrderOf'[s] = OrderBy(t)'
  <2>1. \A u : (CHOOSE x \in {u} : TRUE) = u
    OBVIOUS
  <2> QED BY <1>6, <1>7, <2>1 DEF OrderOf, OrderBy
<1>9. ASSUME NEW x \in Symbols \ {s} PROVE OrderOf'[x] = OrderOf[x]
  <2>1. HandlersOf(x)' = HandlersOf(x) /\ t \notin HandlersOf(x)
    BY <1>3, <1>4, <1>5 DEF HandlersOf, AtBroker
  <2>2. HandlersOf(x) # {} => (CHOOSE u \in HandlersOf(x) : TRUE) \in HandlersOf(x)
    OBVIOUS
  <2>3. \A u \in HandlersOf(x) : act'[u] = act[u]
    BY <1>4, <2>1 DEF HandlersOf
  <2> QED BY <2>1, <2>2, <2>3 DEF OrderOf
<1> QED BY <1>8, <1>9 DEF OrderOf

LEMMA OrderKept == UNCHANGED <<pc, act, sym>> => OrderOf' = OrderOf
BY DEF OrderOf, HandlersOf

LEMMA CoolingStarts ==
  ASSUME Cooldown > 0, BookTyped, NEW s \in Symbols, RecordTrade(s)
  PROVE  Cooling' = Cooling \cup {s}
BY EngineCooldownAssumption DEF Cooling, RecordTrade, BookTyped, TimerTypeOK
-----------------------------------------------------------------------------
(* The steps of TradeLifecycle, on the variables of the engine *)

LifeStep == [Life!LifeNext]_Life!lifeVars

\* The guards that an order meets.
Admitted(s, a) ==
  IF a = "CLOSE" THEN openTrades[s] # None
                 ELSE ~paused /\ remaining[s] = 0 /\ MayOpen(s)

Shown(a) == IF a = "CLOSE" THEN None ELSE a

LEMMA GuardAdmits ==
  ASSUME BookTyped, NEW s \in Symbols, NEW a \in Entries \cup {"CLOSE"}, Admitted(s, a)
  PROVE  IF a = "CLOSE" THEN openTrades[s] # None ELSE Life!MayEnter(s)
<1>1. CASE a = "CLOSE"
  BY <1>1 DEF Admitted
<1>2. CASE a # "CLOSE"
  <2>1. ~paused /\ remaining[s] = 0 /\ MayOpen(s)
    BY <1>2 DEF Admitted
  <2>2. s \notin Cooling
    BY <2>1 DEF Cooling
  <2>3. openTrades[s] = None
    BY <2>1 DEF MayOpen, Open
  \* The two modules have the cardinality of FiniteSets each.
  <2>4. Life!Cardinality(Open) = Cardinality(Open)
    BY DEF Life!Cardinality, Cardinality
  <2>5. Life!Cardinality(Open) < MaxOpenTrades
    BY <2>1, <2>4 DEF MayOpen
  <2>6. Life!MayEnter(s)
    BY <2>1, <2>2, <2>3, <2>5, Zenon DEF Life!MayEnter, Open
  <2> QED BY <1>2, <2>6
<1> QED BY <1>1, <1>2

LEMMA StepSends ==
  ASSUME BookTyped, NEW s \in Symbols, NEW a \in Entries \cup {"CLOSE"}, Admitted(s, a),
         OrderOf[s] = None, OrderOf' = [OrderOf EXCEPT ![s] = a],
         UNCHANGED <<openTrades, remaining, paused>>
  PROVE  LifeStep
<1>1. Cooling' = Cooling
  BY DEF Cooling
<1>2. Life!Send(s, a)
  BY <1>1, GuardAdmits DEF Life!Send, Life!Idle
<1>3. a \in Life!Entries \cup {"CLOSE"}
  BY DEF Entries, Life!Entries
<1> QED BY <1>2, <1>3 DEF LifeStep, Life!LifeNext

LEMMA StepSendsAndConfirms ==
  ASSUME Cooldown > 0, BookTyped, NEW s \in Symbols, NEW a \in Entries \cup {"CLOSE"},
         Admitted(s, a), OrderOf[s] = None, OrderOf' = OrderOf,
         openTrades' = [openTrades EXCEPT ![s] = Shown(a)], RecordTrade(s), UNCHANGED paused
  PROVE  LifeStep
<1>1. Life!SendAndConfirm(s, a)
  BY CoolingStarts, GuardAdmits DEF Life!SendAndConfirm, Life!Idle, Life!After, Shown
<1>2. a \in Life!Entries \cup {"CLOSE"}
  BY DEF Entries, Life!Entries
<1> QED BY <1>1, <1>2 DEF LifeStep, Life!LifeNext

LEMMA StepConfirms ==
  ASSUME Cooldown > 0, BookTyped, NEW s \in Symbols, NEW a \in Entries \cup {"CLOSE"},
         OrderOf[s] = a, OrderOf' = [OrderOf EXCEPT ![s] = None],
         openTrades' = [openTrades EXCEPT ![s] = Shown(a)], RecordTrade(s), UNCHANGED paused
  PROVE  LifeStep
<1>1. Life!Confirm(s)
  BY CoolingStarts, NoActionIsNone DEF Life!Confirm, Life!Idle, Life!After, Shown
<1> QED BY <1>1 DEF LifeStep, Life!LifeNext

\* A step that ends an order, if there was one, and confirms nothing.
LEMMA StepAbandons ==
  ASSUME NEW s \in Symbols, OrderOf' = [OrderOf EXCEPT ![s] = None],
         UNCHANGED <<openTrades, remaining, paused>>
  PROVE  LifeStep
<1>1. Cooling' = Cooling
  BY DEF Cooling
<1>2. CASE OrderOf[s] = None
  <2>1. OrderOf' = OrderOf
    BY <1>2 DEF OrderOf
  <2> QED BY <1>1, <2>1 DEF LifeStep, Life!lifeVars
<1>3. CASE OrderOf[s] # None
  <2>1. Life!Abandon(s)
    BY <1>1, <1>3 DEF Life!Abandon, Life!Idle
  <2> QED BY <2>1 DEF LifeStep, Life!LifeNext
<1> QED BY <1>2, <1>3

LEMMA StepStutters ==
  ASSUME OrderOf' = OrderOf, UNCHANGED <<openTrades, remaining, paused>>
  PROVE  LifeStep
BY DEF LifeStep, Life!lifeVars, Cooling
-----------------------------------------------------------------------------
(* The steps of the engine *)

LEMMA SignalLives ==
  ASSUME DisjointServes, Cooldown > 0, EngineInv,
         NEW t \in Tasks, NEW s \in Symbols, SignalArrives(t, s)
  PROVE  LifeStep
<1> DEFINE P == LifeStep
<1> HIDE DEF P
<1>0. TypeOK /\ BookTyped /\ HandlersTyped /\ HandlerInv
  BY EngineTypes DEF EngineInv
<1>1. Local(t, s) /\ stage[t] = "out" /\ pc[t] = "idle"
  BY <1>0, SignalLocal DEF HandlerInv
<1>2. OrderOf[s] = None /\ OrderOf' = [OrderOf EXCEPT ![s] = OrderBy(t)']
  BY <1>1, OrderLocal DEF OrderBy, AtBroker
<1>3. ASSUME NEW a \in Entries, StartEntry(t, s, a) PROVE P
  <2>1. OrderBy(t)' = a
    BY <1>0, <1>3 DEF StartEntry, Suspend, OrderBy, AtBroker, HandlersTyped
  <2>2. Admitted(s, a)
    BY <1>3 DEF StartEntry, PassesGuards, IsAllowed, Admitted, Entries
  <2> QED BY <1>0, <1>2, <1>3, <2>1, <2>2, StepSends DEF P, StartEntry, bookVars
<1>4. ASSUME StartClose(t, s) PROVE P
  <2>1. OrderBy(t)' = "CLOSE"
    BY <1>0, <1>4 DEF StartClose, Suspend, OrderBy, AtBroker, HandlersTyped
  <2>2. Admitted(s, "CLOSE")
    BY <1>4 DEF StartClose, Open, Admitted
  <2> QED BY <1>0, <1>2, <1>4, <2>1, <2>2, StepSends DEF P, StartClose, bookVars
<1>k. OrderBy(t)' = None => OrderOf' = OrderOf
  BY <1>2 DEF OrderOf
<1>5. ASSUME NEW a \in Entries, SimulateEntry(t, s, a) PROVE P
  <2>1. OrderBy(t)' = None
    BY <1>0, <1>5 DEF SimulateEntry, Suspend, OrderBy, AtBroker, HandlersTyped
  <2>2. Admitted(s, a)
    BY <1>5 DEF SimulateEntry, PassesGuards, IsAllowed, Admitted, Entries
  <2>3. openTrades' = [openTrades EXCEPT ![s] = Shown(a)] /\ RecordTrade(s) /\ UNCHANGED paused
    BY <1>5 DEF SimulateEntry, RecordEntry, Shown, Entries
  <2> QED BY <1>0, <1>2, <1>k, <2>1, <2>2, <2>3, StepSendsAndConfirms DEF P
<1>6. ASSUME SimulateClose(t, s) PROVE P
  <2>1. OrderBy(t)' = None
    BY <1>0, <1>6 DEF SimulateClose, Suspend, OrderBy, AtBroker, HandlersTyped
  <2>2. Admitted(s, "CLOSE")
    BY <1>6 DEF SimulateClose, Open, Admitted
  <2>3. /\ openTrades' = [openTrades EXCEPT ![s] = Shown("CLOSE")]
        /\ RecordTrade(s) /\ UNCHANGED paused
    BY <1>6 DEF SimulateClose, RecordClose, Shown
  <2> QED BY <1>0, <1>2, <1>k, <2>1, <2>2, <2>3, StepSendsAndConfirms DEF P
<1>7. ASSUME SkipBody(t, s) \/ DropSignal(t, s) PROVE P
  <2>1. OrderBy(t)' = None /\ UNCHANGED <<openTrades, remaining, paused>>
    BY <1>1, <1>7
    DEF SkipBody, DropSignal, engineVars, bookVars, handlerVars, OrderBy, AtBroker
  <2> QED BY <1>k, <2>1, StepStutters DEF P
<1>8. P
  BY <1>3, <1>4, <1>5, <1>6, <1>7 DEF SignalArrives
<1> QED BY <1>8 DEF P

LEMMA HandlerLives ==
  ASSUME DisjointServes, Cooldown > 0, EngineInv,
         NEW t \in Tasks, HandlerStep(t) \/ BrokerStep(t)
  PROVE  LifeStep
<1> DEFINE P == LifeStep
<1> HIDE DEF P
<1>0. TypeOK /\ BookTyped /\ HandlersTyped /\ HandlerInv
  BY EngineTypes DEF EngineInv
<1>1. sym[t] \in Symbols /\ Local(t, sym[t])
  BY HandlerLocal
<1>2. OrderOf[sym[t]] = OrderBy(t) /\ OrderOf' = [OrderOf EXCEPT ![sym[t]] = OrderBy(t)']
  BY <1>1, OrderLocal
<1>3. ASSUME EntryConfirmed(t) PROVE P
  <2>1. OrderBy(t) = act[t] /\ OrderBy(t)' = None /\ act[t] \in Entries
    BY <1>0, <1>3 DEF EntryConfirmed, Suspend, OrderBy, AtBroker, HandlersTyped, HandlerInv
  <2>2. /\ openTrades' = [openTrades EXCEPT ![sym[t]] = Shown(act[t])]
        /\ RecordTrade(sym[t]) /\ UNCHANGED paused
    BY <1>3, <2>1 DEF EntryConfirmed, RecordEntry, Shown, Entries
  <2> QED BY <1>0, <1>1, <1>2, <2>1, <2>2, StepConfirms DEF P
<1>4. ASSUME CloseConfirmed(t) PROVE P
  <2>1. OrderBy(t) = "CLOSE" /\ OrderBy(t)' = None
    BY <1>0, <1>4 DEF CloseConfirmed, Suspend, OrderBy, AtBroker, HandlersTyped, HandlerInv
  <2>2. /\ openTrades' = [openTrades EXCEPT ![sym[t]] = Shown("CLOSE")]
        /\ RecordTrade(sym[t]) /\ UNCHANGED paused
    BY <1>4 DEF CloseConfirmed, RecordClose, Shown
  <2> QED BY <1>0, <1>1, <1>2, <2>1, <2>2, StepConfirms DEF P
<1>5. ASSUME CloseRaisesKeyError(t) \/ OrderFails(t) \/ LogReturns(t) \/ LogRaises(t) \/ AlertReturns(t)
      PROVE  P
  <2>1. OrderBy(t)' = None /\ UNCHANGED <<openTrades, remaining, paused>>
    BY <1>0, <1>5
    DEF CloseRaisesKeyError, OrderFails, LogReturns, LogRaises, AlertReturns, Finish, Suspend,
        OrderBy, AtBroker, HandlersTyped, bookVars
  <2> QED BY <1>1, <1>2, <2>1, StepAbandons DEF P
<1>6. ASSUME HandlerLeaves(t) PROVE P
  <2>1. OrderBy(t)' = None /\ UNCHANGED <<openTrades, remaining, paused>>
    BY <1>0, <1>6
    DEF HandlerLeaves, FinishLeave, HandlerInv, engineVars, bookVars, handlerVars, OrderBy, AtBroker
  <2> QED BY <1>1, <1>2, <2>1, StepAbandons DEF P
<1>7. ASSUME BrokerStep(t) PROVE P
  BY <1>7, OrderKept, StepStutters
  DEF P, BrokerStep, BrokerFills, BrokerRefuses, lockVars, bookVars
<1>8. P
  BY <1>3, <1>4, <1>5, <1>6, <1>7 DEF HandlerStep
<1> QED BY <1>8 DEF P

\* A handler that is cut off abandons its order, if it had one.
LEMMA CutLives ==
  ASSUME DisjointServes, EngineInv, NEW t \in Tasks, Cut(t)
  PROVE  LifeStep
<1>0. HandlersTyped
  BY EngineTypes DEF EngineInv
<1>1. sym[t] \in Symbols /\ Local(t, sym[t])
  BY LeaveLocal DEF Cut, WriteRow
<1>2. OrderOf' = [OrderOf EXCEPT ![sym[t]] = OrderBy(t)']
  BY <1>1, OrderLocal
<1>3. OrderBy(t)' = None /\ UNCHANGED <<openTrades, remaining, paused>>
  BY <1>0 DEF Cut, Finish, Suspend, OrderBy, AtBroker, HandlersTyped, bookVars
<1> QED BY <1>1, <1>2, <1>3, StepAbandons

LEMMA EngineLives ==
  ASSUME DisjointServes, Cooldown > 0, EngineInv, [EngineNext]_vars
  PROVE  LifeStep
<1> DEFINE P == LifeStep
<1> HIDE DEF P
<1>1. ASSUME NEW k \in Tokens, WatchdogReleases(k) PROVE P
  BY <1>1, OrderKept, StepStutters
  DEF P, WatchdogReleases, WatchdogFires, engineVars, bookVars, handlerVars
<1>2. ASSUME TimePasses PROVE P
  <2>1. OrderOf' = OrderOf /\ UNCHANGED <<openTrades, paused>> /\ AgeCooldowns
    BY <1>2, OrderKept DEF TimePasses, handlerVars
  <2>2. Cooling' \in SUBSET Cooling
    BY <2>1 DEF AgeCooldowns, Cooling
  <2>3. Life!CoolDown
    BY <2>1, <2>2 DEF Life!CoolDown
  <2> QED BY <2>3 DEF P, LifeStep, Life!LifeNext
<1>3. ASSUME Pause \/ Resume PROVE P
  <2>1. OrderOf' = OrderOf /\ Cooling' = Cooling /\ UNCHANGED openTrades /\ paused' \in BOOLEAN
    BY <1>3, OrderKept DEF Pause, Resume, lockVars, bookVars, handlerVars, Cooling
  <2>2. Life!Halt
    BY <2>1 DEF Life!Halt
  <2> QED BY <2>2 DEF P, LifeStep, Life!LifeNext
<1>4. ASSUME UNCHANGED vars PROVE P
  BY <1>4, OrderKept, StepStutters DEF P, vars, engineVars, lockVars, bookVars, handlerVars
<1>5. ASSUME NEW t \in Tasks, NEW s \in Symbols, SignalArrives(t, s) PROVE P
  BY <1>5, SignalLives DEF P
<1>6. ASSUME NEW t \in Tasks, HandlerStep(t) \/ BrokerStep(t) PROVE P
  BY <1>6, HandlerLives DEF P
<1>7. P
  BY <1>1, <1>2, <1>3, <1>4, <1>5, <1>6 DEF EngineNext
<1> QED BY <1>7 DEF P

\* The engine, from its start to the end of the process, implements the
\* life cycle of a trade.
THEOREM EngineImplementsLifecycle ==
  ASSUME DisjointServes, Cooldown > 0 PROVE ShutdownSpec => ImplementsLifecycle
<1>1. ShutdownInit => Life!LifeInit
  <2> SUFFICES ASSUME EngineInit PROVE Life!LifeInit
    BY DEF ShutdownInit
  <2>1. Cooling = {}
    BY DEF EngineInit, TimerInit, Cooling
  <2>2. OrderOf = [s \in Symbols |-> None]
    BY DEF EngineInit, OrderOf, HandlersOf
  <2> QED BY <2>1, <2>2 DEF EngineInit, Life!LifeInit
<1>2. ShutdownInv /\ [ShutdownNext]_allVars => [Life!LifeNext]_Life!lifeVars
  <2> SUFFICES ASSUME ShutdownInv, [ShutdownNext]_allVars PROVE LifeStep
    BY DEF LifeStep
  <2>0. EngineInv
    BY DEF ShutdownInv
  <2>1. CASE [EngineNext]_vars
    BY <2>0, <2>1, EngineLives
  <2>2. ASSUME NEW t \in Tasks, Cut(t) PROVE LifeStep
    BY <2>0, <2>2, CutLives
  <2>3. CASE Orphaned
    BY <2>3, OrderKept, StepStutters DEF Orphaned, lockVars, bookVars, handlerVars
  <2> QED BY <2>1, <2>2, <2>3, ShutdownKinds DEF ShutdownInv
<1> QED BY <1>1, <1>2, ShutdownInvariant, PTL
        DEF ShutdownSpec, ImplementsLifecycle, Life!LifeSpec
=============================================================================
