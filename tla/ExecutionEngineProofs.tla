----------------------- MODULE ExecutionEngineProofs -----------------------
(***************************************************************************)
(* Proofs about ExecutionEngine, for every set of tasks and symbols, every *)
(* broker outcome and every limit.  The inductive invariant EngineInv adds *)
(* HandlerInv, which says where a handler may be suspended, to the types;  *)
(* without it the action of a waiting handler could not be typed.          *)
(***************************************************************************)
EXTENDS ExecutionEngine, BotLockProofs, FiniteSetTheorems

-----------------------------------------------------------------------------
(* The engine uses the lock as BotLock allows. *)

LEMMA EngineStepLocks ==
  ASSUME TypeOK, [EngineNext]_vars
  PROVE  [LockNext]_lockVars
<1> DEFINE P == [LockNext]_lockVars
<1>1. ASSUME NEW t \in Tasks, NEW s \in Symbols, NEW a \in Entries, StartEntry(t, s, a) PROVE P
  BY <1>1 DEF StartEntry, LockNext
<1>2. ASSUME NEW t \in Tasks, NEW s \in Symbols, NEW a \in Entries, SimulateEntry(t, s, a) PROVE P
  BY <1>2 DEF SimulateEntry, LockNext
<1>3. ASSUME NEW t \in Tasks, NEW s \in Symbols, StartClose(t, s) PROVE P
  BY <1>3 DEF StartClose, LockNext
<1>4. ASSUME NEW t \in Tasks, NEW s \in Symbols, SimulateClose(t, s) PROVE P
  BY <1>4 DEF SimulateClose, LockNext
<1>5. ASSUME NEW t \in Tasks, NEW s \in Symbols, SkipBody(t, s) PROVE P
  BY <1>5 DEF SkipBody, LockNext
<1>6. ASSUME NEW t \in Tasks, NEW s \in Symbols, DropSignal(t, s) PROVE P
  BY <1>6 DEF DropSignal, LockNext
<1>7. ASSUME NEW t \in Tasks, EntryConfirmed(t) PROVE P
  BY <1>7 DEF EntryConfirmed, LockNext
<1>8. ASSUME NEW t \in Tasks, CloseConfirmed(t) PROVE P
  BY <1>8 DEF CloseConfirmed, LockNext
<1>9. ASSUME NEW t \in Tasks, CloseRaisesKeyError(t) PROVE P
  BY <1>9 DEF CloseRaisesKeyError, Finish, LockNext
<1>10. ASSUME NEW t \in Tasks, OrderFails(t) PROVE P
  BY <1>10 DEF OrderFails, Finish, LockNext
<1>11. ASSUME NEW t \in Tasks, LogReturns(t) PROVE P
  BY <1>11 DEF LogReturns, Finish, LockNext
<1>12. ASSUME NEW t \in Tasks, LogRaises(t) PROVE P
  BY <1>12 DEF LogRaises, Finish, LockNext
<1>13. ASSUME NEW t \in Tasks, AlertReturns(t) PROVE P
  BY <1>13 DEF AlertReturns, Finish, LockNext
<1>14. ASSUME NEW t \in Tasks, HandlerLeaves(t) PROVE P
  BY <1>14 DEF HandlerLeaves, LockNext
<1>15. ASSUME NEW t \in Tasks, BrokerFills(t) PROVE P
  BY <1>15 DEF BrokerFills, LockNext
<1>16. ASSUME NEW t \in Tasks, BrokerRefuses(t) PROVE P
  BY <1>16 DEF BrokerRefuses, LockNext
<1>17. ASSUME NEW k \in Tokens, WatchdogReleases(k) PROVE P
  BY <1>17 DEF WatchdogReleases, LockNext
<1>18. ASSUME TimePasses PROVE P
  <2>1. CASE \E k \in Tokens : left[k] > 0
    BY <1>18, <2>1 DEF TimePasses, LockTick, LockNext
  <2>2. CASE ~ \E k \in Tokens : left[k] > 0
    <3>1. left' = left
      BY <1>18, <2>2 DEF TimePasses, AgeWatchdogs, TypeOK
    <3> QED BY <1>18, <3>1 DEF TimePasses, lockVars
  <2> QED BY <2>1, <2>2
<1>19. ASSUME Pause PROVE P
  BY <1>19 DEF Pause, LockNext
<1>20. ASSUME Resume PROVE P
  BY <1>20 DEF Resume, LockNext
<1>21. CASE UNCHANGED vars
  BY <1>21 DEF vars
<1> HIDE DEF P
<1>22. ASSUME NEW t \in Tasks, NEW s \in Symbols, SignalArrives(t, s) PROVE P
  BY <1>22, <1>1, <1>2, <1>3, <1>4, <1>5, <1>6 DEF SignalArrives
<1>23. ASSUME NEW t \in Tasks, HandlerStep(t) \/ BrokerStep(t) PROVE P
  BY <1>23, <1>7, <1>8, <1>9, <1>10, <1>11, <1>12, <1>13, <1>14, <1>15, <1>16
  DEF HandlerStep, BrokerStep
<1>24. ASSUME EngineNext PROVE P
  BY <1>24, <1>22, <1>23, <1>17, <1>18, <1>19, <1>20 DEF EngineNext
<1> QED BY <1>21, <1>24 DEF P

\* Every behaviour of the engine is, on the variables of BotLock, one of
\* BotLock's: what is proved of the lock holds inside the engine.
THEOREM EngineImplementsBotLock == EngineSpec => ImplementsBotLock
<1>1. EngineInit => LockInit
  BY DEF EngineInit
<1>2. EngineSpec => [](TypeOK /\ LockInv)
  <2>1. TypeOK /\ LockInv /\ [EngineNext]_vars => (TypeOK /\ LockInv)'
    BY EngineStepLocks, LockTypeStep, LockInvStep
  <2> QED BY <1>1, <2>1, LockInitTyped, LockInitInv, PTL DEF EngineSpec
<1> QED
  BY <1>1, <1>2, EngineStepLocks, PTL DEF EngineSpec, ImplementsBotLock, LockSpec

\* Two handlers are inside the body for one symbol only after a watchdog.
THEOREM EngineLeaseExclusive == EngineSpec => []LeaseExclusive
BY EngineImplementsBotLock, LeaseIsExclusive DEF ImplementsBotLock
-----------------------------------------------------------------------------
(* Where the handlers are suspended: types and HandlerInv together. *)

EngineInv == EngineTypeOK /\ LockInv /\ HandlerInv

\* What entering and leaving the context manager do to the frames.
LEMMA AcquireFrame ==
  ASSUME TypeOK, NEW t \in Tasks, NEW s \in Symbols, Acquire(t, s)
  PROVE  /\ stage[t] = "out"
         /\ stage' = [stage EXCEPT ![t] = "body"]
         /\ sym' = [sym EXCEPT ![t] = s]
BY DEF Acquire, TakeLock

LEMMA LeaveFrame ==
  ASSUME TypeOK, NEW t \in Tasks, Leave(t)
  PROVE  /\ stage[t] = "body"
         /\ stage'[t] \in {"leaving", "out"}
         /\ stage'[t] = "leaving" => sym'[t] = sym[t]
         /\ \A u \in Tasks \ {t} : stage'[u] = stage[u] /\ sym'[u] = sym[u]
BY DEF Leave, CancelWatchdog, LeaveLate, ForgetFrame, TypeOK

LEMMA FinishLeaveFrame ==
  ASSUME TypeOK, NEW t \in Tasks, FinishLeave(t)
  PROVE  /\ stage[t] = "leaving"
         /\ stage'[t] = "out"
         /\ \A u \in Tasks \ {t} : stage'[u] = stage[u] /\ sym'[u] = sym[u]
BY DEF FinishLeave, ForgetFrame, TypeOK

\* The engine's own variables, without those of BotLock.
BookTyped == TimerTypeOK
          /\ openTrades \in [Symbols -> Entries \cup {None}]
          /\ stateOpen \in [Symbols -> Entries \cup {None}]
          /\ paused \in BOOLEAN
HandlersTyped == /\ pc \in [Tasks -> Suspensions]
                 /\ act \in [Tasks -> Entries \cup {"CLOSE", None}]
                 /\ call \in [Tasks -> Replies \cup {"none", "sent"}]
OutsideTyped == /\ position \in [Symbols -> (-MaxPosition)..MaxPosition]
                /\ lastRow \in [Symbols -> Entries \cup {"CLOSE", None}]

LEMMA EngineTypes == EngineTypeOK <=> TypeOK /\ BookTyped /\ HandlersTyped /\ OutsideTyped
BY DEF EngineTypeOK, BookTyped, HandlersTyped, OutsideTyped

LEMMA HandlerStepLemma ==
  ASSUME EngineInv, [EngineNext]_vars
  PROVE  HandlerInv' /\ HandlersTyped'
<1> DEFINE P == HandlerInv' /\ HandlersTyped'
<1>0. TypeOK /\ HandlersTyped /\ HandlerInv
  BY EngineTypes DEF EngineInv
<1> USE <1>0, NoActionIsNone
<1> USE DEF HandlerInv, HandlersTyped, Suspensions, Replies, Entries
<1>1. ASSUME NEW t \in Tasks, NEW s \in Symbols, NEW a \in Entries, StartEntry(t, s, a) PROVE P
  BY <1>1, AcquireFrame DEF StartEntry, PassesGuards, Suspend, TypeOK
<1>2. ASSUME NEW t \in Tasks, NEW s \in Symbols, NEW a \in Entries, SimulateEntry(t, s, a) PROVE P
  BY <1>2, AcquireFrame DEF SimulateEntry, PassesGuards, Suspend, TypeOK
<1>3. ASSUME NEW t \in Tasks, NEW s \in Symbols, StartClose(t, s) PROVE P
  BY <1>3, AcquireFrame DEF StartClose, Suspend, TypeOK
<1>4. ASSUME NEW t \in Tasks, NEW s \in Symbols, SimulateClose(t, s) PROVE P
  BY <1>4, AcquireFrame DEF SimulateClose, Suspend, TypeOK
<1>5. ASSUME NEW t \in Tasks, NEW s \in Symbols, SkipBody(t, s) PROVE P
  BY <1>5 DEF SkipBody, PassesGuards, AcquireAndReturn, TakeLock, TypeOK, engineVars, handlerVars
<1>6. ASSUME NEW t \in Tasks, NEW s \in Symbols, DropSignal(t, s) PROVE P
  BY <1>6 DEF DropSignal, Drop, engineVars, handlerVars
<1>7. ASSUME NEW t \in Tasks, EntryConfirmed(t) PROVE P
  BY <1>7 DEF EntryConfirmed, Suspend, lockVars
<1>8. ASSUME NEW t \in Tasks, CloseConfirmed(t) PROVE P
  BY <1>8 DEF CloseConfirmed, Suspend, lockVars
<1>f. ASSUME NEW t \in Tasks, Finish(t) PROVE P
  BY <1>f, LeaveFrame DEF Finish, Suspend
<1>9. ASSUME NEW t \in Tasks, CloseRaisesKeyError(t) PROVE P
  BY <1>9, <1>f DEF CloseRaisesKeyError
<1>10. ASSUME NEW t \in Tasks, OrderFails(t) PROVE P
  BY <1>10, <1>f DEF OrderFails
<1>11. ASSUME NEW t \in Tasks, LogReturns(t) PROVE P
  <2>1. CASE Finish(t)
    BY <2>1, <1>f
  <2>2. CASE Suspend(t, "alerting", act[t], "none") /\ UNCHANGED lockVars
    BY <1>11, <2>2 DEF LogReturns, Suspend, lockVars
  <2> QED BY <1>11, <2>1, <2>2 DEF LogReturns
<1>12. ASSUME NEW t \in Tasks, LogRaises(t) PROVE P
  BY <1>12, <1>f DEF LogRaises
<1>13. ASSUME NEW t \in Tasks, AlertReturns(t) PROVE P
  BY <1>13, <1>f DEF AlertReturns
<1>14. ASSUME NEW t \in Tasks, HandlerLeaves(t) PROVE P
  BY <1>14, FinishLeaveFrame DEF HandlerLeaves, engineVars, handlerVars
<1>15. ASSUME NEW t \in Tasks, BrokerFills(t) PROVE P
  BY <1>15 DEF BrokerFills, lockVars
<1>16. ASSUME NEW t \in Tasks, BrokerRefuses(t) PROVE P
  BY <1>16, OutcomesAssumption DEF BrokerRefuses, lockVars
<1>17. ASSUME NEW k \in Tokens, WatchdogReleases(k) PROVE P
  BY <1>17 DEF WatchdogReleases, WatchdogFires, engineVars, handlerVars
<1>18. ASSUME TimePasses PROVE P
  BY <1>18 DEF TimePasses, handlerVars
<1>19. ASSUME Pause PROVE P
  BY <1>19 DEF Pause, lockVars, handlerVars
<1>20. ASSUME Resume PROVE P
  BY <1>20 DEF Resume, lockVars, handlerVars
<1>21. ASSUME UNCHANGED vars PROVE P
  BY <1>21 DEF vars, engineVars, lockVars, handlerVars
<1> HIDE DEF P
<1>22. ASSUME NEW t \in Tasks, NEW s \in Symbols, SignalArrives(t, s) PROVE P
  BY <1>22, <1>1, <1>2, <1>3, <1>4, <1>5, <1>6 DEF SignalArrives
<1>23. ASSUME NEW t \in Tasks, HandlerStep(t) \/ BrokerStep(t) PROVE P
  BY <1>23, <1>7, <1>8, <1>9, <1>10, <1>11, <1>12, <1>13, <1>14, <1>15, <1>16
  DEF HandlerStep, BrokerStep
<1>24. ASSUME EngineNext PROVE P
  BY <1>24, <1>22, <1>23, <1>17, <1>18, <1>19, <1>20 DEF EngineNext
<1> QED BY <1>21, <1>24 DEF P
-----------------------------------------------------------------------------
(* The trade book: every step leaves it alone, records an entry or an exit *)
(* in both copies, or ages the cooldowns.                                  *)

BookMoves == \/ UNCHANGED bookVars
             \/ \E s \in Symbols, a \in Entries : RecordEntry(s, a)
             \/ \E s \in Symbols : RecordClose(s)
             \/ AgeCooldowns /\ UNCHANGED <<openTrades, stateOpen>>

LEMMA BookStep ==
  ASSUME EngineInv, [EngineNext]_vars
  PROVE  BookMoves
<1> DEFINE P == BookMoves
<1>0. HandlerInv
  BY DEF EngineInv
<1> USE DEF BookMoves
<1>1. ASSUME NEW t \in Tasks, NEW s \in Symbols, NEW a \in Entries, StartEntry(t, s, a) PROVE P
  BY <1>1 DEF StartEntry
<1>2. ASSUME NEW t \in Tasks, NEW s \in Symbols, NEW a \in Entries, SimulateEntry(t, s, a) PROVE P
  BY <1>2 DEF SimulateEntry
<1>3. ASSUME NEW t \in Tasks, NEW s \in Symbols, StartClose(t, s) PROVE P
  BY <1>3 DEF StartClose
<1>4. ASSUME NEW t \in Tasks, NEW s \in Symbols, SimulateClose(t, s) PROVE P
  BY <1>4 DEF SimulateClose
<1>5. ASSUME NEW t \in Tasks, NEW s \in Symbols, SkipBody(t, s) PROVE P
  BY <1>5 DEF SkipBody, engineVars
<1>6. ASSUME NEW t \in Tasks, NEW s \in Symbols, DropSignal(t, s) PROVE P
  BY <1>6 DEF DropSignal, engineVars
<1>7. ASSUME NEW t \in Tasks, EntryConfirmed(t) PROVE P
  BY <1>7, <1>0 DEF EntryConfirmed, HandlerInv
<1>8. ASSUME NEW t \in Tasks, CloseConfirmed(t) PROVE P
  BY <1>8 DEF CloseConfirmed, Open
<1>9. ASSUME NEW t \in Tasks, CloseRaisesKeyError(t) PROVE P
  BY <1>9 DEF CloseRaisesKeyError
<1>10. ASSUME NEW t \in Tasks, OrderFails(t) PROVE P
  BY <1>10 DEF OrderFails
<1>11. ASSUME NEW t \in Tasks, LogReturns(t) PROVE P
  BY <1>11 DEF LogReturns
<1>12. ASSUME NEW t \in Tasks, LogRaises(t) PROVE P
  BY <1>12 DEF LogRaises
<1>13. ASSUME NEW t \in Tasks, AlertReturns(t) PROVE P
  BY <1>13 DEF AlertReturns
<1>14. ASSUME NEW t \in Tasks, HandlerLeaves(t) PROVE P
  BY <1>14 DEF HandlerLeaves, engineVars
<1>15. ASSUME NEW t \in Tasks, BrokerFills(t) PROVE P
  BY <1>15 DEF BrokerFills
<1>16. ASSUME NEW t \in Tasks, BrokerRefuses(t) PROVE P
  BY <1>16 DEF BrokerRefuses
<1>17. ASSUME NEW k \in Tokens, WatchdogReleases(k) PROVE P
  BY <1>17 DEF WatchdogReleases, engineVars
<1>18. ASSUME TimePasses PROVE P
  BY <1>18 DEF TimePasses
<1>19. ASSUME Pause \/ Resume PROVE P
  BY <1>19 DEF Pause, Resume
<1>21. ASSUME UNCHANGED vars PROVE P
  BY <1>21 DEF vars, engineVars
<1> HIDE DEF P
<1>22. ASSUME NEW t \in Tasks, NEW s \in Symbols, SignalArrives(t, s) PROVE P
  BY <1>22, <1>1, <1>2, <1>3, <1>4, <1>5, <1>6 DEF SignalArrives
<1>23. ASSUME NEW t \in Tasks, HandlerStep(t) \/ BrokerStep(t) PROVE P
  BY <1>23, <1>7, <1>8, <1>9, <1>10, <1>11, <1>12, <1>13, <1>14, <1>15, <1>16
  DEF HandlerStep, BrokerStep
<1>24. ASSUME EngineNext PROVE P
  BY <1>24, <1>22, <1>23, <1>17, <1>18, <1>19 DEF EngineNext
<1> QED BY <1>21, <1>24 DEF P

LEMMA BookTypeStep ==
  ASSUME EngineInv, [EngineNext]_vars
  PROVE  TimerTypeOK' /\ openTrades' \in [Symbols -> Entries \cup {None}]
                      /\ stateOpen' \in [Symbols -> Entries \cup {None}]
<1>1. BookTyped
  BY EngineTypes DEF EngineInv
<1> USE <1>1, EngineCooldownAssumption DEF BookTyped, TimerTypeOK
<1>2. CASE UNCHANGED bookVars
  BY <1>2 DEF bookVars
<1>3. ASSUME NEW s \in Symbols, NEW a \in Entries, RecordEntry(s, a)
      PROVE  TimerTypeOK' /\ openTrades' \in [Symbols -> Entries \cup {None}]
                      /\ stateOpen' \in [Symbols -> Entries \cup {None}]
  BY <1>3 DEF RecordEntry, RecordTrade
<1>4. ASSUME NEW s \in Symbols, RecordClose(s)
      PROVE  TimerTypeOK' /\ openTrades' \in [Symbols -> Entries \cup {None}]
                      /\ stateOpen' \in [Symbols -> Entries \cup {None}]
  BY <1>4 DEF RecordClose, RecordTrade
<1>5. CASE AgeCooldowns /\ UNCHANGED <<openTrades, stateOpen>>
  BY <1>5 DEF AgeCooldowns
<1> QED BY <1>2, <1>3, <1>4, <1>5, BookStep DEF BookMoves

LEMMA OutsideTypeStep ==
  ASSUME EngineInv, [EngineNext]_vars
  PROVE  paused' \in BOOLEAN /\ OutsideTyped'
<1> DEFINE P == paused' \in BOOLEAN /\ OutsideTyped'
<1>0. HandlerInv /\ paused \in BOOLEAN /\ OutsideTyped /\ HandlersTyped
  BY EngineTypes DEF EngineInv, BookTyped
<1>k. paused' = paused /\ UNCHANGED <<position, lastRow>> => P
  BY <1>0 DEF OutsideTyped
<1>p. ASSUME NEW s \in Symbols, NEW v \in (-MaxPosition)..MaxPosition,
             position' = [position EXCEPT ![s] = v], UNCHANGED <<paused, lastRow>>
      PROVE  P
  BY <1>0, <1>p DEF OutsideTyped
<1>1. ASSUME NEW t \in Tasks, NEW s \in Symbols, NEW a \in Entries, StartEntry(t, s, a) PROVE P
  BY <1>1, <1>k DEF StartEntry
<1>2. ASSUME NEW t \in Tasks, NEW s \in Symbols, NEW a \in Entries, SimulateEntry(t, s, a) PROVE P
  <2>1. Side(a) \in (-MaxPosition)..MaxPosition
    BY MaxPositionAssumption DEF Side, Entries
  <2> QED BY <1>2, <1>p, <2>1 DEF SimulateEntry
<1>3. ASSUME NEW t \in Tasks, NEW s \in Symbols, StartClose(t, s) PROVE P
  BY <1>3, <1>k DEF StartClose
<1>4. ASSUME NEW t \in Tasks, NEW s \in Symbols, SimulateClose(t, s) PROVE P
  <2>1. 0 \in (-MaxPosition)..MaxPosition
    BY MaxPositionAssumption
  <2> QED BY <1>4, <1>p, <2>1 DEF SimulateClose
<1>5. ASSUME NEW t \in Tasks, NEW s \in Symbols, SkipBody(t, s) \/ DropSignal(t, s) PROVE P
  BY <1>5, <1>k DEF SkipBody, DropSignal, engineVars
<1>7. ASSUME NEW t \in Tasks,
             \/ EntryConfirmed(t) \/ CloseConfirmed(t)
             \/ CloseRaisesKeyError(t) \/ OrderFails(t)
             \/ LogRaises(t) \/ AlertReturns(t)
      PROVE P
  BY <1>7, <1>k DEF EntryConfirmed, CloseConfirmed, CloseRaisesKeyError, OrderFails,
     LogRaises, AlertReturns
<1>11. ASSUME NEW t \in Tasks, LogReturns(t) PROVE P
  <2>1. act[t] \in Entries \cup {"CLOSE", None}
    BY <1>0 DEF HandlersTyped
  <2> QED BY <1>11, <1>0, <2>1 DEF LogReturns, WriteRow, OutsideTyped
<1>14. ASSUME NEW t \in Tasks, HandlerLeaves(t) \/ BrokerRefuses(t) PROVE P
  BY <1>14, <1>k DEF HandlerLeaves, BrokerRefuses, engineVars
<1>15. ASSUME NEW t \in Tasks, BrokerFills(t) PROVE P
  <2>1. sym[t] \in Symbols
    BY <1>15, <1>0 DEF BrokerFills, HandlerInv
  <2> QED BY <1>15, <1>p, <2>1 DEF BrokerFills
<1>17. ASSUME NEW k \in Tokens, WatchdogReleases(k) PROVE P
  BY <1>17, <1>k DEF WatchdogReleases, engineVars
<1>18. ASSUME TimePasses PROVE P
  BY <1>18, <1>k DEF TimePasses
<1>19. ASSUME Pause \/ Resume PROVE P
  BY <1>19, <1>0 DEF Pause, Resume, OutsideTyped
<1>21. ASSUME UNCHANGED vars PROVE P
  BY <1>21, <1>k DEF vars, engineVars
<1> HIDE DEF P
<1>22. ASSUME NEW t \in Tasks, NEW s \in Symbols, SignalArrives(t, s) PROVE P
  BY <1>22, <1>1, <1>2, <1>3, <1>4, <1>5 DEF SignalArrives
<1>23. ASSUME NEW t \in Tasks, HandlerStep(t) \/ BrokerStep(t) PROVE P
  BY <1>23, <1>7, <1>11, <1>14, <1>15 DEF HandlerStep, BrokerStep
<1>24. ASSUME EngineNext PROVE P
  BY <1>24, <1>22, <1>23, <1>17, <1>18, <1>19 DEF EngineNext
<1> QED BY <1>21, <1>24 DEF P

LEMMA EngineInvStep ==
  ASSUME EngineInv, [EngineNext]_vars
  PROVE  EngineInv'
<1>1. TypeOK /\ LockInv
  BY EngineTypes DEF EngineInv
<1>2. TypeOK' /\ LockInv'
  BY <1>1, EngineStepLocks, LockTypeStep, LockInvStep
<1>3. HandlerInv' /\ HandlersTyped'
  BY HandlerStepLemma
<1>4. BookTyped' /\ OutsideTyped'
  BY BookTypeStep, OutsideTypeStep DEF BookTyped
<1> QED
  BY <1>2, <1>3, <1>4 DEF EngineInv, EngineTypeOK, BookTyped, HandlersTyped, OutsideTyped

LEMMA EngineInitInv == EngineInit => EngineInv
<1> SUFFICES ASSUME EngineInit PROVE EngineInv
  OBVIOUS
<1>1. TypeOK /\ LockInv
  BY LockInitTyped, LockInitInv DEF EngineInit
<1>2. BookTyped /\ HandlersTyped /\ OutsideTyped
  <2>1. 0 \in 0..Cooldown /\ 0 \in (-MaxPosition)..MaxPosition
    BY EngineCooldownAssumption, MaxPositionAssumption
  <2>2. BookTyped
    BY <2>1 DEF EngineInit, TimerInit, BookTyped, TimerTypeOK
  <2>3. HandlersTyped
    BY DEF EngineInit, HandlersTyped, Suspensions
  <2>4. OutsideTyped
    BY <2>1 DEF EngineInit, OutsideTyped
  <2> QED BY <2>2, <2>3, <2>4
<1>3. HandlerInv
  BY DEF EngineInit, LockInit, HandlerInv
<1> QED BY <1>1, <1>2, <1>3, EngineTypes DEF EngineInv

\* The inductive invariant of the engine.
THEOREM EngineInvariant == EngineSpec => []EngineInv
BY EngineInitInv, EngineInvStep, PTL DEF EngineSpec

\* Every variable of the engine keeps its type.
THEOREM EngineTypeCorrect == EngineSpec => []EngineTypeOK
BY EngineInvariant, PTL DEF EngineInv

\* The book of the engine and the copy the strategy reads never disagree.
THEOREM BookAlwaysMatchesState == EngineSpec => []BookMatchesState
<1>1. EngineInit => BookMatchesState
  BY DEF EngineInit, BookMatchesState
<1>2. ASSUME EngineInv, BookMatchesState, [EngineNext]_vars PROVE BookMatchesState'
  BY <1>2, BookStep DEF BookMoves, BookMatchesState, bookVars, RecordEntry, RecordClose
<1> QED BY <1>1, <1>2, EngineInvariant, PTL DEF EngineSpec

\* A handler that has ended, in whatever way, has left no lock behind
\* (engine.py, line 209; botlock.py, lines 71-86).
THEOREM LocksNeverLeftBehind == EngineSpec => []NoLockLeftBehind
<1>1. EngineInv => NoLockLeftBehind
  <2> SUFFICES ASSUME EngineInv, NEW s \in Symbols, locked[s]
               PROVE  \E t \in Tasks : sym[t] = s /\ (pc[t] # "idle" \/ stage[t] = "leaving")
    BY DEF NoLockLeftBehind
  <2>1. PICK t \in Tasks : sym[t] = s /\ HasLease(t)
    BY DEF EngineInv, LockInv, FlagMatchesHolder, HoldersHaveLease
  <2> QED BY <2>1 DEF EngineInv, HandlerInv, HasLease
<1> QED BY <1>1, EngineInvariant, PTL
-----------------------------------------------------------------------------
(* MAX_OPEN_TRADES: the open trades and the orders at the broker together. *)

LEMMA FiniteSets ==
  ASSUME NEW S, S \subseteq Symbols, NEW T, T \subseteq Tasks
  PROVE  /\ IsFiniteSet(S) /\ Cardinality(S) \in Nat
         /\ IsFiniteSet(T) /\ Cardinality(T) \in Nat
         /\ Cardinality(T) \leq Cardinality(Tasks)
BY FiniteAssumption, FS_Subset, FS_CardinalityType

LEMMA TasksCounted == Cardinality(Tasks) \in Nat \ {0}
BY FiniteAssumption, FS_CardinalityType, FS_EmptySet

LEMMA SubsetsOf == /\ Open \subseteq Symbols /\ Open' \subseteq Symbols
                   /\ Placing \subseteq Tasks /\ Placing' \subseteq Tasks
BY DEF Open, Placing

\* A step that opens nothing and starts no order keeps the bound.
LEMMA BoundShrinks ==
  ASSUME OpenTradesBound, Open' \subseteq Open, Placing' \subseteq Placing
  PROVE  OpenTradesBound'
<1>1. Cardinality(Open') \leq Cardinality(Open)
  BY SubsetsOf, FiniteSets, FS_Subset
<1>2. Cardinality(Placing') \leq Cardinality(Placing)
  BY SubsetsOf, FiniteSets, FS_Subset
<1>3. /\ Cardinality(Open) \in Nat /\ Cardinality(Open') \in Nat
      /\ Cardinality(Placing) \in Nat /\ Cardinality(Placing') \in Nat
  BY SubsetsOf, FiniteSets
<1> QED
  BY <1>1, <1>2, <1>3, TasksCounted, MaxOpenTradesAssumption DEF OpenTradesBound

\* An entry that the limit lets through keeps it.
LEMMA BoundAdmits ==
  ASSUME NEW t \in Tasks, NEW s \in Symbols, MayOpen(s),
         \/ Open' = Open
         \/ Open' = Open \cup {s} /\ t \notin Placing'
  PROVE  OpenTradesBound'
<1>1. Cardinality(Open) < MaxOpenTrades /\ s \notin Open
  BY DEF MayOpen
<1>2. /\ Cardinality(Open) \in Nat /\ Cardinality(Open') \in Nat
      /\ Cardinality(Placing') \in Nat /\ Cardinality(Placing') \leq Cardinality(Tasks)
      /\ IsFiniteSet(Open)
  BY SubsetsOf, FiniteSets
<1>3. CASE Open' = Open
  BY <1>1, <1>2, <1>3, TasksCounted, MaxOpenTradesAssumption DEF OpenTradesBound
<1>4. CASE Open' = Open \cup {s} /\ t \notin Placing'
  <2>1. Cardinality(Open') = Cardinality(Open) + 1
    BY <1>1, <1>2, <1>4, FS_AddElement
  <2>2. Placing' \subseteq Tasks \ {t}
    BY <1>4, SubsetsOf
  <2>3. IsFiniteSet(Tasks \ {t}) /\ Cardinality(Tasks \ {t}) = Cardinality(Tasks) - 1
    BY FiniteAssumption, FS_RemoveElement
  <2>4. Cardinality(Placing') \leq Cardinality(Tasks) - 1
    BY <2>2, <2>3, FS_Subset
  <2> QED BY <1>1, <1>2, <2>1, <2>4, TasksCounted, MaxOpenTradesAssumption
          DEF OpenTradesBound
<1> QED BY <1>3, <1>4

\* A confirmed entry moves one order from the broker to the book.
LEMMA BoundMoves ==
  ASSUME OpenTradesBound, NEW t \in Placing, NEW s \in Symbols,
         Open' = Open \cup {s}, Placing' = Placing \ {t}
  PROVE  OpenTradesBound'
<1>1. /\ Cardinality(Open) \in Nat /\ IsFiniteSet(Open)
      /\ Cardinality(Placing) \in Nat /\ IsFiniteSet(Placing)
  BY SubsetsOf, FiniteSets
<1>2. Cardinality(Placing') = Cardinality(Placing) - 1
  BY <1>1, FS_RemoveElement
<1>3. /\ Cardinality(Open') \in Nat
      /\ Cardinality(Open') \leq Cardinality(Open) + 1
  <2>1. CASE s \in Open
    <3>1. Open' = Open
      BY <2>1
    <3>2. Cardinality(Open') = Cardinality(Open)
      BY <3>1, Zenon
    <3> QED BY <1>1, <3>2
  <2>2. CASE s \notin Open
    <3>1. Cardinality(Open') = Cardinality(Open) + 1
      BY <1>1, <2>2, FS_AddElement
    <3> QED BY <1>1, <3>1
  <2> QED BY <2>1, <2>2
<1> QED
  BY <1>1, <1>2, <1>3, TasksCounted, MaxOpenTradesAssumption DEF OpenTradesBound

LEMMA BoundStep ==
  ASSUME EngineInv, OpenTradesBound, [EngineNext]_vars
  PROVE  OpenTradesBound'
<1> DEFINE P == OpenTradesBound'
<1>0. /\ openTrades \in [Symbols -> Entries \cup {None}]
      /\ pc \in [Tasks -> Suspensions]
      /\ HandlerInv /\ TypeOK
  BY EngineTypes DEF EngineInv, BookTyped, HandlersTyped
<1>u. openTrades' = openTrades => Open' = Open
  BY DEF Open
<1>v. pc' = pc => Placing' = Placing
  BY DEF Placing
<1>w. ASSUME NEW t \in Tasks, NEW w \in Suspensions \ {"placing"}, pc' = [pc EXCEPT ![t] = w]
      PROVE  t \notin Placing' /\ Placing' = Placing \ {t}
  BY <1>0, <1>w DEF Placing
<1>e. ASSUME NEW s \in Symbols, NEW a \in Entries, openTrades' = [openTrades EXCEPT ![s] = a]
      PROVE  Open' = Open \cup {s}
  BY <1>0, <1>e, NoActionIsNone DEF Open
<1>c. ASSUME NEW s \in Symbols, openTrades' = [openTrades EXCEPT ![s] = None]
      PROVE  Open' \subseteq Open
  BY <1>0, <1>c DEF Open
<1>k. openTrades' = openTrades /\ pc' = pc => P
  BY <1>u, <1>v, BoundShrinks
<1>f. ASSUME NEW t \in Tasks, openTrades' = openTrades, Finish(t) PROVE P
  BY <1>f, <1>u, <1>w, BoundShrinks DEF Finish, Suspend, Suspensions
<1> HIDE DEF P
<1>1. ASSUME NEW t \in Tasks, NEW s \in Symbols, NEW a \in Entries, StartEntry(t, s, a) PROVE P
  BY <1>1, <1>u, BoundAdmits DEF StartEntry, bookVars, P
<1>2. ASSUME NEW t \in Tasks, NEW s \in Symbols, NEW a \in Entries, SimulateEntry(t, s, a) PROVE P
  <2>1. Open' = Open \cup {s}
    BY <1>2, <1>e DEF SimulateEntry, RecordEntry
  <2>2. t \notin Placing'
    BY <1>2, <1>w DEF SimulateEntry, Suspend, Suspensions
  <2> QED BY <1>2, <2>1, <2>2, BoundAdmits DEF SimulateEntry, P
<1>3. ASSUME NEW t \in Tasks, NEW s \in Symbols, StartClose(t, s) PROVE P
  BY <1>3, <1>u, <1>w, BoundShrinks DEF StartClose, bookVars, Suspend, Suspensions, P
<1>4. ASSUME NEW t \in Tasks, NEW s \in Symbols, SimulateClose(t, s) PROVE P
  BY <1>4, <1>c, <1>w, BoundShrinks DEF SimulateClose, RecordClose, Suspend, Suspensions, P
<1>5. ASSUME NEW t \in Tasks, NEW s \in Symbols, SkipBody(t, s) \/ DropSignal(t, s) PROVE P
  BY <1>5, <1>k DEF SkipBody, DropSignal, engineVars, bookVars, handlerVars
<1>7. ASSUME NEW t \in Tasks, EntryConfirmed(t) PROVE P
  <2>1. sym[t] \in Symbols /\ act[t] \in Entries
    BY <1>7, <1>0 DEF EntryConfirmed, HandlerInv
  <2>2. Open' = Open \cup {sym[t]}
    BY <1>7, <1>e, <2>1 DEF EntryConfirmed, RecordEntry
  <2>3. Placing' = Placing \ {t}
    BY <1>7, <1>w DEF EntryConfirmed, Suspend, Suspensions
  <2>4. t \in Placing
    BY <1>7 DEF EntryConfirmed, Placing
  <2> QED BY <2>1, <2>2, <2>3, <2>4, BoundMoves DEF P
<1>8. ASSUME NEW t \in Tasks, CloseConfirmed(t) PROVE P
  BY <1>8, <1>c, <1>w, BoundShrinks
  DEF CloseConfirmed, Open, RecordClose, Suspend, Suspensions, P
<1>9. ASSUME NEW t \in Tasks,
             CloseRaisesKeyError(t) \/ OrderFails(t) \/ LogRaises(t) \/ AlertReturns(t)
      PROVE P
  BY <1>9, <1>f DEF CloseRaisesKeyError, OrderFails, LogRaises, AlertReturns, bookVars
<1>11. ASSUME NEW t \in Tasks, LogReturns(t) PROVE P
  <2>1. CASE Finish(t)
    BY <1>11, <2>1, <1>f DEF LogReturns, bookVars
  <2>2. CASE Suspend(t, "alerting", act[t], "none")
    BY <1>11, <2>2, <1>u, <1>w, BoundShrinks
    DEF LogReturns, bookVars, Suspend, Suspensions, P
  <2> QED BY <1>11, <2>1, <2>2 DEF LogReturns
<1>14. ASSUME NEW t \in Tasks, HandlerLeaves(t) \/ BrokerStep(t) PROVE P
  BY <1>14, <1>k DEF HandlerLeaves, BrokerStep, BrokerFills, BrokerRefuses, engineVars,
     bookVars, handlerVars
<1>17. ASSUME NEW k \in Tokens, WatchdogReleases(k) PROVE P
  BY <1>17, <1>k DEF WatchdogReleases, engineVars, bookVars, handlerVars
<1>18. ASSUME TimePasses \/ Pause \/ Resume PROVE P
  BY <1>18, <1>k DEF TimePasses, Pause, Resume, bookVars, handlerVars
<1>21. ASSUME UNCHANGED vars PROVE P
  BY <1>21, <1>k DEF vars, engineVars, bookVars, handlerVars
<1>22. ASSUME NEW t \in Tasks, NEW s \in Symbols, SignalArrives(t, s) PROVE P
  BY <1>22, <1>1, <1>2, <1>3, <1>4, <1>5 DEF SignalArrives
<1>23. ASSUME NEW t \in Tasks, HandlerStep(t) \/ BrokerStep(t) PROVE P
  BY <1>23, <1>7, <1>8, <1>9, <1>11, <1>14 DEF HandlerStep
<1>24. ASSUME EngineNext PROVE P
  BY <1>24, <1>22, <1>23, <1>17, <1>18 DEF EngineNext
<1> QED BY <1>21, <1>24 DEF P

\* The open trades and the entries at the broker never number more than
\* MAX_OPEN_TRADES plus the other tasks.
THEOREM OpenTradesBounded == EngineSpec => []OpenTradesBound
<1>1. EngineInit => OpenTradesBound
  <2> SUFFICES ASSUME EngineInit PROVE OpenTradesBound
    OBVIOUS
  <2>1. Open = {} /\ Placing = {}
    BY DEF EngineInit, Open, Placing
  <2> QED BY <2>1, FS_EmptySet, TasksCounted, MaxOpenTradesAssumption DEF OpenTradesBound
<1> QED BY <1>1, BoundStep, EngineInvariant, PTL DEF EngineSpec
-----------------------------------------------------------------------------
(* SimulationBroker never suspends: nothing comes between check and entry. *)

\* No handler waits for a broker.
NobodyWaits == \A t \in Tasks : call[t] = "none"

LEMMA SimulatedStep ==
  ASSUME Simulated, EngineInv, NobodyWaits, [EngineNext]_vars
  PROVE  /\ NobodyWaits'
         /\ \/ Open' \subseteq Open
            \/ \E s \in Symbols : MayOpen(s) /\ Open' = Open \cup {s}
<1> DEFINE P == /\ NobodyWaits'
                /\ \/ Open' \subseteq Open
                   \/ \E s \in Symbols : MayOpen(s) /\ Open' = Open \cup {s}
<1>0. /\ openTrades \in [Symbols -> Entries \cup {None}]
      /\ call \in [Tasks -> Replies \cup {"none", "sent"}]
      /\ HandlerInv
  BY EngineTypes DEF EngineInv, BookTyped, HandlersTyped
<1>k. UNCHANGED <<openTrades, call>> => P
  BY DEF Open, NobodyWaits
<1>f. ASSUME NEW t \in Tasks, NEW w, NEW a, openTrades' = openTrades, Suspend(t, w, a, "none")
      PROVE  P
  BY <1>0, <1>f DEF Open, NobodyWaits, Suspend
<1> HIDE DEF P
<1>1. ASSUME NEW t \in Tasks, NEW s \in Symbols, SignalArrives(t, s) PROVE P
  <2>1. ASSUME NEW a \in Entries, SimulateEntry(t, s, a) PROVE P
    <3>1. Open' = Open \cup {s}
      BY <1>0, <2>1, NoActionIsNone DEF SimulateEntry, RecordEntry, Open
    <3>2. NobodyWaits'
      BY <1>0, <2>1 DEF SimulateEntry, Suspend, NobodyWaits
    <3> QED BY <2>1, <3>1, <3>2 DEF SimulateEntry, P
  <2>2. ASSUME SimulateClose(t, s) PROVE P
    BY <1>0, <2>2 DEF SimulateClose, Suspend, RecordClose, NobodyWaits, Open, P
  <2>3. ASSUME SkipBody(t, s) \/ DropSignal(t, s) PROVE P
    BY <1>k, <2>3 DEF SkipBody, DropSignal, engineVars, bookVars, handlerVars
  <2> QED BY <1>1, <2>1, <2>2, <2>3 DEF SignalArrives, StartEntry, StartClose
<1>2. ASSUME NEW t \in Tasks, HandlerStep(t) \/ BrokerStep(t) PROVE P
  <2>1. call[t] = "none"
    BY DEF NobodyWaits
  <2>2. LogReturns(t) \/ LogRaises(t) \/ AlertReturns(t) \/ HandlerLeaves(t)
    BY <1>2, <2>1 DEF HandlerStep, BrokerStep, EntryConfirmed, CloseConfirmed,
       CloseRaisesKeyError, OrderFails, BrokerFills, BrokerRefuses, Succeeds
  <2>3. CASE LogReturns(t)
    BY <2>3, <1>f DEF LogReturns, Finish, bookVars
  <2>4. CASE LogRaises(t) \/ AlertReturns(t)
    BY <2>4, <1>f DEF LogRaises, AlertReturns, Finish, bookVars
  <2>5. CASE HandlerLeaves(t)
    BY <2>5, <1>k DEF HandlerLeaves, engineVars, bookVars, handlerVars
  <2> QED BY <2>2, <2>3, <2>4, <2>5
<1>3. ASSUME NEW k \in Tokens, WatchdogReleases(k) PROVE P
  BY <1>3, <1>k DEF WatchdogReleases, engineVars, bookVars, handlerVars
<1>4. ASSUME TimePasses \/ Pause \/ Resume PROVE P
  BY <1>4, <1>k DEF TimePasses, Pause, Resume, bookVars, handlerVars
<1>5. ASSUME UNCHANGED vars PROVE P
  BY <1>5, <1>k DEF vars, engineVars, bookVars, handlerVars
<1>6. P
  BY <1>1, <1>2, <1>3, <1>4, <1>5 DEF EngineNext
<1> QED BY <1>6 DEF P

\* With the simulation broker MAX_OPEN_TRADES is the maximum of open trades,
\* however many tasks share the symbols.
THEOREM SimulationRespectsLimit ==
  ASSUME Simulated PROVE EngineSpec => []MaxOpenTradesRespected
<1> DEFINE I == MaxOpenTradesRespected /\ NobodyWaits
<1>1. EngineInit => I
  <2> SUFFICES ASSUME EngineInit PROVE I
    OBVIOUS
  <2>1. Open = {}
    BY DEF EngineInit, Open
  <2> QED BY <2>1, FS_EmptySet, MaxOpenTradesAssumption
          DEF EngineInit, MaxOpenTradesRespected, NobodyWaits
<1>2. EngineInv /\ I /\ [EngineNext]_vars => I'
  <2> SUFFICES ASSUME EngineInv, I, [EngineNext]_vars PROVE I'
    OBVIOUS
  <2>1. IsFiniteSet(Open) /\ Cardinality(Open) \in Nat /\ Cardinality(Open') \in Nat
    BY SubsetsOf, FiniteSets
  <2>2. CASE Open' \subseteq Open
    <3>1. Cardinality(Open') \leq Cardinality(Open)
      BY <2>1, <2>2, FS_Subset
    <3> QED BY <2>1, <3>1, SimulatedStep, MaxOpenTradesAssumption DEF MaxOpenTradesRespected
  <2>3. ASSUME NEW s \in Symbols, MayOpen(s), Open' = Open \cup {s} PROVE I'
    <3>1. Cardinality(Open') = Cardinality(Open) + 1
      BY <2>1, <2>3, FS_AddElement DEF MayOpen
    <3> QED BY <2>1, <2>3, <3>1, SimulatedStep, MaxOpenTradesAssumption
            DEF MayOpen, MaxOpenTradesRespected
  <2> QED BY <2>2, <2>3, SimulatedStep
<1> QED BY <1>1, <1>2, EngineInvariant, PTL DEF EngineSpec

\* With the simulation broker the book and the position move together: no
\* step changes one of them alone.
LEMMA SimulatedBook ==
  ASSUME Simulated, EngineInv, NobodyWaits, [EngineNext]_vars
  PROVE  \/ UNCHANGED <<openTrades, position>>
         \/ \E s \in Symbols, a \in Entries \cup {None} :
              /\ openTrades' = [openTrades EXCEPT ![s] = a]
              /\ position' = [position EXCEPT ![s] = Side(a)]
<1> DEFINE P == \/ UNCHANGED <<openTrades, position>>
                \/ \E s \in Symbols, a \in Entries \cup {None} :
                     /\ openTrades' = [openTrades EXCEPT ![s] = a]
                     /\ position' = [position EXCEPT ![s] = Side(a)]
<1>k. UNCHANGED <<openTrades, position>> => P
  OBVIOUS
<1> HIDE DEF P
<1>1. ASSUME NEW t \in Tasks, NEW s \in Symbols, SignalArrives(t, s) PROVE P
  <2>1. ASSUME NEW a \in Entries, SimulateEntry(t, s, a) PROVE P
    BY <2>1 DEF SimulateEntry, RecordEntry, P
  <2>2. ASSUME SimulateClose(t, s) PROVE P
    <3>1. Side(None) = 0
      BY NoActionIsNone DEF Side, Entries
    <3> QED BY <2>2, <3>1 DEF SimulateClose, RecordClose, P
  <2>3. ASSUME SkipBody(t, s) \/ DropSignal(t, s) PROVE P
    BY <1>k, <2>3 DEF SkipBody, DropSignal, engineVars, bookVars
  <2> QED BY <1>1, <2>1, <2>2, <2>3 DEF SignalArrives, StartEntry, StartClose
<1>2. ASSUME NEW t \in Tasks, HandlerStep(t) \/ BrokerStep(t) PROVE P
  <2>1. call[t] = "none"
    BY DEF NobodyWaits
  <2>2. LogReturns(t) \/ LogRaises(t) \/ AlertReturns(t) \/ HandlerLeaves(t)
    BY <1>2, <2>1 DEF HandlerStep, BrokerStep, EntryConfirmed, CloseConfirmed,
       CloseRaisesKeyError, OrderFails, BrokerFills, BrokerRefuses, Succeeds
  <2> QED BY <1>k, <2>2 DEF LogReturns, LogRaises, AlertReturns, HandlerLeaves, engineVars, bookVars
<1>3. ASSUME NEW k \in Tokens, WatchdogReleases(k) PROVE P
  BY <1>3, <1>k DEF WatchdogReleases, engineVars, bookVars
<1>4. ASSUME TimePasses \/ Pause \/ Resume PROVE P
  BY <1>4, <1>k DEF TimePasses, Pause, Resume, bookVars
<1>5. ASSUME UNCHANGED vars PROVE P
  BY <1>5, <1>k DEF vars, engineVars, bookVars
<1>6. P
  BY <1>1, <1>2, <1>3, <1>4, <1>5 DEF EngineNext
<1> QED BY <1>6 DEF P

\* The simulated position is what the book says, however many tasks share the
\* symbols and whichever rows are lost.
THEOREM SimulationMatchesBroker ==
  ASSUME Simulated PROVE EngineSpec => []BookMatchesBroker
<1> DEFINE Agree == \A s \in Symbols : position[s] = Side(openTrades[s])
           I == NobodyWaits /\ Agree
<1>1. EngineInit => I
  BY NoActionIsNone DEF EngineInit, NobodyWaits, Side, Entries
<1>2. EngineInv /\ I /\ [EngineNext]_vars => I'
  <2> SUFFICES ASSUME EngineInv, I, [EngineNext]_vars PROVE I'
    OBVIOUS
  <2>1. NobodyWaits'
    BY SimulatedStep
  <2>2. openTrades \in [Symbols -> Entries \cup {None}] /\ DOMAIN position = Symbols
    BY EngineTypes DEF EngineInv, BookTyped, EngineTypeOK
  <2>3. Agree'
    <3>1. CASE UNCHANGED <<openTrades, position>>
      BY <3>1
    <3>2. ASSUME NEW s \in Symbols, NEW a \in Entries \cup {None},
                 openTrades' = [openTrades EXCEPT ![s] = a],
                 position' = [position EXCEPT ![s] = Side(a)]
          PROVE  Agree'
      BY <2>2, <3>2
    <3> QED BY <3>1, <3>2, SimulatedBook
  <2> QED BY <2>1, <2>3
<1>3. I => BookMatchesBroker
  BY DEF BookMatchesBroker
<1> QED BY <1>1, <1>2, <1>3, EngineInvariant, PTL DEF EngineSpec
=============================================================================
