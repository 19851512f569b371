--------------------------- MODULE BotLockProofs ---------------------------
(***************************************************************************)
(* Proofs about BotLock, for every set of symbols, tasks and tokens and    *)
(* every timeout.  The inductive invariant is TypeOK /\ LockInv.           *)
(***************************************************************************)
EXTENDS BotLock, TLAPS

\* The next-state relation, one disjunct per operation.
LEMMA LockNextCases ==
  ASSUME LockNext, NEW P,
         ASSUME NEW t \in Tasks, NEW s \in Symbols, Acquire(t, s) PROVE P,
         ASSUME NEW t \in Tasks, NEW s \in Symbols, AcquireAndReturn(t, s) PROVE P,
         ASSUME NEW t \in Tasks, NEW s \in Symbols, Drop(t, s) PROVE P,
         ASSUME NEW t \in Tasks, CancelWatchdog(t) PROVE P,
         ASSUME NEW t \in Tasks, LeaveLate(t) PROVE P,
         ASSUME NEW t \in Tasks, FinishLeave(t) PROVE P,
         ASSUME NEW k \in Tokens, WatchdogFires(k) PROVE P,
         ASSUME LockTick PROVE P
  PROVE  P
BY DEF LockNext, Leave

\* One step keeps the type of every variable of the lock.
LEMMA LockTypeStep ==
  ASSUME TypeOK, [LockNext]_lockVars
  PROVE  TypeOK'
<1> USE NoneAssumption, LockTimeoutAssumption, MaxDroppedAssumption DEF TypeOK, Stages
<1>1. ASSUME NEW t \in Tasks, NEW s \in Symbols, Acquire(t, s) PROVE TypeOK'
  BY <1>1 DEF Acquire, TakeLock, FreshTokens
<1>2. ASSUME NEW t \in Tasks, NEW s \in Symbols, AcquireAndReturn(t, s) PROVE TypeOK'
  BY <1>2 DEF AcquireAndReturn, TakeLock, FreshTokens
<1>3. ASSUME NEW t \in Tasks, NEW s \in Symbols, Drop(t, s) PROVE TypeOK'
  BY <1>3 DEF Drop
<1>4. ASSUME NEW t \in Tasks, CancelWatchdog(t) PROVE TypeOK'
  <2>1. watching' \in [Tokens -> Symbols \cup {None}]
    BY <1>4 DEF CancelWatchdog
  <2>2. left' \in [Tokens -> 0..LockTimeout]
    <3>1. left' = [k \in Tokens |-> IF k = token[t] THEN 0 ELSE left[k]]
      BY <1>4 DEF CancelWatchdog
    <3>2. 0 \in 0..LockTimeout
      OBVIOUS
    <3>3. \A k \in Tokens : left[k] \in 0..LockTimeout
      OBVIOUS
    <3> QED BY <3>1, <3>2, <3>3, Zenon
  <2>3. stage' \in [Tasks -> Stages]
    BY <1>4 DEF CancelWatchdog
  <2> QED BY <1>4, <2>1, <2>2, <2>3 DEF CancelWatchdog
<1>5. ASSUME NEW t \in Tasks, LeaveLate(t) PROVE TypeOK'
  <2>1. locked' \in [Symbols -> BOOLEAN]
    BY <1>5 DEF LeaveLate, ReleaseIfHolder
  <2>2. holder' \in [Symbols -> Tokens \cup {None}]
    BY <1>5 DEF LeaveLate, ReleaseIfHolder
  <2> QED BY <1>5, <2>1, <2>2 DEF LeaveLate, ForgetFrame
<1>6. ASSUME NEW t \in Tasks, FinishLeave(t) PROVE TypeOK'
  BY <1>6 DEF FinishLeave, ReleaseIfHolder, ForgetFrame
<1>7. ASSUME NEW k \in Tokens, WatchdogFires(k) PROVE TypeOK'
  BY <1>7 DEF WatchdogFires, ReleaseIfHolder
<1>8. CASE LockTick
  BY <1>8 DEF LockTick, AgeWatchdogs
<1>9. CASE UNCHANGED lockVars
  BY <1>9 DEF lockVars
<1>10. CASE LockNext
  BY <1>10, <1>1, <1>2, <1>3, <1>4, <1>5, <1>6, <1>7, <1>8, LockNextCases
<1> QED BY <1>9, <1>10

LEMMA LockInitTyped == LockInit => TypeOK
BY MaxDroppedAssumption, LockTimeoutAssumption DEF LockInit, TypeOK, Stages

\* Every variable of the lock keeps its type.
THEOREM LockTypeCorrect == LockSpec => []TypeOK
BY LockInitTyped, LockTypeStep, PTL DEF LockSpec

\* One step preserves the match of the dictionaries and the frames.
LEMMA LockInvStep ==
  ASSUME TypeOK, LockInv, [LockNext]_lockVars
  PROVE  LockInv'
<1> USE NoneAssumption
<1> USE DEF TypeOK, Stages, LockInv, FlagMatchesHolder, FramesLive, TokensUnique,
            WatchdogsOwned, HoldersHaveLease, LeasesHeld, LeavingUnwatched, HasLease
<1>1. ASSUME NEW t \in Tasks, NEW s \in Symbols, Acquire(t, s) PROVE LockInv'
  BY <1>1 DEF Acquire, TakeLock, FreshTokens
<1>2. ASSUME NEW t \in Tasks, NEW s \in Symbols, AcquireAndReturn(t, s) PROVE LockInv'
  BY <1>2 DEF AcquireAndReturn, TakeLock, FreshTokens
<1>3. ASSUME NEW t \in Tasks, NEW s \in Symbols, Drop(t, s) PROVE LockInv'
  BY <1>3 DEF Drop
<1>4. ASSUME NEW t \in Tasks, CancelWatchdog(t) PROVE LockInv'
  BY <1>4 DEF CancelWatchdog
<1>5. ASSUME NEW t \in Tasks, LeaveLate(t) PROVE LockInv'
  BY <1>5 DEF LeaveLate, ReleaseIfHolder, ForgetFrame
<1>6. ASSUME NEW t \in Tasks, FinishLeave(t) PROVE LockInv'
  BY <1>6 DEF FinishLeave, ReleaseIfHolder, ForgetFrame
<1>7. ASSUME NEW k \in Tokens, WatchdogFires(k) PROVE LockInv'
  BY <1>7 DEF WatchdogFires, ReleaseIfHolder
<1>8. CASE LockTick
  BY <1>8 DEF LockTick, AgeWatchdogs
<1>9. CASE UNCHANGED lockVars
  BY <1>9 DEF lockVars
<1>10. CASE LockNext
  BY <1>10, <1>1, <1>2, <1>3, <1>4, <1>5, <1>6, <1>7, <1>8, LockNextCases
<1> QED BY <1>9, <1>10
LEMMA LockInitInv == LockInit => LockInv
BY NoneAssumption DEF LockInit, LockInv, FlagMatchesHolder, FramesLive, TokensUnique,
   WatchdogsOwned, HoldersHaveLease, LeasesHeld, LeavingUnwatched, HasLease

\* The inductive invariant: the dictionaries of the lock match the frames.
THEOREM LockInvariant == LockSpec => [](TypeOK /\ LockInv)
BY LockInitInv, LockInvStep, LockTypeCorrect, PTL DEF LockSpec

LEMMA LeasesAreExclusive == LockInv /\ TypeOK => LeaseExclusive
BY NoneAssumption DEF LeaseExclusive, LockInv, LeasesHeld, TokensUnique, FramesLive,
   HasLease, TypeOK

\* The lease of a symbol belongs to at most one body.
THEOREM LeaseIsExclusive == LockSpec => []LeaseExclusive
BY LockInvariant, LeasesAreExclusive, PTL

\* No step but the holder's own exit or its own watchdog changes a holder.
THEOREM OnlyHolderFreesLock == LockSpec => OnlyHolderFrees
<1> DEFINE A == \A s \in Symbols : (holder[s] # None /\ holder'[s] # holder[s]) =>
      /\ holder'[s] = None
      /\ ~locked'[s]
      /\ \/ \E t \in Tasks : /\ token[t] = holder[s]
                             /\ stage[t] = "leaving"
                             /\ stage'[t] = "out"
         \/ watching[holder[s]] = s /\ left[holder[s]] = 0
<1>1. ASSUME TypeOK, LockInv, [LockNext]_lockVars PROVE A
  <2> USE NoneAssumption, <1>1
  <2> USE DEF TypeOK, LockInv, FlagMatchesHolder
  <2>1. ASSUME NEW t \in Tasks, NEW s \in Symbols, Acquire(t, s) PROVE A
    BY <2>1 DEF Acquire, TakeLock
  <2>2. ASSUME NEW t \in Tasks, NEW s \in Symbols, AcquireAndReturn(t, s) PROVE A
    BY <2>2 DEF AcquireAndReturn, TakeLock
  <2>3. ASSUME NEW t \in Tasks, NEW s \in Symbols, Drop(t, s) PROVE A
    BY <2>3 DEF Drop
  <2>4. ASSUME NEW t \in Tasks, CancelWatchdog(t) PROVE A
    BY <2>4 DEF CancelWatchdog
  <2>5. ASSUME NEW t \in Tasks, LeaveLate(t) PROVE A
    BY <2>5 DEF LeaveLate, ReleaseIfHolder, HoldersHaveLease, HasLease, TokensUnique,
       FramesLive
  <2>6. ASSUME NEW t \in Tasks, FinishLeave(t) PROVE A
    BY <2>6 DEF FinishLeave, ReleaseIfHolder, ForgetFrame
  <2>7. ASSUME NEW k \in Tokens, WatchdogFires(k) PROVE A
    BY <2>7 DEF WatchdogFires, ReleaseIfHolder
  <2>8. CASE LockTick
    BY <2>8 DEF LockTick
  <2>9. CASE UNCHANGED lockVars
    BY <2>9 DEF lockVars
  <2>10. CASE LockNext
    BY <2>10, <2>1, <2>2, <2>3, <2>4, <2>5, <2>6, <2>7, <2>8, LockNextCases
  <2> QED BY <2>9, <2>10
<1> QED BY <1>1, LockInvariant, PTL DEF LockSpec, OnlyHolderFrees
-----------------------------------------------------------------------------
(* BotLock implements LeaseLock.  The bodies with a valid lease of a       *)
(* symbol are the abstract owner, or nobody.                               *)

Lessees(s) == {t \in Tasks : HasLease(t) /\ sym[t] = s}

\* The owner of the refinement mapping, without CHOOSE.
OwnerIsLessee(own, lessees) == \/ own = None /\ lessees = {}
                               \/ own \in Tasks /\ lessees = {own}

LEMMA OwnerUnique ==
  ASSUME NEW own1, NEW own2, NEW lessees,
         OwnerIsLessee(own1, lessees), OwnerIsLessee(own2, lessees)
  PROVE  own1 = own2
BY NoneAssumption DEF OwnerIsLessee

LEMMA OwnerOfLessees ==
  ASSUME TypeOK, LockInv, NEW s \in Symbols
  PROVE  OwnerIsLessee(OwnerOf(s), Lessees(s))
<1> USE NoneAssumption DEF OwnerIsLessee, Lessees, LockInv, TypeOK
<1>1. CASE holder[s] = None
  BY <1>1 DEF OwnerOf, LeasesHeld, FramesLive, HasLease
<1>2. CASE holder[s] # None
  <2>1. PICK t \in Tasks : token[t] = holder[s] /\ sym[t] = s /\ HasLease(t)
    BY <1>2 DEF HoldersHaveLease
  <2>2. \A u \in Tasks : token[u] = holder[s] => u = t
    BY <1>2, <2>1 DEF TokensUnique
  <2>3. OwnerOf(s) = t
    BY <1>2, <2>1, <2>2 DEF OwnerOf
  <2>4. \A u \in Tasks : HasLease(u) /\ sym[u] = s => u = t
    BY <2>1, <2>2 DEF LeasesHeld
  <2> QED BY <2>1, <2>3, <2>4
<1> QED BY <1>1, <1>2

LEMMA OwnerOfLesseesNext ==
  ASSUME TypeOK', LockInv', NEW s \in Symbols
  PROVE  OwnerIsLessee(OwnerOf(s)', Lessees(s)')
<1> USE NoneAssumption DEF OwnerIsLessee, Lessees, LockInv, TypeOK
<1>1. CASE holder'[s] = None
  BY <1>1 DEF OwnerOf, LeasesHeld, FramesLive, HasLease
<1>2. CASE holder'[s] # None
  <2>1. PICK t \in Tasks : token'[t] = holder'[s] /\ sym'[t] = s /\ HasLease(t)'
    BY <1>2 DEF HoldersHaveLease
  <2>2. \A u \in Tasks : token'[u] = holder'[s] => u = t
    BY <1>2, <2>1 DEF TokensUnique
  <2>3. OwnerOf(s)' = t
    BY <1>2, <2>1, <2>2 DEF OwnerOf
  <2>4. \A u \in Tasks : HasLease(u)' /\ sym'[u] = s => u = t
    BY <2>1, <2>2 DEF LeasesHeld
  <2> QED BY <2>1, <2>3, <2>4
<1> QED BY <1>1, <1>2

\* A step that moves no lease and no guest is a stutter of the lease lock.
LEMMA LeaseStutters ==
  ASSUME TypeOK, LockInv, TypeOK', LockInv',
         \A s \in Symbols : Lessees(s)' = Lessees(s) /\ GuestsOf(s)' = GuestsOf(s)
  PROVE  UNCHANGED Lease!leaseVars
<1>1. \A s \in Symbols : OwnerOf(s)' = OwnerOf(s)
  BY OwnerOfLessees, OwnerOfLesseesNext DEF OwnerIsLessee
<1> QED BY <1>1 DEF Lease!leaseVars
\* Every step of the lock is a step of the lease lock, or a stutter.
LEMMA LeaseStep ==
  ASSUME TypeOK, LockInv, TypeOK', LockInv', [LockNext]_lockVars
  PROVE  [Lease!LeaseNext]_(Lease!leaseVars)
<1> USE NoneAssumption
<1> DEFINE Moved == [Lease!LeaseNext]_(Lease!leaseVars)
<1>0. \A s \in Symbols : /\ OwnerIsLessee(OwnerOf(s), Lessees(s))
                         /\ OwnerIsLessee(OwnerOf(s)', Lessees(s)')
  BY OwnerOfLessees, OwnerOfLesseesNext
<1>s. (\A s \in Symbols : Lessees(s)' = Lessees(s) /\ GuestsOf(s)' = GuestsOf(s)) => Moved
  BY LeaseStutters
<1>g. ASSUME NEW t \in Tasks, NEW s \in Symbols,
             stage[t] = "out", Lessees(s) = {}, Lessees(s)' = {t},
             \A x \in Symbols \ {s} : Lessees(x)' = Lessees(x),
             \A x \in Symbols : GuestsOf(x)' = GuestsOf(x)
      PROVE  Moved
  <2>1. \A x \in Symbols : t \notin Lessees(x) /\ t \notin GuestsOf(x)
    BY <1>g DEF Lessees, GuestsOf
  <2>2. OwnerOf(s) = None /\ OwnerOf(s)' = t
    BY <1>g, <1>0 DEF OwnerIsLessee
  <2>3. \A x \in Symbols \ {s} : OwnerOf(x)' = OwnerOf(x)
    BY <1>g, <1>0, OwnerUnique
  <2>4. \A x \in Symbols : OwnerOf(x) # t
    BY <2>1, <1>0 DEF OwnerIsLessee
  <2>5. Lease!Grant(t, s)
    BY <1>g, <2>1, <2>2, <2>3, <2>4 DEF Lease!Grant, Lease!Inside
  <2> QED BY <2>5 DEF Lease!LeaseNext
<1>1. ASSUME NEW t \in Tasks, NEW s \in Symbols, Acquire(t, s) PROVE Moved
  <2>1. stage[t] = "out" /\ holder[s] = None
    BY <1>1 DEF Acquire, TakeLock, FreshTokens, TypeOK, Stages, LockInv, FlagMatchesHolder
  <2>2. Lessees(s) = {}
    BY <2>1 DEF Lessees, HasLease, TypeOK, LockInv, LeasesHeld, FramesLive
  <2>3. \A u \in Tasks \ {t}, x \in Symbols :
           /\ u \in Lessees(x)' <=> u \in Lessees(x)
           /\ u \in GuestsOf(x)' <=> u \in GuestsOf(x)
    BY <1>1 DEF Acquire, TakeLock, FreshTokens, TypeOK, Stages, HasLease, Lessees, GuestsOf, LockInv, FramesLive
  <2>4. \A x \in Symbols : /\ t \notin Lessees(x) /\ t \notin GuestsOf(x)
                           /\ t \in Lessees(x)' <=> x = s
                           /\ t \notin GuestsOf(x)'
    BY <1>1, <2>1 DEF Acquire, TakeLock, FreshTokens, TypeOK, Stages, HasLease, Lessees, GuestsOf
  <2>5. \A x \in Symbols : /\ Lessees(x) \subseteq Tasks /\ Lessees(x)' \subseteq Tasks
                           /\ GuestsOf(x) \subseteq Tasks /\ GuestsOf(x)' \subseteq Tasks
    BY DEF Lessees, GuestsOf
  <2>6. Lessees(s)' = {t} /\ \A x \in Symbols \ {s} : Lessees(x)' = Lessees(x)
    BY <2>2, <2>3, <2>4, <2>5
  <2>7. \A x \in Symbols : GuestsOf(x)' = GuestsOf(x)
    BY <2>3, <2>4, <2>5
  <2> QED BY <1>g, <2>1, <2>2, <2>6, <2>7
<1>2. ASSUME NEW t \in Tasks, NEW s \in Symbols, AcquireAndReturn(t, s) PROVE Moved
  <2>1. stage[t] = "out" /\ holder[s] = None
    BY <1>2 DEF AcquireAndReturn, TakeLock, FreshTokens, TypeOK, Stages, LockInv, FlagMatchesHolder
  <2>2. Lessees(s) = {}
    BY <2>1 DEF Lessees, HasLease, TypeOK, LockInv, LeasesHeld, FramesLive
  <2>3. \A u \in Tasks \ {t}, x \in Symbols :
           /\ u \in Lessees(x)' <=> u \in Lessees(x)
           /\ u \in GuestsOf(x)' <=> u \in GuestsOf(x)
    BY <1>2 DEF AcquireAndReturn, TakeLock, FreshTokens, TypeOK, Stages, HasLease, Lessees, GuestsOf, LockInv, FramesLive
  <2>4. \A x \in Symbols : /\ t \notin Lessees(x) /\ t \notin GuestsOf(x)
                           /\ t \in Lessees(x)' <=> x = s
                           /\ t \notin GuestsOf(x)'
    BY <1>2, <2>1 DEF AcquireAndReturn, TakeLock, FreshTokens, TypeOK, Stages, HasLease, Lessees, GuestsOf
  <2>5. \A x \in Symbols : /\ Lessees(x) \subseteq Tasks /\ Lessees(x)' \subseteq Tasks
                           /\ GuestsOf(x) \subseteq Tasks /\ GuestsOf(x)' \subseteq Tasks
    BY DEF Lessees, GuestsOf
  <2>6. Lessees(s)' = {t} /\ \A x \in Symbols \ {s} : Lessees(x)' = Lessees(x)
    BY <2>2, <2>3, <2>4, <2>5
  <2>7. \A x \in Symbols : GuestsOf(x)' = GuestsOf(x)
    BY <2>3, <2>4, <2>5
  <2> QED BY <1>g, <2>1, <2>2, <2>6, <2>7
<1>3. ASSUME NEW t \in Tasks, NEW s \in Symbols, Drop(t, s) PROVE Moved
  BY <1>3, <1>s DEF Drop, HasLease, Lessees, GuestsOf
<1>4. ASSUME NEW t \in Tasks, CancelWatchdog(t) PROVE Moved
  <2>1. HasLease(t) /\ HasLease(t)'
    BY <1>4 DEF CancelWatchdog, HasLease, TypeOK, Stages, LockInv, WatchdogsOwned, TokensUnique, FramesLive
  <2>2. \A u \in Tasks \ {t} : HasLease(u)' <=> HasLease(u)
    BY <1>4 DEF CancelWatchdog, HasLease, TypeOK, Stages, LockInv, TokensUnique, FramesLive
  <2>3. \A u \in Tasks : HasLease(u)' <=> HasLease(u)
    BY <2>1, <2>2
  <2>4. sym' = sym /\ \A u \in Tasks : ~HasLease(u) => stage'[u] = stage[u]
    BY <1>4, <2>1 DEF CancelWatchdog, HasLease, TypeOK, Stages
  <2>5. \A s \in Symbols : Lessees(s)' = Lessees(s)
    BY <2>3, <2>4 DEF Lessees
  <2>6. \A s \in Symbols : GuestsOf(s)' = GuestsOf(s)
    BY <2>3, <2>4, Zenon DEF GuestsOf
  <2> QED BY <2>5, <2>6, <1>s
<1>5. ASSUME NEW t \in Tasks, LeaveLate(t) PROVE Moved
  <2>0. PICK s \in Symbols : s = sym[t]
    BY <1>5 DEF LeaveLate, HasLease, TypeOK, Stages, LockInv, FramesLive
  <2>1. ~HasLease(t) /\ t \in GuestsOf(s)
    BY <1>5, <2>0 DEF LeaveLate, HasLease, TypeOK, Stages, GuestsOf, LockInv, FramesLive
  <2>2. \A u \in Tasks \ {t} : /\ HasLease(u)' <=> HasLease(u)
                               /\ stage'[u] = stage[u] /\ sym'[u] = sym[u]
    BY <1>5 DEF LeaveLate, HasLease, TypeOK, Stages, ForgetFrame
  <2>3. ~HasLease(t)' /\ stage'[t] = "out"
    BY <1>5 DEF LeaveLate, HasLease, TypeOK, Stages, ForgetFrame
  <2>4. \A x \in Symbols : Lessees(x)' = Lessees(x)
    BY <2>1, <2>2, <2>3 DEF Lessees
  <2>5. GuestsOf(s)' = GuestsOf(s) \ {t}
    BY <2>1, <2>2, <2>3 DEF GuestsOf
  <2>6. \A x \in Symbols \ {s} : GuestsOf(x)' = GuestsOf(x)
    BY <2>0, <2>1, <2>2, <2>3 DEF GuestsOf
  <2>7. \A x \in Symbols : OwnerOf(x)' = OwnerOf(x)
    BY <2>4, <1>0, OwnerUnique
  <2>8. Lease!Depart(t, s)
    BY <2>1, <2>5, <2>6, <2>7 DEF Lease!Depart
  <2> QED BY <2>1, <2>8 DEF Lease!LeaseNext
<1>6. ASSUME NEW t \in Tasks, FinishLeave(t) PROVE Moved
  <2>0. PICK s \in Symbols : s = sym[t]
    BY <1>6 DEF FinishLeave, HasLease, TypeOK, Stages, LockInv, FramesLive
  <2>1. HasLease(t) /\ t \in Lessees(s)
    BY <1>6, <2>0 DEF FinishLeave, HasLease, TypeOK, Stages, Lessees, LockInv, FramesLive
  <2>2. \A u \in Tasks \ {t} : /\ HasLease(u)' <=> HasLease(u)
                               /\ stage'[u] = stage[u] /\ sym'[u] = sym[u]
    BY <1>6 DEF FinishLeave, HasLease, TypeOK, Stages, ForgetFrame
  <2>3. ~HasLease(t)' /\ stage'[t] = "out" /\ stage[t] = "leaving"
    BY <1>6 DEF FinishLeave, HasLease, TypeOK, Stages, ForgetFrame
  <2>4. OwnerOf(s) = t /\ Lessees(s) = {t}
    BY <2>1, <1>0 DEF OwnerIsLessee
  <2>5. Lessees(s)' = {}
    BY <2>2, <2>3, <2>4 DEF Lessees
  <2>6. \A x \in Symbols \ {s} : Lessees(x)' = Lessees(x)
    BY <2>0, <2>2, <2>3 DEF Lessees
  <2>7. \A x \in Symbols : GuestsOf(x)' = GuestsOf(x)
    BY <2>2, <2>3 DEF GuestsOf
  <2>8. OwnerOf(s)' = None /\ \A x \in Symbols \ {s} : OwnerOf(x)' = OwnerOf(x)
    BY <2>5, <2>6, <2>1, <1>0, OwnerUnique DEF OwnerIsLessee
  <2>9. Lease!Release(s)
    BY <2>1, <2>4, <2>7, <2>8 DEF Lease!Release
  <2> QED BY <2>1, <2>9 DEF Lease!LeaseNext
<1>7. ASSUME NEW k \in Tokens, WatchdogFires(k) PROVE Moved
  <2>0. PICK s \in Symbols : s = watching[k]
    BY <1>7 DEF WatchdogFires, HasLease, TypeOK, Stages
  <2>1. PICK t \in Tasks : stage[t] = "body" /\ token[t] = k /\ sym[t] = s
    BY <1>7, <2>0 DEF WatchdogFires, HasLease, TypeOK, Stages, LockInv, WatchdogsOwned
  <2>2. HasLease(t) /\ ~HasLease(t)'
    BY <1>7, <2>0, <2>1 DEF WatchdogFires, HasLease, TypeOK, Stages
  <2>3. \A u \in Tasks \ {t} : HasLease(u)' <=> HasLease(u)
    BY <1>7, <2>1 DEF WatchdogFires, HasLease, TypeOK, Stages, LockInv, TokensUnique, FramesLive
  <2>4. UNCHANGED <<stage, sym>>
    BY <1>7 DEF WatchdogFires, HasLease, TypeOK, Stages
  <2>5. OwnerOf(s) = t /\ Lessees(s) = {t}
    BY <2>1, <2>2, <1>0 DEF OwnerIsLessee, Lessees
  <2>6. Lessees(s)' = {}
    BY <2>2, <2>3, <2>4, <2>5 DEF Lessees
  <2>7. \A x \in Symbols \ {s} : Lessees(x)' = Lessees(x)
    BY <2>1, <2>2, <2>3, <2>4 DEF Lessees
  <2>8. GuestsOf(s)' = GuestsOf(s) \cup {t}
    BY <2>1, <2>2, <2>3, <2>4 DEF GuestsOf
  <2>9. \A x \in Symbols \ {s} : GuestsOf(x)' = GuestsOf(x)
    BY <2>1, <2>2, <2>3, <2>4 DEF GuestsOf
  <2>10. OwnerOf(s)' = None /\ \A x \in Symbols \ {s} : OwnerOf(x)' = OwnerOf(x)
    BY <2>6, <2>7, <2>2, <1>0, OwnerUnique DEF OwnerIsLessee
  <2>11. Lease!Revoke(s)
    BY <2>2, <2>5, <2>8, <2>9, <2>10 DEF Lease!Revoke
  <2> QED BY <2>2, <2>11 DEF Lease!LeaseNext
<1>8. CASE LockTick
  BY <1>8, <1>s DEF LockTick, HasLease, Lessees, GuestsOf
<1>9. CASE UNCHANGED lockVars
  BY <1>9, <1>s DEF lockVars, HasLease, Lessees, GuestsOf
<1>10. CASE LockNext
  BY <1>10, <1>1, <1>2, <1>3, <1>4, <1>5, <1>6, <1>7, <1>8, LockNextCases
<1> QED BY <1>9, <1>10

\* The lock implements the lease lock.
THEOREM LockImplementsLeaseLock == LockSpec => ImplementsLeaseLock
<1>1. LockInit => Lease!LeaseInit
  BY DEF LockInit, Lease!LeaseInit, OwnerOf, GuestsOf
<1> QED
  BY <1>1, LeaseStep, LockInvariant, PTL DEF LockSpec, ImplementsLeaseLock, Lease!LeaseSpec
=============================================================================
