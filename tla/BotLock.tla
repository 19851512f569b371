------------------------------ MODULE BotLock ------------------------------
(***************************************************************************)
(* src/middleware/botlock.py: the per-symbol asyncio lock that drops a     *)
(* signal when the symbol is busy, and the watchdog task that frees a lock *)
(* held for too long.                                                      *)
(*                                                                         *)
(* Everything runs on one event loop, so an action is the code between two *)
(* suspensions.  A task (a feed connection, or a test's coroutine) that    *)
(* uses the context manager is at one of three stages:                     *)
(*   "out"      not inside acquire();                                      *)
(*   "body"     suspended inside the `async with` body;                    *)
(*   "leaving"  in the finally block, suspended in `await watchdog`.       *)
(* Time is counted in ticks; a watchdog whose sleep is over may still be   *)
(* scheduled arbitrarily late.                                             *)
(***************************************************************************)
EXTENDS Integers, FiniteSets

CONSTANTS Symbols,      \* the traded symbols
          Tasks,        \* the coroutines that call acquire()
          Tokens,       \* the identities `object()` can return
          None,         \* absence of a symbol, of a token, of a trade
          LockTimeout,  \* _LOCK_TIMEOUT, in ticks
          MaxDropped    \* bound of the drop counters

ASSUME NoneAssumption == None \notin Symbols \cup Tasks \cup Tokens
ASSUME LockTimeoutAssumption == LockTimeout \in Nat \ {0}
ASSUME MaxDroppedAssumption == MaxDropped \in Nat

VARIABLES locked,    \* locked[s]: the asyncio.Lock of s is locked
          holder,    \* _holders: the token of the current holder, or None
          dropped,   \* _dropped: how many signals were dropped per symbol
          watching,  \* watching[k]: the symbol the watchdog of token k sleeps for
          left,      \* left[k]: ticks until the sleep of that watchdog is over
          stage,     \* stage[t]: where task t is in the context manager
          sym,       \* sym[t]: the `symbol` argument of t's acquire()
          token      \* token[t]: the local variable `token` of t's acquire()

lockVars == <<locked, holder, dropped, watching, left, stage, sym, token>>

Stages == {"out", "body", "leaving"}

TypeOK ==
  /\ locked \in [Symbols -> BOOLEAN]
  /\ holder \in [Symbols -> Tokens \cup {None}]
  /\ dropped \in [Symbols -> 0..MaxDropped]
  /\ watching \in [Tokens -> Symbols \cup {None}]
  /\ left \in [Tokens -> 0..LockTimeout]
  /\ stage \in [Tasks -> Stages]
  /\ sym \in [Tasks -> Symbols \cup {None}]
  /\ token \in [Tasks -> Tokens \cup {None}]

LockInit ==
  /\ locked = [s \in Symbols |-> FALSE]
  /\ holder = [s \in Symbols |-> None]
  /\ dropped = [s \in Symbols |-> 0]
  /\ watching = [k \in Tokens |-> None]
  /\ left = [k \in Tokens |-> 0]
  /\ stage = [t \in Tasks |-> "out"]
  /\ sym = [t \in Tasks |-> None]
  /\ token = [t \in Tasks |-> None]

-----------------------------------------------------------------------------
(* The operations *)

\* object() returns an identity that no live reference denotes.
FreshTokens == {k \in Tokens : /\ \A t \in Tasks : token[t] # k
                               /\ \A s \in Symbols : holder[s] # k
                               /\ watching[k] = None}

\* Bug: taking the lock without looking whether it is held.
TakeLockUnguarded(t, s, k) ==
  /\ stage[t] = "out"
  /\ locked' = [locked EXCEPT ![s] = TRUE]
  /\ holder' = [holder EXCEPT ![s] = k]
  /\ token' = [token EXCEPT ![t] = k]
  /\ sym' = [sym EXCEPT ![t] = s]
  /\ UNCHANGED dropped

TakeLock(t, s, k) ==
  /\ stage[t] = "out"
  /\ ~locked[s]
  /\ locked' = [locked EXCEPT ![s] = TRUE]
  /\ holder' = [holder EXCEPT ![s] = k]
  /\ token' = [token EXCEPT ![t] = k]
  /\ sym' = [sym EXCEPT ![t] = s]
  /\ UNCHANGED dropped

\* acquire() of a free lock whose body suspends: the watchdog is asleep.
Acquire(t, s) == \E k \in FreshTokens :
  /\ TakeLock(t, s, k)
  /\ stage' = [stage EXCEPT ![t] = "body"]
  /\ watching' = [watching EXCEPT ![k] = s]
  /\ left' = [left EXCEPT ![k] = LockTimeout]

\* acquire() of a free lock whose body returns without suspending: the
\* watchdog is cancelled before it ran, and the task waits for its end.
AcquireAndReturn(t, s) == \E k \in FreshTokens :
  /\ TakeLock(t, s, k)
  /\ stage' = [stage EXCEPT ![t] = "leaving"]
  /\ UNCHANGED <<watching, left>>

\* acquire() of a locked lock: the signal is counted and dropped.
Drop(t, s) ==
  /\ stage[t] = "out"
  /\ locked[s]
  /\ dropped[s] < MaxDropped
  /\ dropped' = [dropped EXCEPT ![s] = @ + 1]
  /\ UNCHANGED <<locked, holder, watching, left, stage, sym, token>>

\* Bug: releasing without comparing the token with the current holder.
ReleaseAnyHolder(s, k) ==
  IF locked[s] THEN /\ locked' = [locked EXCEPT ![s] = FALSE]
                    /\ holder' = [holder EXCEPT ![s] = None]
               ELSE UNCHANGED <<locked, holder>>

\* `if self._holders.get(symbol) is token and lock.locked()`: release and pop.
ReleaseIfHolder(s, k) ==
  IF holder[s] = k /\ locked[s]
    THEN /\ locked' = [locked EXCEPT ![s] = FALSE]
         /\ holder' = [holder EXCEPT ![s] = None]
    ELSE UNCHANGED <<locked, holder>>

ForgetFrame(t) == /\ stage' = [stage EXCEPT ![t] = "out"]
                  /\ sym' = [sym EXCEPT ![t] = None]
                  /\ token' = [token EXCEPT ![t] = None]

\* The body of t ends (by a return or an exception) and the watchdog still
\* sleeps: it is cancelled, and `await watchdog` suspends the task.
CancelWatchdog(t) ==
  /\ stage[t] = "body"
  /\ watching[token[t]] # None
  /\ watching' = [watching EXCEPT ![token[t]] = None]
  /\ left' = [left EXCEPT ![token[t]] = 0]
  /\ stage' = [stage EXCEPT ![t] = "leaving"]
  /\ UNCHANGED <<locked, holder, dropped, sym, token>>

\* The body of t ends after the watchdog fired: `await watchdog` returns at
\* once, and the holder test decides whether there is anything to release.
LeaveLate(t) ==
  /\ stage[t] = "body"
  /\ watching[token[t]] = None
  /\ ReleaseIfHolder(sym[t], token[t])
  /\ ForgetFrame(t)
  /\ UNCHANGED <<dropped, watching, left>>

Leave(t) == CancelWatchdog(t) \/ LeaveLate(t)

\* Bug: the finally block does not release.
FinishLeaveKeepsLock(t) ==
  /\ stage[t] = "leaving"
  /\ ForgetFrame(t)
  /\ UNCHANGED <<locked, holder, dropped, watching, left>>

\* The cancelled watchdog has ended: the rest of the finally block.
FinishLeave(t) ==
  /\ stage[t] = "leaving"
  /\ ReleaseIfHolder(sym[t], token[t])
  /\ ForgetFrame(t)
  /\ UNCHANGED <<dropped, watching, left>>

\* Bug: the watchdog ends without popping the holder it has released.
WatchdogKeepsHolder(k) ==
  /\ watching[k] # None
  /\ left[k] = 0
  /\ locked' = [locked EXCEPT ![watching[k]] = FALSE]
  /\ watching' = [watching EXCEPT ![k] = None]
  /\ UNCHANGED <<holder, dropped, left, stage, sym, token>>

\* The watchdog of token k wakes up and ends.
WatchdogFires(k) ==
  /\ watching[k] # None
  /\ left[k] = 0
  /\ ReleaseIfHolder(watching[k], k)
  /\ watching' = [watching EXCEPT ![k] = None]
  /\ UNCHANGED <<dropped, left, stage, sym, token>>

\* Bug: the clock also runs for watchdogs that do not sleep any more.
AgeWatchdogsPastZero == left' = [k \in Tokens |-> left[k] - 1]

AgeWatchdogs == left' = [k \in Tokens |-> IF left[k] > 0 THEN left[k] - 1 ELSE 0]

LockTick ==
  /\ \E k \in Tokens : left[k] > 0
  /\ AgeWatchdogs
  /\ UNCHANGED <<locked, holder, dropped, watching, stage, sym, token>>

LockNext ==
  \/ \E t \in Tasks, s \in Symbols : \/ Acquire(t, s)
                                     \/ AcquireAndReturn(t, s)
                                     \/ Drop(t, s)
  \/ \E t \in Tasks : Leave(t) \/ FinishLeave(t)
  \/ \E k \in Tokens : WatchdogFires(k)
  \/ LockTick

LockSpec == LockInit /\ [][LockNext]_lockVars

\* The event loop runs what is ready: timers advance, a due watchdog and a
\* task whose cancelled watchdog has ended are scheduled.  Nothing is
\* assumed about the bodies: a broker may never answer.
LockFairness == /\ WF_lockVars(LockTick)
                /\ \A k \in Tokens : WF_lockVars(WatchdogFires(k))
                /\ \A t \in Tasks : WF_lockVars(FinishLeave(t))

FairLockSpec == LockSpec /\ LockFairness
-----------------------------------------------------------------------------
(* What makes it correct *)

\* The lease of task t is valid: it is inside and its watchdog has not fired.
HasLease(t) == \/ stage[t] = "leaving"
               \/ stage[t] = "body" /\ watching[token[t]] = sym[t]

\* The lock flag and the holder entry agree, whatever the watchdog did.
FlagMatchesHolder == \A s \in Symbols : locked[s] <=> holder[s] # None

\* A frame exists exactly while its task is inside.
FramesLive == \A t \in Tasks : /\ stage[t] = "out" <=> token[t] = None
                               /\ stage[t] = "out" <=> sym[t] = None

TokensUnique == \A t, u \in Tasks : token[t] = token[u] /\ token[t] # None => t = u

\* Every sleeping watchdog belongs to the body it was created for.
WatchdogsOwned == \A k \in Tokens : watching[k] # None =>
  \E t \in Tasks : stage[t] = "body" /\ token[t] = k /\ sym[t] = watching[k]

\* Every holder entry is the token of a frame whose lease is valid.
HoldersHaveLease == \A s \in Symbols : holder[s] # None =>
  \E t \in Tasks : token[t] = holder[s] /\ sym[t] = s /\ HasLease(t)

LeasesHeld == \A t \in Tasks : HasLease(t) => holder[sym[t]] = token[t]

LeavingUnwatched == \A t \in Tasks :
  stage[t] = "leaving" => watching[token[t]] = None

(* The two-way match between the book-keeping dictionaries of BotLock and  *)
(* the frames of acquire(): a valid lease is in _holders, a holder is a    *)
(* valid lease, and a watchdog never outlives the body it watches.         *)
LockInv == /\ FlagMatchesHolder
           /\ FramesLive
           /\ TokensUnique
           /\ WatchdogsOwned
           /\ HoldersHaveLease
           /\ LeasesHeld
           /\ LeavingUnwatched

(* Two bodies of the same symbol run at once only if the watchdog of one   *)
(* of them has already fired (botlock.py, class docstring).                *)
LeaseExclusive == \A t, u \in Tasks :
  t # u /\ HasLease(t) /\ HasLease(u) => sym[t] # sym[u]

(* A step that frees a lock or changes its holder is the holder's own exit *)
(* or its own watchdog; a body that outlived its watchdog never frees the  *)
(* lock of the signal accepted after it (botlock.py, lines 38-40, 104-105).*)
OnlyHolderFrees == [][\A s \in Symbols :
   (holder[s] # None /\ holder'[s] # holder[s]) =>
      /\ holder'[s] = None
      /\ ~locked'[s]
      /\ \/ \E t \in Tasks : /\ token[t] = holder[s]
                             /\ stage[t] = "leaving"
                             /\ stage'[t] = "out"
         \/ watching[holder[s]] = s /\ left[holder[s]] = 0]_lockVars

(* A symbol never stays locked for ever, even if the broker call inside    *)
(* the body never returns (botlock.py, lines 5-6).                         *)
LockIsFreed == \A s \in Symbols : locked[s] ~> ~locked[s]
-----------------------------------------------------------------------------
(* The detailed lock implements the abstract lease lock.                   *)

OwnerOf(s) == IF holder[s] = None
                THEN None
                ELSE CHOOSE t \in Tasks : token[t] = holder[s]

GuestsOf(s) == {t \in Tasks : stage[t] = "body" /\ sym[t] = s /\ ~HasLease(t)}

Lease == INSTANCE LeaseLock WITH Clients <- Tasks,
                                 Nobody  <- None,
                                 owner   <- [s \in Symbols |-> OwnerOf(s)],
                                 guests  <- [s \in Symbols |-> GuestsOf(s)]

(* Every behaviour of the lock is one the lease lock allows.               *)
ImplementsLeaseLock == Lease!LeaseSpec
=============================================================================
