---------------------------- MODULE RateLimiter ----------------------------
(***************************************************************************)
(* src/middleware/rate_limiter.py: the time stamp of the last trade of     *)
(* every symbol, read against the monotonic clock.                         *)
(***************************************************************************)
EXTENDS Integers

CONSTANTS Symbols,   \* the traded symbols
          Cooldown,  \* SIGNAL_COOLDOWN_SECONDS, in ticks
          Never,     \* no entry in _last_trade
          MaxClock   \* bound of the clock

ASSUME CooldownAssumption == Cooldown \in Nat
ASSUME NeverAssumption == Never \notin Nat
ASSUME MaxClockAssumption == MaxClock \in Nat

VARIABLES now,       \* time.monotonic()
          lastTrade  \* _last_trade

limiterVars == <<now, lastTrade>>

LimiterTypeOK == /\ now \in 0..MaxClock
                 /\ lastTrade \in [Symbols -> (0..MaxClock) \cup {Never}]

LimiterInit == /\ now = 0
               /\ lastTrade = [s \in Symbols |-> Never]

\* is_allowed: the remainder of the cooldown is compared with zero.
IsAllowed(s) ==
  IF lastTrade[s] = Never THEN TRUE ELSE ~(Cooldown - (now - lastTrade[s]) > 0)

\* remaining_cooldown: the same remainder, computed again, and at least zero.
RemainingCooldown(s) ==
  IF lastTrade[s] = Never THEN 0
  ELSE LET left == Cooldown - (now - lastTrade[s]) IN IF left > 0 THEN left ELSE 0

\* Bug: the end of the cooldown is recorded, not its start.
RecordTradeEnd(s) == /\ lastTrade' = [lastTrade EXCEPT ![s] = now + Cooldown]
                     /\ UNCHANGED now

\* record_trade
RecordTrade(s) == /\ lastTrade' = [lastTrade EXCEPT ![s] = now]
                  /\ UNCHANGED now

ClockTick == /\ now < MaxClock
             /\ now' = now + 1
             /\ UNCHANGED lastTrade

LimiterNext == ClockTick \/ \E s \in Symbols : RecordTrade(s)

LimiterSpec == LimiterInit /\ [][LimiterNext]_limiterVars
-----------------------------------------------------------------------------
Timer == INSTANCE CooldownTimer
           WITH remaining <- [s \in Symbols |-> RemainingCooldown(s)]

(* The time stamps behave as a countdown that record_trade restarts and    *)
(* the clock ages (rate_limiter.py, class docstring).                      *)
ImplementsTimer == Timer!TimerSpec

StampsPast == \A s \in Symbols : lastTrade[s] # Never => lastTrade[s] \leq now
=============================================================================
