--------------------------- MODULE CooldownTimer ---------------------------
(***************************************************************************)
(* The rate limiter as the engine sees it: per symbol, the ticks that are  *)
(* left of the cooldown (remaining_cooldown).  RateLimiter.tla has the     *)
(* time stamps of the code and is shown to implement this timer.           *)
(***************************************************************************)
EXTENDS Integers

CONSTANTS Symbols,   \* the traded symbols
          Cooldown   \* SIGNAL_COOLDOWN_SECONDS, in ticks

VARIABLE remaining   \* remaining[s]: ticks until s may be entered again

TimerTypeOK == remaining \in [Symbols -> 0..Cooldown]

TimerInit == remaining = [s \in Symbols |-> 0]

\* is_allowed
IsAllowed(s) == remaining[s] = 0

\* record_trade
RecordTrade(s) == remaining' = [remaining EXCEPT ![s] = Cooldown]

\* Bug: remaining_cooldown without its max(0, ...).
AgeCooldownsPastZero == remaining' = [s \in Symbols |-> remaining[s] - 1]

AgeCooldowns ==
  remaining' = [s \in Symbols |-> IF remaining[s] > 0 THEN remaining[s] - 1 ELSE 0]

TimerNext == AgeCooldowns \/ \E s \in Symbols : RecordTrade(s)

TimerSpec == TimerInit /\ [][TimerNext]_remaining
=============================================================================
