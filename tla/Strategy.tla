------------------------------ MODULE Strategy ------------------------------
(***************************************************************************)
(* The pure part of a tick: the indicators of state/symbol_state.py, the   *)
(* decision of strategy/decide.py, and the stop-loss and take-profit       *)
(* levels of execution/engine.py.  Prices are integers, in the unit that   *)
(* round(..., 6) keeps.  An average or ratio is computed as a fraction and *)
(* then rounded where the code rounds it.  The error that a float has      *)
(* before it is rounded is left out: it can only tell at a tie.            *)
(***************************************************************************)
EXTENDS Integers, Sequences, FiniteSetsExt

CONSTANTS FastPeriod,   \* 9
          SlowPeriod,   \* 21
          RsiPeriod,    \* 14
          EmaTicks,     \* 21, the prices an EMA needs
          RsiTicks,     \* 15, the prices an RSI needs
          MinTicks,     \* _MIN_TICKS
          BufferSize,   \* maxlen of tick_buffer
          Oversold,     \* _RSI_OVERSOLD
          Overbought,   \* _RSI_OVERBOUGHT
          StopLoss,     \* config.STOP_LOSS_PCT, in thousandths of a price
          TakeProfit    \* config.TAKE_PROFIT_PCT, in thousandths of a price

ASSUME PeriodsAssumption ==
  {FastPeriod, SlowPeriod, RsiPeriod, EmaTicks, MinTicks, BufferSize} \subseteq Nat \ {0}
ASSUME RsiTicksAssumption == RsiTicks \in Nat /\ RsiTicks > RsiPeriod
ASSUME ThresholdsAssumption ==
  {Oversold, Overbought} \subseteq 0..100 /\ {StopLoss, TakeProfit} \subseteq 0..1000

Signals == {"BUY", "SELL", "CLOSE", "HOLD"}

\* round(n / d), a tie going to the even neighbour.
Rounded(n, d) ==
  LET q == n \div d r == n % d
  IN IF 2 * r < d \/ (2 * r = d /\ q % 2 = 0) THEN q ELSE q + 1
-----------------------------------------------------------------------------
(* Indicators *)

\* Bug: the deque has no maximal length.
PushUnbounded(prices, price) == Append(prices, price)

\* tick_buffer.append of a deque with a maximal length.
Push(prices, price) ==
  Append(IF Len(prices) < BufferSize THEN prices ELSE Tail(prices), price)

\* Bug: the weights of the new price and of the old average are swapped.
EmaSwapped(prices, period) ==
  LET e[n \in 1..Len(prices)] ==
        IF n = 1 THEN [num |-> prices[1], den |-> 1]
        ELSE LET ema == e[n - 1]
             IN [num |-> (period - 1) * prices[n] * ema.den + 2 * ema.num,
                 den |-> (period + 1) * ema.den]
  IN e[Len(prices)]

\* The loop of _ema, as a fraction, with k = 2 / (period + 1).
EmaLoop(prices, period) ==
  LET e[n \in 1..Len(prices)] ==
        IF n = 1 THEN [num |-> prices[1], den |-> 1]
        ELSE LET ema == e[n - 1]
             IN [num |-> 2 * prices[n] * ema.den + (period - 1) * ema.num,
                 den |-> (period + 1) * ema.den]
  IN e[Len(prices)]

\* _ema: the average is rounded to six decimals.
Ema(prices, period) == LET ema == EmaLoop(prices, period) IN Rounded(ema.num, ema.den)

\* ema9 > ema21 and ema9 < ema21.
FastEma(prices) == Ema(prices, FastPeriod)
SlowEma(prices) == Ema(prices, SlowPeriod)
Bullish(prices) == FastEma(prices) > SlowEma(prices)
Bearish(prices) == FastEma(prices) < SlowEma(prices)

\* The moves of the last RsiPeriod prices, up or down.
LastMoves(prices) == (Len(prices) - RsiPeriod + 1)..Len(prices)
Gains(prices) == LET Gain(i) == IF prices[i] > prices[i - 1] THEN prices[i] - prices[i - 1] ELSE 0
                 IN MapThenSumSet(Gain, LastMoves(prices))
Losses(prices) == LET Loss(i) == IF prices[i] < prices[i - 1] THEN prices[i - 1] - prices[i] ELSE 0
                  IN MapThenSumSet(Loss, LastMoves(prices))

\* _rsi in hundredths, to which it is rounded: 100 * gains / (gains + losses),
\* and 50 without any move.
Rsi(prices) ==
  LET up == Gains(prices) down == Losses(prices)
  IN IF up + down = 0 THEN 5000 ELSE Rounded(10000 * up, up + down)

RsiAbove(prices, x) == Rsi(prices) > 100 * x
RsiBelow(prices, x) == Rsi(prices) < 100 * x

\* Every indicator is there, and enough ticks.
Warm(prices) == \A n \in {MinTicks, EmaTicks, RsiTicks} : Len(prices) >= n
-----------------------------------------------------------------------------
(* decide_trade_action *)

Exits(prices, side) ==
  \/ side = "BUY" /\ Bearish(prices) /\ RsiAbove(prices, Overbought)
  \/ side = "SELL" /\ Bullish(prices) /\ RsiBelow(prices, Oversold)

\* Bug: an open trade does not keep the strategy from a new entry.
DecideAgain(prices, side) ==
  IF ~Warm(prices) THEN "HOLD"
  ELSE IF Exits(prices, side) THEN "CLOSE"
  ELSE IF Bullish(prices) /\ RsiBelow(prices, Overbought) THEN "BUY"
  ELSE IF Bearish(prices) /\ RsiAbove(prices, Oversold) THEN "SELL"
  ELSE "HOLD"

\* `side` is the side of the open trade, or anything else for none.
Decide(prices, side) ==
  IF ~Warm(prices) THEN "HOLD"
  ELSE IF Exits(prices, side) THEN "CLOSE"
  ELSE IF side \in {"BUY", "SELL"} THEN "HOLD"
  ELSE IF Bullish(prices) /\ RsiBelow(prices, Overbought) THEN "BUY"
  ELSE IF Bearish(prices) /\ RsiAbove(prices, Oversold) THEN "SELL"
  ELSE "HOLD"
-----------------------------------------------------------------------------
(* Stop-loss and take-profit *)

\* Bug: a short trade gets the multipliers of a long one.
LevelsLong(side, price) == [stop |-> Rounded(price * (1000 - StopLoss), 1000),
                            target |-> Rounded(price * (1000 + TakeProfit), 1000)]

Levels(side, price) ==
  IF side = "BUY" THEN [stop |-> Rounded(price * (1000 - StopLoss), 1000),
                        target |-> Rounded(price * (1000 + TakeProfit), 1000)]
                  ELSE [stop |-> Rounded(price * (1000 + StopLoss), 1000),
                        target |-> Rounded(price * (1000 - TakeProfit), 1000)]

\* Bug: the take-profit is not looked at.
HitsStopOnly(side, levels, price) ==
  IF side = "BUY" THEN price <= levels.stop ELSE price >= levels.stop

\* check_stops: the stop-loss or the take-profit is reached.
Hits(side, levels, price) ==
  IF side = "BUY" THEN price <= levels.stop \/ price >= levels.target
                  ELSE price >= levels.stop \/ price <= levels.target
=============================================================================
