---------------------------- MODULE TickPipeline ----------------------------
(***************************************************************************)
(* src/main.py, _on_tick: what the ticks of one symbol do, one after the   *)
(* other, as its feed connection awaits them.  A tick updates the buffer,  *)
(* checks the levels of the open trade, asks the strategy and routes its   *)
(* signal.  The engine is reduced to what one task sees of it (the lock is *)
(* free and the book is the strategy's copy: ExecutionEngine.tla), with    *)
(* the rate limiter in full.  The task is suspended                        *)
(*   "stopping"   in the exit that a stop-loss or take-profit asked for;   *)
(*   "deciding"   in the end of that exit, before the strategy is asked;   *)
(*   "placing", "closing"   in the strategy's entry or exit;               *)
(*   "idle"       between two ticks.                                       *)
(***************************************************************************)
EXTENDS Strategy, RateLimiter

CONSTANTS Prices,  \* the mid prices of the ticks and the prices of the fills
          Sym,     \* the symbol
          None     \* no open trade

ASSUME TickPricesAssumption == Prices \subseteq Nat
ASSUME OneSymbolAssumption == Symbols = {Sym}
ASSUME NoTradeAssumption == None \notin {"BUY", "SELL"}

VARIABLES buffer,  \* tick_buffer
          trade,   \* the open trade of the symbol, or None
          paused,  \* _paused of the engine
          pc,      \* where _on_tick is suspended
          order,   \* the strategy's signal for this tick
          fate     \* history: what became of the trade during this tick

pipelineVars == <<limiterVars, buffer, trade, paused, pc, order, fate>>

Sides == {"BUY", "SELL"}
Trades == {[side |-> a, entry |-> p, levels |-> Levels(a, p)] : a \in Sides, p \in Prices}

PipelineTypeOK ==
  /\ LimiterTypeOK
  /\ buffer \in Seq(Prices) /\ Len(buffer) <= BufferSize
  /\ trade = None \/ trade \in Trades
  /\ paused \in BOOLEAN
  /\ pc \in {"idle", "stopping", "deciding", "placing", "closing"}
  /\ order \in Signals
  /\ fate \in {"kept", "refused", "exited", "entered"}

PipelineInit == /\ LimiterInit
                /\ buffer = <<>>
                /\ trade = None
                /\ paused = FALSE
                /\ pc = "idle"
                /\ order = "HOLD"
                /\ fate = "kept"

Side == IF trade = None THEN None ELSE trade.side
LastPrice == buffer[Len(buffer)]
-----------------------------------------------------------------------------
\* The strategy's signal reaches handle_signal.
Route(prices) ==
  LET signal == Decide(prices, Side) IN
  /\ order' = signal
  /\ pc' = IF signal = "CLOSE" THEN "closing"
           ELSE IF signal \in Sides /\ ~paused /\ IsAllowed(Sym) THEN "placing"
           ELSE "idle"

Tick(price) ==
  /\ pc = "idle"
  /\ buffer' = Push(buffer, price)
  /\ fate' = "kept"
  /\ IF trade # None /\ Hits(Side, trade.levels, price)
       THEN pc' = "stopping" /\ order' = "HOLD"
       ELSE Route(buffer')
  /\ UNCHANGED <<limiterVars, trade, paused>>

Closed == /\ trade' = None
          /\ fate' = "exited"
          /\ RecordTrade(Sym)

StopFilled == /\ pc = "stopping"
              /\ Closed
              /\ pc' = "deciding"
              /\ UNCHANGED <<buffer, paused, order>>

\* The broker reports an error; the tick goes on.
StopRefused == /\ pc = "stopping"
               /\ pc' = "deciding"
               /\ fate' = "refused"
               /\ UNCHANGED <<limiterVars, buffer, trade, paused, order>>

Decides == /\ pc = "deciding"
           /\ Route(buffer)
           /\ UNCHANGED <<limiterVars, buffer, trade, paused, fate>>

EntryFilled(price) ==
  /\ pc = "placing"
  /\ trade' = [side |-> order, entry |-> price, levels |-> Levels(order, price)]
  /\ fate' = "entered"
  /\ RecordTrade(Sym)
  /\ pc' = "idle"
  /\ UNCHANGED <<buffer, paused, order>>

CloseFilled == /\ pc = "closing"
               /\ Closed
               /\ pc' = "idle"
               /\ UNCHANGED <<buffer, paused, order>>

OrderRefused == /\ pc \in {"placing", "closing"}
                /\ pc' = "idle"
                /\ fate' = IF pc = "closing" THEN "refused" ELSE fate
                /\ UNCHANGED <<limiterVars, buffer, trade, paused, order>>

\* An exception of the exit or of an order ends the tick.
TickFails == /\ pc \in {"stopping", "placing", "closing"}
             /\ pc' = "idle"
             /\ fate' = IF pc = "placing" THEN fate ELSE "refused"
             /\ UNCHANGED <<limiterVars, buffer, trade, paused, order>>

PauseOrResume == /\ paused' = ~paused
                 /\ UNCHANGED <<limiterVars, buffer, trade, pc, order, fate>>

TimePasses == ClockTick /\ UNCHANGED <<buffer, trade, paused, pc, order, fate>>

PipelineNext == \/ \E p \in Prices : Tick(p) \/ EntryFilled(p)
                \/ StopFilled \/ StopRefused
                \/ Decides
                \/ CloseFilled
                \/ OrderRefused \/ TickFails
                \/ PauseOrResume
                \/ TimePasses

PipelineSpec == PipelineInit /\ [][PipelineNext]_pipelineVars
-----------------------------------------------------------------------------
(* What makes it correct *)

Profit(t, price) == IF t.side = "BUY" THEN price - t.entry ELSE t.entry - price

(* A trade whose loss or gain has reached a level is not left alone until  *)
(* the next tick, unless the broker did not do the exit, or filled the     *)
(* entry of this very tick beyond the level (README.md, line 31).          *)
StopsHonoured ==
  pc \in {"idle", "closing"} /\ trade # None /\ fate \notin {"refused", "entered"} =>
     /\ Profit(trade, LastPrice) > Profit(trade, trade.levels.stop)
     /\ Profit(trade, LastPrice) < Profit(trade, trade.levels.target)

(* The levels lie on either side of the entry, however they were rounded:  *)
(* a trade is never stopped out by the price it was entered at.            *)
LevelsBracketEntry == trade # None =>
  Profit(trade, trade.levels.stop) < 0 /\ Profit(trade, trade.levels.target) > 0

(* An entry is asked for only without a trade and an exit only of one, also *)
(* when the exit of the same tick was filled, refused or failed: a task    *)
(* that is alone with its symbol never needs the guards of the engine      *)
(* (engine.py, lines 121 and 133), which this module leaves out.           *)
OrdersFitTrade == /\ pc = "placing" => trade = None
                  /\ pc \in {"stopping", "closing"} => trade # None

(* The exponential average by its definition, a weighted sum of the prices *)
(* (over the denominator below).                                           *)
Power(x, n) == LET p[i \in 0..n] == IF i = 0 THEN 1 ELSE x * p[i - 1] IN p[n]
Weighted(prices, period, n, i) ==
  IF i = 1 THEN prices[1] * Power(period - 1, n - 1)
           ELSE 2 * prices[i] * Power(period - 1, n - i) * Power(period + 1, i - 2)
WeightedSum(prices, period) ==
  LET Term(i) == Weighted(prices, period, Len(prices), i)
  IN MapThenSumSet(Term, 1..Len(prices))

(* _ema returns the rounded weighted sum of the prices that the buffer     *)
(* still has, for every buffer: the oldest of them is the seed.            *)
EmaIsWeightedSum == buffer # <<>> => \A period \in {FastPeriod, SlowPeriod} :
  Ema(buffer, period) =
    Rounded(WeightedSum(buffer, period), Power(period + 1, Len(buffer) - 1))
=============================================================================
