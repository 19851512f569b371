------------------------- MODULE TickPipelineProofs -------------------------
(***************************************************************************)
(* Proofs about TickPipeline and the rate limiter that it extends, for any *)
(* prices, periods, levels and cooldown.                                   *)
(***************************************************************************)
EXTENDS TickPipeline, InductionLemmas, FiniteSetTheorems
-----------------------------------------------------------------------------
(* The rate limiter.  Without StampsPast the type invariant would not do:  *)
(* a time stamp of the future would make a remainder larger than the       *)
(* cooldown.                                                               *)

LimiterInv == LimiterTypeOK /\ StampsPast

LEMMA LimiterInvInit == LimiterInit => LimiterInv
BY CooldownAssumption, NeverAssumption, MaxClockAssumption
DEF LimiterInit, LimiterInv, LimiterTypeOK, StampsPast

LEMMA LimiterInvStep ==
  ASSUME LimiterInv, [LimiterNext]_limiterVars
  PROVE  LimiterInv'
<1> USE CooldownAssumption, NeverAssumption, MaxClockAssumption
<1> USE DEF LimiterInv, LimiterTypeOK, StampsPast
<1>1. CASE ClockTick
  BY <1>1 DEF ClockTick
<1>2. ASSUME NEW s \in Symbols, RecordTrade(s) PROVE LimiterInv'
  BY <1>2 DEF RecordTrade
<1>3. CASE UNCHANGED limiterVars
  BY <1>3 DEF limiterVars
<1> QED BY <1>1, <1>2, <1>3 DEF LimiterNext

\* The guard of the engine's entries: is_allowed gives the verdict of the
\* countdown, which stands for it in ExecutionEngine.
LEMMA VerdictIsTimers ==
  ASSUME LimiterInv, NEW s \in Symbols
  PROVE  IsAllowed(s) <=> Timer!IsAllowed(s)
<1>1. CASE lastTrade[s] = Never
  BY <1>1 DEF IsAllowed, RemainingCooldown, Timer!IsAllowed
<1>2. CASE lastTrade[s] # Never
  <2>1. Cooldown - (now - lastTrade[s]) \in Int
    BY <1>2, CooldownAssumption, MaxClockAssumption DEF LimiterInv, LimiterTypeOK
  <2> QED BY <1>2, <2>1 DEF IsAllowed, RemainingCooldown, Timer!IsAllowed
<1> QED BY <1>1, <1>2

LEMMA TimerInitFollows == LimiterInit => Timer!TimerInit
BY DEF LimiterInit, Timer!TimerInit, RemainingCooldown

\* A step of the limiter is a step of the countdown.
LEMMA TimerStep ==
  ASSUME LimiterInv, [LimiterNext]_limiterVars
  PROVE  [Timer!TimerNext]_[s \in Symbols |-> RemainingCooldown(s)]
<1> USE CooldownAssumption, NeverAssumption, MaxClockAssumption
<1> USE DEF LimiterInv, LimiterTypeOK, StampsPast
<1>1. CASE ClockTick
  <2>1. \A s \in Symbols : RemainingCooldown(s)' =
          IF RemainingCooldown(s) > 0 THEN RemainingCooldown(s) - 1 ELSE 0
    BY <1>1 DEF ClockTick, RemainingCooldown
  <2>2. Timer!AgeCooldowns
    BY <2>1 DEF Timer!AgeCooldowns
  <2> QED BY <2>2 DEF Timer!TimerNext
<1>2. ASSUME NEW s \in Symbols, RecordTrade(s) PROVE Timer!TimerNext
  <2>1. RemainingCooldown(s)' = Cooldown
    BY <1>2 DEF RecordTrade, RemainingCooldown
  <2>2. \A x \in Symbols \ {s} : RemainingCooldown(x)' = RemainingCooldown(x)
    BY <1>2 DEF RecordTrade, RemainingCooldown
  <2>3. Timer!RecordTrade(s)
    BY <2>1, <2>2 DEF Timer!RecordTrade
  <2> QED BY <2>3 DEF Timer!TimerNext
<1>3. CASE UNCHANGED limiterVars
  <2>1. \A x \in Symbols : RemainingCooldown(x)' = RemainingCooldown(x)
    BY <1>3 DEF limiterVars, RemainingCooldown
  <2> QED BY <2>1
<1> QED BY <1>1, <1>2, <1>3 DEF LimiterNext

\* Time stamps are clock readings of the past.
THEOREM LimiterInvariant == LimiterSpec => []LimiterInv
BY LimiterInvInit, LimiterInvStep, PTL DEF LimiterSpec

\* The time stamps implement the countdown the engine is modelled with.
THEOREM LimiterImplementsTimer == LimiterSpec => ImplementsTimer
BY TimerInitFollows, TimerStep, LimiterInvariant, PTL
DEF LimiterSpec, ImplementsTimer, Timer!TimerSpec
-----------------------------------------------------------------------------
(* The levels of a trade *)

LEMMA RoundedStays ==
  ASSUME NEW p \in Int, NEW m \in Int, m > 500
  PROVE  /\ Rounded(1000 * p - m, 1000) < p
         /\ Rounded(1000 * p + m, 1000) > p
BY DEF Rounded

\* Prices are counted in the unit that levels are rounded to, the sixth decimal
\* (engine.py, line 155), and the levels are more than half a unit away: at
\* the 0.5 % and 1 % of config.py, for every price of more than 100 units.
LevelsResolved == \A p \in Prices : p * StopLoss > 500 /\ p * TakeProfit > 500

LEMMA RoundedType ==
  ASSUME NEW n \in Int PROVE Rounded(n, 1000) \in Int
BY DEF Rounded

LEMMA LevelsTyped ==
  ASSUME NEW t \in Trades
  PROVE  /\ t.side \in Sides
         /\ t.entry \in Prices
         /\ t.levels.stop \in Int /\ t.levels.target \in Int
<1>1. PICK a \in Sides, p \in Prices : t = [side |-> a, entry |-> p, levels |-> Levels(a, p)]
  BY DEF Trades
<1>2. p \in Nat /\ StopLoss \in Nat /\ TakeProfit \in Nat
  <2>1. StopLoss \in 0..1000 /\ TakeProfit \in 0..1000
    BY ThresholdsAssumption
  <2> QED BY <2>1, TickPricesAssumption
<1>3. /\ p * (1000 - StopLoss) \in Int /\ p * (1000 + TakeProfit) \in Int
      /\ p * (1000 + StopLoss) \in Int /\ p * (1000 - TakeProfit) \in Int
  BY <1>2
<1> QED BY <1>1, <1>3, RoundedType DEF Levels

LEMMA LevelsBracket ==
  ASSUME LevelsResolved, NEW t \in Trades
  PROVE  Profit(t, t.levels.stop) < 0 /\ Profit(t, t.levels.target) > 0
<1>1. PICK a \in Sides, p \in Prices : t = [side |-> a, entry |-> p, levels |-> Levels(a, p)]
  BY DEF Trades
<1>2. p \in Nat /\ StopLoss \in Nat /\ TakeProfit \in Nat
  <2>1. StopLoss \in 0..1000 /\ TakeProfit \in 0..1000
    BY ThresholdsAssumption
  <2> QED BY <2>1, TickPricesAssumption
<1> DEFINE m == p * StopLoss
<1> DEFINE n == p * TakeProfit
<1>3. m \in Int /\ n \in Int /\ m > 500 /\ n > 500
  BY <1>2 DEF LevelsResolved
<1>4. /\ p * (1000 - StopLoss) = 1000 * p - m /\ p * (1000 + TakeProfit) = 1000 * p + n
      /\ p * (1000 + StopLoss) = 1000 * p + m /\ p * (1000 - TakeProfit) = 1000 * p - n
  BY <1>2
<1> HIDE DEF m, n
<1>5. /\ Rounded(1000 * p - m, 1000) < p /\ Rounded(1000 * p + m, 1000) > p
      /\ Rounded(1000 * p - n, 1000) < p /\ Rounded(1000 * p + n, 1000) > p
  BY <1>2, <1>3, RoundedStays
<1>6. /\ Rounded(1000 * p - m, 1000) \in Int /\ Rounded(1000 * p + m, 1000) \in Int
      /\ Rounded(1000 * p - n, 1000) \in Int /\ Rounded(1000 * p + n, 1000) \in Int
  BY <1>2, <1>3, RoundedType
<1> QED BY <1>1, <1>2, <1>4, <1>5, <1>6 DEF Levels, Profit, Sides
-----------------------------------------------------------------------------
(* The ticks *)

\* The open trade was not hit by the last tick, unless its exit is under way
\* or was refused in this tick, or it was entered in this tick.
Unhit == trade # None /\ pc # "stopping" /\ fate \notin {"refused", "entered"}
           => ~Hits(Side, trade.levels, LastPrice)

PipelineInv == /\ PipelineTypeOK
               /\ StampsPast
               /\ pc = "placing" => order \in Sides
               /\ pc # "idle" \/ trade # None => buffer # <<>>
               /\ Unhit

\* A step of the pipeline is, for the limiter, a step of its own.
LEMMA PipelineStepsLimiter == [PipelineNext]_pipelineVars => [LimiterNext]_limiterVars
<1> SUFFICES ASSUME [PipelineNext]_pipelineVars PROVE [LimiterNext]_limiterVars
  OBVIOUS
<1>s. Sym \in Symbols
  BY OneSymbolAssumption
<1> USE DEF LimiterNext
<1>1. ASSUME NEW p \in Prices, Tick(p) PROVE UNCHANGED limiterVars
  BY <1>1 DEF Tick
<1>2. ASSUME NEW p \in Prices, EntryFilled(p) PROVE LimiterNext
  BY <1>2, <1>s DEF EntryFilled
<1>3. ASSUME StopFilled \/ CloseFilled PROVE LimiterNext
  BY <1>3, <1>s DEF StopFilled, CloseFilled, Closed
<1>4. ASSUME StopRefused \/ Decides \/ OrderRefused \/ TickFails \/ PauseOrResume
      PROVE  UNCHANGED limiterVars
  BY <1>4 DEF StopRefused, Decides, OrderRefused, TickFails, PauseOrResume
<1>5. ASSUME TimePasses PROVE LimiterNext
  BY <1>5 DEF TimePasses
<1>6. ASSUME UNCHANGED pipelineVars PROVE UNCHANGED limiterVars
  BY <1>6 DEF pipelineVars
<1> QED BY <1>1, <1>2, <1>3, <1>4, <1>5, <1>6 DEF PipelineNext

LEMMA PushKeeps ==
  ASSUME PipelineTypeOK, NEW p \in Prices
  PROVE  /\ Push(buffer, p) \in Seq(Prices)
         /\ Len(Push(buffer, p)) \in 1..BufferSize
         /\ Push(buffer, p)[Len(Push(buffer, p))] = p
<1> DEFINE kept == IF Len(buffer) < BufferSize THEN buffer ELSE Tail(buffer)
<1>1. buffer \in Seq(Prices) /\ Len(buffer) \leq BufferSize /\ BufferSize \in Nat \ {0}
  BY PeriodsAssumption DEF PipelineTypeOK
<1>2. kept \in Seq(Prices) /\ Len(kept) < BufferSize
  BY <1>1
<1> HIDE DEF kept
<1>3. Push(buffer, p) = Append(kept, p)
  BY DEF Push, kept
<1> QED BY <1>1, <1>2, <1>3

LEMMA RouteKeeps ==
  ASSUME NEW prices, Route(prices)
  PROVE  /\ order' \in Signals
         /\ pc' \in {"idle", "placing", "closing"}
         /\ pc' = "placing" => order' \in Sides
BY DEF Route, Decide, Signals, Sides

LEMMA PipelineInvStep ==
  ASSUME PipelineInv, [PipelineNext]_pipelineVars
  PROVE  PipelineInv'
<1> USE DEF PipelineInv
<1>0. LimiterInv'
  BY PipelineStepsLimiter, LimiterInvStep DEF LimiterInv, PipelineTypeOK
<1>1. ASSUME NEW p \in Prices, Tick(p) PROVE PipelineInv'
  <2> DEFINE b == Push(buffer, p)
  <2>1. /\ b \in Seq(Prices) /\ Len(b) \in 1..BufferSize /\ b[Len(b)] = p
        /\ b # <<>>
    BY PushKeeps
  <2>2. buffer' = b /\ fate' = "kept" /\ UNCHANGED <<trade, paused>>
    BY <1>1 DEF Tick
  <2>3. \/ pc' = "stopping" /\ order' = "HOLD"
        \/ ~(trade # None /\ Hits(Side, trade.levels, p)) /\ Route(b)
    BY <1>1, <2>2 DEF Tick
  <2> HIDE DEF b
  <2>4. LastPrice' = p /\ Side' = Side
    BY <2>1, <2>2 DEF LastPrice, Side
  <2>5. PipelineTypeOK'
    BY <1>0, <2>1, <2>2, <2>3, RouteKeeps, PeriodsAssumption
    DEF PipelineTypeOK, LimiterInv, Signals
  <2>6. Unhit'
    BY <2>2, <2>3, <2>4 DEF Unhit
  <2>7. pc' = "placing" => order' \in Sides
    BY <2>3, RouteKeeps
  <2> QED BY <1>0, <2>1, <2>2, <2>5, <2>6, <2>7 DEF LimiterInv
<1>2. ASSUME NEW p \in Prices, EntryFilled(p) PROVE PipelineInv'
  <2>1. order \in Sides /\ fate' = "entered" /\ pc' = "idle" /\ UNCHANGED <<buffer, paused, order>>
    BY <1>2 DEF EntryFilled
  <2>2. trade' \in Trades
    BY <1>2, <2>1 DEF EntryFilled, Trades
  <2>3. buffer # <<>>
    BY <1>2 DEF EntryFilled
  <2> QED BY <1>0, <2>1, <2>2, <2>3 DEF PipelineTypeOK, LimiterInv, Unhit
<1>3. ASSUME StopFilled \/ CloseFilled PROVE PipelineInv'
  <2>1. /\ pc # "idle" /\ trade' = None /\ fate' = "exited" /\ pc' \in {"deciding", "idle"}
        /\ UNCHANGED <<buffer, paused, order>>
    BY <1>3 DEF StopFilled, CloseFilled, Closed
  <2> QED BY <1>0, <2>1 DEF PipelineTypeOK, LimiterInv, Unhit
<1>4. ASSUME StopRefused \/ OrderRefused \/ TickFails PROVE PipelineInv'
  <2>1. /\ pc # "idle" /\ pc' \in {"deciding", "idle"}
        /\ UNCHANGED <<buffer, trade, paused, order>>
        /\ \/ fate' = "refused"
           \/ fate' = fate /\ pc = "placing"
    BY <1>4 DEF StopRefused, OrderRefused, TickFails
  <2>2. LastPrice' = LastPrice /\ Side' = Side
    BY <2>1 DEF LastPrice, Side
  <2> QED BY <1>0, <2>1, <2>2 DEF PipelineTypeOK, LimiterInv, Unhit
<1>5. ASSUME Decides PROVE PipelineInv'
  <2>1. Route(buffer) /\ pc = "deciding" /\ UNCHANGED <<buffer, trade, paused, fate>>
    BY <1>5 DEF Decides
  <2>2. LastPrice' = LastPrice /\ Side' = Side
    BY <2>1 DEF LastPrice, Side
  <2> QED BY <1>0, <2>1, <2>2, RouteKeeps DEF PipelineTypeOK, LimiterInv, Unhit
<1>6. ASSUME PauseOrResume \/ TimePasses \/ UNCHANGED pipelineVars PROVE PipelineInv'
  <2>1. UNCHANGED <<buffer, trade, pc, order, fate>> /\ (paused' = paused \/ paused' = ~paused)
    BY <1>6 DEF PauseOrResume, TimePasses, pipelineVars
  <2>2. LastPrice' = LastPrice /\ Side' = Side
    BY <2>1 DEF LastPrice, Side
  <2> QED BY <1>0, <2>1, <2>2 DEF PipelineTypeOK, LimiterInv, Unhit
<1> QED BY <1>1, <1>2, <1>3, <1>4, <1>5, <1>6 DEF PipelineNext

LEMMA PipelineInvInit == PipelineInit => PipelineInv
<1> SUFFICES ASSUME PipelineInit PROVE PipelineInv
  OBVIOUS
<1>1. LimiterTypeOK /\ StampsPast
  BY LimiterInvInit DEF PipelineInit, LimiterInv
<1>2. buffer \in Seq(Prices) /\ Len(buffer) = 0 /\ BufferSize \in Nat
  BY PeriodsAssumption DEF PipelineInit
<1>3. Len(buffer) \leq BufferSize
  BY <1>2
<1>4. /\ trade = None /\ pc = "idle" /\ paused = FALSE /\ order = "HOLD" /\ fate = "kept"
  BY DEF PipelineInit
<1> QED BY <1>1, <1>2, <1>3, <1>4 DEF PipelineInv, PipelineTypeOK, Unhit, Signals

\* Every variable keeps its type, and every open trade that was left alone by
\* the last tick is between its levels.
THEOREM PipelineInvariant == PipelineSpec => []PipelineInv
BY PipelineInvInit, PipelineInvStep, PTL DEF PipelineSpec

\* Every variable of _on_tick keeps its type.
THEOREM PipelineTyped == PipelineSpec => []PipelineTypeOK
BY PipelineInvariant, PTL DEF PipelineInv

\* No level is passed unnoticed by a tick (check_stops).
THEOREM StopsAlwaysHonoured == PipelineSpec => []StopsHonoured
<1>1. PipelineInv => StopsHonoured
  <2> SUFFICES ASSUME PipelineInv, pc # "stopping", trade # None,
                      fate \notin {"refused", "entered"}
               PROVE  /\ Profit(trade, LastPrice) > Profit(trade, trade.levels.stop)
                      /\ Profit(trade, LastPrice) < Profit(trade, trade.levels.target)
    BY DEF StopsHonoured
  <2>1. ~Hits(trade.side, trade.levels, LastPrice)
    BY DEF PipelineInv, Unhit, Side
  <2>2. /\ trade \in Trades /\ buffer \in Seq(Prices) /\ buffer # <<>>
    BY DEF PipelineInv, PipelineTypeOK
  <2>3. LastPrice \in Nat
    <3>1. Len(buffer) \in 1..Len(buffer)
      BY <2>2
    <3>2. buffer[Len(buffer)] \in Prices
      BY <2>2, <3>1
    <3> QED BY <3>2, TickPricesAssumption DEF LastPrice
  <2>4. /\ trade.side \in Sides /\ trade.entry \in Nat
        /\ trade.levels.stop \in Int /\ trade.levels.target \in Int
    BY <2>2, LevelsTyped, TickPricesAssumption
  <2> QED BY <2>1, <2>3, <2>4 DEF Hits, Profit, Sides
<1> QED BY <1>1, PipelineInvariant, PTL

\* Rounded levels lie on either side of the entry, if the distance of every
\* level is more than half of the unit it is rounded to.
THEOREM LevelsAlwaysBracket ==
  ASSUME LevelsResolved PROVE PipelineSpec => []LevelsBracketEntry
<1>1. PipelineInv => LevelsBracketEntry
  BY LevelsBracket DEF PipelineInv, PipelineTypeOK, LevelsBracketEntry
<1> QED BY <1>1, PipelineInvariant, PTL

\* A signal of the strategy fits the trade it was asked about.
LEMMA RouteFits ==
  ASSUME PipelineTypeOK, NEW prices, Route(prices)
  PROVE  /\ pc' = "placing" => trade = None
         /\ pc' = "closing" => trade # None
         /\ pc' # "stopping"
<1>1. CASE trade = None
  <2>1. Side = None
    BY <1>1 DEF Side
  <2>2. Decide(prices, Side) # "CLOSE"
    BY <2>1, NoTradeAssumption DEF Decide, Exits
  <2> QED BY <1>1, <2>2 DEF Route, Sides
<1>2. CASE trade # None
  <2>1. Side \in {"BUY", "SELL"}
    BY <1>2, LevelsTyped DEF PipelineTypeOK, Side, Sides
  <2>2. Decide(prices, Side) \notin {"BUY", "SELL"}
    BY <2>1 DEF Decide
  <2> QED BY <1>2, <2>2 DEF Route, Sides
<1> QED BY <1>1, <1>2

LEMMA OrdersFitStep ==
  ASSUME PipelineTypeOK, OrdersFitTrade, [PipelineNext]_pipelineVars
  PROVE  OrdersFitTrade'
<1> USE DEF OrdersFitTrade
<1>1. ASSUME NEW p \in Prices, Tick(p) PROVE OrdersFitTrade'
  <2>1. trade' = trade
    BY <1>1 DEF Tick
  <2>2. CASE pc' = "stopping" /\ trade # None
    BY <2>1, <2>2
  <2>3. CASE Route(buffer')
    BY <2>1, <2>3, RouteFits
  <2> QED BY <1>1, <2>2, <2>3 DEF Tick
<1>2. ASSUME NEW p \in Prices, EntryFilled(p) PROVE OrdersFitTrade'
  BY <1>2 DEF EntryFilled
<1>3. CASE StopFilled \/ CloseFilled \/ StopRefused \/ OrderRefused \/ TickFails
  BY <1>3 DEF StopFilled, CloseFilled, StopRefused, OrderRefused, TickFails
<1>4. CASE Decides
  <2>1. trade' = trade /\ Route(buffer)
    BY <1>4 DEF Decides
  <2> QED BY <2>1, RouteFits
<1>5. CASE PauseOrResume \/ TimePasses \/ UNCHANGED pipelineVars
  BY <1>5 DEF PauseOrResume, TimePasses, pipelineVars
<1> QED BY <1>1, <1>2, <1>3, <1>4, <1>5 DEF PipelineNext

\* The guards of engine.py, lines 121 and 133, are never needed by one task,
\* whatever became of the exit that shares the tick (main.py, line 97).
THEOREM OrdersAlwaysFit == PipelineSpec => []OrdersFitTrade
<1>1. PipelineInit => OrdersFitTrade
  BY DEF PipelineInit, OrdersFitTrade
<1> QED BY <1>1, OrdersFitStep, PipelineTyped, PTL DEF PipelineSpec

\* The limiter inside of the pipeline implements the countdown too.
THEOREM PipelineImplementsTimer == PipelineSpec => ImplementsTimer
<1>1. PipelineInv => LimiterInv
  BY DEF PipelineInv, PipelineTypeOK, LimiterInv
<1>2. PipelineInit => LimiterInit
  BY DEF PipelineInit
<1> QED BY <1>1, <1>2, PipelineStepsLimiter, PipelineInvariant, TimerInitFollows, TimerStep,
           PTL
        DEF PipelineSpec, ImplementsTimer, Timer!TimerSpec
-----------------------------------------------------------------------------
(* The loop of the averages, and sums *)

\* The recursive function of _ema over the first N prices.
EmaBody(b, k, e, n) ==
  IF n = 1 THEN [num |-> b[1], den |-> 1]
  ELSE LET ema == e[n - 1]
       IN [num |-> 2 * b[n] * ema.den + (k - 1) * ema.num, den |-> (k + 1) * ema.den]
IsEma(b, k, N, e) == e = [n \in 1..N |-> EmaBody(b, k, e, n)]
EmaOf(b, k) == CHOOSE e : IsEma(b, k, Len(b), e)

\* EmaLoop is the last value of that function.
LEMMA EmaUnfold ==
  ASSUME NEW b, NEW k
  PROVE  EmaLoop(b, k) = EmaOf(b, k)[Len(b)]
BY DEF EmaLoop, EmaOf, IsEma, EmaBody

\* The function exists, for any number of prices.
LEMMA EmaExists ==
  ASSUME NEW b, NEW k, NEW m \in Nat
  PROVE  \E e : IsEma(b, k, m, e)
<1> DEFINE S == {n \in Nat : \E e : IsEma(b, k, n, e)}
<1>1. 0 \in S
  <2> DEFINE e == [n \in 1..0 |-> 0]
  <2>1. IsEma(b, k, 0, e)
    BY DEF IsEma
  <2> QED BY <2>1
<1>2. ASSUME NEW n \in S \cap Nat PROVE n + 1 \in S
  <2>1. PICK e : IsEma(b, k, n, e)
    BY <1>2
  <2> DEFINE g == [i \in 1..(n + 1) |-> IF i = n + 1 THEN EmaBody(b, k, e, n + 1) ELSE e[i]]
  <2>2. ASSUME NEW i \in 1..(n + 1) PROVE g[i] = EmaBody(b, k, g, i)
    <3>1. CASE i = 1 /\ n = 0
      BY <3>1 DEF EmaBody
    <3>2. CASE i = n + 1 /\ n # 0
      <4>1. g[n] = e[n]
        BY <3>2
      <4> QED BY <3>2, <4>1 DEF EmaBody
    <3>3. CASE i # n + 1
      <4>1. g[i] = e[i] /\ e[i] = EmaBody(b, k, e, i)
        BY <2>1, <3>3 DEF IsEma
      <4>2. i # 1 => g[i - 1] = e[i - 1]
        BY <3>3
      <4> QED BY <4>1, <4>2 DEF EmaBody
    <3> QED BY <3>1, <3>2, <3>3
  <2>3. IsEma(b, k, n + 1, g)
    BY <2>2 DEF IsEma
  <2> QED BY <2>3
<1> QED BY <1>1, <1>2, SetInduction

\* The steps of the loop.
LEMMA EmaSteps ==
  ASSUME NEW b \in Seq(Int), Len(b) > 0, NEW k \in Int
  PROVE  /\ EmaOf(b, k)[1] = [num |-> b[1], den |-> 1]
         /\ \A n \in 1..(Len(b) - 1) :
              EmaOf(b, k)[n + 1] =
                [num |-> 2 * b[n + 1] * EmaOf(b, k)[n].den + (k - 1) * EmaOf(b, k)[n].num,
                 den |-> (k + 1) * EmaOf(b, k)[n].den]
<1> DEFINE e == EmaOf(b, k)
<1>1. IsEma(b, k, Len(b), e)
  <2>1. Len(b) \in Nat
    OBVIOUS
  <2> QED BY <2>1, EmaExists DEF EmaOf
<1> HIDE DEF e
<1>2. \A n \in 1..Len(b) : e[n] = EmaBody(b, k, e, n)
  BY <1>1 DEF IsEma
<1>3. ASSUME NEW n \in 1..(Len(b) - 1)
      PROVE  e[n + 1] = [num |-> 2 * b[n + 1] * e[n].den + (k - 1) * e[n].num,
                         den |-> (k + 1) * e[n].den]
  <2>1. n + 1 \in 1..Len(b) /\ n + 1 # 1 /\ (n + 1) - 1 = n
    OBVIOUS
  <2>2. e[n + 1] = EmaBody(b, k, e, n + 1)
    BY <1>2, <2>1
  <2> QED BY <2>1, <2>2 DEF EmaBody
<1>4. e[1] = [num |-> b[1], den |-> 1]
  <2>1. 1 \in 1..Len(b)
    OBVIOUS
  <2> QED BY <1>2, <2>1 DEF EmaBody
<1> QED BY <1>3, <1>4 DEF e

\* The sum of the values of g: what MapThenSumSet stands for.
First(s) == CHOOSE x \in s : TRUE
SumBody(g, f, s) == IF s = {} THEN 0 ELSE g[First(s)] + f[s \ {First(s)}]
IsSum(g, I, f) == f = [s \in SUBSET I |-> SumBody(g, f, s)]
SumOf(g, I) == (CHOOSE f : IsSum(g, I, f))[I]

\* What is taken from a finite set leaves a smaller one.
LEMMA SmallerSets ==
  ASSUME NEW I, IsFiniteSet(I)
  PROVE  /\ \A s \in SUBSET I : /\ IsFiniteSet(s) /\ Cardinality(s) \in Nat
                                /\ Cardinality(s) \leq Cardinality(I)
                                /\ Cardinality(s) = 0 <=> s = {}
         /\ \A s \in SUBSET I, x \in I : x \in s =>
              /\ s \ {x} \in SUBSET I
              /\ Cardinality(s \ {x}) = Cardinality(s) - 1
<1>1. ASSUME NEW s \in SUBSET I
      PROVE  /\ IsFiniteSet(s) /\ Cardinality(s) \in Nat
             /\ Cardinality(s) \leq Cardinality(I)
             /\ Cardinality(s) = 0 <=> s = {}
  BY FS_Subset, FS_CardinalityType, FS_EmptySet
<1>2. ASSUME NEW s \in SUBSET I, NEW x \in I, x \in s
      PROVE  Cardinality(s \ {x}) = Cardinality(s) - 1
  BY <1>1, <1>2, FS_RemoveElement
<1> QED BY <1>1, <1>2

\* The recursion over the subsets has a solution.
LEMMA SumExists ==
  ASSUME NEW I, IsFiniteSet(I), NEW g
  PROVE  \E f : IsSum(g, I, f)
<1> DEFINE Small(n) == {s \in SUBSET I : Cardinality(s) \leq n}
           Partial(n, f) == f = [s \in Small(n) |-> SumBody(g, f, s)]
           S == {n \in Nat : \E f : Partial(n, f)}
<1>1. \A s \in SUBSET I : Cardinality(s) \in Nat /\ Cardinality(s) \leq Cardinality(I)
  BY SmallerSets
<1>2. ASSUME NEW s \in SUBSET I, s # {}
      PROVE  /\ s \ {First(s)} \in SUBSET I
             /\ Cardinality(s \ {First(s)}) = Cardinality(s) - 1
  <2>1. First(s) \in s
    BY <1>2 DEF First
  <2> QED BY <2>1, SmallerSets
<1>3. \A s \in SUBSET I : Cardinality(s) = 0 <=> s = {}
  BY SmallerSets
<1>4. 0 \in S
  <2> DEFINE f == [s \in Small(0) |-> 0]
  <2>1. \A s \in Small(0) : s = {}
    BY <1>1, <1>3
  <2>2. Partial(0, f)
    BY <2>1 DEF SumBody
  <2> QED BY <2>2
<1>5. ASSUME NEW n \in S \cap Nat PROVE n + 1 \in S
  <2>1. PICK f : Partial(n, f)
    BY <1>5
  <2> DEFINE h == [s \in Small(n + 1) |-> IF s \in Small(n) THEN f[s] ELSE SumBody(g, f, s)]
  <2>2. ASSUME NEW s \in Small(n + 1) PROVE h[s] = SumBody(g, h, s)
    <3>1. CASE s = {}
      <4>1. s \in Small(n)
        BY <1>1, <1>3, <3>1
      <4> QED BY <2>1, <3>1, <4>1 DEF SumBody
    <3>2. CASE s # {}
      <4> DEFINE r == s \ {First(s)}
      <4>1. r \in Small(n) /\ r \in Small(n + 1)
        BY <1>1, <1>2, <3>2
      <4>2. h[r] = f[r]
        BY <4>1
      <4>3. SumBody(g, h, s) = SumBody(g, f, s)
        BY <3>2, <4>2 DEF SumBody
      <4>4. s \in Small(n) => f[s] = SumBody(g, f, s)
        BY <2>1
      <4> QED BY <4>3, <4>4
    <3> QED BY <3>1, <3>2
  <2>3. Partial(n + 1, h)
    <3>1. h = [s \in Small(n + 1) |-> h[s]]
      OBVIOUS
    <3> HIDE DEF h, Small
    <3>2. [s \in Small(n + 1) |-> h[s]] = [s \in Small(n + 1) |-> SumBody(g, h, s)]
      BY <2>2
    <3> QED BY <3>1, <3>2
  <2> HIDE DEF h, Partial
  <2>4. \E e : Partial(n + 1, e)
    BY <2>3
  <2> QED BY <2>4
<1>6. Cardinality(I) \in S /\ Small(Cardinality(I)) = SUBSET I
  <2>1. Cardinality(I) \in Nat
    BY <1>1
  <2> QED BY <1>1, <1>4, <1>5, <2>1, SetInduction
<1> QED BY <1>6 DEF IsSum

\* The recursion over the subsets of I is the sum over each of them.
LEMMA SumUnique ==
  ASSUME NEW I, IsFiniteSet(I), NEW g
  PROVE  /\ SumOf(g, {}) = 0
         /\ \A s \in SUBSET I : s # {} =>
              SumOf(g, s) = g[First(s)] + SumOf(g, s \ {First(s)})
<1> DEFINE F(J) == CHOOSE f : IsSum(g, J, f)
           T == {n \in Nat : \A s, J \in SUBSET I :
                   s \subseteq J /\ Cardinality(s) = n => F(J)[s] = SumOf(g, s)}
<1>1. ASSUME NEW J \in SUBSET I PROVE IsSum(g, J, F(J))
  BY SmallerSets, SumExists
<1>2. ASSUME NEW J \in SUBSET I, NEW s \in SUBSET J
      PROVE  F(J)[s] = SumBody(g, F(J), s)
  BY <1>1 DEF IsSum
<1>3. \A s \in SUBSET I : SumOf(g, s) = F(s)[s]
  BY DEF SumOf
<1> HIDE DEF F
<1>4. ASSUME NEW s \in SUBSET I, s # {}
      PROVE  /\ s \ {First(s)} \in SUBSET I
             /\ Cardinality(s \ {First(s)}) = Cardinality(s) - 1
  <2>1. First(s) \in s
    BY <1>4 DEF First
  <2> QED BY <2>1, SmallerSets
<1>5. \A s \in SUBSET I : Cardinality(s) \in Nat /\ (Cardinality(s) = 0 <=> s = {})
  BY SmallerSets
<1>6. \A J \in SUBSET I : F(J)[{}] = 0
  BY <1>2 DEF SumBody
<1>7. 0 \in T
  BY <1>3, <1>5, <1>6
<1>8. ASSUME NEW n \in T \cap Nat PROVE n + 1 \in T
  <2> SUFFICES ASSUME NEW s \in SUBSET I, NEW J \in SUBSET I, s \subseteq J, Cardinality(s) = n + 1
               PROVE  F(J)[s] = SumOf(g, s)
    OBVIOUS
  <2> DEFINE x == First(s)
             r == s \ {x}
  <2>1. s # {}
    BY <1>5
  <2>2. r \in SUBSET I /\ Cardinality(r) = n
    BY <1>4, <2>1
  <2>3. F(J)[s] = g[x] + F(J)[r] /\ F(s)[s] = g[x] + F(s)[r]
    BY <1>2, <2>1 DEF SumBody
  <2>4. F(J)[r] = SumOf(g, r) /\ F(s)[r] = SumOf(g, r)
    BY <1>8, <2>2
  <2> QED BY <1>3, <2>3, <2>4
<1>9. ASSUME NEW s \in SUBSET I, NEW J \in SUBSET I, s \subseteq J
      PROVE  F(J)[s] = SumOf(g, s)
  <2>1. Cardinality(s) \in T
    BY <1>5, <1>7, <1>8, SetInduction
  <2> QED BY <1>9, <2>1
<1>10. ASSUME NEW s \in SUBSET I, s # {}
       PROVE  SumOf(g, s) = g[First(s)] + SumOf(g, s \ {First(s)})
  <2> DEFINE x == First(s)
             r == s \ {x}
  <2>1. F(s)[s] = g[x] + F(s)[r]
    BY <1>2, <1>10 DEF SumBody
  <2>2. F(s)[r] = SumOf(g, r)
    BY <1>9
  <2> QED BY <1>3, <2>1, <2>2
<1> QED BY <1>3, <1>6, <1>10

\* A sum of integers is an integer, and the values can be added in any order.
LEMMA SumRemove ==
  ASSUME NEW I, IsFiniteSet(I), NEW g, \A i \in I : g[i] \in Int
  PROVE  \A s \in SUBSET I :
           SumOf(g, s) \in Int /\ \A x \in s : SumOf(g, s) = g[x] + SumOf(g, s \ {x})
<1>0. \A r \in SUBSET I : r # {} =>
        SumOf(g, r) = g[First(r)] + SumOf(g, r \ {First(r)})
  BY SumUnique
<1> DEFINE Good(s) == SumOf(g, s) \in Int /\ \A x \in s : SumOf(g, s) = g[x] + SumOf(g, s \ {x})
           T == {n \in Nat : \A s \in SUBSET I : Cardinality(s) \leq n => Good(s)}
<1>1. \A s \in SUBSET I : Cardinality(s) \in Nat /\ (Cardinality(s) = 0 <=> s = {})
  BY SmallerSets
<1>2. Good({})
  BY SumUnique
<1> HIDE DEF Good
<1>3. ASSUME NEW n \in T \cap Nat, NEW s \in SUBSET I, Cardinality(s) \leq n + 1
      PROVE  Good(s)
  <2>1. CASE s = {}
    BY <1>2, <2>1
  <2>2. CASE s # {}
    <3> DEFINE c == First(s)
    <3>1. c \in s
      BY <2>2 DEF First
    <3>2. SumOf(g, s) = g[c] + SumOf(g, s \ {c})
      BY <1>0, <2>2, Zenon
    <3> HIDE DEF c
    <3>3. ASSUME NEW x \in s PROVE s \ {x} \in SUBSET I /\ Good(s \ {x}) /\ g[x] \in Int
      <4>1. s \ {x} \in SUBSET I /\ Cardinality(s \ {x}) = Cardinality(s) - 1
        BY SmallerSets
      <4>2. n \in T /\ n \in Nat /\ Cardinality(s) \in Nat /\ Cardinality(s \ {x}) \leq n
        BY <1>1, <1>3, <4>1
      <4> QED BY <4>1, <4>2
    <3>4. ASSUME NEW x \in s, x # c PROVE SumOf(g, s) = g[x] + SumOf(g, s \ {x})
      <4> DEFINE r == (s \ {c}) \ {x}
      <4>1. r = (s \ {x}) \ {c} /\ x \in s \ {c} /\ c \in s \ {x}
        BY <3>1, <3>4
      <4>2. SumOf(g, s \ {c}) = g[x] + SumOf(g, r)
        BY <3>1, <3>3, <4>1 DEF Good
      <4>3. SumOf(g, s \ {x}) = g[c] + SumOf(g, r)
        BY <3>3, <4>1 DEF Good
      <4>4. SumOf(g, r) \in Int
        <5>1. r \in SUBSET I /\ Cardinality(r) \leq n
          <6>1. /\ Cardinality(s \ {x}) = Cardinality(s) - 1
                /\ Cardinality((s \ {x}) \ {c}) = Cardinality(s \ {x}) - 1
            BY <3>1, <3>3, <4>1, SmallerSets
          <6>2. (s \ {x}) \ {c} \in SUBSET I /\ Cardinality(s) \in Nat /\ n \in Nat
            BY <1>1, <1>3
          <6> QED BY <1>3, <4>1, <6>1, <6>2
        <5>2. n \in T
          BY <1>3
        <5> QED BY <5>1, <5>2 DEF Good
      <4> HIDE DEF r
      <4>5. g[c] \in Int /\ g[x] \in Int
        BY <3>1, <3>3
      <4> QED BY <3>2, <4>2, <4>3, <4>4, <4>5
    <3>5. SumOf(g, s) \in Int
      BY <3>1, <3>2, <3>3 DEF Good
    <3> QED BY <3>2, <3>4, <3>5 DEF Good
  <2> QED BY <2>1, <2>2
<1>4. 0 \in T
  BY <1>1, <1>2
<1>5. ASSUME NEW n \in T \cap Nat PROVE n + 1 \in T
  BY <1>3
<1>6. ASSUME NEW s \in SUBSET I PROVE Good(s)
  <2>1. Cardinality(s) \in T
    BY <1>1, <1>4, <1>5, SetInduction
  <2> QED BY <1>1, <2>1
<1> QED BY <1>6 DEF Good
-----------------------------------------------------------------------------
(* The averages are weighted sums.                                         *)

\* A common factor can be taken out of a sum.
LEMMA SumScaled ==
  ASSUME NEW I, IsFiniteSet(I), NEW g, \A i \in I : g[i] \in Int,
         NEW r \in Int, NEW h, \A i \in I : h[i] = r * g[i]
  PROVE  SumOf(h, I) = r * SumOf(g, I)
<1> DEFINE T == {n \in Nat : \A s \in SUBSET I : Cardinality(s) = n => SumOf(h, s) = r * SumOf(g, s)}
<1>1. \A s \in SUBSET I : Cardinality(s) \in Nat /\ (Cardinality(s) = 0 <=> s = {})
  BY SmallerSets
<1>2. \A i \in I : h[i] \in Int
  OBVIOUS
<1>3. ASSUME NEW s \in SUBSET I, NEW x \in s
      PROVE  /\ SumOf(g, s) = g[x] + SumOf(g, s \ {x})
             /\ SumOf(h, s) = r * g[x] + SumOf(h, s \ {x})
             /\ g[x] \in Int /\ SumOf(g, s \ {x}) \in Int
  BY <1>2, SumRemove
<1>4. 0 \in T
  <2>1. SumOf(g, {}) = 0 /\ SumOf(h, {}) = 0
    BY SumUnique
  <2> QED BY <1>1, <2>1
<1>5. ASSUME NEW n \in T \cap Nat PROVE n + 1 \in T
  <2> SUFFICES ASSUME NEW s \in SUBSET I, Cardinality(s) = n + 1
               PROVE  SumOf(h, s) = r * SumOf(g, s)
    OBVIOUS
  <2>1. PICK x \in s : TRUE
    BY <1>1
  <2>2. s \ {x} \in SUBSET I /\ Cardinality(s \ {x}) = n
    BY SmallerSets
  <2>3. SumOf(h, s \ {x}) = r * SumOf(g, s \ {x})
    BY <1>5, <2>2
  <2> DEFINE a == SumOf(g, s \ {x})
             b == g[x]
  <2>4. a \in Int /\ b \in Int /\ SumOf(g, s) = b + a /\ SumOf(h, s) = r * b + r * a
    BY <1>3, <2>3
  <2> HIDE DEF a, b
  <2> QED BY <2>4
<1>6. Cardinality(I) \in T
  BY <1>1, <1>4, <1>5, SetInduction
<1> QED BY <1>1, <1>6

\* The recursive function of Power.
IsPower(x, m, p) == p = [i \in 0..m |-> IF i = 0 THEN 1 ELSE x * p[i - 1]]
PowerOf(x, m) == CHOOSE p : IsPower(x, m, p)

LEMMA PowerExists ==
  ASSUME NEW x, NEW m \in Nat
  PROVE  \E p : IsPower(x, m, p)
<1> DEFINE S == {n \in Nat : \E p : IsPower(x, n, p)}
<1>1. 0 \in S
  <2> DEFINE p == [i \in 0..0 |-> 1]
  <2>1. IsPower(x, 0, p)
    BY DEF IsPower
  <2> QED BY <2>1
<1>2. ASSUME NEW n \in S \cap Nat PROVE n + 1 \in S
  <2>1. PICK p : IsPower(x, n, p)
    BY <1>2
  <2> DEFINE q == [i \in 0..(n + 1) |-> IF i = n + 1 THEN x * p[n] ELSE p[i]]
  <2>2. ASSUME NEW i \in 0..(n + 1) PROVE q[i] = IF i = 0 THEN 1 ELSE x * q[i - 1]
    <3>1. CASE i = n + 1
      <4>1. q[n] = p[n] /\ i # 0 /\ i - 1 = n
        BY <3>1
      <4> QED BY <3>1, <4>1
    <3>2. CASE i # n + 1
      <4>1. q[i] = p[i] /\ p[i] = IF i = 0 THEN 1 ELSE x * p[i - 1]
        BY <2>1, <3>2 DEF IsPower
      <4>2. i # 0 => q[i - 1] = p[i - 1]
        BY <3>2
      <4> QED BY <4>1, <4>2
    <3> QED BY <3>1, <3>2
  <2>3. IsPower(x, n + 1, q)
    BY <2>2 DEF IsPower
  <2> HIDE DEF q
  <2> QED BY <1>2, <2>3
<1> QED BY <1>1, <1>2, SetInduction

\* Powers of integers, by their laws.
LEMMA PowerSteps ==
  ASSUME NEW x \in Int
  PROVE  /\ Power(x, 0) = 1
         /\ \A n \in Nat : Power(x, n) \in Int /\ Power(x, n + 1) = x * Power(x, n)
<1>1. \A n \in Nat : Power(x, n) = PowerOf(x, n)[n]
  BY DEF Power, PowerOf, IsPower
<1>2. ASSUME NEW m \in Nat, NEW i \in 0..m
      PROVE  PowerOf(x, m)[i] = IF i = 0 THEN 1 ELSE x * PowerOf(x, m)[i - 1]
  <2>1. IsPower(x, m, PowerOf(x, m))
    BY PowerExists DEF PowerOf
  <2> QED BY <2>1 DEF IsPower
<1> DEFINE T == {n \in Nat : /\ Power(x, n) \in Int
                             /\ \A m \in Nat : n \leq m => PowerOf(x, m)[n] = Power(x, n)}
<1>3. \A m \in Nat : PowerOf(x, m)[0] = 1
  BY <1>2
<1>4. 0 \in T /\ Power(x, 0) = 1
  BY <1>1, <1>3
<1>5. ASSUME NEW n \in T \cap Nat
      PROVE  n + 1 \in T /\ Power(x, n + 1) = x * Power(x, n)
  <2>1. ASSUME NEW m \in Nat, n + 1 \leq m
        PROVE  PowerOf(x, m)[n + 1] = x * Power(x, n)
    <3>1. n + 1 \in 0..m /\ n + 1 # 0 /\ (n + 1) - 1 = n /\ n \leq m
      BY <2>1
    <3>2. PowerOf(x, m)[n + 1] = x * PowerOf(x, m)[n]
      BY <1>2, <3>1
    <3> QED BY <1>5, <3>1, <3>2
  <2>2. Power(x, n + 1) = x * Power(x, n)
    BY <1>1, <2>1
  <2> QED BY <1>5, <2>1, <2>2
<1>6. Nat \subseteq T
  BY <1>4, <1>5, SetInduction
<1> QED BY <1>4, <1>5, <1>6

\* The weights of the first n prices, as a function.
Weights(b, k, n) == [i \in 1..n |-> Weighted(b, k, n, i)]

LEMMA WeightedSumUnfold ==
  ASSUME NEW b, NEW k
  PROVE  WeightedSum(b, k) = SumOf(Weights(b, k, Len(b)), 1..Len(b))
<1> DEFINE I == 1..Len(b)
           W(f, s) == IF s = {} THEN 0
                      ELSE LET x == CHOOSE x \in s : TRUE
                           IN Weighted(b, k, Len(b), x) + f[s \ {x}]
<1>1. WeightedSum(b, k) = (CHOOSE f : f = [s \in SUBSET I |-> W(f, s)])[I]
  BY DEF WeightedSum, MapThenSumSet, MapThenFoldSet
<1>2. ASSUME NEW f, NEW s \in SUBSET I
      PROVE  W(f, s) = SumBody(Weights(b, k, Len(b)), f, s)
  <2>1. CASE s = {}
    BY <2>1 DEF SumBody
  <2>2. CASE s # {}
    <3>1. First(s) \in I
      BY <2>2 DEF First
    <3>2. Weights(b, k, Len(b))[First(s)] = Weighted(b, k, Len(b), First(s))
      BY <3>1 DEF Weights
    <3> QED BY <2>2, <3>2 DEF SumBody, First
  <2> QED BY <2>1, <2>2
<1> HIDE DEF W, I
<1>3. \A f : f = [s \in SUBSET I |-> W(f, s)] <=> IsSum(Weights(b, k, Len(b)), I, f)
  BY <1>2 DEF IsSum
<1>4. (CHOOSE f : f = [s \in SUBSET I |-> W(f, s)]) = (CHOOSE f : IsSum(Weights(b, k, Len(b)), I, f))
  BY <1>3
<1> QED BY <1>1, <1>4 DEF SumOf, I

\* One price more: the old sum is scaled, and the new price has its weight.
LEMMA WeightsGrow ==
  ASSUME NEW b \in Seq(Int), NEW k \in Int, NEW n \in 1..(Len(b) - 1)
  PROVE  /\ SumOf(Weights(b, k, n), 1..n) \in Int
         /\ SumOf(Weights(b, k, n + 1), 1..(n + 1))
              = 2 * b[n + 1] * Power(k + 1, n - 1)
                  + (k - 1) * SumOf(Weights(b, k, n), 1..n)
<1> DEFINE g == Weights(b, k, n)
           h == Weights(b, k, n + 1)
<1>1. /\ k - 1 \in Int /\ k + 1 \in Int /\ n \in Nat /\ n - 1 \in Nat
      /\ \A i \in 1..(n + 1) : b[i] \in Int
  OBVIOUS
<1>2. ASSUME NEW i \in 1..(n + 1)
      PROVE  Weighted(b, k, n + 1, i) \in Int
  <2>1. CASE i = 1
    <3>1. Power(k - 1, (n + 1) - 1) \in Int /\ b[1] \in Int
      BY <1>1, PowerSteps
    <3> QED BY <2>1, <3>1 DEF Weighted
  <2>2. CASE i # 1
    <3>1. Power(k - 1, (n + 1) - i) \in Int /\ Power(k + 1, i - 2) \in Int /\ b[i] \in Int
      <4>1. (n + 1) - i \in Nat /\ i - 2 \in Nat
        BY <1>1, <2>2
      <4> QED BY <1>1, <4>1, PowerSteps
    <3> QED BY <2>2, <3>1 DEF Weighted
  <2> QED BY <2>1, <2>2
<1>3. ASSUME NEW i \in 1..n
      PROVE  /\ Weighted(b, k, n, i) \in Int
             /\ Weighted(b, k, n + 1, i) = (k - 1) * Weighted(b, k, n, i)
  <2>1. n - i \in Nat /\ (n + 1) - i = (n - i) + 1
    OBVIOUS
  <2> DEFINE q == Power(k - 1, n - i)
  <2>2. q \in Int /\ Power(k - 1, (n + 1) - i) = (k - 1) * q
    BY <1>1, <2>1, PowerSteps
  <2> HIDE DEF q
  <2>3. CASE i = 1
    <3>1. b[1] \in Int /\ b[1] * ((k - 1) * q) = (k - 1) * (b[1] * q) /\ b[1] * q \in Int
      BY <1>1, <2>2
    <3>2. Weighted(b, k, n, i) = b[1] * q
      BY <2>3 DEF Weighted, q
    <3>3. Weighted(b, k, n + 1, i) = b[1] * ((k - 1) * q)
      BY <2>2, <2>3 DEF Weighted
    <3> QED BY <3>1, <3>2, <3>3
  <2>4. CASE i # 1
    <3> DEFINE r == Power(k + 1, i - 2)
               p == b[i]
    <3>1. r \in Int /\ p \in Int
      <4>1. i - 2 \in Nat /\ i \in 1..(n + 1)
        BY <1>1, <2>4
      <4> QED BY <1>1, <4>1, PowerSteps
    <3>2. Weighted(b, k, n, i) = 2 * p * q * r
      BY <2>4 DEF Weighted, q
    <3>3. Weighted(b, k, n + 1, i) = 2 * p * ((k - 1) * q) * r
      BY <2>2, <2>4 DEF Weighted
    <3> HIDE DEF r, p
    <3>4. 2 * p * q * r \in Int /\ 2 * p * ((k - 1) * q) * r = (k - 1) * (2 * p * q * r)
      BY <2>2, <3>1
    <3> QED BY <3>2, <3>3, <3>4
  <2> QED BY <2>3, <2>4
<1>4. IsFiniteSet(1..n) /\ IsFiniteSet(1..(n + 1))
  BY <1>1, FS_Interval
<1>5. /\ \A i \in 1..(n + 1) : h[i] \in Int
      /\ \A i \in 1..n : g[i] \in Int /\ h[i] = (k - 1) * g[i]
  BY <1>2, <1>3 DEF Weights
<1>6. h[n + 1] = 2 * b[n + 1] * Power(k + 1, n - 1)
  <2>1. h[n + 1] = 2 * b[n + 1] * Power(k - 1, 0) * Power(k + 1, n - 1)
    BY <1>1 DEF Weights, Weighted
  <2>2. Power(k - 1, 0) = 1 /\ Power(k + 1, n - 1) \in Int
    BY <1>1, PowerSteps
  <2> QED BY <1>1, <2>1, <2>2
<1> HIDE DEF g, h
<1>7. SumOf(h, 1..(n + 1)) = h[n + 1] + SumOf(h, 1..n)
  <2>1. (1..(n + 1)) \ {n + 1} = 1..n /\ n + 1 \in 1..(n + 1)
    BY <1>1
  <2>2. \A x \in 1..(n + 1) : SumOf(h, 1..(n + 1)) = h[x] + SumOf(h, (1..(n + 1)) \ {x})
    <3> DEFINE I == 1..(n + 1)
    <3>1. IsFiniteSet(I) /\ \A i \in I : h[i] \in Int
      BY <1>4, <1>5
    <3> HIDE DEF I
    <3>2. \A x \in I : SumOf(h, I) = h[x] + SumOf(h, I \ {x})
      BY <3>1, SumRemove
    <3> QED BY <3>2 DEF I
  <2> QED BY <2>1, <2>2, Zenon
<1>8. SumOf(h, 1..n) = (k - 1) * SumOf(g, 1..n)
  BY <1>1, <1>4, <1>5, SumScaled
<1>9. SumOf(g, 1..n) \in Int
  BY <1>4, <1>5, SumRemove
<1> QED BY <1>6, <1>7, <1>8, <1>9 DEF g, h

\* The loop of _ema, after n prices.
LEMMA EmaWeighted ==
  ASSUME NEW b \in Seq(Int), Len(b) > 0, NEW k \in Int
  PROVE  EmaLoop(b, k) = [num |-> WeightedSum(b, k), den |-> Power(k + 1, Len(b) - 1)]
<1> DEFINE e == EmaOf(b, k)
           w(n) == SumOf(Weights(b, k, n), 1..n)
           T == {n \in Nat : n \in 1..Len(b) => e[n] = [num |-> w(n), den |-> Power(k + 1, n - 1)]}
<1>1. /\ e[1] = [num |-> b[1], den |-> 1]
      /\ \A n \in 1..(Len(b) - 1) :
           e[n + 1] = [num |-> 2 * b[n + 1] * e[n].den + (k - 1) * e[n].num,
                       den |-> (k + 1) * e[n].den]
  BY EmaSteps
<1>2. Len(b) \in Nat /\ Len(b) \in 1..Len(b) /\ b[1] \in Int
  OBVIOUS
<1>3. w(1) = b[1]
  <2>1. Weights(b, k, 1)[1] = b[1]
    <3>1. Weights(b, k, 1)[1] = b[1] * Power(k - 1, 0)
      BY DEF Weights, Weighted
    <3>2. Power(k - 1, 0) = 1
      BY PowerSteps
    <3> QED BY <1>2, <3>1, <3>2
  <2>2. IsFiniteSet(1..1) /\ (\A i \in 1..1 : Weights(b, k, 1)[i] \in Int)
    <3>1. \A i \in 1..1 : i = 1
      OBVIOUS
    <3>2. IsFiniteSet(1..1)
      <4>1. 1..1 = {1}
        OBVIOUS
      <4> QED BY <4>1, FS_Singleton
    <3> QED BY <1>2, <2>1, <3>1, <3>2
  <2>3. w(1) = Weights(b, k, 1)[1] + SumOf(Weights(b, k, 1), (1..1) \ {1})
    BY <2>2, SumRemove
  <2>4. SumOf(Weights(b, k, 1), (1..1) \ {1}) = 0
    <3>1. (1..1) \ {1} = {}
      OBVIOUS
    <3> QED BY <2>2, <3>1, SumUnique
  <2> QED BY <1>2, <2>1, <2>3, <2>4
<1> HIDE DEF e
<1>4. 0 \in T
  OBVIOUS
<1>5. ASSUME NEW n \in T \cap Nat, n + 1 \in 1..Len(b)
      PROVE  e[n + 1] = [num |-> w(n + 1), den |-> Power(k + 1, (n + 1) - 1)]
  <2>1. CASE n = 0
    <3>1. Power(k + 1, 0) = 1
      BY PowerSteps
    <3> QED BY <1>1, <1>3, <2>1, <3>1
  <2>2. CASE n # 0
    <3>1. n \in 1..Len(b) /\ n \in 1..(Len(b) - 1) /\ n - 1 \in Nat /\ (n + 1) - 1 = (n - 1) + 1
      BY <1>2, <1>5, <2>2
    <3>2. e[n].num = w(n) /\ e[n].den = Power(k + 1, n - 1)
      BY <1>5, <3>1
    <3>3. w(n + 1) = 2 * b[n + 1] * Power(k + 1, n - 1) + (k - 1) * w(n)
      BY <3>1, WeightsGrow
    <3>4. Power(k + 1, (n + 1) - 1) = (k + 1) * Power(k + 1, n - 1)
      BY <3>1, PowerSteps
    <3> HIDE DEF w
    <3>5. e[n + 1] = [num |-> 2 * b[n + 1] * e[n].den + (k - 1) * e[n].num,
                      den |-> (k + 1) * e[n].den]
      BY <1>1, <3>1, Zenon
    <3> QED BY <3>2, <3>3, <3>4, <3>5, Zenon
  <2> QED BY <2>1, <2>2
<1> HIDE DEF w
<1>6. ASSUME NEW n \in T \cap Nat PROVE n + 1 \in T
  BY <1>5
<1>7. Len(b) \in T
  BY <1>2, <1>4, <1>6, SetInduction
<1>8. EmaLoop(b, k) = e[Len(b)]
  BY EmaUnfold DEF e
<1>9. WeightedSum(b, k) = w(Len(b))
  BY WeightedSumUnfold DEF w
<1> QED BY <1>2, <1>7, <1>8, <1>9

(* symbol_state.py: _ema returns the weighted sum of the prices, rounded,  *)
(* for every period and every buffer that ticks may fill.                  *)
THEOREM EmaStaysWeightedSum == PipelineSpec => []EmaIsWeightedSum
<1>1. PipelineTypeOK => EmaIsWeightedSum
  <2> SUFFICES ASSUME buffer \in Seq(Prices), buffer # <<>>,
                      NEW period \in {FastPeriod, SlowPeriod}
               PROVE  Ema(buffer, period) =
                        Rounded(WeightedSum(buffer, period), Power(period + 1, Len(buffer) - 1))
    BY DEF PipelineTypeOK, EmaIsWeightedSum
  <2>1. buffer \in Seq(Int) /\ Len(buffer) > 0
    <3>1. Prices \subseteq Int
      BY TickPricesAssumption
    <3>2. ASSUME NEW i \in 1..Len(buffer) PROVE buffer[i] \in Int
      <4>1. buffer[i] \in Prices
        OBVIOUS
      <4> QED BY <3>1, <4>1
    <3> QED BY <3>2
  <2>2. period \in Int
    BY PeriodsAssumption
  <2>3. EmaLoop(buffer, period) = [num |-> WeightedSum(buffer, period),
                                   den |-> Power(period + 1, Len(buffer) - 1)]
    BY <2>1, <2>2, EmaWeighted
  <2> QED BY <2>3 DEF Ema
<1> QED BY <1>1, PipelineTyped, PTL
=============================================================================
