\* Three prices, short averages, a buffer that overflows, a cooldown of two ticks.
CONSTANTS
  Sym = eur
  Symbols = {eur}
  None = None
  Never = Never
  Prices = {98, 100, 104}
  FastPeriod = 2
  SlowPeriod = 4
  RsiPeriod = 2
  EmaTicks = 3
  RsiTicks = 3
  MinTicks = 4
  BufferSize = 5
  Oversold = 35
  Overbought = 65
  StopLoss = 20
  TakeProfit = 40
  Cooldown = 2
  MaxClock = 3
SPECIFICATION PipelineSpec
INVARIANTS PipelineTypeOK StopsHonoured LevelsBracketEntry OrdersFitTrade EmaIsWeightedSum
PROPERTY ImplementsTimer
