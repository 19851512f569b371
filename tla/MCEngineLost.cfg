\* README.md:271 against an order that is executed but whose reply is lost.
CONSTANTS
  forex = forex
  crypto = crypto
  eur = eur
  jpy = jpy
  btc = btc
  None = None
  Symbols = {eur}
  Tokens = {k1, k2}
  Tasks = {forex, crypto}
  LockTimeout = 1
  MaxDropped = 1
  MaxOpenTrades = 1
  Cooldown = 1
  Simulated = FALSE
  Alerts = TRUE
  RowsMayFail = FALSE
  Outcomes = {"filled", "lost"}
  MaxPosition = 1
  Serves <- ByFeed
SPECIFICATION EngineSpec
INVARIANTS ExecutedIsRecorded
