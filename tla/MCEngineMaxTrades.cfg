\* README.md:370 against two feeds that enter at the same time.
CONSTANTS
  forex = forex
  crypto = crypto
  eur = eur
  jpy = jpy
  btc = btc
  None = None
  Symbols = {eur, btc}
  Tokens = {k1, k2}
  Tasks = {forex, crypto}
  LockTimeout = 1
  MaxDropped = 1
  MaxOpenTrades = 1
  Cooldown = 1
  Simulated = FALSE
  Alerts = TRUE
  RowsMayFail = FALSE
  Outcomes = {"filled", "rejected"}
  MaxPosition = 1
  Serves <- ByFeed
SPECIFICATION EngineSpec
INVARIANTS MaxOpenTradesRespected
