\* trade_logger.py:57 against a response without a fill.
CONSTANTS
  forex = forex
  crypto = crypto
  eur = eur
  jpy = jpy
  btc = btc
  None = None
  Symbols = {eur}
  Tokens = {k1, k2}
  Tasks = {forex, crypto}
  LockTimeout = 1
  MaxDropped = 1
  MaxOpenTrades = 1
  Cooldown = 1
  Simulated = FALSE
  Alerts = TRUE
  RowsMayFail = FALSE
  Outcomes = {"filled", "unfilled"}
  MaxPosition = 1
  Serves <- ByFeed
SPECIFICATION EngineSpec
INVARIANTS RowsAreExecuted
