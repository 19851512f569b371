\* Two coroutines share a symbol, and everything may go wrong.
CONSTANTS
  forex = forex
  crypto = crypto
  eur = eur
  jpy = jpy
  btc = btc
  None = None
  Symbols = {eur}
  Tokens = {k1, k2}
  Tasks = {forex, crypto}
  LockTimeout = 2
  MaxDropped = 1
  MaxOpenTrades = 1
  Cooldown = 1
  Simulated = FALSE
  Alerts = TRUE
  RowsMayFail = TRUE
  Outcomes = {"filled", "unfilled", "rejected", "lost"}
  MaxPosition = 2
  Serves <- Shared
SPECIFICATION EngineSpec
SYMMETRY SharedSymmetry
INVARIANTS EngineTypeOK BookMatchesState NoLockLeftBehind
PROPERTIES ImplementsBotLock
