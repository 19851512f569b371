\* The simulation broker, shared symbols, no Telegram.
CONSTANTS
  forex = forex
  crypto = crypto
  eur = eur
  jpy = jpy
  btc = btc
  None = None
  Symbols = {eur, btc}
  Tokens = {k1, k2}
  Tasks = {forex, crypto}
  LockTimeout = 1
  MaxDropped = 1
  MaxOpenTrades = 1
  Cooldown = 1
  Simulated = TRUE
  Alerts = FALSE
  RowsMayFail = TRUE
  Outcomes = {"filled", "rejected"}
  MaxPosition = 1
  Serves <- Shared
SPECIFICATION EngineSpec
SYMMETRY SharedSymmetry
INVARIANTS MaxOpenTradesRespected BookMatchesBroker
