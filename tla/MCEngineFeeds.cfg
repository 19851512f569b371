\* The wiring of main.py: two feed connections, three symbols, a live broker.
CONSTANTS
  forex = forex
  crypto = crypto
  eur = eur
  jpy = jpy
  btc = btc
  None = None
  Symbols = {eur, jpy, btc}
  Tokens = {k1, k2}
  Tasks = {forex, crypto}
  LockTimeout = 1
  MaxDropped = 1
  MaxOpenTrades = 1
  Cooldown = 1
  Simulated = FALSE
  Alerts = TRUE
  RowsMayFail = FALSE
  Outcomes = {"filled", "rejected"}
  MaxPosition = 1
  Serves <- ByFeed
SPECIFICATION ShutdownSpec
SYMMETRY FeedSymmetry
INVARIANTS JournalReplaysBook NoEntryWhileCooling NothingDropped OpenTradesBound ShutdownLosesOrdersOnly ExitsSettled
PROPERTIES PauseFreezesExposure ImplementsLifecycle
CHECK_DEADLOCK FALSE
