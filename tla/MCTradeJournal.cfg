\* Two symbols, two prices (so that exits may break even), one midnight; a restart,
\* a write that fails, or both.
CONSTANTS
  eur = eur
  btc = btc
  old = old
  new = new
  Symbols = {eur, btc}
  Keys = {old, new}
  Prices = {1, 2}
  LastDay = 1
  MaxFills = 4
  MaxRestarts = 1
  MaxFailures = 1
  MaxEvents = 5
  None = None
SPECIFICATION JournalSpec
SYMMETRY JournalSymmetry
INVARIANTS JournalTypeOK PerformanceIsHonest TodayIsIntraday OpenEntriesCoverBook ExecutedLeavesRecord ReceiptsAuthentic
CHECK_DEADLOCK FALSE
