\* telegram_bot.py:630 against a trade that is closed on the day after its entry.
CONSTANTS
  eur = eur
  btc = btc
  old = old
  new = new
  Symbols = {eur, btc}
  Keys = {old, new}
  Prices = {1, 2}
  LastDay = 1
  MaxFills = 4
  MaxRestarts = 1
  MaxFailures = 1
  MaxEvents = 5
  None = None
SPECIFICATION JournalSpec
SYMMETRY JournalSymmetry
INVARIANT TodayCountsClosed
CHECK_DEADLOCK FALSE
