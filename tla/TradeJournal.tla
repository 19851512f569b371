---------------------------- MODULE TradeJournal ----------------------------
(***************************************************************************)
(* The records of executed trades: the CSV rows that                       *)
(* logging_/trade_logger.py appends for the engine's trades, the receipts  *)
(* of ledger/receipt.py, and the summaries that                            *)
(* notifications/telegram_bot.py computes by replaying the rows (/pnl and  *)
(* /performance).                                                          *)
(*                                                                         *)
(* The engine is reduced to its trade book.  With a fill, book and receipt *)
(* are written at once and the row is handed to a thread; until the thread *)
(* has ended, the symbol is locked, and a crash loses the row.  A restart  *)
(* empties the book; the files stay.  `fills` is a history variable: what  *)
(* the engine has executed, which the summaries only infer.  The index of  *)
(* a fill in it stands for its order id.                                   *)
(***************************************************************************)
EXTENDS ReceiptLedger, Sequences, FiniteSets, SequencesExt

CONSTANTS Symbols,      \* the traded symbols
          Prices,       \* the fill prices
          LastDay,      \* bound of the UTC date
          MaxFills,     \* bound of the number of trades executed
          MaxRestarts,  \* bound of the number of restarts
          MaxFailures,  \* bound of the number of writes that fail
          MaxEvents,    \* bound of the three numbers together
          None          \* no open trade, no row

Entries == {"BUY", "SELL"}

ASSUME PricesAssumption == Prices \subseteq Nat

VARIABLES rows,      \* the rows of trades.csv
          book,      \* _open_trades: the order id of the entry, or None
          pending,   \* pending[s]: the row of s that a thread writes, or None
          today,     \* datetime.utcnow().date()
          restarts,  \* how often the engine was restarted
          failures,  \* how many writes have failed
          lost,      \* history: the order ids whose rows were lost
          fills      \* history: the trades the engine executed

journalVars == <<rows, book, pending, today, restarts, failures, lost, fills, ledgerVars>>

Ids == 1..MaxFills
Row == [id : Ids, symbol : Symbols, action : Entries \cup {"CLOSE"}, price : Prices, day : 0..LastDay]
\* An entry that the replay has not seen closed.
OpenEntry == [action : Entries, price : Prices]

ASSUME JournalBoundsAssumption == {LastDay, MaxFills, MaxRestarts, MaxFailures, MaxEvents} \subseteq Nat
ASSUME JournalNoneAssumption == None \notin Ids \cup Row \cup OpenEntry

JournalTypeOK ==
  /\ rows \in Seq(Row) /\ Len(rows) \leq MaxFills
  /\ book \in [Symbols -> Ids \cup {None}]
  /\ pending \in [Symbols -> Row \cup {None}]
  /\ today \in 0..LastDay
  /\ restarts \in 0..MaxRestarts
  /\ failures \in 0..MaxFailures
  /\ lost \subseteq Ids
  /\ fills \in Seq([row : Row, entry : Ids \cup {None}, saved : BOOLEAN, key : Keys])
  /\ {r.data : r \in receipts} \subseteq [id : Ids, symbol : Symbols, price : Prices,
                                          action : Entries \cup {"CLOSE"}]
  /\ secret \in Keys

JournalInit == /\ LedgerInit
               /\ rows = <<>>
               /\ book = [s \in Symbols |-> None]
               /\ pending = [s \in Symbols |-> None]
               /\ today = 0
               /\ restarts = 0
               /\ failures = 0
               /\ lost = {}
               /\ fills = <<>>
-----------------------------------------------------------------------------
(* What the engine does to its records *)

\* A write that fails, within the bound.
MayFail(succeeds) == /\ failures' = IF succeeds THEN failures ELSE failures + 1
                     /\ failures' \leq MaxFailures

WithinBounds == Len(fills') + failures' + restarts' \leq MaxEvents

\* Bug: the row has no price, which the readers take for zero.
RowUnpriced(s, a, p) == [id |-> Len(fills) + 1, symbol |-> s, action |-> a, price |-> 0, day |-> today]

\* The row of TradeLogger.log, under the day of the fill.
RowOf(s, a, p) == [id |-> Len(fills) + 1, symbol |-> s, action |-> a, price |-> p, day |-> today]

\* The fields of a receipt (which has a time stamp too).
DataOf(row) == [id |-> row.id, symbol |-> row.symbol, action |-> row.action, price |-> row.price]

\* _post_trade up to its suspension: the receipt, and the start of the thread.
Record(s, a, p, entry) ==
  /\ Len(fills) < MaxFills
  /\ pending[s] = None
  /\ pending' = [pending EXCEPT ![s] = RowOf(s, a, p)]
  /\ \E saved \in BOOLEAN :
       /\ Generate(DataOf(RowOf(s, a, p)), saved)
       /\ MayFail(saved)
       /\ fills' = Append(fills, [row |-> RowOf(s, a, p), entry |-> entry,
                                 saved |-> saved, key |-> secret])
  /\ UNCHANGED <<rows, today, restarts, lost>>
  /\ WithinBounds

Enters(s, a, p) == /\ book[s] = None
                   /\ Record(s, a, p, None)
                   /\ book' = [book EXCEPT ![s] = Len(fills) + 1]

Closes(s, p) == /\ book[s] # None
                /\ Record(s, "CLOSE", p, book[s])
                /\ book' = [book EXCEPT ![s] = None]

\* The thread has appended the row.
RowWritten(s) == /\ pending[s] # None
                 /\ rows' = Append(rows, pending[s])
                 /\ pending' = [pending EXCEPT ![s] = None]
                 /\ UNCHANGED <<book, today, restarts, failures, lost, fills, ledgerVars>>

\* The OSError of the thread ends the handler; nothing is taken back.
RowFails(s) == /\ pending[s] # None
               /\ MayFail(FALSE)
               /\ lost' = lost \cup {pending[s].id}
               /\ pending' = [pending EXCEPT ![s] = None]
               /\ UNCHANGED <<rows, book, today, restarts, fills, ledgerVars>>
               /\ WithinBounds

\* A crash at any point, and a new start.
Restart == /\ restarts < MaxRestarts
           /\ restarts' = restarts + 1
           /\ book' = [s \in Symbols |-> None]
           /\ pending' = [s \in Symbols |-> None]
           /\ lost' = lost \cup {pending[s].id : s \in {r \in Symbols : pending[r] # None}}
           /\ Reopen
           /\ UNCHANGED <<rows, today, failures, fills>>
           /\ WithinBounds

Midnight == /\ today < LastDay
            /\ today' = today + 1
            /\ UNCHANGED <<rows, book, pending, restarts, failures, lost, fills, ledgerVars>>

JournalNext == \/ \E s \in Symbols : \/ \E p \in Prices : \/ \E a \in Entries : Enters(s, a, p)
                                                       \/ Closes(s, p)
                                     \/ RowWritten(s)
                                     \/ RowFails(s)
               \/ Restart
               \/ Midnight

JournalSpec == JournalInit /\ [][JournalNext]_journalVars
-----------------------------------------------------------------------------
(* The replay of the rows *)

\* Bug: the direction of the trade is ignored.
IsWinLong(entry, price) == price > entry.price

\* Equal prices are a loss, either way.
IsWin(entry, price) ==
  IF entry.action = "BUY" THEN price > entry.price ELSE price < entry.price

\* open_entries, and the wins and losses by symbol.
NoTrades == [open |-> [s \in Symbols |-> None],
             wins |-> [s \in Symbols |-> 0],
             losses |-> [s \in Symbols |-> 0]]

\* Bug: an entry row does not replace the entry that is open.
ReplayRowKeepsFirst(acc, row) ==
  LET s == row.symbol IN
  IF row.action \in Entries
    THEN IF acc.open[s] = None
           THEN [acc EXCEPT !.open[s] = [action |-> row.action, price |-> row.price]]
           ELSE acc
    ELSE IF acc.open[s] = None THEN acc
    ELSE IF IsWin(acc.open[s], row.price)
      THEN [acc EXCEPT !.open[s] = None, !.wins[s] = @ + 1]
      ELSE [acc EXCEPT !.open[s] = None, !.losses[s] = @ + 1]

ReplayRow(acc, row) ==
  LET s == row.symbol IN
  IF row.action \in Entries
    THEN [acc EXCEPT !.open[s] = [action |-> row.action, price |-> row.price]]
    ELSE IF acc.open[s] = None THEN acc
    ELSE IF IsWin(acc.open[s], row.price)
      THEN [acc EXCEPT !.open[s] = None, !.wins[s] = @ + 1]
      ELSE [acc EXCEPT !.open[s] = None, !.losses[s] = @ + 1]

\* _all_time_performance
Performance == FoldLeft(ReplayRow, NoTrades, rows)

\* Bug: the rows of every day but the last are replayed.
IsTodayOrBefore(row) == row.day \leq today

\* _is_today
IsToday(row) == row.day = today

\* A row of another day is skipped.
ReplayToday(acc, row) == IF IsToday(row) THEN ReplayRow(acc, row) ELSE acc

\* _today_trade_summary
TodaySummary == FoldLeft(ReplayToday, NoTrades, rows)
-----------------------------------------------------------------------------
(* What makes it correct *)

\* Every row of the symbol is in the file.
Complete(s) == pending[s] = None /\ \A i \in lost : fills[i].row.symbol # s

\* The exits of s among the fills, with the direction and price of their entry.
ExitsOf(s) == {i \in DOMAIN fills : fills[i].row.symbol = s /\ fills[i].row.action = "CLOSE"}
EntryOf(i) == fills[fills[i].entry].row
Profit(i) == IF EntryOf(i).action = "BUY" THEN fills[i].row.price - EntryOf(i).price
                                          ELSE EntryOf(i).price - fills[i].row.price

Agrees(summary, Counts(_)) == \A s \in Symbols : Complete(s) =>
  LET exits == {i \in ExitsOf(s) : Counts(i)}
  IN /\ summary.wins[s] = Cardinality({i \in exits : Profit(i) > 0})
     /\ summary.losses[s] = Cardinality({i \in exits : Profit(i) \leq 0})

(* /performance counts exactly the trades the engine has closed, as wins   *)
(* and losses of the right symbol, although a restart leaves entry rows    *)
(* without an exit in the middle of the journal and the rows of different  *)
(* symbols may be swapped; a row that was lost falsifies its own symbol    *)
(* only, where never more trades are counted than were closed.             *)
PerformanceIsHonest ==
  LET AnyDay(i) == TRUE
  IN /\ Agrees(Performance, AnyDay)
     /\ \A s \in Symbols :
          Performance.wins[s] + Performance.losses[s] \leq Cardinality(ExitsOf(s))

(* /pnl counts the trades that were opened and closed today, even when     *)
(* their rows are written after midnight of another trade.                 *)
TodayIsIntraday ==
  LET Intraday(i) == EntryOf(i).day = today /\ fills[i].row.day = today
  IN Agrees(TodaySummary, Intraday)

(* The replay knows which trades are open: after a restart more than the   *)
(* engine does, never fewer, and with the prices of the last fill.         *)
OpenEntriesCoverBook == \A s \in Symbols : Complete(s) /\ book[s] # None =>
  /\ Performance.open[s] # None
  /\ Performance.open[s].action = fills[book[s]].row.action
  /\ Performance.open[s].price = fills[book[s]].row.price

(* A trade that was executed leaves a row or a receipt, or both of its own *)
(* writes have failed: a receipt that cannot be saved does not keep the    *)
(* row from being written, nor a row that is lost the receipt (engine.py,  *)
(* lines 198-209).                                                         *)
ExecutedLeavesRecord == \A i \in DOMAIN fills :
  LET row == fills[i].row
  IN \/ \E r \in receipts : r.data = DataOf(row)
     \/ \E k \in DOMAIN rows : rows[k] = row
     \/ pending[row.symbol] = row
     \/ i \in lost /\ ~fills[i].saved

(* A receipt verifies exactly under the key it was signed with, before and *)
(* after a restart, and its signature fits no other trade or price         *)
(* (receipt.py, line 2: "Tamper-proof").                                   *)
ReceiptsAuthentic == \A r \in receipts :
  /\ Verify(secret, r) <=> fills[r.data.id].key = secret
  /\ \A s \in Symbols, p \in Prices :
       LET altered == [r EXCEPT !.data.symbol = s, !.data.price = p]
       IN Verify(secret, altered) => altered = r

(* /pnl counts today's closed trades (telegram_bot.py, line 630).          *)
TodayCountsClosed ==
  LET ClosedToday(i) == fills[i].row.day = today IN Agrees(TodaySummary, ClosedToday)
=============================================================================
