------------------------- MODULE TradeJournalProofs -------------------------
(***************************************************************************)
(* Proofs about TradeJournal.  JournalInv relates fills, rows, waiting and *)
(* lost rows, receipts and the trade book; the type invariant and the      *)
(* properties of the records follow from it.  ReplayInv says what the      *)
(* replay of the rows of any days knows of the fills; the properties of    *)
(* /pnl and /performance follow from it.                                   *)
(*                                                                         *)
(* The replays are folds.  What FoldLeft stands for is a recursive         *)
(* function on sets of positions, given by CHOOSE: that there is one, and  *)
(* that a row appended is replayed after all others, is proved with        *)
(* SetInduction.                                                           *)
(***************************************************************************)
EXTENDS TradeJournal, InductionLemmas, FiniteSetTheorems
-----------------------------------------------------------------------------
(* The folds *)

\* The state of the replay after a row, of which only the days in D count.
DayStep(D, acc, row) == IF row.day \in D THEN ReplayRow(acc, row) ELSE acc

\* The replay of the rows of the days in D: all of them, or today's.
DaysReplayed(D, seq) ==
  FoldLeft(LAMBDA acc, row : DayStep(D, acc, row), NoTrades, seq)

\* The recursive function over the sets of positions that FoldLeft stands for.
FoldBody(D, seq, f, s) ==
  IF s = {} THEN NoTrades ELSE DayStep(D, f[s \ {Max(s)}], seq[Max(s)])
IsFold(D, seq, S, f) == f = [s \in SUBSET S |-> FoldBody(D, seq, f, s)]
Folded(D, seq) == CHOOSE f : IsFold(D, seq, DOMAIN seq, f)

\* FoldLeft is that function, for all positions.
LEMMA Unfold == ASSUME NEW D, NEW seq PROVE DaysReplayed(D, seq) = Folded(D, seq)[DOMAIN seq]
BY DEF DaysReplayed, FoldLeft, MapThenFoldSet, Folded, IsFold, FoldBody

\* /pnl replays the rows of today.
LEMMA TodayIsFold == TodaySummary = DaysReplayed({today}, rows)
<1> DEFINE B1(f, s) == IF s = {} THEN NoTrades ELSE ReplayToday(f[s \ {Max(s)}], rows[Max(s)])
<1>1. TodaySummary = (CHOOSE f : f = [s \in SUBSET DOMAIN rows |-> B1(f, s)])[DOMAIN rows]
  BY DEF TodaySummary, FoldLeft, MapThenFoldSet
<1>2. ASSUME NEW f, NEW s PROVE B1(f, s) = FoldBody({today}, rows, f, s)
  BY DEF FoldBody, DayStep, ReplayToday, IsToday
<1> HIDE DEF B1
<1>3. \A f : f = [s \in SUBSET DOMAIN rows |-> B1(f, s)] <=> IsFold({today}, rows, DOMAIN rows, f)
  BY <1>2 DEF IsFold
<1>4. (CHOOSE f : f = [s \in SUBSET DOMAIN rows |-> B1(f, s)]) = Folded({today}, rows)
  BY <1>3 DEF Folded
<1> QED BY <1>1, <1>4, Unfold

\* Positions have a last one.
LEMMA MaxOfPositions ==
  ASSUME NEW n \in Nat, NEW s \in SUBSET (1..n), s # {}
  PROVE  Max(s) \in s /\ \A y \in s : y \leq Max(s)
<1> DEFINE T == {n - x : x \in s}
<1>1. T \subseteq Nat /\ T # {}
  <2>1. \A x \in s : n - x \in Nat
    OBVIOUS
  <2> QED BY <2>1
<1>2. PICK t \in T : \A u \in T : t \leq u
  BY <1>1, LeastElement
<1>3. PICK x \in s : t = n - x
  BY <1>2
<1>4. ASSUME NEW y \in s PROVE x \geq y
  <2>1. n - y \in T /\ x \in 1..n /\ y \in 1..n
    OBVIOUS
  <2>2. n - x \leq n - y
    BY <1>2, <1>3, <2>1
  <2> QED BY <2>1, <2>2
<1> QED BY <1>3, <1>4 DEF Max

\* The recursive function exists, for any number of positions.
LEMMA FoldExists ==
  ASSUME NEW D, NEW seq, NEW m \in Nat
  PROVE  \E f : IsFold(D, seq, 1..m, f)
<1> DEFINE S == {n \in Nat : \E f : IsFold(D, seq, 1..n, f)}
<1>1. 0 \in S
  <2> DEFINE f == [s \in SUBSET (1..0) |-> NoTrades]
  <2>1. \A s \in SUBSET (1..0) : s = {}
    OBVIOUS
  <2>2. IsFold(D, seq, 1..0, f)
    BY <2>1 DEF IsFold, FoldBody
  <2> QED BY <2>2
<1>2. ASSUME NEW n \in S \cap Nat PROVE n + 1 \in S
  <2>1. PICK f : IsFold(D, seq, 1..n, f)
    BY <1>2
  <2> DEFINE g == [s \in SUBSET (1..(n + 1)) |->
                     IF n + 1 \in s THEN DayStep(D, f[s \ {n + 1}], seq[n + 1]) ELSE f[s]]
  <2>2. ASSUME NEW s \in SUBSET (1..(n + 1)) PROVE g[s] = FoldBody(D, seq, g, s)
    <3>1. CASE n + 1 \in s
      <4>1. Max(s) = n + 1
        <5>1. n + 1 \in Nat /\ s \in SUBSET (1..(n + 1)) /\ s # {}
          BY <3>1
        <5>2. Max(s) \in s /\ \A y \in s : y \leq Max(s)
          BY <5>1, MaxOfPositions
        <5>3. Max(s) \in 1..(n + 1) /\ n + 1 \leq Max(s)
          BY <3>1, <5>2
        <5> QED BY <5>3
      <4>2. s \ {n + 1} \in SUBSET (1..n) /\ n + 1 \notin s \ {n + 1}
        OBVIOUS
      <4>3. g[s \ {n + 1}] = f[s \ {n + 1}]
        BY <4>2
      <4> QED BY <3>1, <4>1, <4>3 DEF FoldBody
    <3>2. CASE n + 1 \notin s
      <4>1. s \in SUBSET (1..n)
        BY <3>2
      <4>2. g[s] = FoldBody(D, seq, f, s)
        BY <2>1, <3>2, <4>1 DEF IsFold
      <4>3. CASE s = {}
        BY <4>2, <4>3 DEF FoldBody
      <4>4. CASE s # {}
        <5>1. s \ {Max(s)} \in SUBSET (1..n) /\ n + 1 \notin s \ {Max(s)}
          BY <3>2, <4>1
        <5>2. g[s \ {Max(s)}] = f[s \ {Max(s)}]
          BY <5>1
        <5> QED BY <4>2, <4>4, <5>2 DEF FoldBody
      <4> QED BY <4>3, <4>4
    <3> QED BY <3>1, <3>2
  <2>3. IsFold(D, seq, 1..(n + 1), g)
    BY <2>2 DEF IsFold
  <2> QED BY <2>3
<1> QED BY <1>1, <1>2, SetInduction

\* It replays the rows one by one.
LEMMA FoldSteps ==
  ASSUME NEW D, NEW T, NEW seq \in Seq(T)
  PROVE  /\ Folded(D, seq)[1..0] = NoTrades
         /\ \A k \in 0..(Len(seq) - 1) :
              Folded(D, seq)[1..(k + 1)] = DayStep(D, Folded(D, seq)[1..k], seq[k + 1])
<1> DEFINE f == Folded(D, seq)
<1>1. DOMAIN seq = 1..Len(seq) /\ Len(seq) \in Nat
  OBVIOUS
<1>2. IsFold(D, seq, 1..Len(seq), f)
  BY <1>1, FoldExists DEF Folded
<1> HIDE DEF f
<1>3. f[1..0] = NoTrades
  BY <1>1, <1>2 DEF IsFold, FoldBody
<1>4. ASSUME NEW k \in 0..(Len(seq) - 1)
      PROVE  f[1..(k + 1)] = DayStep(D, f[1..k], seq[k + 1])
  <2>1. 1..(k + 1) \in SUBSET (1..Len(seq)) /\ k + 1 \in 1..(k + 1)
    BY <1>1
  <2>2. Max(1..(k + 1)) = k + 1
    <3>1. k + 1 \in Nat /\ 1..(k + 1) \in SUBSET (1..(k + 1)) /\ 1..(k + 1) # {}
      BY <1>1, <2>1
    <3>2. /\ Max(1..(k + 1)) \in 1..(k + 1)
          /\ \A y \in 1..(k + 1) : y \leq Max(1..(k + 1))
      BY <3>1, MaxOfPositions
    <3> QED BY <2>1, <3>2
  <2>3. (1..(k + 1)) \ {k + 1} = 1..k
    BY <1>1
  <2>4. f[1..(k + 1)] = FoldBody(D, seq, f, 1..(k + 1))
    BY <1>2, <2>1 DEF IsFold
  <2> QED BY <2>1, <2>2, <2>3, <2>4 DEF FoldBody
<1> QED BY <1>3, <1>4 DEF f

\* The replay of an empty journal.
LEMMA ReplayOfNone == ASSUME NEW D PROVE DaysReplayed(D, <<>>) = NoTrades
<1>1. <<>> \in Seq({}) /\ DOMAIN <<>> = 1..0
  OBVIOUS
<1> QED BY <1>1, FoldSteps, Unfold

\* A row that is appended is replayed after all others.
LEMMA ReplayAppend ==
  ASSUME NEW D, NEW T, NEW seq \in Seq(T), NEW r \in T
  PROVE  DaysReplayed(D, Append(seq, r)) = DayStep(D, DaysReplayed(D, seq), r)
<1> DEFINE f == Folded(D, seq)
           g == Folded(D, Append(seq, r))
           S == {k \in Nat : k \leq Len(seq) => g[1..k] = f[1..k]}
<1>1. /\ Append(seq, r) \in Seq(T)
      /\ Len(seq) \in Nat
      /\ Len(Append(seq, r)) = Len(seq) + 1
      /\ DOMAIN seq = 1..Len(seq)
      /\ DOMAIN Append(seq, r) = 1..(Len(seq) + 1)
      /\ Append(seq, r)[Len(seq) + 1] = r
      /\ \A i \in 1..Len(seq) : Append(seq, r)[i] = seq[i]
  OBVIOUS
<1>2. /\ f[1..0] = NoTrades
      /\ \A k \in 0..(Len(seq) - 1) : f[1..(k + 1)] = DayStep(D, f[1..k], seq[k + 1])
  BY FoldSteps
<1>3. /\ g[1..0] = NoTrades
      /\ \A k \in 0..Len(seq) : g[1..(k + 1)] = DayStep(D, g[1..k], Append(seq, r)[k + 1])
  <2>1. \A k \in 0..(Len(Append(seq, r)) - 1) :
          g[1..(k + 1)] = DayStep(D, g[1..k], Append(seq, r)[k + 1])
    <3>1. Append(seq, r) \in Seq(T)
      BY <1>1
    <3> HIDE DEF f
    <3> QED BY <3>1, FoldSteps
  <2>2. g[1..0] = NoTrades
    BY <1>1, FoldSteps
  <2>3. 0..(Len(Append(seq, r)) - 1) = 0..Len(seq)
    BY <1>1
  <2> QED BY <2>1, <2>2, <2>3
<1> HIDE DEF f, g
<1>4. 0 \in S
  BY <1>2, <1>3
<1>5. ASSUME NEW k \in S \cap Nat PROVE k + 1 \in S
  BY <1>1, <1>2, <1>3
<1>6. Len(seq) \in S
  BY <1>1, <1>4, <1>5, SetInduction
<1>7. g[1..(Len(seq) + 1)] = DayStep(D, f[1..Len(seq)], r)
  BY <1>1, <1>3, <1>6
<1> QED BY <1>1, <1>7, Unfold DEF f, g
-----------------------------------------------------------------------------
(* The records of the trades, as they stand in relation to each other *)

Fill == [row : Row, entry : Ids \cup {None}, saved : BOOLEAN, key : Keys]

\* Ids and days grow together, and an exit follows the entry that it closes.
FillsInOrder ==
  /\ fills \in Seq(Fill) /\ Len(fills) \leq MaxFills
  /\ \A i \in DOMAIN fills :
       /\ fills[i].row.id = i
       /\ fills[i].row.day \leq today
       /\ \A j \in 1..i : fills[j].row.day \leq fills[i].row.day
       /\ fills[i].row.action \in Entries => fills[i].entry = None
       /\ fills[i].row.action = "CLOSE" =>
            /\ fills[i].entry \in 1..(i - 1)
            /\ EntryOf(i).action \in Entries
            /\ EntryOf(i).symbol = fills[i].row.symbol

\* A fill has at most one row, and the row is as the fill.
RowsOfFills ==
  /\ rows \in Seq(Row)
  /\ \A k \in DOMAIN rows :
       /\ rows[k].id \in DOMAIN fills \ lost
       /\ rows[k] = fills[rows[k].id].row
       /\ \A l \in DOMAIN rows : rows[k].id = rows[l].id => k = l
  /\ lost \subseteq DOMAIN fills

\* The row that waits is that of the last fill of its symbol, and its id is
\* not in the journal yet.  The book is that after the fill.
PendingIsLast ==
  /\ pending \in [Symbols -> Row \cup {None}]
  /\ \A s \in Symbols : pending[s] # None =>
       /\ pending[s].symbol = s
       /\ pending[s].id \in DOMAIN fills \ lost
       /\ pending[s] = fills[pending[s].id].row
       /\ \A k \in DOMAIN rows : rows[k].id # pending[s].id
       /\ \A i \in DOMAIN fills : fills[i].row.symbol = s => i \leq pending[s].id
       /\ book[s] = IF pending[s].action = "CLOSE" THEN None ELSE pending[s].id

\* No fill is forgotten: its row is in the journal, waits or is lost.
NoFillForgotten == \A i \in DOMAIN fills :
  \/ i \in lost
  \/ \E k \in DOMAIN rows : rows[k].id = i
  \/ pending[fills[i].row.symbol] = fills[i].row

\* The receipt of a fill is signed with the key that the engine ran with then.
Data == [id : Ids, symbol : Symbols, action : Entries \cup {"CLOSE"}, price : Prices]
Receipt == [data : Data, signature : [key : Keys, message : Data]]
ReceiptsOfFills ==
  /\ receipts \subseteq Receipt
  /\ \A r \in receipts : /\ r.data.id \in DOMAIN fills
                         /\ r.data = DataOf(fills[r.data.id].row)
                         /\ r.signature = Sign(fills[r.data.id].key, r.data)
  /\ \A i \in DOMAIN fills : fills[i].saved => \E r \in receipts : r.data = DataOf(fills[i].row)

\* The fills of s that no thread is writing.
Settled(s) == {i \in DOMAIN fills : /\ fills[i].row.symbol = s
                                   /\ (pending[s] = None \/ i # pending[s].id)}

\* The trade of s that is open as far as the settled fills go.
LiveEntry(s) == IF pending[s] = None THEN book[s] ELSE fills[pending[s].id].entry

BookOfFills ==
  /\ book \in [Symbols -> Ids \cup {None}]
  /\ \A s \in Symbols : book[s] # None =>
       /\ book[s] \in DOMAIN fills
       /\ fills[book[s]].row.symbol = s
       /\ fills[book[s]].row.action \in Entries
  /\ \A s \in Symbols : LiveEntry(s) # None => \A i \in Settled(s) : i \leq LiveEntry(s)

Counters == /\ today \in 0..LastDay
            /\ restarts \in 0..MaxRestarts
            /\ failures \in 0..MaxFailures
            /\ secret \in Keys

JournalInv == /\ FillsInOrder
              /\ RowsOfFills
              /\ PendingIsLast
              /\ NoFillForgotten
              /\ ReceiptsOfFills
              /\ BookOfFills
              /\ Counters
-----------------------------------------------------------------------------
(* What the replay of the rows knows of the fills *)

LostFree(s) == \A i \in lost : fills[i].row.symbol # s

Summary == [open : [Symbols -> OpenEntry \cup {None}],
            wins : [Symbols -> Nat], losses : [Symbols -> Nat]]

\* The settled exits of s, and those of trades opened and closed in the days D.
SettledExits(s) == {i \in Settled(s) : fills[i].row.action = "CLOSE"}
Wins(s, D) == {i \in SettledExits(s) :
                 Profit(i) > 0 /\ EntryOf(i).day \in D /\ fills[i].row.day \in D}
Losses(s, D) == {i \in SettledExits(s) :
                   Profit(i) \leq 0 /\ EntryOf(i).day \in D /\ fills[i].row.day \in D}

Opened(e) == [action |-> fills[e].row.action, price |-> fills[e].row.price]

\* What a replay acc of the rows of the days D knows of s.
Knows(acc, D, s) ==
  /\ acc.open[s] # None => \E i \in Settled(s) : fills[i].row.day \in D
  /\ LostFree(s) =>
       /\ LiveEntry(s) # None /\ fills[LiveEntry(s)].row.day \in D
            => acc.open[s] = Opened(LiveEntry(s))
       /\ acc.wins[s] = Cardinality(Wins(s, D))
       /\ acc.losses[s] = Cardinality(Losses(s, D))
  /\ acc.wins[s] + acc.losses[s] \leq Cardinality(SettledExits(s))

Replays(acc, D) == acc \in Summary /\ \A s \in Symbols : Knows(acc, D, s)

ReplayInv == \A lo, hi \in 0..LastDay : Replays(DaysReplayed(lo..hi, rows), lo..hi)
-----------------------------------------------------------------------------
(* JournalInv is inductive *)

\* Enters and Closes in one: the book is empty before an entry only.
Executes(s, a, p) ==
  /\ Record(s, a, p, book[s])
  /\ a = "CLOSE" <=> book[s] # None
  /\ book' = [book EXCEPT ![s] = IF a = "CLOSE" THEN None ELSE Len(fills) + 1]

\* An entry and an exit are executions.
LEMMA Executions ==
  ASSUME NEW s \in Symbols, NEW p \in Prices
  PROVE  /\ \A a \in Entries : Enters(s, a, p) => Executes(s, a, p)
         /\ Closes(s, p) => Executes(s, "CLOSE", p)
BY DEF Enters, Closes, Executes, Entries

\* The assumptions about the constants, one by one.
LEMMA JournalConstants ==
  /\ LastDay \in Nat /\ MaxFills \in Nat /\ MaxRestarts \in Nat /\ MaxFailures \in Nat
  /\ None \notin Ids /\ None \notin Row /\ None \notin OpenEntry
BY JournalBoundsAssumption, JournalNoneAssumption

\* What an execution does to every variable.
LEMMA ExecutionFacts ==
  ASSUME JournalInv, NEW s \in Symbols, NEW a \in Entries \cup {"CLOSE"}, NEW p \in Prices,
         Executes(s, a, p)
  PROVE  /\ Len(fills) \in Nat /\ Len(fills) + 1 \in Ids
         /\ DOMAIN fills = 1..Len(fills) /\ DOMAIN fills' = 1..(Len(fills) + 1)
         /\ fills' \in Seq(Fill) /\ Len(fills') = Len(fills) + 1 /\ Len(fills') \leq MaxFills
         /\ \A i \in DOMAIN fills : fills'[i] = fills[i]
         /\ fills'[Len(fills) + 1].row = RowOf(s, a, p)
         /\ fills'[Len(fills) + 1].entry = book[s]
         /\ fills'[Len(fills) + 1].key = secret
         /\ RowOf(s, a, p) \in Row
         /\ pending[s] = None
         /\ pending' = [pending EXCEPT ![s] = RowOf(s, a, p)]
         /\ book' = [book EXCEPT ![s] = IF a = "CLOSE" THEN None ELSE Len(fills) + 1]
         /\ a = "CLOSE" <=> book[s] # None
         /\ rows' = rows /\ today' = today /\ restarts' = restarts /\ lost' = lost
         /\ secret' = secret /\ failures' \in 0..MaxFailures
         /\ Generate(DataOf(RowOf(s, a, p)), fills'[Len(fills) + 1].saved)
<1> DEFINE n == Len(fills) + 1
           x == RowOf(s, a, p)
<1>1. PICK saved \in BOOLEAN :
        /\ Generate(DataOf(x), saved)
        /\ MayFail(saved)
        /\ fills' = Append(fills, [row |-> x, entry |-> book[s], saved |-> saved, key |-> secret])
  BY DEF Executes, Record
<1>2. /\ fills \in Seq(Fill) /\ Len(fills) < MaxFills /\ MaxFills \in Nat
      /\ book[s] \in Ids \cup {None} /\ today \in 0..LastDay /\ secret \in Keys
  BY JournalConstants DEF JournalInv, FillsInOrder, BookOfFills, Counters, Executes, Record
<1>3. n \in Ids
  BY <1>2 DEF Ids
<1>4. x \in Row
  BY <1>2, <1>3 DEF RowOf, Row
<1>5. [row |-> x, entry |-> book[s], saved |-> saved, key |-> secret] \in Fill
  BY <1>1, <1>2, <1>4 DEF Fill
<1>6. failures' \in 0..MaxFailures
  BY <1>1, JournalConstants DEF MayFail, JournalInv, Counters
<1> HIDE DEF x
<1>7. /\ Len(fills) \in Nat /\ DOMAIN fills = 1..Len(fills) /\ DOMAIN fills' = 1..n
      /\ fills' \in Seq(Fill) /\ Len(fills') = n /\ n \leq MaxFills
      /\ \A i \in DOMAIN fills : fills'[i] = fills[i]
      /\ fills'[n] = [row |-> x, entry |-> book[s], saved |-> saved, key |-> secret]
  BY <1>1, <1>2, <1>5
<1>8. Generate(DataOf(x), fills'[n].saved)
  BY <1>1, <1>7
<1> QED BY <1>1, <1>3, <1>4, <1>6, <1>7, <1>8 DEF Executes, Record, Generate, x

\* The empty journal is as it should be.
LEMMA JournalInitInv == JournalInit => JournalInv
<1> SUFFICES ASSUME JournalInit PROVE JournalInv
  OBVIOUS
<1> USE DEF JournalInit, LedgerInit
<1>1. FillsInOrder /\ RowsOfFills /\ NoFillForgotten
  BY JournalConstants DEF FillsInOrder, RowsOfFills, NoFillForgotten
<1>2. PendingIsLast /\ ReceiptsOfFills
  BY DEF PendingIsLast, ReceiptsOfFills
<1>3. BookOfFills
  BY DEF BookOfFills, LiveEntry
<1>4. Counters
  BY JournalConstants DEF Counters
<1> QED BY <1>1, <1>2, <1>3, <1>4 DEF JournalInv

\* The fill of an execution is not settled while a thread writes its row.
LEMMA ExecutionSettles ==
  ASSUME JournalInv, NEW s \in Symbols, NEW a \in Entries \cup {"CLOSE"}, NEW p \in Prices,
         Executes(s, a, p), NEW q \in Symbols
  PROVE  Settled(q)' = Settled(q) /\ LiveEntry(q)' = LiveEntry(q)
<1> DEFINE n == Len(fills) + 1
           x == RowOf(s, a, p)
<1>0. /\ Len(fills) \in Nat
      /\ DOMAIN fills = 1..Len(fills) /\ DOMAIN fills' = 1..n
      /\ \A i \in DOMAIN fills : fills'[i] = fills[i]
      /\ fills'[n].row = x /\ fills'[n].entry = book[s]
      /\ x \in Row /\ pending[s] = None
      /\ pending' = [pending EXCEPT ![s] = x]
      /\ book' = [book EXCEPT ![s] = IF a = "CLOSE" THEN None ELSE n]
  BY ExecutionFacts
<1>x. x.id = n /\ x.symbol = s
  BY DEF RowOf
<1>1. pending \in [Symbols -> Row \cup {None}] /\ book \in [Symbols -> Ids \cup {None}]
  BY DEF JournalInv, PendingIsLast, BookOfFills
<1> HIDE DEF x
<1>2. CASE q = s
  <2>1. pending'[q] = x /\ x # None
    BY <1>0, <1>1, <1>2, JournalConstants
  <2>2. Settled(q)' = {i \in 1..n : fills'[i].row.symbol = q /\ i # n}
    BY <1>0, <1>x, <2>1 DEF Settled
  <2>3. Settled(q) = {i \in 1..Len(fills) : fills[i].row.symbol = q}
    BY <1>0, <1>2 DEF Settled
  <2>4. \A i \in 1..n : i # n <=> i \in 1..Len(fills)
    BY <1>0
  <2>5. Settled(q)' = Settled(q)
    BY <1>0, <2>2, <2>3, <2>4
  <2>6. LiveEntry(q)' = LiveEntry(q)
    BY <1>0, <1>x, <1>2, <2>1 DEF LiveEntry
  <2> QED BY <2>5, <2>6
<1>3. CASE q # s
  <2>1. pending'[q] = pending[q] /\ book'[q] = book[q]
    BY <1>0, <1>1, <1>3
  <2>2. \A i \in 1..n : fills'[i].row.symbol = q => i \in 1..Len(fills)
    BY <1>0, <1>x, <1>3
  <2>3. pending[q] # None => pending[q].id \in DOMAIN fills
    BY DEF JournalInv, PendingIsLast
  <2>4. Settled(q)' = Settled(q)
    BY <1>0, <2>1, <2>2 DEF Settled
  <2>5. LiveEntry(q)' = LiveEntry(q)
    BY <1>0, <2>1, <2>3 DEF LiveEntry
  <2> QED BY <2>4, <2>5
<1> QED BY <1>2, <1>3

\* An execution keeps the records in order.
LEMMA ExecutionKeeps ==
  ASSUME JournalInv, NEW s \in Symbols, NEW a \in Entries \cup {"CLOSE"}, NEW p \in Prices,
         Executes(s, a, p)
  PROVE  JournalInv'
<1> DEFINE n == Len(fills) + 1
           x == RowOf(s, a, p)
<1> USE DEF JournalInv
<1>0. /\ Len(fills) \in Nat /\ n \in Ids
      /\ DOMAIN fills = 1..Len(fills) /\ DOMAIN fills' = 1..n
      /\ fills' \in Seq(Fill) /\ Len(fills') = n /\ Len(fills') \leq MaxFills
      /\ \A i \in DOMAIN fills : fills'[i] = fills[i]
      /\ fills'[n].row = x /\ fills'[n].entry = book[s] /\ fills'[n].key = secret
      /\ x \in Row /\ pending[s] = None
      /\ pending' = [pending EXCEPT ![s] = x]
      /\ book' = [book EXCEPT ![s] = IF a = "CLOSE" THEN None ELSE n]
      /\ a = "CLOSE" <=> book[s] # None
      /\ rows' = rows /\ today' = today /\ restarts' = restarts /\ lost' = lost
      /\ secret' = secret /\ failures' \in 0..MaxFailures
      /\ Generate(DataOf(x), fills'[n].saved)
  BY ExecutionFacts
<1>x. x.id = n /\ x.symbol = s /\ x.action = a /\ x.price = p /\ x.day = today
  BY DEF RowOf
<1>n. n \notin DOMAIN fills
  BY <1>0
<1>t. today \in 0..LastDay
  BY DEF Counters
<1> HIDE DEF x, n
<1>1. FillsInOrder'
  <2>1. ASSUME NEW i \in 1..n
        PROVE  /\ fills'[i].row.id = i
               /\ fills'[i].row.day \leq today
               /\ \A j \in 1..i : fills'[j].row.day \leq fills'[i].row.day
               /\ fills'[i].row.action \in Entries => fills'[i].entry = None
               /\ fills'[i].row.action = "CLOSE" =>
                    /\ fills'[i].entry \in 1..(i - 1)
                    /\ EntryOf(i)'.action \in Entries
                    /\ EntryOf(i)'.symbol = fills'[i].row.symbol
    <3>1. CASE i = n
      <4>1. \A j \in 1..n : fills'[j].row.day \leq today
        BY <1>0, <1>x, <1>t DEF FillsInOrder, n
      <4>2. CASE a = "CLOSE"
        BY <1>0, <1>x, <1>t, <3>1, <4>1, <4>2 DEF BookOfFills, EntryOf, Entries, n
      <4>3. CASE a \in Entries
        BY <1>0, <1>x, <1>t, <3>1, <4>1, <4>3 DEF Entries
      <4> QED BY <4>2, <4>3
    <3>2. CASE i \in DOMAIN fills
      <4>1. \A j \in 1..i : fills'[j] = fills[j]
        BY <1>0, <3>2
      <4>2. fills[i].row.action = "CLOSE" => fills[i].entry \in 1..(i - 1)
        BY <3>2 DEF FillsInOrder
      <4>3. fills[i].row.action = "CLOSE" => fills'[fills'[i].entry] = fills[fills[i].entry]
        BY <1>0, <4>1, <4>2, <3>2
      <4> QED BY <3>2, <4>1, <4>2, <4>3 DEF FillsInOrder, EntryOf
    <3> QED BY <1>0, <3>1, <3>2 DEF n
  <2> QED BY <1>0, <2>1 DEF FillsInOrder
<1>2. RowsOfFills'
  <2>1. RowsOfFills /\ DOMAIN fills \subseteq DOMAIN fills'
    BY <1>0 DEF n
  <2> QED BY <1>0, <2>1 DEF RowsOfFills
<1>3. PendingIsLast'
  <2>1. pending' \in [Symbols -> Row \cup {None}]
    BY <1>0 DEF PendingIsLast
  <2>2. ASSUME NEW q \in Symbols, pending'[q] # None
        PROVE  /\ pending'[q].symbol = q
               /\ pending'[q].id \in DOMAIN fills' \ lost'
               /\ pending'[q] = fills'[pending'[q].id].row
               /\ \A k \in DOMAIN rows' : rows'[k].id # pending'[q].id
               /\ \A i \in DOMAIN fills' : fills'[i].row.symbol = q => i \leq pending'[q].id
               /\ book'[q] = IF pending'[q].action = "CLOSE" THEN None ELSE pending'[q].id
    <3>1. CASE q = s
      <4>1. pending'[q] = x /\ book'[q] = IF a = "CLOSE" THEN None ELSE n
        BY <1>0, <3>1 DEF PendingIsLast, BookOfFills
      <4>2. n \in DOMAIN fills' \ lost' /\ \A i \in DOMAIN fills' : i \leq n
        BY <1>0, <1>n DEF RowsOfFills, n
      <4>3. \A k \in DOMAIN rows' : rows'[k].id # n
        BY <1>0, <1>n DEF RowsOfFills
      <4> QED BY <1>0, <1>x, <3>1, <4>1, <4>2, <4>3
    <3>2. CASE q # s
      <4>1. pending'[q] = pending[q] /\ book'[q] = book[q]
        BY <1>0, <3>2 DEF PendingIsLast, BookOfFills
      <4>2. \A i \in DOMAIN fills' : fills'[i].row.symbol = q => i \in DOMAIN fills
        BY <1>0, <1>x, <3>2 DEF n
      <4> QED BY <1>0, <2>2, <4>1, <4>2 DEF PendingIsLast, n
    <3> QED BY <3>1, <3>2
  <2> QED BY <2>1, <2>2 DEF PendingIsLast
<1>4. NoFillForgotten'
  <2>1. ASSUME NEW i \in DOMAIN fills'
        PROVE  \/ i \in lost'
               \/ \E k \in DOMAIN rows' : rows'[k].id = i
               \/ pending'[fills'[i].row.symbol] = fills'[i].row
    <3>1. CASE i = n
      BY <1>0, <1>x, <3>1 DEF PendingIsLast
    <3>2. CASE i \in DOMAIN fills
      <4>1. fills[i].row \in Row
        <5>1. fills \in Seq(Fill)
          BY DEF FillsInOrder
        <5>2. fills[i] \in Fill
          BY <3>2, <5>1
        <5> QED BY <5>2 DEF Fill
      <4> QED BY <1>0, <3>2, <4>1, JournalConstants DEF NoFillForgotten, PendingIsLast, Row
    <3> QED BY <1>0, <3>1, <3>2 DEF n
  <2> QED BY <2>1 DEF NoFillForgotten
<1>5. ReceiptsOfFills'
  <2> DEFINE rec == [data |-> DataOf(x), signature |-> Sign(secret, DataOf(x))]
  <2>1. rec \in Receipt
    BY <1>0, <1>t DEF Receipt, Data, DataOf, Sign, Row, Counters
  <2>2. rec.data.id = n /\ rec.data = DataOf(x) /\ rec.signature = Sign(secret, rec.data)
    BY <1>x DEF DataOf
  <2>3. receipts' = IF fills'[n].saved THEN receipts \cup {rec} ELSE receipts
    BY <1>0 DEF Generate, Save
  <2> HIDE DEF rec
  <2>4. ASSUME NEW r \in receipts'
        PROVE  /\ r.data.id \in DOMAIN fills'
               /\ r.data = DataOf(fills'[r.data.id].row)
               /\ r.signature = Sign(fills'[r.data.id].key, r.data)
    <3>1. CASE r = rec
      BY <1>0, <2>2, <3>1 DEF n
    <3>2. CASE r \in receipts
      BY <1>0, <3>2 DEF ReceiptsOfFills, n
    <3> QED BY <2>3, <3>1, <3>2
  <2>5. ASSUME NEW i \in DOMAIN fills', fills'[i].saved
        PROVE  \E r \in receipts' : r.data = DataOf(fills'[i].row)
    <3>1. CASE i = n
      BY <1>0, <2>2, <2>3, <2>5, <3>1
    <3>2. CASE i \in DOMAIN fills
      BY <1>0, <2>3, <2>5, <3>2 DEF ReceiptsOfFills
    <3> QED BY <1>0, <3>1, <3>2 DEF n
  <2>6. receipts' \subseteq Receipt
    BY <2>1, <2>3 DEF ReceiptsOfFills
  <2> QED BY <2>4, <2>5, <2>6 DEF ReceiptsOfFills
<1>6. BookOfFills'
  <2>1. book' \in [Symbols -> Ids \cup {None}]
    BY <1>0 DEF BookOfFills
  <2>2. ASSUME NEW q \in Symbols, book'[q] # None
        PROVE  /\ book'[q] \in DOMAIN fills'
               /\ fills'[book'[q]].row.symbol = q
               /\ fills'[book'[q]].row.action \in Entries
    <3>1. CASE q = s
      BY <1>0, <1>x, <2>2, <3>1 DEF BookOfFills, n
    <3>2. CASE q # s
      BY <1>0, <2>2, <3>2 DEF BookOfFills, n
    <3> QED BY <3>1, <3>2
  <2>3. ASSUME NEW q \in Symbols, LiveEntry(q)' # None
        PROVE  \A i \in Settled(q)' : i \leq LiveEntry(q)'
    <3>1. Settled(q)' = Settled(q) /\ LiveEntry(q)' = LiveEntry(q)
      BY <1>0, <1>x, ExecutionSettles DEF n
    <3> QED BY <2>3, <3>1 DEF BookOfFills
  <2> QED BY <2>1, <2>2, <2>3 DEF BookOfFills
<1>7. Counters'
  BY <1>0 DEF Counters
<1> QED BY <1>1, <1>2, <1>3, <1>4, <1>5, <1>6, <1>7

\* The day passes, and the fills stay.
LEMMA FillsStay ==
  ASSUME FillsInOrder, UNCHANGED fills, today \in Int, today' \in Int, today \leq today'
  PROVE  FillsInOrder'
<1>1. ASSUME NEW i \in DOMAIN fills PROVE fills[i].row.day \leq today'
  <2>1. fills \in Seq(Fill)
    BY DEF FillsInOrder
  <2>2. fills[i] \in Fill
    BY <2>1
  <2>3. fills[i].row.day \in 0..LastDay
    BY <2>2 DEF Fill, Row
  <2>4. fills[i].row.day \in Int /\ fills[i].row.day \leq today
    BY <2>3, JournalConstants DEF FillsInOrder
  <2> QED BY <2>4
<1> QED BY <1>1 DEF FillsInOrder, EntryOf

\* Receipts without a new fill.
LEMMA ReceiptsStay ==
  ASSUME ReceiptsOfFills, UNCHANGED <<fills, receipts>>
  PROVE  ReceiptsOfFills'
BY DEF ReceiptsOfFills

\* A row that is written keeps the records in order.
LEMMA RowWrittenKeeps ==
  ASSUME JournalInv, NEW s \in Symbols, RowWritten(s)
  PROVE  JournalInv'
<1> DEFINE x == pending[s]
<1> USE DEF JournalInv
<1>0. /\ x # None /\ rows' = Append(rows, x)
      /\ pending' = [pending EXCEPT ![s] = None]
      /\ UNCHANGED <<book, today, restarts, failures, lost, fills, receipts, secret>>
  BY DEF RowWritten, ledgerVars
<1>x. /\ x \in Row /\ x.symbol = s /\ x.id \in DOMAIN fills \ lost
      /\ x = fills[x.id].row
      /\ \A k \in DOMAIN rows : rows[k].id # x.id
      /\ \A i \in DOMAIN fills : fills[i].row.symbol = s => i \leq x.id
      /\ book[s] = IF x.action = "CLOSE" THEN None ELSE x.id
  BY <1>0 DEF PendingIsLast
<1>p. /\ pending \in [Symbols -> Row \cup {None}] /\ pending'[s] = None
      /\ \A q \in Symbols : q # s => pending'[q] = pending[q]
  BY <1>0 DEF PendingIsLast
<1> HIDE DEF x
<1>r. /\ Len(rows) \in Nat /\ rows \in Seq(Row) /\ rows' \in Seq(Row)
      /\ DOMAIN rows = 1..Len(rows) /\ DOMAIN rows' = 1..(Len(rows) + 1)
      /\ rows'[Len(rows) + 1] = x
      /\ \A k \in 1..Len(rows) : rows'[k] = rows[k]
  BY <1>0, <1>x DEF RowsOfFills
<1>1. FillsInOrder' /\ ReceiptsOfFills' /\ Counters'
  BY <1>0, FillsStay, ReceiptsStay DEF Counters
<1>2. RowsOfFills'
  <2>1. ASSUME NEW k \in DOMAIN rows'
        PROVE  /\ rows'[k].id \in DOMAIN fills' \ lost'
               /\ rows'[k] = fills'[rows'[k].id].row
               /\ \A l \in DOMAIN rows' : rows'[k].id = rows'[l].id => k = l
    <3>1. CASE k \in 1..Len(rows)
      BY <1>0, <1>x, <1>r, <3>1 DEF RowsOfFills
    <3>2. CASE k = Len(rows) + 1
      BY <1>0, <1>x, <1>r, <3>2 DEF RowsOfFills
    <3> QED BY <1>r, <3>1, <3>2
  <2> QED BY <1>0, <1>r, <2>1 DEF RowsOfFills
<1>3. PendingIsLast'
  <2>1. pending' \in [Symbols -> Row \cup {None}]
    BY <1>0, <1>p
  <2>2. ASSUME NEW q \in Symbols, pending'[q] # None
        PROVE  /\ pending'[q].symbol = q
               /\ pending'[q].id \in DOMAIN fills' \ lost'
               /\ pending'[q] = fills'[pending'[q].id].row
               /\ \A k \in DOMAIN rows' : rows'[k].id # pending'[q].id
               /\ \A i \in DOMAIN fills' : fills'[i].row.symbol = q => i \leq pending'[q].id
               /\ book'[q] = IF pending'[q].action = "CLOSE" THEN None ELSE pending'[q].id
    <3>1. q # s /\ pending'[q] = pending[q] /\ pending[q] # None
      BY <1>p, <2>2
    <3>2. x.id # pending[q].id
      BY <1>x, <3>1 DEF PendingIsLast
    <3>3. \A k \in DOMAIN rows' : rows'[k].id # pending[q].id
      BY <1>r, <3>1, <3>2 DEF PendingIsLast
    <3> QED BY <1>0, <3>1, <3>3 DEF PendingIsLast
  <2> QED BY <2>1, <2>2 DEF PendingIsLast
<1>4. NoFillForgotten'
  <2>1. ASSUME NEW i \in DOMAIN fills'
        PROVE  \/ i \in lost'
               \/ \E k \in DOMAIN rows' : rows'[k].id = i
               \/ pending'[fills'[i].row.symbol] = fills'[i].row
    <3>1. CASE fills[i].row.symbol = s /\ pending[s] = fills[i].row
      <4>1. x.id = i
        BY <1>0, <3>1 DEF FillsInOrder, x
      <4> QED BY <1>r, <4>1
    <3>2. CASE ~(fills[i].row.symbol = s /\ pending[s] = fills[i].row)
      <4>1. fills \in Seq(Fill) /\ i \in DOMAIN fills
        BY <1>0 DEF FillsInOrder
      <4>2. fills[i] \in Fill
        BY <4>1
      <4>3. fills[i].row.symbol \in Symbols
        BY <4>2 DEF Fill, Row
      <4>4. \/ i \in lost
            \/ \E k \in DOMAIN rows : rows[k].id = i
            \/ pending[fills[i].row.symbol] = fills[i].row
        BY <4>1 DEF NoFillForgotten
      <4> QED BY <1>0, <1>p, <1>r, <3>2, <4>3, <4>4
    <3> QED BY <3>1, <3>2
  <2> QED BY <2>1 DEF NoFillForgotten
<1>5. BookOfFills'
  <2>1. ASSUME NEW q \in Symbols, LiveEntry(q)' # None
        PROVE  \A i \in Settled(q)' : i \leq LiveEntry(q)'
    <3>1. CASE q = s
      <4>1. LiveEntry(q)' = book[s] /\ book[s] = x.id
        BY <1>0, <1>p, <1>x, <2>1, <3>1 DEF LiveEntry
      <4> QED BY <1>0, <1>x, <3>1, <4>1 DEF Settled
    <3>2. CASE q # s
      <4>1. pending'[q] = pending[q]
        BY <1>p, <3>2
      <4>2. Settled(q)' = Settled(q) /\ LiveEntry(q)' = LiveEntry(q)
        BY <1>0, <4>1 DEF Settled, LiveEntry
      <4> QED BY <2>1, <4>2 DEF BookOfFills
    <3> QED BY <3>1, <3>2
  <2> QED BY <1>0, <2>1 DEF BookOfFills
<1> QED BY <1>1, <1>2, <1>3, <1>4, <1>5

\* The rows that wait for the symbols L are lost: of one symbol, when the write
\* fails, or of all, when the engine starts again.
LEMMA LossKeeps ==
  ASSUME JournalInv, NEW L \in SUBSET Symbols,
         UNCHANGED <<rows, today, fills, receipts>>,
         restarts' \in 0..MaxRestarts, failures' \in 0..MaxFailures, secret' \in Keys,
         lost' = lost \cup {pending[s].id : s \in {r \in L : pending[r] # None}},
         pending' = [s \in Symbols |-> IF s \in L THEN None ELSE pending[s]],
         book' = book \/ (L = Symbols /\ book' = [s \in Symbols |-> None])
  PROVE  JournalInv'
<1> USE DEF JournalInv
<1>0. /\ pending \in [Symbols -> Row \cup {None}] /\ book \in [Symbols -> Ids \cup {None}]
      /\ \A q \in Symbols : IF q \in L THEN pending'[q] = None ELSE pending'[q] = pending[q]
      /\ \A q \in Symbols : q \notin L => book'[q] = book[q]
      /\ \A q \in Symbols : book'[q] \in {None, book[q]}
  BY DEF PendingIsLast, BookOfFills
<1>l. \A i : i \in lost' <=> i \in lost \/ \E q \in L : pending[q] # None /\ i = pending[q].id
  OBVIOUS
<1>m. \A q \in Symbols : pending[q] # None =>
        /\ pending[q].symbol = q
        /\ pending[q].id \in DOMAIN fills \ lost
        /\ pending[q] = fills[pending[q].id].row
        /\ \A k \in DOMAIN rows : rows[k].id # pending[q].id
        /\ \A i \in DOMAIN fills : fills[i].row.symbol = q => i \leq pending[q].id
        /\ book[q] = IF pending[q].action = "CLOSE" THEN None ELSE pending[q].id
  BY DEF PendingIsLast
<1>1. FillsInOrder' /\ ReceiptsOfFills' /\ Counters'
  BY FillsStay, ReceiptsStay DEF Counters
<1>2. RowsOfFills'
  <2>1. lost' \subseteq DOMAIN fills
    BY <1>l, <1>m DEF RowsOfFills
  <2>2. \A k \in DOMAIN rows : rows[k].id \notin lost'
    BY <1>l, <1>m DEF RowsOfFills
  <2> QED BY <2>1, <2>2 DEF RowsOfFills
<1>3. PendingIsLast'
  <2>1. pending' \in [Symbols -> Row \cup {None}]
    BY <1>0
  <2>2. ASSUME NEW q \in Symbols, pending'[q] # None
        PROVE  /\ q \notin L /\ pending'[q] = pending[q] /\ book'[q] = book[q]
               /\ pending[q].id \notin lost'
    <3>1. q \notin L /\ pending'[q] = pending[q] /\ book'[q] = book[q]
      BY <1>0, <2>2
    <3>2. \A r \in L : pending[r] # None => pending[r].id # pending[q].id
      BY <1>m, <2>2, <3>1
    <3> QED BY <1>l, <1>m, <2>2, <3>1, <3>2
  <2> QED BY <1>m, <2>1, <2>2 DEF PendingIsLast
<1>4. NoFillForgotten'
  <2>1. ASSUME NEW i \in DOMAIN fills'
        PROVE  \/ i \in lost'
               \/ \E k \in DOMAIN rows' : rows'[k].id = i
               \/ pending'[fills'[i].row.symbol] = fills'[i].row
    <3>1. fills \in Seq(Fill) /\ i \in DOMAIN fills
      BY DEF FillsInOrder
    <3>2. fills[i] \in Fill /\ fills[i].row.id = i
      BY <3>1 DEF FillsInOrder
    <3>3. fills[i].row \in Row /\ fills[i].row.symbol \in Symbols
      BY <3>2 DEF Fill, Row
    <3>4. \/ i \in lost
          \/ \E k \in DOMAIN rows : rows[k].id = i
          \/ pending[fills[i].row.symbol] = fills[i].row
      BY <3>1 DEF NoFillForgotten
    <3>5. CASE fills[i].row.symbol \in L /\ pending[fills[i].row.symbol] = fills[i].row
      BY <1>l, <3>2, <3>3, <3>5, JournalConstants
    <3> QED BY <1>0, <1>l, <3>3, <3>4, <3>5
  <2> QED BY <2>1 DEF NoFillForgotten
<1>5. BookOfFills'
  <2>1. ASSUME NEW q \in Symbols, LiveEntry(q)' # None
        PROVE  \A i \in Settled(q)' : i \leq LiveEntry(q)'
    <3>1. CASE q \in L
      <4>1. LiveEntry(q)' = book[q] /\ pending'[q] = None
        BY <1>0, <2>1, <3>1 DEF LiveEntry
      <4>2. CASE pending[q] = None
        <5>1. Settled(q)' = Settled(q) /\ LiveEntry(q) = book[q]
          BY <4>1, <4>2 DEF Settled, LiveEntry
        <5> QED BY <2>1, <4>1, <5>1 DEF BookOfFills
      <4>3. CASE pending[q] # None
        <5>1. book[q] = pending[q].id
          BY <1>m, <2>1, <4>1, <4>3
        <5> QED BY <1>m, <4>1, <4>3, <5>1 DEF Settled
      <4> QED BY <4>2, <4>3
    <3>2. CASE q \notin L
      <4>1. pending'[q] = pending[q] /\ book'[q] = book[q]
        BY <1>0, <3>2
      <4>2. Settled(q)' = Settled(q) /\ LiveEntry(q)' = LiveEntry(q)
        BY <4>1 DEF Settled, LiveEntry
      <4> QED BY <2>1, <4>2 DEF BookOfFills
    <3> QED BY <3>1, <3>2
  <2>2. book' \in [Symbols -> Ids \cup {None}]
    BY <1>0
  <2>3. ASSUME NEW q \in Symbols, book'[q] # None
        PROVE  book'[q] = book[q] /\ book[q] # None
    BY <1>0, <2>3
  <2> QED BY <2>1, <2>2, <2>3 DEF BookOfFills
<1> QED BY <1>1, <1>2, <1>3, <1>4, <1>5

\* The two steps that lose rows, in the form of LossKeeps.
LEMMA LossSteps ==
  ASSUME JournalInv
  PROVE  /\ \A s \in Symbols : RowFails(s) =>
              /\ UNCHANGED <<rows, today, fills, receipts, book, restarts, secret>>
              /\ failures' \in 0..MaxFailures
              /\ lost' = lost \cup {pending[q].id : q \in {r \in {s} : pending[r] # None}}
              /\ pending' = [q \in Symbols |-> IF q \in {s} THEN None ELSE pending[q]]
         /\ Restart =>
              /\ UNCHANGED <<rows, today, fills, receipts, failures>>
              /\ restarts' \in 0..MaxRestarts /\ secret' \in Keys
              /\ lost' = lost \cup {pending[q].id : q \in {r \in Symbols : pending[r] # None}}
              /\ pending' = [q \in Symbols |-> IF q \in Symbols THEN None ELSE pending[q]]
              /\ book' = [q \in Symbols |-> None]
<1> USE DEF JournalInv
<1>1. pending \in [Symbols -> Row \cup {None}] /\ Counters
  BY DEF PendingIsLast
<1>2. ASSUME NEW s \in Symbols, RowFails(s)
      PROVE  /\ UNCHANGED <<rows, today, fills, receipts, book, restarts, secret>>
             /\ failures' \in 0..MaxFailures
             /\ lost' = lost \cup {pending[q].id : q \in {r \in {s} : pending[r] # None}}
             /\ pending' = [q \in Symbols |-> IF q \in {s} THEN None ELSE pending[q]]
  <2>1. failures' \in 0..MaxFailures
    BY <1>1, <1>2, JournalConstants DEF RowFails, MayFail, Counters
  <2>2. {pending[q].id : q \in {r \in {s} : pending[r] # None}} = {pending[s].id}
    BY <1>2 DEF RowFails
  <2> QED BY <1>1, <1>2, <2>1, <2>2 DEF RowFails, ledgerVars
<1>3. ASSUME Restart
      PROVE  /\ UNCHANGED <<rows, today, fills, receipts, failures>>
             /\ restarts' \in 0..MaxRestarts /\ secret' \in Keys
             /\ lost' = lost \cup {pending[q].id : q \in {r \in Symbols : pending[r] # None}}
             /\ pending' = [q \in Symbols |-> IF q \in Symbols THEN None ELSE pending[q]]
             /\ book' = [q \in Symbols |-> None]
  BY <1>1, <1>3, JournalConstants DEF Restart, Reopen, Counters
<1> QED BY <1>2, <1>3

\* Every step keeps the records in order.
LEMMA JournalNextInv == JournalInv /\ [JournalNext]_journalVars => JournalInv'
<1> SUFFICES ASSUME JournalInv, [JournalNext]_journalVars PROVE JournalInv'
  OBVIOUS
<1>1. ASSUME NEW s \in Symbols, NEW p \in Prices, NEW a \in Entries, Enters(s, a, p)
      PROVE  JournalInv'
  BY <1>1, Executions, ExecutionKeeps
<1>2. ASSUME NEW s \in Symbols, NEW p \in Prices, Closes(s, p)
      PROVE  JournalInv'
  BY <1>2, Executions, ExecutionKeeps
<1>3. ASSUME NEW s \in Symbols, RowWritten(s) PROVE JournalInv'
  BY <1>3, RowWrittenKeeps
<1>4. ASSUME NEW s \in Symbols, RowFails(s) PROVE JournalInv'
  <2>1. {s} \in SUBSET Symbols /\ Counters
    BY DEF JournalInv
  <2>2. restarts' \in 0..MaxRestarts /\ secret' \in Keys
    BY <1>4, <2>1, LossSteps DEF Counters
  <2> QED BY <1>4, <2>1, <2>2, LossSteps, LossKeeps
<1>5. CASE Restart
  <2>1. Symbols \in SUBSET Symbols /\ failures' \in 0..MaxFailures
    BY <1>5, LossSteps DEF JournalInv, Counters
  <2> QED BY <1>5, <2>1, LossSteps, LossKeeps
<1>6. CASE Midnight
  <2> USE DEF JournalInv
  <2>1. /\ today' \in 0..LastDay /\ today' \in Int /\ today \leq today'
        /\ UNCHANGED <<rows, book, pending, restarts, failures, lost, fills, receipts, secret>>
    BY <1>6, JournalConstants DEF Midnight, Counters, ledgerVars
  <2>2. FillsInOrder' /\ ReceiptsOfFills' /\ Counters'
    BY <2>1, FillsStay, ReceiptsStay DEF Counters
  <2>3. RowsOfFills' /\ PendingIsLast' /\ NoFillForgotten'
    BY <2>1 DEF RowsOfFills, PendingIsLast, NoFillForgotten
  <2>4. BookOfFills'
    BY <2>1 DEF BookOfFills, LiveEntry, Settled
  <2> QED BY <2>2, <2>3, <2>4
<1>7. CASE UNCHANGED journalVars
  <2> USE <1>7 DEF JournalInv, journalVars, ledgerVars
  <2>1. FillsInOrder' /\ ReceiptsOfFills' /\ Counters'
    BY DEF FillsInOrder, ReceiptsOfFills, Counters, EntryOf
  <2>2. RowsOfFills' /\ PendingIsLast' /\ NoFillForgotten'
    BY DEF RowsOfFills, PendingIsLast, NoFillForgotten
  <2>3. BookOfFills'
    BY DEF BookOfFills, LiveEntry, Settled
  <2> QED BY <2>1, <2>2, <2>3
<1> QED BY <1>1, <1>2, <1>3, <1>4, <1>5, <1>6, <1>7 DEF JournalNext
-----------------------------------------------------------------------------
(* The properties that follow from JournalInv *)

\* The records of the trades keep their order, and each other's contents.
THEOREM JournalInvariant == JournalSpec => []JournalInv
BY JournalInitInv, JournalNextInv, PTL DEF JournalSpec

\* As many rows as fills at most: the ids of the rows differ.
LEMMA RowsBounded == JournalInv => Len(rows) \leq MaxFills
<1> SUFFICES ASSUME JournalInv PROVE Len(rows) \leq MaxFills
  OBVIOUS
<1>1. rows \in Seq(Row) /\ Len(rows) \in Nat /\ DOMAIN rows = 1..Len(rows) /\ MaxFills \in Nat
  BY JournalConstants DEF JournalInv, RowsOfFills
<1> DEFINE f == [k \in 1..Len(rows) |-> rows[k].id]
<1>2. \A k \in 1..Len(rows) : rows[k] \in Row /\ rows[k].id \in 1..MaxFills
  <2>1. \A k \in 1..Len(rows) : rows[k] \in Row
    BY <1>1
  <2> QED BY <2>1 DEF Row, Ids
<1>3. \A k, l \in 1..Len(rows) : f[k] = f[l] => k = l
  BY <1>1 DEF JournalInv, RowsOfFills
<1>4. f \in Injection(1..Len(rows), 1..MaxFills)
  BY <1>2, <1>3 DEF Injection, IsInjective
<1>5. /\ IsFiniteSet(1..Len(rows)) /\ Cardinality(1..Len(rows)) = Len(rows)
      /\ IsFiniteSet(1..MaxFills) /\ Cardinality(1..MaxFills) = MaxFills
  <2>1. \A n \in Nat : IsFiniteSet(1..n) /\ Cardinality(1..n) = n
    BY FS_Interval
  <2> QED BY <1>1, <2>1
<1> HIDE DEF f
<1> QED BY <1>4, <1>5, FS_Injection

\* Every variable of the journal has its type, and the bounds are kept.
THEOREM JournalTyped == JournalSpec => []JournalTypeOK
<1>1. JournalInv => JournalTypeOK
  <2> SUFFICES ASSUME JournalInv PROVE JournalTypeOK
    OBVIOUS
  <2> USE DEF JournalInv
  <2>1. rows \in Seq(Row) /\ Len(rows) \leq MaxFills
    BY RowsBounded DEF RowsOfFills
  <2>2. lost \subseteq Ids
    BY JournalConstants DEF FillsInOrder, RowsOfFills, Ids
  <2>3. {r.data : r \in receipts} \subseteq [id : Ids, symbol : Symbols, price : Prices,
                                            action : Entries \cup {"CLOSE"}]
    BY DEF ReceiptsOfFills, Receipt, Data
  <2> QED BY <2>1, <2>2, <2>3 DEF JournalTypeOK, FillsInOrder, PendingIsLast, BookOfFills,
                                  Counters, Fill
<1> QED BY <1>1, JournalInvariant, PTL

\* A trade that was executed leaves a row or a receipt, or both writes failed.
THEOREM ExecutionsLeaveRecords == JournalSpec => []ExecutedLeavesRecord
<1>1. JournalInv => ExecutedLeavesRecord
  <2> SUFFICES ASSUME JournalInv, NEW i \in DOMAIN fills
               PROVE  \/ \E r \in receipts : r.data = DataOf(fills[i].row)
                      \/ \E k \in DOMAIN rows : rows[k] = fills[i].row
                      \/ pending[fills[i].row.symbol] = fills[i].row
                      \/ i \in lost /\ ~fills[i].saved
    BY DEF ExecutedLeavesRecord
  <2>1. \A k \in DOMAIN rows : rows[k].id = i => rows[k] = fills[i].row
    BY DEF JournalInv, RowsOfFills
  <2>2. fills[i].saved => \E r \in receipts : r.data = DataOf(fills[i].row)
    BY DEF JournalInv, ReceiptsOfFills
  <2> QED BY <2>1, <2>2 DEF JournalInv, NoFillForgotten
<1> QED BY <1>1, JournalInvariant, PTL

\* A receipt verifies under the key of its fill only, and for its own trade only.
THEOREM ReceiptsStayAuthentic == JournalSpec => []ReceiptsAuthentic
<1>1. JournalInv => ReceiptsAuthentic
  <2> SUFFICES ASSUME JournalInv, NEW r \in receipts
               PROVE  /\ Verify(secret, r) <=> fills[r.data.id].key = secret
                      /\ \A s \in Symbols, p \in Prices :
                           LET altered == [r EXCEPT !.data.symbol = s, !.data.price = p]
                           IN Verify(secret, altered) => altered = r
    BY DEF ReceiptsAuthentic
  <2>1. /\ r \in Receipt
        /\ r.signature = [key |-> fills[r.data.id].key, message |-> r.data]
    BY DEF JournalInv, ReceiptsOfFills, Sign
  <2>2. Verify(secret, r) <=> fills[r.data.id].key = secret
    BY <2>1 DEF Verify, Sign
  <2>3. ASSUME NEW s \in Symbols, NEW p \in Prices,
               Verify(secret, [r EXCEPT !.data.symbol = s, !.data.price = p])
        PROVE  [r EXCEPT !.data.symbol = s, !.data.price = p] = r
    <3> DEFINE altered == [r EXCEPT !.data.symbol = s, !.data.price = p]
    <3>1. altered.signature = r.signature
      BY <2>1 DEF Receipt, Data
    <3>2. altered.data = r.data
      BY <2>1, <2>3, <3>1 DEF Verify, Sign
    <3>3. altered.data = [r.data EXCEPT !.symbol = s, !.price = p]
      BY <2>1 DEF Receipt, Data
    <3>4. r = [data |-> r.data, signature |-> r.signature]
      BY <2>1 DEF Receipt, Data
    <3>5. altered = [data |-> [r.data EXCEPT !.symbol = s, !.price = p], signature |-> r.signature]
      <4>1. DOMAIN altered = DOMAIN r /\ DOMAIN r = {"data", "signature"}
        BY <3>4
      <4>2. altered = [f \in {"data", "signature"} |-> altered[f]]
        BY <4>1
      <4> HIDE DEF altered
      <4> QED BY <3>1, <3>3, <4>2
    <3> QED BY <3>2, <3>4, <3>5
  <2> QED BY <2>2, <2>3
<1> QED BY <1>1, JournalInvariant, PTL
-----------------------------------------------------------------------------
(* ReplayInv: every step keeps what the replays of the rows know *)

\* /performance replays the rows of every day.
LEMMA PerformanceIsFold ==
  ASSUME JournalInv
  PROVE  Performance = DaysReplayed(0..LastDay, rows)
<1> DEFINE B(f, s) == IF s = {} THEN NoTrades ELSE ReplayRow(f[s \ {Max(s)}], rows[Max(s)])
<1>1. Performance = (CHOOSE f : f = [s \in SUBSET DOMAIN rows |-> B(f, s)])[DOMAIN rows]
  BY DEF Performance, FoldLeft, MapThenFoldSet
<1>2. /\ rows \in Seq(Row) /\ Len(rows) \in Nat /\ DOMAIN rows = 1..Len(rows)
  BY DEF JournalInv, RowsOfFills
<1>3. ASSUME NEW f, NEW s \in SUBSET DOMAIN rows PROVE B(f, s) = FoldBody(0..LastDay, rows, f, s)
  <2>1. CASE s = {}
    BY <2>1 DEF FoldBody
  <2>2. CASE s # {}
    <3>1. Max(s) \in DOMAIN rows
      BY <1>2, <2>2, MaxOfPositions
    <3>2. rows[Max(s)] \in Row
      BY <1>2, <3>1
    <3>3. rows[Max(s)].day \in 0..LastDay
      BY <3>2 DEF Row
    <3> QED BY <2>2, <3>3 DEF FoldBody, DayStep
  <2> QED BY <2>1, <2>2
<1> HIDE DEF B
<1>4. \A f : f = [s \in SUBSET DOMAIN rows |-> B(f, s)]
               <=> IsFold(0..LastDay, rows, DOMAIN rows, f)
  BY <1>3 DEF IsFold
<1>5. (CHOOSE f : f = [s \in SUBSET DOMAIN rows |-> B(f, s)]) = Folded(0..LastDay, rows)
  BY <1>4 DEF Folded
<1> QED BY <1>1, <1>5, Unfold

\* What a row does to the summary of its own symbol, and to no other.
LEMMA ReplayRowFacts ==
  ASSUME NEW acc \in Summary, NEW row \in Row
  PROVE  LET s == row.symbol
             next == ReplayRow(acc, row)
         IN /\ next \in Summary
            /\ \A q \in Symbols : q # s => /\ next.open[q] = acc.open[q]
                                         /\ next.wins[q] = acc.wins[q]
                                         /\ next.losses[q] = acc.losses[q]
            /\ row.action \in Entries => /\ next.open[s] = [action |-> row.action, price |-> row.price]
                                         /\ next.wins[s] = acc.wins[s]
                                         /\ next.losses[s] = acc.losses[s]
            /\ row.action = "CLOSE" =>
                 /\ next.open[s] = None
                 /\ acc.open[s] = None => next = acc
                 /\ acc.open[s] # None =>
                      IF IsWin(acc.open[s], row.price)
                        THEN next.wins[s] = acc.wins[s] + 1 /\ next.losses[s] = acc.losses[s]
                        ELSE next.wins[s] = acc.wins[s] /\ next.losses[s] = acc.losses[s] + 1
<1> DEFINE s == row.symbol
           o == [action |-> row.action, price |-> row.price]
<1>1. s \in Symbols /\ row.action \in Entries \cup {"CLOSE"} /\ "CLOSE" \notin Entries
  BY DEF Row, Entries
<1>2. row.action \in Entries => o \in OpenEntry
  BY DEF Row, OpenEntry
<1>3. PICK open \in [Symbols -> OpenEntry \cup {None}],
           wins \in [Symbols -> Nat], losses \in [Symbols -> Nat] :
        acc = [open |-> open, wins |-> wins, losses |-> losses]
  BY DEF Summary
<1> HIDE DEF o
<1>4. CASE row.action \in Entries
  <2>1. ReplayRow(acc, row) = [open |-> [open EXCEPT ![s] = o], wins |-> wins, losses |-> losses]
    BY <1>3, <1>4 DEF ReplayRow, o
  <2> QED BY <1>1, <1>2, <1>3, <1>4, <2>1 DEF Summary, o
<1>5. CASE row.action = "CLOSE" /\ open[s] = None
  <2>1. ReplayRow(acc, row) = acc
    BY <1>1, <1>3, <1>5 DEF ReplayRow
  <2> QED BY <1>1, <1>3, <1>5, <2>1
<1>6. CASE row.action = "CLOSE" /\ open[s] # None /\ IsWin(open[s], row.price)
  <2>1. ReplayRow(acc, row) = [open |-> [open EXCEPT ![s] = None],
                               wins |-> [wins EXCEPT ![s] = @ + 1], losses |-> losses]
    BY <1>1, <1>3, <1>6 DEF ReplayRow
  <2> QED BY <1>1, <1>3, <1>6, <2>1 DEF Summary
<1>7. CASE row.action = "CLOSE" /\ open[s] # None /\ ~IsWin(open[s], row.price)
  <2>1. ReplayRow(acc, row) = [open |-> [open EXCEPT ![s] = None],
                               wins |-> wins, losses |-> [losses EXCEPT ![s] = @ + 1]]
    BY <1>1, <1>3, <1>7 DEF ReplayRow
  <2> QED BY <1>1, <1>3, <1>7, <2>1 DEF Summary
<1> QED BY <1>1, <1>3, <1>4, <1>5, <1>6, <1>7

LEMMA ReplayRowOthers ==
  ASSUME NEW acc \in Summary, NEW row \in Row, NEW q \in Symbols, q # row.symbol
  PROVE  /\ ReplayRow(acc, row).open[q] = acc.open[q]
         /\ ReplayRow(acc, row).wins[q] = acc.wins[q]
         /\ ReplayRow(acc, row).losses[q] = acc.losses[q]
BY ReplayRowFacts

\* The sets that are counted are finite.
LEMMA SettledFinite ==
  ASSUME JournalInv, NEW q, NEW T \in SUBSET Settled(q)
  PROVE  IsFiniteSet(T) /\ Cardinality(T) \in Nat
<1>1. T \subseteq 1..Len(fills) /\ Len(fills) \in Nat
  BY DEF JournalInv, FillsInOrder, Settled
<1>2. IsFiniteSet(1..Len(fills))
  BY <1>1, FS_Interval
<1> QED BY <1>1, <1>2, FS_Subset, FS_CardinalityType

\* An exit and its entry, in the types of their fields.
LEMMA SettledFacts ==
  ASSUME JournalInv, NEW q \in Symbols
  PROVE  /\ \A i \in DOMAIN fills : i \in Nat /\ fills[i] \in Fill
         /\ Settled(q) \subseteq DOMAIN fills
         /\ LiveEntry(q) # None => /\ LiveEntry(q) \in DOMAIN fills
                                   /\ fills[LiveEntry(q)].row.action \in Entries
         /\ \A i \in SettledExits(q) : fills[i].entry \in DOMAIN fills
<1> USE DEF JournalInv
<1>1. fills \in Seq(Fill) /\ DOMAIN fills = 1..Len(fills) /\ Len(fills) \in Nat
  BY DEF FillsInOrder
<1>2. \A i \in DOMAIN fills : i \in Nat /\ fills[i] \in Fill
  BY <1>1
<1>3. Settled(q) \subseteq DOMAIN fills
  BY DEF Settled
<1>4. \A i \in DOMAIN fills : fills[i].row.action = "CLOSE" =>
        fills[i].entry \in DOMAIN fills /\ fills[fills[i].entry].row.action \in Entries
  <2> SUFFICES ASSUME NEW i \in DOMAIN fills, fills[i].row.action = "CLOSE"
               PROVE  fills[i].entry \in DOMAIN fills /\ fills[fills[i].entry].row.action \in Entries
    OBVIOUS
  <2>1. fills[i].entry \in 1..(i - 1) /\ EntryOf(i).action \in Entries
    BY DEF FillsInOrder
  <2> QED BY <1>1, <2>1 DEF EntryOf
<1>5. LiveEntry(q) # None => /\ LiveEntry(q) \in DOMAIN fills
                            /\ fills[LiveEntry(q)].row.action \in Entries
  <2>1. CASE pending[q] = None
    BY <2>1 DEF LiveEntry, BookOfFills
  <2>2. CASE pending[q] # None
    <3>1. pending[q].id \in DOMAIN fills
      BY <2>2 DEF PendingIsLast
    <3>2. fills[pending[q].id] \in Fill
      BY <1>2, <3>1
    <3>3. \/ fills[pending[q].id].row.action = "CLOSE"
          \/ fills[pending[q].id].entry = None
      BY <3>1, <3>2 DEF FillsInOrder, Fill, Row
    <3> QED BY <1>4, <2>2, <3>1, <3>3 DEF LiveEntry
  <2> QED BY <2>1, <2>2
<1> QED BY <1>2, <1>3, <1>4, <1>5 DEF SettledExits

\* A step after which s has the same settled fills, or a lost one, and no other
\* open trade, leaves the replay as right as it was.
LEMMA KnowsKeeps ==
  ASSUME JournalInv, JournalInv', NEW q \in Symbols, NEW D, NEW acc, NEW next,
         Knows(acc, D, q),
         next.open[q] = acc.open[q], next.wins[q] = acc.wins[q], next.losses[q] = acc.losses[q],
         next \in Summary,
         \A i \in DOMAIN fills : i \in DOMAIN fills' /\ fills'[i] = fills[i],
         Settled(q) \subseteq Settled(q)',
         LostFree(q)' => /\ LostFree(q) /\ Settled(q)' = Settled(q)
                         /\ LiveEntry(q)' \in {LiveEntry(q), None}
  PROVE  Knows(next, D, q)'
<1>1. /\ Settled(q) \subseteq DOMAIN fills
      /\ LiveEntry(q) # None => LiveEntry(q) \in DOMAIN fills
      /\ \A i \in SettledExits(q) : fills[i].entry \in DOMAIN fills
  BY SettledFacts
<1>2. next.open[q] # None => \E i \in Settled(q)' : fills'[i].row.day \in D
  BY <1>1 DEF Knows
<1>3. ASSUME LostFree(q)'
      PROVE  /\ LiveEntry(q)' # None /\ fills'[LiveEntry(q)'].row.day \in D
                  => next.open[q] = Opened(LiveEntry(q))'
             /\ Wins(q, D)' = Wins(q, D) /\ Losses(q, D)' = Losses(q, D)
             /\ LostFree(q)
  <2>1. SettledExits(q)' = SettledExits(q)
    BY <1>1, <1>3 DEF SettledExits
  <2>2. \A i \in SettledExits(q) :
          /\ Profit(i)' = Profit(i) /\ EntryOf(i)' = EntryOf(i)
          /\ fills'[i] = fills[i]
    BY <1>1 DEF Profit, EntryOf, SettledExits
  <2>3. Wins(q, D)' = Wins(q, D) /\ Losses(q, D)' = Losses(q, D)
    BY <2>1, <2>2 DEF Wins, Losses
  <2>4. LiveEntry(q)' # None => /\ LiveEntry(q)' = LiveEntry(q)
                               /\ fills'[LiveEntry(q)] = fills[LiveEntry(q)]
    BY <1>1, <1>3
  <2> QED BY <1>3, <2>3, <2>4 DEF Knows, Opened
<1>4. next.wins[q] + next.losses[q] \leq Cardinality(SettledExits(q)')
  <2>1. SettledExits(q) \subseteq SettledExits(q)'
    BY <1>1 DEF SettledExits
  <2>2. IsFiniteSet(SettledExits(q)') /\ Cardinality(SettledExits(q)') \in Nat
    <3>1. /\ fills' \in Seq(Fill) /\ Len(fills') \in Nat
          /\ SettledExits(q)' \subseteq 1..Len(fills')
      BY DEF JournalInv, FillsInOrder, SettledExits, Settled
    <3>2. \A n \in Nat : IsFiniteSet(1..n)
      BY FS_Interval
    <3> QED BY <3>1, <3>2, FS_Subset, FS_CardinalityType
  <2>3. Cardinality(SettledExits(q)) \in Nat
    BY SettledFinite DEF SettledExits
  <2>4. Cardinality(SettledExits(q)) \leq Cardinality(SettledExits(q)')
    BY <2>1, <2>2, FS_Subset
  <2>5. next.wins[q] \in Nat /\ next.losses[q] \in Nat
    BY DEF Summary
  <2> QED BY <2>2, <2>3, <2>4, <2>5 DEF Knows
<1> QED BY <1>2, <1>3, <1>4 DEF Knows

\* The replay of a row that was just written, of the last fill of its symbol.
LEMMA KnowsWritten ==
  ASSUME JournalInv, JournalInv', NEW s \in Symbols, RowWritten(s),
         NEW lo \in 0..LastDay, NEW hi \in 0..LastDay,
         NEW acc \in Summary, Knows(acc, lo..hi, s), NEW x, x = pending[s]
  PROVE  Knows(DayStep(lo..hi, acc, x), lo..hi, s)'
<1> DEFINE D == lo..hi
           next == DayStep(D, acc, x)
<1>1. /\ pending[s] # None /\ pending' = [pending EXCEPT ![s] = None]
      /\ UNCHANGED <<book, lost, fills>>
  BY DEF RowWritten
<1>2. /\ pending' \in [Symbols -> Row \cup {None}] /\ pending'[s] = None
      /\ x \in Row /\ x.symbol = s /\ x.id \in DOMAIN fills
      /\ x = fills[x.id].row
      /\ \A i \in DOMAIN fills : fills[i].row.symbol = s => i \leq x.id
      /\ book[s] = IF x.action = "CLOSE" THEN None ELSE x.id
  BY <1>1 DEF JournalInv, PendingIsLast
<1>3. /\ Settled(s)' = Settled(s) \cup {x.id} /\ x.id \notin Settled(s)
      /\ LiveEntry(s)' = book[s]
      /\ LostFree(s)' <=> LostFree(s)
  BY <1>1, <1>2 DEF Settled, LiveEntry, LostFree
<1>4. /\ \A i \in DOMAIN fills : i \in Nat /\ fills[i] \in Fill
      /\ Settled(s) \subseteq DOMAIN fills
      /\ LiveEntry(s) # None => LiveEntry(s) \in DOMAIN fills
  BY SettledFacts
<1>5. /\ Wins(s, D)' = {i \in SettledExits(s)' :
                          Profit(i) > 0 /\ EntryOf(i).day \in D /\ fills[i].row.day \in D}
      /\ Losses(s, D)' = {i \in SettledExits(s)' :
                            Profit(i) \leq 0 /\ EntryOf(i).day \in D /\ fills[i].row.day \in D}
  BY <1>1 DEF Wins, Losses, Profit, EntryOf
<1>6. /\ Cardinality(Wins(s, D)) \in Nat /\ IsFiniteSet(Wins(s, D))
      /\ Cardinality(Losses(s, D)) \in Nat /\ IsFiniteSet(Losses(s, D))
      /\ Cardinality(SettledExits(s)) \in Nat /\ IsFiniteSet(SettledExits(s))
  <2>1. /\ Wins(s, D) \in SUBSET Settled(s) /\ Losses(s, D) \in SUBSET Settled(s)
        /\ SettledExits(s) \in SUBSET Settled(s)
    BY DEF Wins, Losses, SettledExits
  <2> QED BY <2>1, SettledFinite
<1>7. acc.wins[s] \in Nat /\ acc.losses[s] \in Nat
  BY DEF Summary
<1>r. /\ x.action \in Entries => /\ ReplayRow(acc, x).open[s] = [action |-> x.action, price |-> x.price]
                                 /\ ReplayRow(acc, x).wins[s] = acc.wins[s]
                                 /\ ReplayRow(acc, x).losses[s] = acc.losses[s]
      /\ x.action = "CLOSE" =>
           /\ ReplayRow(acc, x).open[s] = None
           /\ acc.open[s] = None => ReplayRow(acc, x) = acc
           /\ acc.open[s] # None =>
                IF IsWin(acc.open[s], x.price)
                  THEN /\ ReplayRow(acc, x).wins[s] = acc.wins[s] + 1
                       /\ ReplayRow(acc, x).losses[s] = acc.losses[s]
                  ELSE /\ ReplayRow(acc, x).wins[s] = acc.wins[s]
                       /\ ReplayRow(acc, x).losses[s] = acc.losses[s] + 1
  BY <1>2, ReplayRowFacts
<1> HIDE DEF D
<1>8. CASE x.action \in Entries
  <2>1. x.action # "CLOSE" /\ book[s] = x.id
    BY <1>2, <1>8 DEF Entries
  <2>2. SettledExits(s)' = SettledExits(s)
    BY <1>1, <1>2, <1>3, <2>1 DEF SettledExits
  <2>3. Wins(s, D)' = Wins(s, D) /\ Losses(s, D)' = Losses(s, D)
    BY <1>5, <2>2 DEF Wins, Losses
  <2>4. next.wins[s] = acc.wins[s] /\ next.losses[s] = acc.losses[s]
    BY <1>2, <1>8, <1>r DEF DayStep
  <2>5. x.day \in D => next.open[s] = Opened(x.id)
    BY <1>2, <1>8, <1>r DEF DayStep, Opened
  <2>6. x.day \notin D => next = acc
    BY DEF DayStep
  <2>7. next.open[s] # None => \E i \in Settled(s)' : fills[i].row.day \in D
    BY <1>2, <1>3, <2>6 DEF Knows, D
  <2>8. LiveEntry(s)' # None /\ fills[LiveEntry(s)'].row.day \in D
          => next.open[s] = Opened(LiveEntry(s)')
    BY <1>2, <1>3, <2>1, <2>5
  <2> HIDE DEF next
  <2>9. Opened(LiveEntry(s)') = Opened(LiveEntry(s))'
    BY <1>1 DEF Opened
  <2> QED BY <1>1, <1>3, <2>2, <2>3, <2>4, <2>7, <2>8, <2>9 DEF Knows, D, next
<1>9. CASE x.action = "CLOSE"
  <2> DEFINE e == fills[x.id].entry
  <2>1. LiveEntry(s) = e /\ LiveEntry(s)' = None
    BY <1>1, <1>2, <1>3, <1>9 DEF LiveEntry
  <2>2. e \in 1..(x.id - 1) /\ EntryOf(x.id) = fills[e].row /\ fills[e].row.action \in Entries
    BY <1>2, <1>9 DEF JournalInv, FillsInOrder, EntryOf
  <2>3. e \in DOMAIN fills /\ e # None
    <3>1. DOMAIN fills = 1..Len(fills) /\ Len(fills) \in Nat /\ Len(fills) \leq MaxFills
      BY DEF JournalInv, FillsInOrder
    <3> QED BY <1>2, <2>2, <3>1, JournalConstants DEF Ids
  <2>4. SettledExits(s)' = SettledExits(s) \cup {x.id} /\ x.id \notin SettledExits(s)
    BY <1>1, <1>2, <1>3, <1>9 DEF SettledExits
  <2>5. Cardinality(SettledExits(s)') = Cardinality(SettledExits(s)) + 1
    BY <1>6, <2>4, FS_AddElement
  <2>6. \/ next.wins[s] = acc.wins[s] /\ next.losses[s] = acc.losses[s]
        \/ next.wins[s] = acc.wins[s] + 1 /\ next.losses[s] = acc.losses[s]
        \/ next.wins[s] = acc.wins[s] /\ next.losses[s] = acc.losses[s] + 1
    <3>1. CASE x.day \in D /\ acc.open[s] # None
      BY <1>2, <1>9, <3>1, <1>r DEF DayStep
    <3>2. CASE x.day \in D /\ acc.open[s] = None
      BY <1>2, <1>9, <3>2, <1>r DEF DayStep
    <3>3. CASE x.day \notin D
      BY <3>3 DEF DayStep
    <3> QED BY <3>1, <3>2, <3>3
  <2>8. next.wins[s] + next.losses[s] \leq Cardinality(SettledExits(s)')
    <3>1. acc.wins[s] + acc.losses[s] \leq Cardinality(SettledExits(s))
      BY DEF Knows, D
    <3> HIDE DEF next
    <3> QED BY <1>6, <1>7, <2>5, <2>6, <3>1
  <2>9. next.open[s] # None => \E i \in Settled(s)' : fills[i].row.day \in D
    BY <1>2, <1>3, <1>9, <1>r DEF Knows, DayStep, D
  <2>10. ASSUME LostFree(s)
         PROVE  /\ next.wins[s] = Cardinality(Wins(s, D)')
                /\ next.losses[s] = Cardinality(Losses(s, D)')
    <3>1. /\ acc.wins[s] = Cardinality(Wins(s, D)) /\ acc.losses[s] = Cardinality(Losses(s, D))
          /\ fills[e].row.day \in D => acc.open[s] = Opened(e)
      BY <2>1, <2>3, <2>10 DEF Knows, D
    <3>2. CASE x.day \in D /\ fills[e].row.day \in D
      <4>1. IsWin(acc.open[s], x.price) <=> Profit(x.id) > 0
        <5>1. fills[e] \in Fill
          BY <1>4, <2>3
        <5>2. fills[e].row.price \in Int /\ x.price \in Int
          <6>1. fills[e].row \in Row
            BY <5>1 DEF Fill
          <6>2. fills[e].row.price \in Prices /\ x.price \in Prices
            BY <1>2, <6>1 DEF Row
          <6>3. \A price \in Prices : price \in Int
            BY PricesAssumption
          <6> QED BY <6>2, <6>3
        <5>3. Profit(x.id) = IF fills[e].row.action = "BUY" THEN x.price - fills[e].row.price
                                                          ELSE fills[e].row.price - x.price
          BY <1>2, <2>2 DEF Profit
        <5>4. /\ acc.open[s].action = fills[e].row.action
              /\ acc.open[s].price = fills[e].row.price
          BY <3>1, <3>2 DEF Opened
        <5> QED BY <5>2, <5>3, <5>4 DEF IsWin
      <4>2. Profit(x.id) > 0 <=> ~(Profit(x.id) \leq 0)
        <5>1. fills[e] \in Fill
          BY <1>4, <2>3
        <5>2. fills[e].row.price \in Int /\ x.price \in Int
          <6>1. fills[e].row \in Row
            BY <5>1 DEF Fill
          <6>2. fills[e].row.price \in Prices /\ x.price \in Prices
            BY <1>2, <6>1 DEF Row
          <6>3. \A price \in Prices : price \in Int
            BY PricesAssumption
          <6> QED BY <6>2, <6>3
        <5>3. Profit(x.id) = IF fills[e].row.action = "BUY" THEN x.price - fills[e].row.price
                                                          ELSE fills[e].row.price - x.price
          BY <1>2, <2>2 DEF Profit
        <5>4. Profit(x.id) \in Int
          BY <5>2, <5>3
        <5> QED BY <5>4
      <4>3. acc.open[s] # None
        <5>1. fills[e] \in Fill
          BY <1>4, <2>3
        <5>2. Opened(e) \in OpenEntry
          BY <2>2, <5>1 DEF Opened, OpenEntry, Fill, Row
        <5> QED BY <3>1, <3>2, <5>2, JournalConstants
      <4>4. EntryOf(x.id).day \in D /\ fills[x.id].row.day \in D
        BY <1>2, <2>2, <3>2
      <4>5. CASE Profit(x.id) > 0
        <5>1. Wins(s, D)' = Wins(s, D) \cup {x.id} /\ x.id \notin Wins(s, D)
          BY <1>5, <2>4, <4>4, <4>5 DEF Wins
        <5>2. Losses(s, D)' = Losses(s, D)
          BY <1>5, <2>4, <4>2, <4>5 DEF Losses
        <5>3. next.wins[s] = acc.wins[s] + 1 /\ next.losses[s] = acc.losses[s]
          BY <1>2, <1>9, <3>2, <4>1, <4>3, <4>5, <1>r DEF DayStep
        <5> QED BY <1>6, <3>1, <5>1, <5>2, <5>3, FS_AddElement
      <4>6. CASE Profit(x.id) \leq 0
        <5>1. Losses(s, D)' = Losses(s, D) \cup {x.id} /\ x.id \notin Losses(s, D)
          BY <1>5, <2>4, <4>4, <4>6 DEF Losses
        <5>2. Wins(s, D)' = Wins(s, D)
          BY <1>5, <2>4, <4>2, <4>6 DEF Wins
        <5>3. next.losses[s] = acc.losses[s] + 1 /\ next.wins[s] = acc.wins[s]
          BY <1>2, <1>9, <3>2, <4>1, <4>2, <4>3, <4>6, <1>r DEF DayStep
        <5> QED BY <1>6, <3>1, <5>1, <5>2, <5>3, FS_AddElement
      <4> QED BY <4>2, <4>5, <4>6
    <3>3. CASE ~(x.day \in D /\ fills[e].row.day \in D)
      <4>1. Wins(s, D)' = Wins(s, D) /\ Losses(s, D)' = Losses(s, D)
        BY <1>2, <1>5, <2>2, <2>4, <3>3 DEF Wins, Losses
      <4>2. next = acc
        <5>1. CASE x.day \notin D
          BY <5>1 DEF DayStep
        <5>2. CASE x.day \in D /\ fills[e].row.day \notin D
          <6>1. ASSUME NEW i \in Settled(s) PROVE fills[i].row.day \notin D
            <7>1. i \in 1..e /\ fills[i].row.day \leq fills[e].row.day
              BY <1>4, <2>1, <2>3 DEF JournalInv, BookOfFills, FillsInOrder
            <7>2. fills[e].row.day \leq x.day
              BY <1>2, <2>2 DEF JournalInv, FillsInOrder
            <7>3. fills[i] \in Fill /\ fills[e] \in Fill
              BY <1>4, <2>3
            <7>4. fills[i].row.day \in Int /\ fills[e].row.day \in Int /\ x.day \in Int
              BY <1>2, <7>3, JournalConstants DEF Fill, Row
            <7> QED BY <5>2, <7>1, <7>2, <7>4, JournalConstants DEF D
          <6>2. acc.open[s] = None
            BY <6>1 DEF Knows, D
          <6> QED BY <1>2, <1>9, <5>2, <6>2, <1>r DEF DayStep
        <5> QED BY <3>3, <5>1, <5>2
      <4> QED BY <3>1, <4>1, <4>2
    <3> QED BY <3>2, <3>3
  <2> HIDE DEF next
  <2> QED BY <1>1, <1>3, <2>1, <2>8, <2>9, <2>10 DEF Knows, D, next
<1> QED BY <1>2, <1>8, <1>9 DEF Row

\* The summary before the first row has its type.
LEMMA SummaryOfNone == NoTrades \in Summary
BY DEF NoTrades, Summary

\* Nor does a row take the summary out of its type.
LEMMA DayStepTyped ==
  ASSUME NEW acc \in Summary, NEW row \in Row, NEW D
  PROVE  DayStep(D, acc, row) \in Summary
BY ReplayRowFacts DEF DayStep

\* The replay of the empty journal.
LEMMA ReplayInit == JournalInit => ReplayInv
<1> SUFFICES ASSUME JournalInit, NEW lo \in 0..LastDay, NEW hi \in 0..LastDay, NEW q \in Symbols
             PROVE  Knows(NoTrades, lo..hi, q)
  BY ReplayOfNone, SummaryOfNone DEF ReplayInv, Replays, JournalInit
<1>1. /\ fills = <<>> /\ pending[q] = None /\ book[q] = None
      /\ NoTrades.open[q] = None /\ NoTrades.wins[q] = 0 /\ NoTrades.losses[q] = 0
  BY DEF JournalInit, NoTrades
<1>2. SettledExits(q) = {} /\ Wins(q, lo..hi) = {} /\ Losses(q, lo..hi) = {}
  BY <1>1 DEF SettledExits, Settled, Wins, Losses
<1>3. LiveEntry(q) = None
  BY <1>1 DEF LiveEntry
<1>4. Cardinality({}) = 0
  BY FS_EmptySet
<1>5. /\ Cardinality(SettledExits(q)) = 0
      /\ Cardinality(Wins(q, lo..hi)) = 0 /\ Cardinality(Losses(q, lo..hi)) = 0
  BY <1>2, <1>4
<1>6. NoTrades.wins[q] + NoTrades.losses[q] \leq Cardinality(SettledExits(q))
  BY <1>1, <1>5
<1> QED BY <1>1, <1>3, <1>5, <1>6 DEF Knows

\* A step that writes no row leaves every replay as right as it was.
LEMMA ReplayKept ==
  ASSUME JournalInv, JournalInv', ReplayInv, UNCHANGED rows,
         \A i \in DOMAIN fills : i \in DOMAIN fills' /\ fills'[i] = fills[i],
         \A q \in Symbols : Settled(q) \subseteq Settled(q)',
         \A q \in Symbols : LostFree(q)' => /\ LostFree(q) /\ Settled(q)' = Settled(q)
                                            /\ LiveEntry(q)' \in {LiveEntry(q), None}
  PROVE  ReplayInv'
<1> SUFFICES ASSUME NEW lo \in 0..LastDay, NEW hi \in 0..LastDay
             PROVE  Replays(DaysReplayed(lo..hi, rows), lo..hi)'
  BY DEF ReplayInv
<1>1. PICK acc : acc = DaysReplayed(lo..hi, rows)
  OBVIOUS
<1>2. acc \in Summary /\ \A q \in Symbols : Knows(acc, lo..hi, q)
  BY <1>1 DEF ReplayInv, Replays
<1>3. \A q \in Symbols : Knows(acc, lo..hi, q)'
  BY <1>2, KnowsKeeps
<1>4. DaysReplayed(lo..hi, rows)' = acc
  BY <1>1
<1>5. Replays(acc, lo..hi)'
  BY <1>2, <1>3 DEF Replays
<1> QED BY <1>4, <1>5 DEF Replays, Knows

\* A row that is written is replayed after all others, and changes its symbol only.
LEMMA ReplayWritten ==
  ASSUME JournalInv, JournalInv', ReplayInv, NEW s \in Symbols, RowWritten(s)
  PROVE  ReplayInv'
<1> SUFFICES ASSUME NEW lo \in 0..LastDay, NEW hi \in 0..LastDay
             PROVE  Replays(DaysReplayed(lo..hi, rows), lo..hi)'
  BY DEF ReplayInv
<1>1. PICK acc : acc = DaysReplayed(lo..hi, rows)
  OBVIOUS
<1>2. PICK x : x = pending[s]
  OBVIOUS
<1>3. PICK next : next = DayStep(lo..hi, acc, x)
  OBVIOUS
<1>4. /\ x \in Row /\ x.symbol = s /\ rows \in Seq(Row) /\ rows' = Append(rows, x)
      /\ pending' = [pending EXCEPT ![s] = None]
      /\ UNCHANGED <<book, lost, fills>>
  BY <1>2 DEF RowWritten, JournalInv, PendingIsLast, RowsOfFills
<1>5. acc \in Summary /\ \A q \in Symbols : Knows(acc, lo..hi, q)
  BY <1>1 DEF ReplayInv, Replays
<1>6. next \in Summary
  BY <1>3, <1>4, <1>5, DayStepTyped
<1>7. DaysReplayed(lo..hi, rows)' = next
  <2>1. DaysReplayed(lo..hi, Append(rows, x)) = DayStep(lo..hi, DaysReplayed(lo..hi, rows), x)
    BY <1>4, ReplayAppend
  <2> QED BY <1>1, <1>3, <1>4, <2>1
<1>8. ASSUME NEW q \in Symbols PROVE Knows(next, lo..hi, q)'
  <2>1. CASE q = s
    BY <1>2, <1>3, <1>5, <2>1, KnowsWritten
  <2>2. CASE q # s
    <3>1. next.open[q] = acc.open[q] /\ next.wins[q] = acc.wins[q] /\ next.losses[q] = acc.losses[q]
      <4>1. /\ ReplayRow(acc, x).open[q] = acc.open[q]
            /\ ReplayRow(acc, x).wins[q] = acc.wins[q]
            /\ ReplayRow(acc, x).losses[q] = acc.losses[q]
        <5>1. acc \in Summary /\ x \in Row /\ q \in Symbols /\ q # x.symbol
          BY <1>4, <1>5, <2>2
        <5> QED BY <5>1, ReplayRowOthers
      <4> QED BY <1>3, <4>1 DEF DayStep
    <3>2. pending'[q] = pending[q] /\ book'[q] = book[q]
      BY <1>4, <2>2 DEF JournalInv, PendingIsLast
    <3>3. Settled(q)' = Settled(q) /\ LiveEntry(q)' = LiveEntry(q) /\ LostFree(q)' = LostFree(q)
      BY <1>4, <3>2 DEF Settled, LiveEntry, LostFree
    <3> QED BY <1>4, <1>5, <1>6, <3>1, <3>3, KnowsKeeps
  <2> QED BY <2>1, <2>2
<1>9. Replays(next, lo..hi)'
  BY <1>6, <1>8 DEF Replays
<1> QED BY <1>7, <1>9 DEF Replays, Knows

\* Every step keeps what the replays know.
LEMMA ReplayNext ==
  JournalInv /\ JournalInv' /\ ReplayInv /\ [JournalNext]_journalVars => ReplayInv'
<1> SUFFICES ASSUME JournalInv, JournalInv', ReplayInv, [JournalNext]_journalVars
             PROVE  ReplayInv'
  OBVIOUS
<1>1. ASSUME NEW s \in Symbols, NEW p \in Prices, NEW a \in Entries \cup {"CLOSE"}, Executes(s, a, p)
      PROVE  ReplayInv'
  <2>1. /\ rows' = rows /\ lost' = lost
        /\ \A i \in DOMAIN fills : i \in DOMAIN fills' /\ fills'[i] = fills[i]
    BY <1>1, ExecutionFacts
  <2>2. \A q \in Symbols : Settled(q)' = Settled(q) /\ LiveEntry(q)' = LiveEntry(q)
    BY <1>1, ExecutionSettles
  <2>3. \A q \in Symbols : LostFree(q)' => LostFree(q)
    BY <2>1 DEF LostFree, JournalInv, RowsOfFills
  <2> QED BY <2>1, <2>2, <2>3, ReplayKept
<1>2. ASSUME NEW s \in Symbols, RowWritten(s) PROVE ReplayInv'
  BY <1>2, ReplayWritten
<1>3. ASSUME NEW L \in SUBSET Symbols,
             UNCHANGED <<rows, fills>>,
             lost' = lost \cup {pending[s].id : s \in {r \in L : pending[r] # None}},
             pending' = [s \in Symbols |-> IF s \in L THEN None ELSE pending[s]],
             book' = book \/ book' = [s \in Symbols |-> None]
      PROVE  ReplayInv'
  <2>1. ASSUME NEW q \in Symbols
        PROVE  /\ Settled(q) \subseteq Settled(q)'
               /\ LostFree(q)' => /\ LostFree(q) /\ Settled(q)' = Settled(q)
                                  /\ LiveEntry(q)' \in {LiveEntry(q), None}
    <3>1. CASE q \in L /\ pending[q] # None
      <4>1. pending[q].id \in lost' /\ pending[q].id \in DOMAIN fills
        BY <1>3, <3>1 DEF JournalInv, PendingIsLast
      <4>2. fills[pending[q].id].row.symbol = q
        BY <3>1 DEF JournalInv, PendingIsLast
      <4>3. ~LostFree(q)'
        BY <1>3, <4>1, <4>2 DEF LostFree
      <4>4. Settled(q) \subseteq Settled(q)'
        BY <1>3, <3>1 DEF Settled
      <4> QED BY <4>3, <4>4
    <3>2. CASE ~(q \in L /\ pending[q] # None)
      <4>1. pending'[q] = pending[q]
        BY <1>3, <3>2
      <4>2. Settled(q)' = Settled(q)
        BY <1>3, <4>1 DEF Settled
      <4>3. LostFree(q)' => LostFree(q)
        BY <1>3 DEF LostFree
      <4>4. LiveEntry(q)' \in {LiveEntry(q), None}
        BY <1>3, <4>1 DEF LiveEntry
      <4> QED BY <4>2, <4>3, <4>4
    <3> QED BY <3>1, <3>2
  <2> QED BY <1>3, <2>1, ReplayKept
<1>4. ASSUME NEW s \in Symbols, NEW p \in Prices, NEW a \in Entries, Enters(s, a, p)
      PROVE  ReplayInv'
  BY <1>1, <1>4, Executions
<1>5. ASSUME NEW s \in Symbols, NEW p \in Prices, Closes(s, p) PROVE ReplayInv'
  BY <1>1, <1>5, Executions
<1>6. ASSUME NEW s \in Symbols, RowFails(s) PROVE ReplayInv'
  <2>1. {s} \in SUBSET Symbols
    OBVIOUS
  <2> QED BY <1>3, <1>6, <2>1, LossSteps
<1>7. CASE Restart
  <2>1. Symbols \in SUBSET Symbols
    OBVIOUS
  <2> QED BY <1>3, <1>7, <2>1, LossSteps
<1>8. CASE UNCHANGED <<rows, book, pending, lost, fills>>
  <2>1. {} \in SUBSET Symbols /\ {pending[s].id : s \in {r \in {} : pending[r] # None}} = {}
    OBVIOUS
  <2>2. pending' = [s \in Symbols |-> IF s \in {} THEN None ELSE pending[s]]
    BY <1>8 DEF JournalInv, PendingIsLast
  <2>3. lost' = lost \cup {pending[s].id : s \in {r \in {} : pending[r] # None}}
    BY <1>8, <2>1
  <2> QED BY <1>3, <1>8, <2>1, <2>2, <2>3
<1>9. Midnight \/ UNCHANGED journalVars => UNCHANGED <<rows, book, pending, lost, fills>>
  BY DEF Midnight, journalVars
<1> QED BY <1>2, <1>4, <1>5, <1>6, <1>7, <1>8, <1>9 DEF JournalNext
-----------------------------------------------------------------------------
(* The properties that follow from ReplayInv *)

\* A replay of the rows of any days agrees with the fills at every moment.
THEOREM ReplayInvariant == JournalSpec => []ReplayInv
BY JournalInvariant, ReplayInit, ReplayNext, PTL DEF JournalSpec

\* When every row of s is in the journal, every exit of s is settled.
LEMMA CompleteFacts ==
  ASSUME NEW s, Complete(s)
  PROVE  /\ LostFree(s) /\ SettledExits(s) = ExitsOf(s) /\ LiveEntry(s) = book[s]
BY DEF Complete, LostFree, SettledExits, Settled, ExitsOf, LiveEntry

\* The days of a fill are among all days.
LEMMA DaysOfFills ==
  ASSUME JournalInv, NEW i \in DOMAIN fills
  PROVE  fills[i].row.day \in 0..LastDay
<1>1. fills \in Seq(Fill)
  BY DEF JournalInv, FillsInOrder
<1>2. fills[i] \in Fill
  BY <1>1
<1> QED BY <1>2 DEF Fill, Row

\* The first and the last day.
LEMMA AllDays == 0 \in 0..LastDay /\ LastDay \in 0..LastDay
BY JournalConstants

\* /performance counts exactly the trades that the engine has closed.
THEOREM PerformanceStaysHonest == JournalSpec => []PerformanceIsHonest
<1>1. JournalInv /\ ReplayInv => PerformanceIsHonest
  <2> SUFFICES ASSUME JournalInv, ReplayInv, NEW s \in Symbols
               PROVE  /\ Complete(s) =>
                           /\ Performance.wins[s]
                                = Cardinality({i \in {j \in ExitsOf(s) : TRUE} : Profit(i) > 0})
                           /\ Performance.losses[s]
                                = Cardinality({i \in {j \in ExitsOf(s) : TRUE} : Profit(i) \leq 0})
                      /\ Performance.wins[s] + Performance.losses[s] \leq Cardinality(ExitsOf(s))
    BY DEF PerformanceIsHonest, Agrees
  <2> DEFINE D == 0..LastDay
  <2>1. Knows(Performance, D, s) /\ Performance \in Summary
    BY PerformanceIsFold, AllDays DEF ReplayInv, Replays
  <2>2. \A i \in SettledExits(s) : /\ fills[i].row.day \in D /\ EntryOf(i).day \in D
    <3> SUFFICES ASSUME NEW i \in SettledExits(s)
                 PROVE  fills[i].row.day \in D /\ EntryOf(i).day \in D
      OBVIOUS
    <3>1. i \in DOMAIN fills /\ fills[i].entry \in DOMAIN fills
      BY SettledFacts DEF SettledExits, Settled
    <3> QED BY <3>1, DaysOfFills DEF EntryOf
  <2> HIDE DEF D
  <2>3. ASSUME Complete(s)
        PROVE  /\ Wins(s, D) = {i \in {j \in ExitsOf(s) : TRUE} : Profit(i) > 0}
               /\ Losses(s, D) = {i \in {j \in ExitsOf(s) : TRUE} : Profit(i) \leq 0}
               /\ LostFree(s)
    BY <2>2, <2>3, CompleteFacts DEF Wins, Losses
  <2>4. Performance.wins[s] + Performance.losses[s] \leq Cardinality(ExitsOf(s))
    <3>1. SettledExits(s) \subseteq ExitsOf(s)
      BY DEF SettledExits, Settled, ExitsOf
    <3>2. ExitsOf(s) \subseteq 1..Len(fills) /\ Len(fills) \in Nat
      BY DEF JournalInv, FillsInOrder, ExitsOf
    <3>3. \A n \in Nat : IsFiniteSet(1..n)
      BY FS_Interval
    <3>4. IsFiniteSet(ExitsOf(s)) /\ Cardinality(ExitsOf(s)) \in Nat
      BY <3>2, <3>3, FS_Subset, FS_CardinalityType
    <3>5. Cardinality(SettledExits(s)) \leq Cardinality(ExitsOf(s))
      BY <3>1, <3>4, FS_Subset
    <3>6. Cardinality(SettledExits(s)) \in Nat
      BY SettledFinite DEF SettledExits
    <3>7. Performance.wins[s] \in Nat /\ Performance.losses[s] \in Nat
      BY <2>1 DEF Summary
    <3> QED BY <2>1, <3>4, <3>5, <3>6, <3>7 DEF Knows
  <2> QED BY <2>1, <2>3, <2>4 DEF Knows
<1> QED BY <1>1, JournalInvariant, ReplayInvariant, PTL

\* /pnl counts exactly the trades that were opened and closed today.
THEOREM TodayStaysIntraday == JournalSpec => []TodayIsIntraday
<1>1. JournalInv /\ ReplayInv => TodayIsIntraday
  <2> SUFFICES ASSUME JournalInv, ReplayInv, NEW s \in Symbols, Complete(s)
               PROVE  LET exits == {i \in ExitsOf(s) : EntryOf(i).day = today /\ fills[i].row.day = today}
                      IN /\ TodaySummary.wins[s] = Cardinality({i \in exits : Profit(i) > 0})
                         /\ TodaySummary.losses[s] = Cardinality({i \in exits : Profit(i) \leq 0})
    BY DEF TodayIsIntraday, Agrees
  <2>1. today \in 0..LastDay /\ today..today = {today}
    BY JournalConstants DEF JournalInv, Counters
  <2>2. TodaySummary = DaysReplayed(today..today, rows)
    BY <2>1, TodayIsFold
  <2>3. Knows(TodaySummary, today..today, s)
    BY <2>1, <2>2 DEF ReplayInv, Replays
  <2>4. Knows(TodaySummary, {today}, s)
    BY <2>1, <2>3
  <2>5. /\ Wins(s, {today}) = {i \in {j \in ExitsOf(s) :
                                EntryOf(j).day = today /\ fills[j].row.day = today} : Profit(i) > 0}
        /\ Losses(s, {today}) = {i \in {j \in ExitsOf(s) :
                                EntryOf(j).day = today /\ fills[j].row.day = today} : Profit(i) \leq 0}
    BY CompleteFacts DEF Wins, Losses
  <2> QED BY <2>4, <2>5, CompleteFacts DEF Knows
<1> QED BY <1>1, JournalInvariant, ReplayInvariant, PTL

\* The replay knows every trade that the engine holds open, with its prices.
THEOREM OpenEntriesAlwaysCover == JournalSpec => []OpenEntriesCoverBook
<1>1. JournalInv /\ ReplayInv => OpenEntriesCoverBook
  <2> SUFFICES ASSUME JournalInv, ReplayInv, NEW s \in Symbols, Complete(s), book[s] # None
               PROVE  /\ Performance.open[s] # None
                      /\ Performance.open[s].action = fills[book[s]].row.action
                      /\ Performance.open[s].price = fills[book[s]].row.price
    BY DEF OpenEntriesCoverBook
  <2>1. Knows(Performance, 0..LastDay, s)
    BY PerformanceIsFold, AllDays DEF ReplayInv, Replays
  <2>2. book[s] \in DOMAIN fills /\ fills[book[s]].row.action \in Entries
    BY DEF JournalInv, BookOfFills
  <2>3. Performance.open[s] = Opened(book[s])
    BY <2>1, <2>2, CompleteFacts, DaysOfFills DEF Knows
  <2>4. fills[book[s]] \in Fill
    BY <2>2, SettledFacts
  <2>5. Opened(book[s]) \in OpenEntry
    BY <2>2, <2>4 DEF Opened, OpenEntry, Fill, Row
  <2> QED BY <2>3, <2>5, JournalConstants DEF Opened
<1> QED BY <1>1, JournalInvariant, ReplayInvariant, PTL

=============================================================================
