--------------------------- MODULE MCTradeJournal ---------------------------
(* Small instances of TradeJournal, in which the symbols and the keys are  *)
(* interchangeable.                                                        *)
EXTENDS TradeJournal

CONSTANTS eur, btc,  \* the symbols
          old, new   \* the keys

JournalSymmetry == Permutations(Symbols) \cup Permutations(Keys)
=============================================================================
