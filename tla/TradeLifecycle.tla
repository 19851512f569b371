--------------------------- MODULE TradeLifecycle ---------------------------
(***************************************************************************)
(* What src/execution/engine.py promises of every symbol, whatever tasks,  *)
(* locks, watchdogs and threads do underneath: a trade is opened by one    *)
(* confirmed order and closed by another, one order at a time, never in a  *)
(* pause, in a cooldown or beyond the maximum for an entry; an order that  *)
(* fails, or whose handler is cancelled, leaves the trade as it was.       *)
(***************************************************************************)
EXTENDS Integers, FiniteSets

CONSTANTS Symbols,        \* the traded symbols
          None,           \* no trade, no order
          MaxOpenTrades   \* the trades that an entry must find fewer of

Entries == {"BUY", "SELL"}

VARIABLES trade,    \* the side of the open trade of every symbol, or None
          order,    \* the action of the order under way, or None
          cooling,  \* the symbols that cool down
          halted    \* the operator has paused the entries

lifeVars == <<trade, order, cooling, halted>>

LifeInit == /\ trade = [s \in Symbols |-> None]
            /\ order = [s \in Symbols |-> None]
            /\ cooling = {}
            /\ halted = FALSE

Idle(s) == order[s] = None

MayEnter(s) == /\ ~halted
               /\ trade[s] = None
               /\ s \notin cooling
               /\ Cardinality({r \in Symbols : trade[r] # None}) < MaxOpenTrades

Send(s, a) == /\ Idle(s)
              /\ IF a = "CLOSE" THEN trade[s] # None ELSE MayEnter(s)
              /\ order' = [order EXCEPT ![s] = a]
              /\ UNCHANGED <<trade, cooling, halted>>

After(a) == IF a = "CLOSE" THEN None ELSE a

Confirm(s) == /\ ~Idle(s)
              /\ trade' = [trade EXCEPT ![s] = After(order[s])]
              /\ order' = [order EXCEPT ![s] = None]
              /\ cooling' = cooling \cup {s}
              /\ UNCHANGED halted

Abandon(s) == /\ ~Idle(s)
              /\ order' = [order EXCEPT ![s] = None]
              /\ UNCHANGED <<trade, cooling, halted>>

\* An order that is confirmed as soon as it is sent (SimulationBroker).
SendAndConfirm(s, a) == /\ Idle(s)
                        /\ IF a = "CLOSE" THEN trade[s] # None ELSE MayEnter(s)
                        /\ trade' = [trade EXCEPT ![s] = After(a)]
                        /\ cooling' = cooling \cup {s}
                        /\ UNCHANGED <<order, halted>>

CoolDown == /\ cooling' \in SUBSET cooling
            /\ UNCHANGED <<trade, order, halted>>

Halt == /\ halted' \in BOOLEAN
        /\ UNCHANGED <<trade, order, cooling>>

LifeNext == \/ \E s \in Symbols : \/ \E a \in Entries \cup {"CLOSE"} : Send(s, a) \/ SendAndConfirm(s, a)
                                  \/ Confirm(s)
                                  \/ Abandon(s)
            \/ CoolDown
            \/ Halt

LifeSpec == LifeInit /\ [][LifeNext]_lifeVars
=============================================================================
