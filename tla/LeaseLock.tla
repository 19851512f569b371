----------------------------- MODULE LeaseLock -----------------------------
(***************************************************************************)
(* What BotLock promises its callers, without tokens, timers or event-loop *)
(* suspensions: every symbol has at most one owner; the lease of an owner  *)
(* that stays too long can be revoked, after which it is only a guest of   *)
(* the symbol; and nothing a guest does touches the owner that came after. *)
(***************************************************************************)
CONSTANTS Symbols,   \* what is locked, one lock per symbol
          Clients,   \* the coroutines that run inside a lock
          Nobody     \* the owner of a free lock, not a client

VARIABLES owner,     \* owner[s]: the client whose lease on s is valid
          guests     \* guests[s]: the clients inside s whose lease was revoked

leaseVars == <<owner, guests>>

\* The clients that are inside symbol s.
Inside(s) == guests[s] \cup ({owner[s]} \ {Nobody})

LeaseInit == /\ owner = [s \in Symbols |-> Nobody]
             /\ guests = [s \in Symbols |-> {}]

Grant(c, s) == /\ owner[s] = Nobody
               /\ \A x \in Symbols : c \notin Inside(x)
               /\ owner' = [owner EXCEPT ![s] = c]
               /\ UNCHANGED guests

Revoke(s) == /\ owner[s] # Nobody
             /\ owner' = [owner EXCEPT ![s] = Nobody]
             /\ guests' = [guests EXCEPT ![s] = @ \cup {owner[s]}]

Release(s) == /\ owner[s] # Nobody
              /\ owner' = [owner EXCEPT ![s] = Nobody]
              /\ UNCHANGED guests

Depart(c, s) == /\ c \in guests[s]
                /\ guests' = [guests EXCEPT ![s] = @ \ {c}]
                /\ UNCHANGED owner

LeaseNext == \E s \in Symbols : \/ \E c \in Clients : Grant(c, s) \/ Depart(c, s)
                                \/ Revoke(s)
                                \/ Release(s)

LeaseSpec == LeaseInit /\ [][LeaseNext]_leaseVars
=============================================================================
