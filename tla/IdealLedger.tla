---------------------------- MODULE IdealLedger ----------------------------
(***************************************************************************)
(* What the points ledger promises its customers, with no tables and no    *)
(* requests: each customer has points to spend and points on hold, and     *)
(* every ticket (a txId and its QR token, an externalEventId, a requestId, *)
(* the row a refund reverses) is good for one change only.                 *)
(***************************************************************************)
EXTENDS Integers

CONSTANTS
  Customers,
  Tickets,          \* whatever may take effect once
  MayGoNegative     \* whether some refund policy lets a balance go below zero

VARIABLES
  spendable,        \* points a customer can redeem
  held,             \* points a customer will be able to redeem
  used              \* tickets that have taken effect

ledger == <<spendable, held, used>>

Init ==
  /\ spendable = [c \in Customers |-> 0]
  /\ held = [c \in Customers |-> 0]
  /\ used = {}

Use(tickets) ==
  /\ tickets \subseteq Tickets
  /\ tickets # {}
  /\ tickets \cap used = {}
  /\ used' = used \cup tickets

\* A purchase is worth n points, at once or later.
Earn(c, tickets, n) ==
  /\ n >= 0
  /\ Use(tickets)
  /\ \/ spendable' = [spendable EXCEPT ![c] = @ + n] /\ UNCHANGED held
     \/ held' = [held EXCEPT ![c] = @ + n] /\ UNCHANGED spendable

\* Held points become spendable, none is lost on the way.
Release(c, n) ==
  /\ n \in 0..held[c]
  /\ held' = [held EXCEPT ![c] = @ - n]
  /\ spendable' = [spendable EXCEPT ![c] = @ + n]
  /\ UNCHANGED used

\* A redemption spends points the customer has.
Spend(c, tickets, n) ==
  /\ n \in 1..spendable[c]
  /\ Use(tickets)
  /\ spendable' = [spendable EXCEPT ![c] = @ - n]
  /\ UNCHANGED held

\* Expiry takes points the customer has.
Lapse(c, n) ==
  /\ n \in 1..spendable[c]
  /\ spendable' = [spendable EXCEPT ![c] = @ - n]
  /\ UNCHANGED <<held, used>>

\* A refund undoes n points, positive or negative, of one balance.
Undo(c, tickets, n) ==
  /\ Use(tickets)
  /\ \/ /\ spendable' = [spendable EXCEPT ![c] = @ - n]
        /\ MayGoNegative \/ n <= spendable[c]
        /\ UNCHANGED held
     \/ /\ n \in 0..held[c]
        /\ held' = [held EXCEPT ![c] = @ - n]
        /\ UNCHANGED spendable

\* The amount and the tickets are read off the step, so that no checker has to guess them.
Change(before, after) == {before - after, after - before}

Next ==
  \E c \in Customers :
    LET moved  == Change(spendable[c], spendable'[c])
        parked == Change(held[c], held'[c])
        fresh  == used' \ used
    IN  \/ \E n \in moved \cup parked : Earn(c, fresh, n) \/ Undo(c, fresh, n)
        \/ \E n \in moved : Release(c, n) \/ Spend(c, fresh, n) \/ Lapse(c, n)

Spec == Init /\ [][Next]_ledger
=============================================================================
