------------------------ MODULE LedgerReconciliation ------------------------
(***************************************************************************)
(* What checks and corrects the balances of the ledger from outside: the   *)
(* daily reconciliation of the worker, which may repair what it finds      *)
(* (ledger-reconciliation-service), and the corrections that one owner     *)
(* requests and another one applies or rejects                             *)
(* (ledger-correction-service).                                            *)
(***************************************************************************)
EXTENDS PointsLedger

CONSTANTS
  Owners,          \* owners of the business
  MaxCorrections   \* bound on the rows of ledger_balance_corrections

VARIABLES
  corrections,  \* rows of ledger_balance_corrections, in their order
  adjusted,     \* sums of ledger_balance_adjustments of each customer
  repairs       \* findings that a reconciliation with repair has yet to write

books == <<corrections, adjusted, repairs>>

Zero == [points |-> 0, pending |-> 0, lifetime |-> 0]

Plus(a, b)  == [f \in DOMAIN Zero |-> a[f] + b[f]]
Minus(a, b) == [f \in DOMAIN Zero |-> a[f] - b[f]]

RowsIn(c, status) == {i \in DOMAIN txs : txs[i].cust = c /\ txs[i].status = status}

\* The balances that the rows and the adjustments add up to.
ExpectedLedgerBalances(c) ==
  Plus(adjusted[c],
       [points   |-> PointsOf(txs, RowsIn(c, "POSTED")),
        pending  |-> PointsOf(txs, RowsIn(c, "PENDING")),
        lifetime |-> PointsOf(txs, {i \in RowsIn(c, "POSTED") : txs[i].points > 0})])

Stored(c) == [points |-> points[c], pending |-> pending[c], lifetime |-> lifetime[c]]

IsLedgerBalanceMismatch(c) == Stored(c) # ExpectedLedgerBalances(c)

Store(c, to) ==
  /\ points' = [points EXCEPT ![c] = to.points]
  /\ pending' = [pending EXCEPT ![c] = to.pending]
  /\ lifetime' = [lifetime EXCEPT ![c] = to.lifetime]

ReconciledInit ==
  /\ Init
  /\ corrections = <<>>
  /\ adjusted = [c \in Customers |-> Zero]
  /\ repairs = [c \in Customers |-> None]

ledgerApart == <<program, day, txs, usedQr, redemptions, stock, req>>

\* runLedgerReconciliation with repair reads everybody in one statement ...
Reconcile ==
  /\ \A c \in Customers : repairs[c] = None
  /\ repairs' = [c \in Customers |->
       IF IsLedgerBalanceMismatch(c) THEN ExpectedLedgerBalances(c) ELSE None]
  /\ UNCHANGED <<vars, corrections, adjusted>>

\* ... and then writes the balances it has computed, in one transaction.
Repair ==
  LET found == {c \in Customers : repairs[c] # None}
      To(f, now) == [c \in Customers |-> IF c \in found THEN repairs[c][f] ELSE now[c]]
  IN  /\ found # {}
      /\ points' = To("points", points)
      /\ pending' = To("pending", pending)
      /\ lifetime' = To("lifetime", lifetime)
      /\ repairs' = [c \in Customers |-> None]
      /\ UNCHANGED <<ledgerApart, corrections, adjusted>>

RequestCorrection(owner, c) ==
  /\ Len(corrections) < MaxCorrections
  /\ IsLedgerBalanceMismatch(c)
  /\ corrections' = Append(corrections, [cust |-> c, by |-> owner, status |-> "PENDING"])
  /\ UNCHANGED <<vars, adjusted, repairs>>

Resolved(owner, k, status) ==
  /\ corrections[k].status = "PENDING"
  /\ corrections[k].by # owner
  /\ corrections' = [corrections EXCEPT ![k].status = status]

\* The difference found now is booked as an adjustment and added to the balance.
ApplyCorrection(owner, k) ==
  LET c     == corrections[k].cust
      delta == Minus(ExpectedLedgerBalances(c), Stored(c))
  IN  /\ IsLedgerBalanceMismatch(c)
      /\ Resolved(owner, k, "APPLIED")
      /\ adjusted' = [adjusted EXCEPT ![c] = Plus(@, delta)]
      /\ Store(c, Plus(Stored(c), delta))
      /\ UNCHANGED <<ledgerApart, repairs>>

RejectCorrection(owner, k) ==
  /\ Resolved(owner, k, "REJECTED")
  /\ UNCHANGED <<vars, adjusted, repairs>>

ReconciledNext ==
  \/ Next /\ UNCHANGED books
  \/ Reconcile \/ Repair
  \/ \E o \in Owners, c \in Customers : RequestCorrection(o, c)
  \/ \E o \in Owners, k \in DOMAIN corrections : ApplyCorrection(o, k) \/ RejectCorrection(o, k)

ReconciledSpec == ReconciledInit /\ [][ReconciledNext]_<<vars, books>>

(* A correction settles the mismatch it was requested for, so that the     *)
(* next one is refused: "Customer balance already matches the ledger".     *)
(* A mismatch arises when an award is refunded: its row stops counting,    *)
(* the reversal that took the points back still does.  And the expected    *)
(* balance contains the adjustments, so that both sides move by the same   *)
(* difference, which is there to be applied again.                         *)
CorrectionSettles ==
  [][\A k \in DOMAIN corrections :
       corrections'[k].status = "APPLIED" /\ corrections[k].status = "PENDING"
         => ~IsLedgerBalanceMismatch(corrections[k].cust)']_<<vars, books>>
=============================================================================
