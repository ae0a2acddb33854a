----------------------- MODULE MCLedgerReconciliation -----------------------
(* The instances of MCPointsLedger, seen by the reconciliation. *)
EXTENDS LedgerReconciliation, MCPointsLedger
=============================================================================
