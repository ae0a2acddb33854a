--------------------------- MODULE MCPointsLedger ---------------------------
(* Small instances of PointsLedger for TLC. *)
EXTENDS PointsLedger, TLC

CONSTANTS c1, c2, j1, j2, r1

\* Every token belongs to the first customer, or the second belongs to the second.
OwnerOne == [j \in QrTokens |-> c1]
OwnerTwo == [j \in QrTokens |-> IF j = j2 THEN c2 ELSE c1]

CostTwo     == [r \in Rewards |-> 2]
StockOne    == [r \in Rewards |-> 1]
StockAny    == [r \in Rewards |-> None]

Plain == [hold |-> 0, expiry |-> 0, allowNegative |-> FALSE,
          maxPerDay |-> 0, maxRewardPerDay |-> 0, cooldown |-> 0, maxPerTx |-> 0]

\* Purchases are posted at once, or held for a day.
HoldOrNot == {Plain, [Plain EXCEPT !.hold = 1]}

\* Points expire after a day.
Expiring == {[Plain EXCEPT !.expiry = 1]}

\* Points are held for a day and expire after a day, refunds may go below
\* zero, and the owner guards awards and redemptions more or less tightly.
Everything ==
  LET base == [Plain EXCEPT !.hold = 1, !.expiry = 1, !.allowNegative = TRUE]
  IN  {[base EXCEPT !.maxPerDay = 2],
       [base EXCEPT !.maxPerDay = 1, !.maxRewardPerDay = 1, !.cooldown = 1, !.maxPerTx = 5]}

SymWorkers  == Permutations(Workers)
=============================================================================
