---------------------------- MODULE PointsLedger ----------------------------
(***************************************************************************)
(* The points ledger of one business: the tables transactions,             *)
(* customer_balances, qr_tokens, redemptions and rewards, and the requests *)
(* that change them (staff-award-service, staff-service,                   *)
(* loyalty-ops-service, external-award-service).                           *)
(*                                                                         *)
(* A request runs on an API worker.  It reads the business' program, then  *)
(* settles and expires the customer's points in two database transactions  *)
(* of their own, whose failure it swallows, and then commits its own       *)
(* transaction.  Each of these transactions is one step: advisory locks,   *)
(* FOR UPDATE and unique indexes protect what it has read.  Other workers  *)
(* interleave between the steps, the process may die between them, and a   *)
(* client that saw no answer sends the same request again.                 *)
(***************************************************************************)
EXTENDS Integers, Sequences, FiniteSets, Totals

CONSTANTS
  Customers,      \* customers of the business
  Workers,        \* requests the API serves at the same time
  TxIds,          \* txIds the staff clients choose for awards
  QrTokens,       \* jti of the QR tokens the customers have shown
  QrOwner,        \* QrOwner[j]: the customer that token j was signed for
  Events,         \* externalEventIds of the external integrations
  Requests,       \* requestIds of redemptions and refunds
  Rewards,        \* rewards on offer
  Cost,           \* Cost[r]: points_cost of reward r
  InitialStock,   \* InitialStock[r]: stock of reward r, None when unlimited
  Amounts,        \* points that one purchase may be worth (computePoints)
  Programs,       \* program_json values the owner switches between
  Newcomers,      \* customers who joined on the first day: active without a visit
  ActiveLimit,    \* activeCustomers of the business' plan
  ActiveDays,     \* days a customer counts as active after a visit (90)
  None,           \* SQL NULL
  MaxDay,         \* bound on the clock
  MaxRows         \* bound on the rows of the table transactions

Statuses == {"PENDING", "POSTED", "EXPIRED", "REVERSED"}
Sources  == {"staff", "external", "redeem", "expire", "reversal"}
Answers  == {"none", "ok", "replay", "conflict", "denied"}

ASSUME CostAssumption    == Cost \in [Rewards -> Nat \ {0}]
ASSUME StockAssumption   == InitialStock \in [Rewards -> Nat \cup {None}]
ASSUME AmountsAssumption == Amounts \subseteq Nat
ASSUME NullAssumption    == None \notin Int
ASSUME OwnerAssumption   == QrOwner \in [QrTokens -> Customers]
ASSUME ProgramAssumption ==
  Programs \subseteq [hold : Nat, expiry : Nat, allowNegative : BOOLEAN,
                      maxPerDay : Nat, maxRewardPerDay : Nat, cooldown : Nat,
                      maxPerTx : Nat]
ASSUME PlanAssumption ==
  Newcomers \subseteq Customers /\ ActiveLimit \in Nat /\ ActiveDays \in Nat
ASSUME BoundAssumption   == MaxDay \in Nat /\ MaxRows \in Nat

VARIABLES
  program,      \* the business' current program_json
  day,          \* the clock, in days
  txs,          \* rows of transactions, in the order of their insertion
  points,       \* customer_balances.points
  pending,      \* customer_balances.pending_points
  lifetime,     \* customer_balances.lifetime_points
  usedQr,       \* jti in qr_tokens
  redemptions,  \* rows of redemptions, in the order of their insertion
  stock,        \* rewards.stock
  req           \* what each worker is doing

balances == <<points, pending, lifetime>>
vars == <<program, day, txs, points, pending, lifetime, usedQr, redemptions, stock, req>>

Row ==
  [cust : Customers, source : Sources, points : Int, status : Statuses,
   key : TxIds \cup Events \cup Requests \cup {None}, qr : QrTokens \cup {None},
   orig : Nat, made : Nat, due : Nat]

Redemption ==
  [cust : Customers, reward : Rewards, key : Requests, made : Nat, balance : Int]

Job ==
  [op : {"none", "award", "redeem", "external", "view", "sweep", "settle"},
   at : {"idle", "settle", "expire", "check", "commit"},
   cust : Customers \cup {None}, key : TxIds \cup Events \cup Requests \cup {None},
   qr : QrTokens \cup {None}, reward : Rewards \cup {None}, points : Nat,
   program : Programs \cup {None}, answer : Answers]

Idle == [op |-> "none", at |-> "idle", cust |-> None, key |-> None, qr |-> None,
         reward |-> None, points |-> 0, program |-> None, answer |-> "none"]

TypeOK ==
  /\ program \in Programs
  /\ day \in Nat
  /\ txs \in Seq(Row)
  /\ points \in [Customers -> Int]
  /\ pending \in [Customers -> Int]
  /\ lifetime \in [Customers -> Int]
  /\ usedQr \subseteq QrTokens
  /\ redemptions \in Seq(Redemption)
  /\ stock \in [Rewards -> Int \cup {None}]
  /\ req \in [Workers -> Job]

Init ==
  /\ program \in Programs
  /\ day = 0
  /\ txs = <<>>
  /\ points = [c \in Customers |-> 0]
  /\ pending = [c \in Customers |-> 0]
  /\ lifetime = [c \in Customers |-> 0]
  /\ usedQr = {}
  /\ redemptions = <<>>
  /\ stock = InitialStock
  /\ req = [w \in Workers |-> Idle]

-----------------------------------------------------------------------------
(* The table transactions.                                                 *)

\* The number of a row that matches, 0 when there is none.
RowWhere(Match(_)) ==
  IF \E i \in DOMAIN txs : Match(txs[i])
  THEN CHOOSE i \in DOMAIN txs : Match(txs[i])
  ELSE 0

\* The points of the rows of table in a set of row numbers, added up.
PointsOf(table, rows) ==
  Total([i \in 1..Len(table) |-> IF i \in rows THEN table[i].points ELSE 0], Len(table))

\* UPDATE transactions SET status = ... WHERE id = ANY(rows)
Marked(rows, status) ==
  [i \in DOMAIN txs |-> IF i \in rows THEN [txs[i] EXCEPT !.status = status] ELSE txs[i]]

NewRow(c, source, n, status, key) ==
  [cust |-> c, source |-> source, points |-> n, status |-> status, key |-> key,
   qr |-> None, orig |-> 0, made |-> day, due |-> 0]

Free(w) == req[w].at = "idle"

\* The worker answers its client and is free for another request.
Answer(w, a) == req' = [req EXCEPT ![w] = [Idle EXCEPT !.answer = a]]

Refuse(w, a) ==
  /\ Answer(w, a)
  /\ UNCHANGED <<program, day, txs, balances, usedQr, redemptions, stock>>

-----------------------------------------------------------------------------
(* A request arrives: the route validates it, the service reads the        *)
(* business once and computes with that copy from then on.                 *)

Accept(w, job) ==
  /\ Free(w)
  /\ req' = [req EXCEPT ![w] = job]
  /\ UNCHANGED <<program, day, txs, balances, usedQr, redemptions, stock>>

\* POST /staff/award, and each element of POST /staff/sync.  The token the
\* customer showed has been verified: it is signed and not expired ...
BeginAward(w, t, j, n) ==
  Accept(w, [Idle EXCEPT !.op = "award", !.at = "settle", !.cust = QrOwner[j],
                         !.key = t, !.qr = j, !.points = n, !.program = program])

\* ... or it is not, and nothing else is looked at.
RefuseToken(w) == Free(w) /\ Refuse(w, "denied")

\* POST /staff/redeem.
BeginRedeem(w, c, r, q) ==
  Accept(w, [Idle EXCEPT !.op = "redeem", !.at = "settle", !.cust = c,
                         !.key = q, !.reward = r, !.program = program])

\* The external integration, and the payment webhook behind it.
BeginExternal(w, e, c, n) ==
  Accept(w, [Idle EXCEPT !.op = "external", !.at = "commit", !.cust = c,
                         !.key = e, !.points = n, !.program = program])

\* GET /customer/me settles and expires; POST /staff/settle-pending only
\* settles; the nightly lifecycle sweep only expires.
BeginUpkeep(w, c, op) ==
  Accept(w, [Idle EXCEPT !.op = op, !.cust = c,
                         !.at = IF op = "sweep" THEN "expire" ELSE "settle"])

-----------------------------------------------------------------------------
(* settlePendingPointsForCustomer and expirePointsForCustomer.             *)

NextStep(w, last, next) ==
  IF req[w].op \in last THEN Answer(w, "ok")
                        ELSE req' = [req EXCEPT ![w].at = next]

AfterSettle(w) == NextStep(w, {"settle"}, "expire")
AfterExpire(w) ==
  NextStep(w, {"view", "sweep"}, IF req[w].op = "award" THEN "check" ELSE "commit")

DueOrNot(c) == {i \in DOMAIN txs : txs[i].cust = c /\ txs[i].status = "PENDING"}

Due(c) ==
  {i \in DOMAIN txs : txs[i].cust = c /\ txs[i].status = "PENDING" /\ txs[i].due <= day}

SettlePending(w) ==
  LET c == req[w].cust
      settled == PointsOf(txs, Due(c))
  IN  /\ req[w].at = "settle"
      /\ txs' = Marked(Due(c), "POSTED")
      /\ points' = [points EXCEPT ![c] = @ + settled]
      /\ pending' = [pending EXCEPT ![c] = Greatest(0, @ - settled)]
      /\ AfterSettle(w)
      /\ UNCHANGED <<program, day, lifetime, usedQr, redemptions, stock>>

StaleOfAnyStatus(c) ==
  {i \in DOMAIN txs : /\ txs[i].cust = c
                      /\ txs[i].points > 0
                      /\ txs[i].made + program.expiry <= day}

Stale(c) ==
  {i \in DOMAIN txs : /\ txs[i].cust = c
                      /\ txs[i].status = "POSTED"
                      /\ txs[i].points > 0
                      /\ txs[i].made + program.expiry <= day}

\* What expiry takes: at most what the customer still has.
DeductibleInFull(c) == PointsOf(txs, Stale(c))

Deductible(c) == Greatest(0, Least(points[c], PointsOf(txs, Stale(c))))

\* Nothing to expire: expiration is off or no row is old enough.
ExpireNothing(w) ==
  /\ req[w].at = "expire"
  /\ program.expiry = 0 \/ Stale(req[w].cust) = {}
  /\ AfterExpire(w)
  /\ UNCHANGED <<program, day, txs, balances, usedQr, redemptions, stock>>

\* Old rows expire; what is deducted for them becomes a row of its own.
ExpirePoints(w) ==
  LET c == req[w].cust
      deducted == Deductible(c)
      marked == Marked(Stale(c), "EXPIRED")
  IN  /\ req[w].at = "expire"
      /\ program.expiry > 0
      /\ Stale(c) # {}
      /\ IF deducted > 0
           THEN /\ Len(txs) < MaxRows
                /\ points' = [points EXCEPT ![c] = @ - deducted]
                /\ txs' = Append(marked, NewRow(c, "expire", -deducted, "POSTED", None))
           ELSE /\ txs' = marked
                /\ UNCHANGED points
      /\ AfterExpire(w)
      /\ UNCHANGED <<program, day, pending, lifetime, usedQr, redemptions, stock>>

\* Either transaction may fail; the caller logs that and goes on.
UpkeepFails(w) ==
  /\ \/ req[w].at = "settle" /\ AfterSettle(w)
     \/ req[w].at = "expire" /\ AfterExpire(w)
  /\ UNCHANGED <<program, day, txs, balances, usedQr, redemptions, stock>>

-----------------------------------------------------------------------------
(* The checks of an award, before its transaction and outside any other.   *)

\* activeCustomerCount.  last_visit_at is set by awards of the staff and by
\* redemptions, and is not taken back; before the first visit created_at counts.
VisitedLately(c) ==
  \E i \in DOMAIN txs :
    txs[i].cust = c /\ txs[i].source \in {"staff", "redeem"} /\ txs[i].made + ActiveDays >= day

ActiveCustomers ==
  {c \in Customers : VisitedLately(c) \/ (c \in Newcomers /\ day <= ActiveDays)}

WithinPlan == Cardinality(ActiveCustomers) <= ActiveLimit

\* award_guard.
WithinGuards(job) == job.program.maxPerTx > 0 => job.points <= job.program.maxPerTx

CheckAward(w) ==
  /\ req[w].op = "award" /\ req[w].at = "check"
  /\ \/ /\ WithinPlan /\ WithinGuards(req[w])
        /\ req' = [req EXCEPT ![w].at = "commit"]
        /\ UNCHANGED <<program, day, txs, balances, usedQr, redemptions, stock>>
     \/ /\ ~(WithinPlan /\ WithinGuards(req[w]))
        /\ Refuse(w, "denied")

-----------------------------------------------------------------------------
(* The transaction of an award.                                            *)

Held(job) == job.program.hold > 0

\* The part of a purchase that can be spent at once, and the part that is held.
PostedPartThoughHeld(job) == job.points
PostedPart(job) == IF Held(job) THEN 0 ELSE job.points

HeldPartThoughPosted(job) == job.points
HeldPart(job) == IF Held(job) THEN job.points ELSE 0

Credit(job, source) ==
  LET c == job.cust
  IN  /\ Len(txs) < MaxRows
      /\ txs' = Append(txs,
           [NewRow(c, source, job.points, IF Held(job) THEN "PENDING" ELSE "POSTED", job.key)
              EXCEPT !.qr = job.qr, !.due = IF Held(job) THEN day + job.program.hold ELSE 0])
      /\ points' = [points EXCEPT ![c] = @ + PostedPart(job)]
      /\ pending' = [pending EXCEPT ![c] = @ + HeldPart(job)]
      /\ lifetime' = [lifetime EXCEPT ![c] = @ + PostedPart(job)]

AwardNeverFound(t) == 0

AwardWith(t) == RowWhere(LAMBDA row : row.source = "staff" /\ row.key = t)

QrNotBurnt(j) == UNCHANGED usedQr

BurnQr(j) == usedQr' = usedQr \cup {j}

CommitAward(w) ==
  LET job == req[w]
      known == AwardWith(job.key)
  IN  /\ job.op = "award" /\ job.at = "commit"
      /\ \/ /\ known # 0
            /\ Refuse(w, IF txs[known].cust = job.cust THEN "replay" ELSE "conflict")
         \/ /\ known = 0
            /\ job.qr \in usedQr
            /\ Refuse(w, "conflict")
         \/ /\ known = 0
            /\ job.qr \notin usedQr
            /\ BurnQr(job.qr)
            /\ Credit(job, "staff")
            /\ Answer(w, "ok")
            /\ UNCHANGED <<program, day, redemptions, stock>>

ExternalWith(e) == RowWhere(LAMBDA row : row.source = "external" /\ row.key = e)

\* The fingerprint of the stored event covers its payload, which the points
\* stand for, and the status it was inserted with.
SamePayload(row, job) ==
  /\ row.cust = job.cust
  /\ row.points = job.points
  /\ (row.due > 0) = (job.program.hold > 0)

CommitExternal(w) ==
  LET job == req[w]
      known == ExternalWith(job.key)
  IN  /\ job.op = "external" /\ job.at = "commit"
      /\ \/ /\ known # 0
            /\ Refuse(w, IF SamePayload(txs[known], job) THEN "replay" ELSE "conflict")
         \/ /\ known = 0
            /\ Credit(job, "external")
            /\ Answer(w, "ok")
            /\ UNCHANGED <<program, day, usedQr, redemptions, stock>>

-----------------------------------------------------------------------------
(* The transaction of a redemption.                                        *)

RedemptionsWhere(Match(_)) == {i \in DOMAIN redemptions : Match(redemptions[i])}

BelowOrAtLimit(limit, n) == limit > 0 => n <= limit

BelowLimit(limit, n) == limit > 0 => n < limit

WithinLimits(job) ==
  LET mine  == RedemptionsWhere(LAMBDA d : d.cust = job.cust)
      same  == {i \in mine : redemptions[i].reward = job.reward}
      today == {i \in mine : redemptions[i].made = day}
  IN  /\ BelowLimit(job.program.maxPerDay, Cardinality(today))
      /\ BelowLimit(job.program.maxRewardPerDay, Cardinality(today \cap same))
      /\ job.program.cooldown > 0 =>
           \A i \in same : day - redemptions[i].made >= job.program.cooldown

StockUnchecked(r) == TRUE

InStock(r) == IF stock[r] = None THEN TRUE ELSE stock[r] > 0

RedemptionNeverFound(q) == {}

RedemptionsWith(q) == RedemptionsWhere(LAMBDA d : d.key = q)

CommitRedeem(w) ==
  LET job == req[w]
      c == job.cust
      r == job.reward
      known == RedemptionsWith(job.key)
      affordable == points[c] >= Cost[r]
  IN  /\ job.op = "redeem" /\ job.at = "commit"
      /\ \/ \E i \in known :
              Refuse(w, IF redemptions[i].cust = c /\ redemptions[i].reward = r
                        THEN "replay" ELSE "conflict")
         \/ /\ known = {}
            /\ ~(WithinLimits(job) /\ affordable /\ InStock(r))
            /\ Refuse(w, "denied")
         \/ /\ known = {}
            /\ WithinLimits(job) /\ affordable /\ InStock(r)
            /\ Len(txs) < MaxRows
            /\ points' = [points EXCEPT ![c] = @ - Cost[r]]
            /\ stock' = [stock EXCEPT ![r] = IF @ = None THEN None ELSE @ - 1]
            /\ redemptions' = Append(redemptions,
                 [cust |-> c, reward |-> r, key |-> job.key, made |-> day,
                  balance |-> points[c] - Cost[r]])
            /\ txs' = Append(txs, NewRow(c, "redeem", -Cost[r], "POSTED", None))
            /\ Answer(w, "ok")
            /\ UNCHANGED <<program, day, pending, lifetime, usedQr>>

-----------------------------------------------------------------------------
(* The transaction of a refund: POST /staff/refund.                        *)

ReversalWith(q) == RowWhere(LAMBDA row : row.source = "reversal" /\ row.key = q)

\* The policy on balances that a refund of n points makes negative.
RefundUnchecked(c, n) == TRUE

RefundAllowed(c, n) == program.allowNegative \/ points[c] - n >= 0

\* lifetime_points gives back what a refund takes, but no redemption.
LifetimeAfterAnyRefund(c, effect) == Greatest(0, lifetime[c] + Least(effect, -effect))

LifetimeAfter(c, effect) == Greatest(0, lifetime[c] + Least(effect, 0))

\* The reversal row joins the table and the original becomes REVERSED.
ReverseUnmarked(i, effect, q) ==
  /\ Len(txs) < MaxRows
  /\ txs' = Append(txs,
                   [NewRow(txs[i].cust, "reversal", effect, "POSTED", q) EXCEPT !.orig = i])

Reverse(i, effect, q) ==
  /\ Len(txs) < MaxRows
  /\ txs' = Append(Marked({i}, "REVERSED"),
                   [NewRow(txs[i].cust, "reversal", effect, "POSTED", q) EXCEPT !.orig = i])

RefundAgain(w, q, i) ==
  /\ Free(w)
  /\ ReversalWith(q) # 0
  /\ Refuse(w, IF txs[ReversalWith(q)].orig = i THEN "replay" ELSE "conflict")

\* Not a row one may reverse, or the balance would become negative.
RefundRefused(w, q, i) ==
  /\ Free(w)
  /\ ReversalWith(q) = 0
  /\ \/ txs[i].source = "reversal"
     \/ txs[i].status = "REVERSED"
     \/ /\ txs[i].status # "PENDING"
        /\ ~RefundAllowed(txs[i].cust, txs[i].points)
  /\ Refuse(w, "conflict")

RefundHeld(w, q, i) ==
  LET c == txs[i].cust
  IN  /\ Free(w)
      /\ ReversalWith(q) = 0
      /\ txs[i].source # "reversal"
      /\ txs[i].status = "PENDING"
      /\ pending' = [pending EXCEPT ![c] = Greatest(0, @ - txs[i].points)]
      /\ Reverse(i, 0, q)
      /\ Answer(w, "ok")
      /\ UNCHANGED <<program, day, points, lifetime, usedQr, redemptions, stock>>

RefundPosted(w, q, i) ==
  LET c == txs[i].cust
      effect == -txs[i].points
  IN  /\ Free(w)
      /\ ReversalWith(q) = 0
      /\ txs[i].source # "reversal"
      /\ txs[i].status \in {"POSTED", "EXPIRED"}
      /\ RefundAllowed(c, txs[i].points)
      /\ points' = [points EXCEPT ![c] = @ + effect]
      /\ lifetime' = [lifetime EXCEPT ![c] = LifetimeAfter(c, effect)]
      /\ Reverse(i, effect, q)
      /\ Answer(w, "ok")
      /\ UNCHANGED <<program, day, pending, usedQr, redemptions, stock>>

-----------------------------------------------------------------------------
(* What happens around the requests.                                       *)

\* The API process dies: its open transactions roll back, its clients get no answer.
Crash ==
  /\ \E w \in Workers : ~Free(w)
  /\ req' = [w \in Workers |-> Idle]
  /\ UNCHANGED <<program, day, txs, balances, usedQr, redemptions, stock>>

\* The owner saves another program.
SetProgram(p) ==
  /\ p # program
  /\ program' = p
  /\ UNCHANGED <<day, txs, balances, usedQr, redemptions, stock, req>>

NextDay ==
  /\ day < MaxDay
  /\ day' = day + 1
  /\ UNCHANGED <<program, txs, balances, usedQr, redemptions, stock, req>>

Arrive(w) ==
  \/ \E t \in TxIds, j \in QrTokens, n \in Amounts : BeginAward(w, t, j, n)
  \/ RefuseToken(w)
  \/ \E c \in Customers, r \in Rewards, q \in Requests : BeginRedeem(w, c, r, q)
  \/ \E e \in Events, c \in Customers, n \in Amounts : BeginExternal(w, e, c, n)
  \/ \E c \in Customers, op \in {"view", "sweep", "settle"} : BeginUpkeep(w, c, op)

Upkeep(w) == SettlePending(w) \/ ExpireNothing(w) \/ ExpirePoints(w) \/ UpkeepFails(w)

Commit(w) == CheckAward(w) \/ CommitAward(w) \/ CommitExternal(w) \/ CommitRedeem(w)

Refund(w, q, i) ==
  \/ RefundAgain(w, q, i)
  \/ RefundRefused(w, q, i)
  \/ RefundHeld(w, q, i)
  \/ RefundPosted(w, q, i)

Next ==
  \/ \E w \in Workers : Arrive(w) \/ Upkeep(w) \/ Commit(w)
  \/ \E w \in Workers, q \in Requests, i \in DOMAIN txs : Refund(w, q, i)
  \/ Crash
  \/ \E p \in Programs : SetProgram(p)
  \/ NextDay

Spec == Init /\ [][Next]_vars

-----------------------------------------------------------------------------
(* Invariants.                                                             *)

RowsOf(c)       == {i \in DOMAIN txs : txs[i].cust = c}
RowsFrom(source) == {i \in DOMAIN txs : txs[i].source = source}

(* Conservation: the spendable balance that customer_balances caches is    *)
(* what the rows of transactions say.  Held rows do not count yet, a       *)
(* reversed row and its reversal cancel, and expiry is a row of its own.   *)
(* The balance is only ever updated by increments (UPDATE ... points + $2) *)
(* next to the insertion of a row, in five different services.             *)
Counted(c) ==
  {i \in RowsOf(c) : txs[i].status \in {"POSTED", "EXPIRED"} /\ txs[i].source # "reversal"}

BalanceIsLedger ==
  \A c \in Customers : points[c] = PointsOf(txs, Counted(c))

(* pending_points is the sum of the held rows: the GREATEST(0, ...) that   *)
(* settlement and refund put around it never hides a difference.           *)
PendingIsLedger ==
  \A c \in Customers :
    pending[c] = PointsOf(txs, {i \in RowsOf(c) : txs[i].status = "PENDING"})

(* Idempotency: whatever the clients repeat, a txId, a QR token, an        *)
(* externalEventId and a requestId take effect at most once.               *)
DistinctRows(rows, Field(_)) ==
  \A i, k \in rows : Field(txs[i]) = Field(txs[k]) => i = k

TakesEffectOnce ==
  /\ DistinctRows(RowsFrom("staff"), LAMBDA row : row.key)
  /\ DistinctRows(RowsFrom("staff"), LAMBDA row : row.qr)
  /\ DistinctRows(RowsFrom("external"), LAMBDA row : row.key)
  /\ DistinctRows(RowsFrom("reversal"), LAMBDA row : row.key)
  /\ \A i, k \in DOMAIN redemptions : redemptions[i].key = redemptions[k].key => i = k

(* "A transaction can only be reversed once" (docs/LOYALTY_POLICY.md): the *)
(* reversed rows and the reversal rows pair up one to one, the reversal is *)
(* the later row of the pair, for the same customer, and takes back either *)
(* all the points of a posted row or none of a held one.                   *)
ReversalsPairUp ==
  /\ \A k \in RowsFrom("reversal") :
       LET i == txs[k].orig
       IN  /\ i \in 1..(k - 1)
           /\ txs[i].status = "REVERSED"
           /\ txs[i].cust = txs[k].cust
           /\ txs[k].points \in {0, -txs[i].points}
  /\ \A i \in DOMAIN txs :
       txs[i].status = "REVERSED" => \E k \in RowsFrom("reversal") : txs[k].orig = i
  /\ DistinctRows(RowsFrom("reversal"), LAMBDA row : row.orig)

(* Without balance_policy.allow_negative_balance_on_refund no sequence of  *)
(* awards, redemptions, expiries and refunds makes a balance negative.     *)
NeverNegative ==
  (\A p \in Programs : ~p.allowNegative) => \A c \in Customers : points[c] >= 0

(* A QR token is burnt exactly when an award used it: no award without     *)
(* burning its token, and no token burnt by a request that was refused.    *)
QrBurntByAward == usedQr = {txs[i].qr : i \in RowsFrom("staff")}

(* No reward is given away beyond its stock, and none is lost.             *)
StockConserved ==
  \A r \in Rewards : InitialStock[r] # None =>
    /\ stock[r] >= 0
    /\ stock[r] + Cardinality(RedemptionsWhere(LAMBDA d : d.reward = r)) = InitialStock[r]

(* While nothing is held, nobody has more spendable points than the        *)
(* customer ever earned: refunds subtract from both, and neither an expiry *)
(* nor a refunded redemption can make points out of nothing.               *)
SpendableWithinLifetime ==
  (\A p \in Programs : p.hold = 0) => \A c \in Customers : points[c] <= lifetime[c]

(* No customer redeems more often in a day than the owner's largest limit, *)
(* although every request decides with its own copy of the program.        *)
DailyLimitKept ==
  LET limits == {p.maxPerDay : p \in Programs}
  IN  0 \notin limits =>
        \A c \in Customers, d \in 0..day :
          \E m \in limits :
            Cardinality(RedemptionsWhere(LAMBDA x : x.cust = c /\ x.made = d)) <= m

-----------------------------------------------------------------------------
(* Action properties.                                                      *)

(* The ledger is append-only: a row is never removed and never changes but *)
(* for its status, which only moves forward.  A REVERSED row is final.     *)
Forward ==
  {<<"PENDING", "POSTED">>, <<"POSTED", "EXPIRED">>, <<"PENDING", "REVERSED">>,
   <<"POSTED", "REVERSED">>, <<"EXPIRED", "REVERSED">>}

AppendOnly ==
  [][/\ DOMAIN txs \subseteq DOMAIN txs'
     /\ \A i \in DOMAIN txs :
          \/ txs'[i] = txs[i]
          \/ /\ <<txs[i].status, txs'[i].status>> \in Forward
             /\ txs'[i] = [txs[i] EXCEPT !.status = txs'[i].status]]_vars

(* "Pending points do not increase the spendable balance until settlement" *)
(* (docs/LOYALTY_POLICY.md), and settlement waits for available_at.        *)
HeldUntilDue ==
  [][\A i \in DOMAIN txs :
       txs[i].status = "PENDING" /\ txs'[i].status = "POSTED" => txs[i].due <= day]_vars

(* A client that lost the answer and sends the same award or redemption    *)
(* again is told what happened.  A redemption looks for its requestId      *)
(* before the guards, the balance and the stock that the first attempt has *)
(* used up; an award looks for its txId before the QR token that the first *)
(* attempt has burnt, so that it is never told that it conflicts.  What    *)
(* refuses an award that has been made are only the checks made before its *)
(* transaction: of the token, which may have expired (RefuseToken), and    *)
(* against the plan and the guards as they are now (CheckAward).  The      *)
(* policy wants none of them, see AwardRetryIsAnswered below.              *)
SameAward(job) ==
  \E i \in RowsFrom("staff") : txs[i].key = job.key /\ txs[i].cust = job.cust

SameRedemption(job) ==
  \E i \in DOMAIN redemptions :
    /\ redemptions[i].key = job.key
    /\ redemptions[i].cust = job.cust
    /\ redemptions[i].reward = job.reward

Refused(w) == req'[w].answer \in {"conflict", "denied"} /\ req[w].at \in {"check", "commit"}

RetryIsAnswered ==
  [][\A w \in Workers : Refused(w) =>
       /\ req[w].op = "award" /\ SameAward(req[w]) =>
            req[w].at = "check" /\ ~(WithinPlan /\ WithinGuards(req[w]))
       /\ req[w].op = "redeem" => ~SameRedemption(req[w])]_vars

-----------------------------------------------------------------------------
(* The promise to the customers: seen from IdealLedger, each request takes *)
(* effect at most once and in one step, settlement releases exactly what   *)
(* was held, and neither redemption nor expiry takes more than there is.   *)
UsedTickets ==
       {<<"txId", txs[i].key>> : i \in RowsFrom("staff")}
  \cup {<<"qr", j>> : j \in usedQr}
  \cup {<<"event", txs[i].key>> : i \in RowsFrom("external")}
  \cup {<<"redeem", redemptions[i].key>> : i \in DOMAIN redemptions}
  \cup {<<"refund", txs[i].key>> : i \in RowsFrom("reversal")}
  \cup {<<"row", txs[i].orig>> : i \in RowsFrom("reversal")}

AllTickets ==
       ({"txId"} \X TxIds) \cup ({"qr"} \X QrTokens) \cup ({"event"} \X Events)
  \cup ({"redeem", "refund"} \X Requests) \cup ({"row"} \X (1..MaxRows))

Ideal == INSTANCE IdealLedger WITH
           Tickets <- AllTickets,
           MayGoNegative <- \E p \in Programs : p.allowNegative,
           spendable <- points, held <- pending, used <- UsedTickets

ImplementsIdeal == Ideal!Spec

-----------------------------------------------------------------------------
(* What the repository says and the code does not do.                      *)

(* tests/unit/external-award-service.test.js: "returns the existing        *)
(* transaction when the same externalEventId is replayed".  The            *)
(* fingerprint it compares contains the status that the current hold       *)
(* setting gives, so the same event is a conflict after a change of it.    *)
ExternalRetryIsAnswered ==
  [][\A w \in Workers :
       Refused(w) /\ req[w].op = "external" =>
         ~\E i \in RowsFrom("external") :
            /\ txs[i].key = req[w].key
            /\ txs[i].cust = req[w].cust
            /\ txs[i].points = req[w].points]_vars

(* docs/LOYALTY_POLICY.md: "Staff awards are idempotent when the same      *)
(* `txId` is replayed for the same business and customer."  The plan's     *)
(* limit of active customers is checked before the txId is looked up, and  *)
(* the first attempt itself has made its customer active: the retry is     *)
(* refused, as if the award had not been made.                             *)
AwardRetryIsAnswered ==
  [][\A w \in Workers : Refused(w) /\ req[w].op = "award" => ~SameAward(req[w])]_vars
=============================================================================
