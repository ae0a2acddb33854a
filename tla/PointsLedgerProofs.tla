------------------------- MODULE PointsLedgerProofs -------------------------
(***************************************************************************)
(* Theorems about PointsLedger, for every number of customers, workers,    *)
(* tokens and rows, every program and every order of steps.                *)
(***************************************************************************)
EXTENDS PointsLedger, TotalsProofs, FiniteSetTheorems

(* What a worker knows of its request: the locals its service has set.     *)
JobFits(job) ==
  /\ job.at # "idle" => job.cust \in Customers
  /\ job.op = "award" =>
       job.key \in TxIds /\ job.qr \in QrTokens /\ job.program \in Programs
  /\ job.op = "external" => job.key \in Events /\ job.program \in Programs
  /\ job.op = "redeem" =>
       job.key \in Requests /\ job.reward \in Rewards /\ job.program \in Programs

JobsFit == \A w \in Workers : JobFits(req[w])

Typed == TypeOK /\ JobsFit

-----------------------------------------------------------------------------
(* Rows.                                                                   *)

\* A status may be written into a row, and changes nothing else of it.
LEMMA RowStatus ==
  ASSUME NEW row \in Row, NEW status \in Statuses
  PROVE  /\ [row EXCEPT !.status = status] \in Row
         /\ [row EXCEPT !.status = status].points = row.points
BY DEF Row

\* Marking rows keeps their number, their order and their type.
LEMMA MarkedRows ==
  ASSUME txs \in Seq(Row), NEW rows, NEW status \in Statuses
  PROVE  /\ Marked(rows, status) \in Seq(Row)
         /\ Len(Marked(rows, status)) = Len(txs)
         /\ \A i \in 1..Len(txs) : Marked(rows, status)[i] =
              IF i \in rows THEN [txs[i] EXCEPT !.status = status] ELSE txs[i]
<1>1. DOMAIN txs = 1..Len(txs) /\ Len(txs) \in Nat
  OBVIOUS
<1>2. \A i \in 1..Len(txs) : Marked(rows, status)[i] =
        IF i \in rows THEN [txs[i] EXCEPT !.status = status] ELSE txs[i]
  BY <1>1 DEF Marked
<1>3. ASSUME NEW i \in 1..Len(txs) PROVE Marked(rows, status)[i] \in Row
  <2>1. txs[i] \in Row
    OBVIOUS
  <2>2. [txs[i] EXCEPT !.status = status] \in Row
    BY <2>1, RowStatus
  <2> QED BY <1>2, <2>1, <2>2
<1>4. Marked(rows, status) \in [1..Len(txs) -> Row]
  BY <1>1, <1>3 DEF Marked
<1>5. Len(Marked(rows, status)) = Len(txs) /\ Marked(rows, status) \in Seq(Row)
  BY <1>1, <1>4
<1> QED BY <1>2, <1>5

\* Appending a row keeps the rows before it.
LEMMA AppendedRow ==
  ASSUME NEW table \in Seq(Row), NEW row \in Row
  PROVE  /\ Append(table, row) \in Seq(Row)
         /\ Len(Append(table, row)) = Len(table) + 1
         /\ \A i \in 1..Len(table) : Append(table, row)[i] = table[i]
         /\ Append(table, row)[Len(table) + 1] = row
OBVIOUS

\* INSERT INTO transactions makes a row.
LEMMA NewRowType ==
  ASSUME day \in Nat, NEW c \in Customers, NEW source \in Sources, NEW n \in Int,
         NEW status \in Statuses, NEW key \in TxIds \cup Events \cup Requests \cup {None}
  PROVE  NewRow(c, source, n, status, key) \in Row
BY DEF NewRow, Row

\* A sum over rows is an integer.
LEMMA PointsOfType ==
  ASSUME NEW table \in Seq(Row), NEW rows
  PROVE  PointsOf(table, rows) \in Int
<1> DEFINE f == [i \in 1..Len(table) |-> IF i \in rows THEN table[i].points ELSE 0]
<1>1. ASSUME NEW i \in 1..Len(table) PROVE f[i] \in Int
  <2>1. table[i] \in Row
    OBVIOUS
  <2>2. table[i].points \in Int
    BY <2>1 DEF Row
  <2> QED BY <2>2
<1>2. Len(table) \in Nat
  OBVIOUS
<1> HIDE DEF f
<1>3. Total(f, Len(table)) \in Int
  BY <1>1, <1>2, TotalType
<1> QED BY <1>3 DEF PointsOf, f

\* A worker without a request.
LEMMA IdleJob == Idle \in Job /\ JobFits(Idle)
BY DEF Idle, Job, JobFits, Answers

-----------------------------------------------------------------------------
(* Types.                                                                  *)

\* An answer, and the next step of the upkeep, leave the workers well typed.
LEMMA AnswerFits ==
  ASSUME Typed, NEW w \in Workers, NEW a \in Answers, Answer(w, a)
  PROVE  req' \in [Workers -> Job] /\ JobsFit'
<1>1. [Idle EXCEPT !.answer = a] \in Job /\ JobFits([Idle EXCEPT !.answer = a])
  BY DEF Idle, Job, JobFits
<1>2. req' = [req EXCEPT ![w] = [Idle EXCEPT !.answer = a]] /\ req \in [Workers -> Job]
  BY DEF Answer, Typed, TypeOK
<1>3. \A x \in Workers : req'[x] = IF x = w THEN [Idle EXCEPT !.answer = a] ELSE req[x]
  BY <1>2
<1>4. \A x \in Workers : JobFits(req[x])
  BY DEF Typed, JobsFit
<1> QED BY <1>1, <1>2, <1>3, <1>4 DEF JobsFit

\* A worker that goes on keeps the request it has.
LEMMA NextStepFits ==
  ASSUME Typed, NEW w \in Workers, req[w].at # "idle",
         NEW last, NEW next \in {"expire", "check", "commit"}, NextStep(w, last, next)
  PROVE  req' \in [Workers -> Job] /\ JobsFit'
<1>1. CASE Answer(w, "ok")
  BY <1>1, AnswerFits DEF Answers
<1>2. CASE req' = [req EXCEPT ![w].at = next]
  <2>1. req \in [Workers -> Job] /\ req[w] \in Job /\ \A x \in Workers : JobFits(req[x])
    BY DEF Typed, TypeOK, JobsFit
  <2>2. [req[w] EXCEPT !.at = next] \in Job /\ JobFits([req[w] EXCEPT !.at = next])
    BY <2>1 DEF Job, JobFits
  <2>3. \A x \in Workers : req'[x] = IF x = w THEN [req[w] EXCEPT !.at = next] ELSE req[x]
    BY <1>2, <2>1
  <2> QED BY <1>2, <2>1, <2>2, <2>3 DEF JobsFit
<1> QED BY <1>1, <1>2 DEF NextStep

\* An accepted request.
LEMMA AcceptTyped ==
  ASSUME Typed, NEW w \in Workers, NEW job \in Job, JobFits(job), Accept(w, job)
  PROVE  Typed'
<1>1. /\ req' = [req EXCEPT ![w] = job] /\ req \in [Workers -> Job]
      /\ \A x \in Workers : JobFits(req[x])
  BY DEF Accept, Typed, TypeOK, JobsFit
<1>2. \A x \in Workers : req'[x] = IF x = w THEN job ELSE req[x]
  BY <1>1
<1>3. req' \in [Workers -> Job] /\ JobsFit'
  BY <1>1, <1>2 DEF JobsFit
<1>4. TypeOK'
  BY <1>3 DEF Accept, Typed, TypeOK, balances
<1> QED BY <1>3, <1>4 DEF Typed

\* A request that is refused, or only answered, changes its worker and nothing else.
LEMMA RefuseTyped ==
  ASSUME Typed, NEW w \in Workers, NEW a \in Answers, Refuse(w, a)
  PROVE  Typed'
<1>1. req' \in [Workers -> Job] /\ JobsFit'
  BY AnswerFits DEF Refuse
<1>2. TypeOK'
  BY <1>1 DEF Refuse, Typed, TypeOK, balances
<1> QED BY <1>1, <1>2 DEF Typed

\* Every request that arrives has the inputs its handler needs.
LEMMA ArriveTyped ==
  ASSUME Typed, NEW w \in Workers, Arrive(w)
  PROVE  Typed'
<1>1. program \in Programs
  BY DEF Typed, TypeOK
<1>2. ASSUME NEW t \in TxIds, NEW j \in QrTokens, NEW n \in Amounts, BeginAward(w, t, j, n)
      PROVE  Typed'
  <2> DEFINE job == [Idle EXCEPT !.op = "award", !.at = "settle", !.cust = QrOwner[j],
                                 !.key = t, !.qr = j, !.points = n, !.program = program]
  <2>1. QrOwner[j] \in Customers /\ n \in Nat
    BY OwnerAssumption, AmountsAssumption
  <2>2. job \in Job /\ JobFits(job)
    BY <1>1, <2>1 DEF Idle, Job, JobFits, Answers
  <2> QED BY <1>2, <2>2, AcceptTyped DEF BeginAward
<1>3. ASSUME NEW c \in Customers, NEW r \in Rewards, NEW q \in Requests,
             BeginRedeem(w, c, r, q)
      PROVE  Typed'
  <2> DEFINE job == [Idle EXCEPT !.op = "redeem", !.at = "settle", !.cust = c,
                                 !.key = q, !.reward = r, !.program = program]
  <2>1. job \in Job /\ JobFits(job)
    BY <1>1 DEF Idle, Job, JobFits, Answers
  <2> QED BY <1>3, <2>1, AcceptTyped DEF BeginRedeem
<1>4. ASSUME NEW e \in Events, NEW c \in Customers, NEW n \in Amounts,
             BeginExternal(w, e, c, n)
      PROVE  Typed'
  <2> DEFINE job == [Idle EXCEPT !.op = "external", !.at = "commit", !.cust = c,
                                 !.key = e, !.points = n, !.program = program]
  <2>1. n \in Nat
    BY AmountsAssumption
  <2>2. job \in Job /\ JobFits(job)
    BY <1>1, <2>1 DEF Idle, Job, JobFits, Answers
  <2> QED BY <1>4, <2>2, AcceptTyped DEF BeginExternal
<1>5. ASSUME NEW c \in Customers, NEW op \in {"view", "sweep", "settle"},
             BeginUpkeep(w, c, op)
      PROVE  Typed'
  <2> DEFINE job == [Idle EXCEPT !.op = op, !.cust = c,
                                 !.at = IF op = "sweep" THEN "expire" ELSE "settle"]
  <2>1. job \in Job /\ JobFits(job)
    BY DEF Idle, Job, JobFits, Answers
  <2> QED BY <1>5, <2>1, AcceptTyped DEF BeginUpkeep
<1>6. CASE RefuseToken(w)
  BY <1>6, RefuseTyped DEF RefuseToken, Answers
<1> QED BY <1>2, <1>3, <1>4, <1>5, <1>6 DEF Arrive

\* Settlement and expiry keep the types.
LEMMA UpkeepTyped ==
  ASSUME Typed, NEW w \in Workers, Upkeep(w)
  PROVE  Typed'
<1> DEFINE c == req[w].cust
<1>1. /\ req[w] \in Job /\ JobFits(req[w]) /\ txs \in Seq(Row) /\ day \in Nat
      /\ points \in [Customers -> Int] /\ pending \in [Customers -> Int]
  BY DEF Typed, TypeOK, JobsFit
<1>2. ASSUME req[w].at \in {"settle", "expire"} PROVE c \in Customers
  BY <1>1, <1>2 DEF JobFits
<1>3. ASSUME req[w].at = "settle", AfterSettle(w)
      PROVE  req' \in [Workers -> Job] /\ JobsFit'
  BY <1>3, NextStepFits DEF AfterSettle
<1>4. ASSUME req[w].at = "expire", AfterExpire(w)
      PROVE  req' \in [Workers -> Job] /\ JobsFit'
  BY <1>4, NextStepFits DEF AfterExpire
<1>5. CASE SettlePending(w)
  <2>1. PointsOf(txs, Due(c)) \in Int
    BY <1>1, PointsOfType
  <2>2. txs' \in Seq(Row)
    BY <1>1, <1>5, MarkedRows DEF SettlePending, Statuses
  <2>3. points' \in [Customers -> Int] /\ pending' \in [Customers -> Int]
    BY <1>1, <1>2, <1>5, <2>1 DEF SettlePending, Greatest
  <2>4. req' \in [Workers -> Job] /\ JobsFit'
    BY <1>3, <1>5 DEF SettlePending
  <2> QED BY <1>5, <2>2, <2>3, <2>4 DEF SettlePending, Typed, TypeOK
<1>6. CASE ExpireNothing(w)
  BY <1>4, <1>6 DEF ExpireNothing, Typed, TypeOK, balances
<1>7. CASE ExpirePoints(w)
  <2> DEFINE marked == Marked(Stale(c), "EXPIRED")
             row == NewRow(c, "expire", -Deductible(c), "POSTED", None)
  <2>1. c \in Customers
    BY <1>2, <1>7 DEF ExpirePoints
  <2>2. Deductible(c) \in Int
    BY <1>1, <2>1, PointsOfType DEF Deductible, Least, Greatest
  <2>3. marked \in Seq(Row)
    BY <1>1, MarkedRows DEF Statuses
  <2>4. row \in Row
    BY <1>1, <2>1, <2>2, NewRowType DEF Sources, Statuses
  <2>5. Append(marked, row) \in Seq(Row)
    BY <2>3, <2>4
  <2>6. txs' \in Seq(Row) /\ points' \in [Customers -> Int]
    <3>1. CASE Deductible(c) > 0
      <4>1. /\ points' = [points EXCEPT ![c] = @ - Deductible(c)]
            /\ txs' = Append(marked, row)
        BY <1>7, <3>1 DEF ExpirePoints
      <4>2. points[c] - Deductible(c) \in Int
        BY <1>1, <2>1, <2>2
      <4> QED BY <1>1, <2>5, <4>1, <4>2
    <3>2. CASE ~(Deductible(c) > 0)
      <4>1. points' = points /\ txs' = marked
        BY <1>7, <3>2 DEF ExpirePoints
      <4> QED BY <1>1, <2>3, <4>1
    <3> QED BY <3>1, <3>2
  <2>7. req' \in [Workers -> Job] /\ JobsFit'
    BY <1>4, <1>7 DEF ExpirePoints
  <2> QED BY <1>7, <2>6, <2>7 DEF ExpirePoints, Typed, TypeOK
<1>8. CASE UpkeepFails(w)
  BY <1>3, <1>4, <1>8 DEF UpkeepFails, Typed, TypeOK, balances
<1> QED BY <1>5, <1>6, <1>7, <1>8 DEF Upkeep

\* So does what an award adds to the tables,
LEMMA CreditTyped ==
  ASSUME Typed, NEW job \in Job, job.cust \in Customers, job.program \in Programs,
         NEW source \in Sources, Credit(job, source)
  PROVE  /\ txs' \in Seq(Row)
         /\ points' \in [Customers -> Int]
         /\ pending' \in [Customers -> Int]
         /\ lifetime' \in [Customers -> Int]
<1>1. /\ txs \in Seq(Row) /\ day \in Nat /\ points \in [Customers -> Int]
      /\ pending \in [Customers -> Int] /\ lifetime \in [Customers -> Int]
  BY DEF Typed, TypeOK
<1>2. job.program.hold \in Nat
  BY ProgramAssumption
<1>3. job.points \in Nat
  BY DEF Job
<1>4. PostedPart(job) \in Nat /\ HeldPart(job) \in Nat
  BY <1>3 DEF PostedPart, HeldPart
<1> DEFINE plain == NewRow(job.cust, source, job.points,
                           IF Held(job) THEN "PENDING" ELSE "POSTED", job.key)
           row == [plain EXCEPT !.qr = job.qr,
                                !.due = IF Held(job) THEN day + job.program.hold ELSE 0]
<1>5. plain \in Row
  BY <1>1, <1>3, NewRowType DEF Job, Statuses
<1>6. job.qr \in QrTokens \cup {None} /\ (IF Held(job) THEN day + job.program.hold ELSE 0) \in Nat
  BY <1>1, <1>2 DEF Job
<1>7. row \in Row
  BY <1>5, <1>6 DEF Row
<1>8. txs' = Append(txs, row)
  BY DEF Credit
<1> QED BY <1>1, <1>4, <1>7, <1>8 DEF Credit

\* the transaction of an award, an external award or a redemption,
LEMMA CommitTyped ==
  ASSUME Typed, NEW w \in Workers, Commit(w)
  PROVE  Typed'
<1>1. /\ req[w] \in Job /\ JobFits(req[w]) /\ txs \in Seq(Row) /\ day \in Nat
      /\ points \in [Customers -> Int] /\ stock \in [Rewards -> Int \cup {None}]
      /\ redemptions \in Seq(Redemption)
  BY DEF Typed, TypeOK, JobsFit
<1>2. ASSUME Answer(w, "ok") PROVE req' \in [Workers -> Job] /\ JobsFit'
  BY <1>2, AnswerFits DEF Answers
<1>3. {"ok", "replay", "conflict", "denied"} \subseteq Answers
  BY DEF Answers
<1>4. CASE CommitAward(w)
  <2>1. CASE \E a \in Answers : Refuse(w, a)
    BY <2>1, RefuseTyped
  <2>2. CASE /\ BurnQr(req[w].qr)
             /\ Credit(req[w], "staff")
             /\ Answer(w, "ok")
             /\ UNCHANGED <<program, day, redemptions, stock>>
    <3>1. req[w].cust \in Customers /\ req[w].program \in Programs /\ req[w].qr \in QrTokens
      BY <1>1, <1>4 DEF CommitAward, JobFits
    <3>2. /\ txs' \in Seq(Row) /\ points' \in [Customers -> Int]
          /\ pending' \in [Customers -> Int] /\ lifetime' \in [Customers -> Int]
      BY <1>1, <2>2, <3>1, CreditTyped DEF Sources
    <3> QED BY <1>2, <2>2, <3>1, <3>2 DEF BurnQr, Typed, TypeOK
  <2> QED BY <1>3, <1>4, <2>1, <2>2 DEF CommitAward
<1>5. CASE CommitExternal(w)
  <2>1. CASE \E a \in Answers : Refuse(w, a)
    BY <2>1, RefuseTyped
  <2>2. CASE /\ Credit(req[w], "external")
             /\ Answer(w, "ok")
             /\ UNCHANGED <<program, day, usedQr, redemptions, stock>>
    <3>1. req[w].cust \in Customers /\ req[w].program \in Programs
      BY <1>1, <1>5 DEF CommitExternal, JobFits
    <3>2. /\ txs' \in Seq(Row) /\ points' \in [Customers -> Int]
          /\ pending' \in [Customers -> Int] /\ lifetime' \in [Customers -> Int]
      BY <1>1, <2>2, <3>1, CreditTyped DEF Sources
    <3> QED BY <1>2, <2>2, <3>2 DEF Typed, TypeOK
  <2> QED BY <1>3, <1>5, <2>1, <2>2 DEF CommitExternal
<1>6. CASE CommitRedeem(w)
  <2> DEFINE c == req[w].cust
             r == req[w].reward
             row == NewRow(c, "redeem", -Cost[r], "POSTED", None)
             entry == [cust |-> c, reward |-> r, key |-> req[w].key, made |-> day,
                       balance |-> points[c] - Cost[r]]
  <2>1. CASE \E a \in Answers : Refuse(w, a)
    BY <2>1, RefuseTyped
  <2>2. CASE /\ InStock(r)
             /\ points' = [points EXCEPT ![c] = @ - Cost[r]]
             /\ stock' = [stock EXCEPT ![r] = IF @ = None THEN None ELSE @ - 1]
             /\ redemptions' = Append(redemptions, entry)
             /\ txs' = Append(txs, row)
             /\ Answer(w, "ok")
             /\ UNCHANGED <<program, day, pending, lifetime, usedQr>>
    <3>1. c \in Customers /\ r \in Rewards /\ req[w].key \in Requests
      BY <1>1, <1>6 DEF CommitRedeem, JobFits
    <3>2. Cost[r] \in Nat /\ points[c] \in Int
      BY <1>1, <3>1, CostAssumption
    <3>3. row \in Row
      BY <1>1, <3>1, <3>2, NewRowType DEF Sources, Statuses
    <3>4. entry \in Redemption
      BY <1>1, <3>1, <3>2 DEF Redemption
    <3>5. txs' \in Seq(Row) /\ redemptions' \in Seq(Redemption)
      BY <1>1, <2>2, <3>3, <3>4
    <3>6. points' \in [Customers -> Int]
      <4>1. points[c] - Cost[r] \in Int
        BY <3>2
      <4> QED BY <1>1, <2>2, <4>1
    <3>7. (IF stock[r] = None THEN None ELSE stock[r] - 1) \in Int \cup {None}
      BY <1>1, <3>1
    <3>8. stock' \in [Rewards -> Int \cup {None}]
      BY <1>1, <2>2, <3>7
    <3> QED BY <1>2, <2>2, <3>5, <3>6, <3>8 DEF Typed, TypeOK
  <2> QED BY <1>3, <1>6, <2>1, <2>2 DEF CommitRedeem
<1>7. CASE CheckAward(w)
  <2>1. CASE req' = [req EXCEPT ![w].at = "commit"]
    <3>1. NextStep(w, {}, "commit") /\ req[w].at # "idle"
      BY <1>7, <2>1 DEF CheckAward, NextStep
    <3>2. req' \in [Workers -> Job] /\ JobsFit'
      BY <3>1, NextStepFits
    <3>3. UNCHANGED <<program, day, txs, balances, usedQr, redemptions, stock>>
      BY <1>7 DEF CheckAward, Refuse
    <3> QED BY <3>2, <3>3 DEF Typed, TypeOK, balances
  <2>2. CASE Refuse(w, "denied")
    BY <1>3, <2>2, RefuseTyped
  <2> QED BY <1>7, <2>1, <2>2 DEF CheckAward
<1> QED BY <1>4, <1>5, <1>6, <1>7 DEF Commit

\* the reversal row,
LEMMA ReverseTyped ==
  ASSUME Typed, NEW i \in DOMAIN txs, NEW effect \in Int, NEW q \in Requests,
         Reverse(i, effect, q)
  PROVE  txs' \in Seq(Row)
<1>1. txs \in Seq(Row) /\ day \in Nat
  BY DEF Typed, TypeOK
<1>2. txs[i] \in Row /\ i \in Nat
  BY <1>1
<1> DEFINE plain == NewRow(txs[i].cust, "reversal", effect, "POSTED", q)
<1>3. plain \in Row
  BY <1>1, <1>2, NewRowType DEF Row, Sources, Statuses
<1>4. [plain EXCEPT !.orig = i] \in Row
  BY <1>2, <1>3 DEF Row
<1>5. Marked({i}, "REVERSED") \in Seq(Row)
  BY <1>1, MarkedRows DEF Statuses
<1> QED BY <1>4, <1>5 DEF Reverse

\* and the transaction of a refund.
LEMMA RefundTyped ==
  ASSUME Typed, NEW w \in Workers, NEW q \in Requests, NEW i \in DOMAIN txs,
         Refund(w, q, i)
  PROVE  Typed'
<1> DEFINE c == txs[i].cust
<1>1. /\ txs \in Seq(Row) /\ points \in [Customers -> Int]
      /\ pending \in [Customers -> Int] /\ lifetime \in [Customers -> Int]
  BY DEF Typed, TypeOK
<1>2. txs[i] \in Row
  BY <1>1
<1>3. c \in Customers /\ txs[i].points \in Int
  BY <1>2 DEF Row
<1>4. ASSUME Answer(w, "ok") PROVE req' \in [Workers -> Job] /\ JobsFit'
  BY <1>4, AnswerFits DEF Answers
<1>5. {"replay", "conflict"} \subseteq Answers
  BY DEF Answers
<1>6. CASE \E a \in Answers : Refuse(w, a)
  BY <1>6, RefuseTyped
<1>7. CASE RefundHeld(w, q, i)
  <2>1. txs' \in Seq(Row)
    <3>1. Reverse(i, 0, q) /\ 0 \in Int
      BY <1>7 DEF RefundHeld
    <3> QED BY <3>1, ReverseTyped
  <2>2. pending' \in [Customers -> Int]
    BY <1>1, <1>3, <1>7 DEF RefundHeld, Greatest
  <2> QED BY <1>4, <1>7, <2>1, <2>2 DEF RefundHeld, Typed, TypeOK
<1>8. CASE RefundPosted(w, q, i)
  <2>1. txs' \in Seq(Row)
    BY <1>3, <1>8, ReverseTyped DEF RefundPosted
  <2>2. points' \in [Customers -> Int] /\ lifetime' \in [Customers -> Int]
    BY <1>1, <1>3, <1>8 DEF RefundPosted, LifetimeAfter, Greatest, Least
  <2> QED BY <1>4, <1>8, <2>1, <2>2 DEF RefundPosted, Typed, TypeOK
<1> QED BY <1>5, <1>6, <1>7, <1>8 DEF Refund, RefundAgain, RefundRefused

(* The variables and the workers' requests keep their types.               *)
LEMMA InitTyped == Init => Typed
<1>1. ASSUME Init PROVE TypeOK
  BY <1>1, IdleJob, StockAssumption DEF Init, TypeOK
<1>2. ASSUME Init PROVE JobsFit
  BY <1>2, IdleJob DEF Init, JobsFit
<1> QED BY <1>1, <1>2 DEF Typed

\* No step breaks the types.
LEMMA NextTyped == Typed /\ [Next]_vars => Typed'
<1> SUFFICES ASSUME Typed, [Next]_vars PROVE Typed'
  OBVIOUS
<1>1. CASE \E w \in Workers : Arrive(w) \/ Upkeep(w) \/ Commit(w)
  BY <1>1, ArriveTyped, UpkeepTyped, CommitTyped
<1>2. CASE \E w \in Workers, q \in Requests, i \in DOMAIN txs : Refund(w, q, i)
  BY <1>2, RefundTyped
<1>3. CASE Crash
  <2>1. req' \in [Workers -> Job] /\ JobsFit'
    BY <1>3, IdleJob DEF Crash, JobsFit
  <2> QED BY <1>3, <2>1 DEF Crash, Typed, TypeOK, balances
<1>4. CASE \E p \in Programs : SetProgram(p)
  BY <1>4 DEF SetProgram, Typed, TypeOK, JobsFit, JobFits, balances
<1>5. CASE NextDay
  BY <1>5 DEF NextDay, Typed, TypeOK, JobsFit, JobFits, balances
<1>6. CASE UNCHANGED vars
  BY <1>6 DEF vars, balances, Typed, TypeOK, JobsFit, JobFits
<1> QED BY <1>1, <1>2, <1>3, <1>4, <1>5, <1>6 DEF Next

(* The tables keep their types, whatever the order of the steps: every row *)
(* has a customer, an integer and a known status, no balance is NULL, and  *)
(* every worker between its transactions has the inputs of its request.    *)
THEOREM TypeCorrect == Spec => []TypeOK
<1>1. Spec => []Typed
  BY InitTyped, NextTyped, PTL DEF Spec
<1>2. Typed => TypeOK
  BY DEF Typed
<1> QED BY <1>1, <1>2, PTL

-----------------------------------------------------------------------------
(* Sums over sets of rows.                                                 *)

\* The entries that PointsOf adds up are integers.
LEMMA RowPoints ==
  ASSUME NEW table \in Seq(Row)
  PROVE  Len(table) \in Nat /\ \A i \in 1..Len(table) : table[i].points \in Int
<1>1. ASSUME NEW i \in 1..Len(table) PROVE table[i].points \in Int
  <2>1. table[i] \in Row
    OBVIOUS
  <2> QED BY <2>1 DEF Row
<1> QED BY <1>1

\* Only the points and the membership of the rows matter.
LEMMA SameSum ==
  ASSUME NEW table \in Seq(Row), NEW other \in Seq(Row), NEW A, NEW B,
         Len(other) = Len(table),
         \A i \in 1..Len(table) : /\ other[i].points = table[i].points
                                  /\ i \in A <=> i \in B
  PROVE  PointsOf(other, B) = PointsOf(table, A)
<1> DEFINE n == Len(table)
           f == [i \in 1..n |-> IF i \in A THEN table[i].points ELSE 0]
           g == [i \in 1..n |-> IF i \in B THEN other[i].points ELSE 0]
<1>1. n \in Nat /\ \A i \in 1..n : table[i].points \in Int
  BY RowPoints
<1>2. \A i \in 1..n : f[i] \in Int /\ f[i] = g[i]
  BY <1>1
<1>3. PointsOf(table, A) = Total(f, n) /\ PointsOf(other, B) = Total(g, n)
  BY DEF PointsOf
<1> HIDE DEF f, g, n
<1> QED BY <1>1, <1>2, <1>3, TotalEqual

\* Disjoint sets of rows add up.
LEMMA SumOfUnion ==
  ASSUME NEW table \in Seq(Row), NEW A, NEW B, A \cap B = {}
  PROVE  PointsOf(table, A \cup B) = PointsOf(table, A) + PointsOf(table, B)
<1> DEFINE n == Len(table)
           f == [i \in 1..n |-> IF i \in A THEN table[i].points ELSE 0]
           g == [i \in 1..n |-> IF i \in B THEN table[i].points ELSE 0]
           h == [i \in 1..n |-> IF i \in A \cup B THEN table[i].points ELSE 0]
<1>1. n \in Nat /\ \A i \in 1..n : table[i].points \in Int
  BY RowPoints
<1>2. ASSUME NEW i \in 1..n PROVE f[i] \in Int /\ g[i] \in Int /\ h[i] = f[i] + g[i]
  BY <1>1
<1>3. /\ PointsOf(table, A) = Total(f, n)
      /\ PointsOf(table, B) = Total(g, n)
      /\ PointsOf(table, A \cup B) = Total(h, n)
  BY DEF PointsOf
<1> HIDE DEF f, g, h, n
<1>4. Total(h, n) = Total(f, n) + Total(g, n)
  BY <1>1, <1>2, TotalSum
<1> QED BY <1>3, <1>4

\* One row.
LEMMA SumOfOne ==
  ASSUME NEW table \in Seq(Row), NEW i \in 1..Len(table)
  PROVE  PointsOf(table, {i}) = table[i].points
<1> DEFINE n == Len(table)
           f == [k \in 1..n |-> IF k \in {i} THEN table[k].points ELSE 0]
<1>1. n \in Nat /\ \A k \in 1..n : table[k].points \in Int
  BY RowPoints
<1>2. f[i] = table[i].points /\ f[i] \in Int /\ \A k \in 1..n : k # i => f[k] = 0
  BY <1>1
<1>3. PointsOf(table, {i}) = Total(f, n)
  BY DEF PointsOf
<1> HIDE DEF f
<1>4. Total(f, n) = f[i]
  BY <1>1, <1>2, TotalSingle
<1> QED BY <1>2, <1>3, <1>4

\* A row that is appended counts when its number is in the set.
LEMMA SumAppended ==
  ASSUME NEW table \in Seq(Row), NEW row \in Row, NEW A
  PROVE  PointsOf(Append(table, row), A) =
           PointsOf(table, A) + IF Len(table) + 1 \in A THEN row.points ELSE 0
<1> DEFINE n == Len(table)
           longer == Append(table, row)
           f == [i \in 1..n |-> IF i \in A THEN table[i].points ELSE 0]
           g == [i \in 1..(n + 1) |-> IF i \in A THEN longer[i].points ELSE 0]
<1>1. n \in Nat /\ \A i \in 1..n : table[i].points \in Int
  BY RowPoints
<1>2. /\ longer \in Seq(Row) /\ Len(longer) = n + 1
      /\ \A i \in 1..n : longer[i] = table[i]
      /\ longer[n + 1] = row
  BY AppendedRow
<1>3. \A i \in 1..(n + 1) : longer[i].points \in Int
  BY <1>2, RowPoints
<1>4. \A i \in 1..(n + 1) : g[i] \in Int
  BY <1>3
<1>5. \A i \in 1..n : f[i] \in Int /\ f[i] = g[i]
  BY <1>1, <1>2
<1>6. g[n + 1] = IF n + 1 \in A THEN row.points ELSE 0
  BY <1>1, <1>2
<1>7. PointsOf(table, A) = Total(f, n) /\ PointsOf(longer, A) = Total(g, n + 1)
  BY <1>2 DEF PointsOf
<1> HIDE DEF f, g, n
<1>8. Total(g, n + 1) = Total(g, n) + g[n + 1]
  BY <1>1, <1>4, TotalNext
<1>9. Total(g, n) = Total(f, n)
  BY <1>1, <1>5, TotalEqual
<1> QED BY <1>6, <1>7, <1>8, <1>9 DEF n

\* Rows without negative points add up to a natural number.
LEMMA SumNatural ==
  ASSUME NEW table \in Seq(Row), NEW A,
         \A i \in 1..Len(table) : i \in A => table[i].points >= 0
  PROVE  PointsOf(table, A) \in Nat
<1> DEFINE n == Len(table)
           f == [i \in 1..n |-> IF i \in A THEN table[i].points ELSE 0]
<1>1. n \in Nat /\ \A i \in 1..n : table[i].points \in Int
  BY RowPoints
<1>2. \A i \in 1..n : f[i] \in Nat
  BY <1>1
<1>3. PointsOf(table, A) = Total(f, n)
  BY DEF PointsOf
<1> HIDE DEF f, n
<1> QED BY <1>1, <1>2, <1>3, TotalNatural

\* No rows.
LEMMA SumOfNone == ASSUME NEW A PROVE PointsOf(<<>>, A) = 0
BY TotalEmpty DEF PointsOf

-----------------------------------------------------------------------------
(* The tables that the steps make.                                         *)

\* A row of the longer table that is not the last one is a row of the shorter one.
LEMMA EarlierRow ==
  ASSUME NEW n \in Nat, NEW i \in 1..(n + 1), i # n + 1
  PROVE  i \in 1..n
OBVIOUS

\* What marking rows changes is their status.
LEMMA MarkedFields ==
  ASSUME txs \in Seq(Row), NEW rows, NEW status \in Statuses,
         NEW i \in 1..Len(txs)
  PROVE  LET row == Marked(rows, status)[i]
         IN  /\ row.cust = txs[i].cust
             /\ row.source = txs[i].source
             /\ row.points = txs[i].points
             /\ row.key = txs[i].key
             /\ row.qr = txs[i].qr
             /\ row.orig = txs[i].orig
             /\ row.status = IF i \in rows THEN status ELSE txs[i].status
<1>1. txs[i] \in Row
  OBVIOUS
<1>2. Marked(rows, status)[i] = IF i \in rows THEN [txs[i] EXCEPT !.status = status] ELSE txs[i]
  BY MarkedRows
<1> QED BY <1>1, <1>2 DEF Row

\* Marking rows does not change what they add up to.
LEMMA SumOfMarked ==
  ASSUME txs \in Seq(Row), NEW rows, NEW status \in Statuses, NEW A, NEW B,
         \A i \in 1..Len(txs) : i \in A <=> i \in B
  PROVE  PointsOf(Marked(rows, status), B) = PointsOf(txs, A)
<1> DEFINE other == Marked(rows, status)
<1>1. other \in Seq(Row) /\ Len(other) = Len(txs)
  BY MarkedRows
<1>2. \A i \in 1..Len(txs) : other[i].points = txs[i].points
  BY MarkedFields
<1> HIDE DEF other
<1>3. PointsOf(other, B) = PointsOf(txs, A)
  BY <1>1, <1>2, SameSum
<1> QED BY <1>3 DEF other

\* One new row adds its own points, after others were marked
LEMMA SumOfMarkedAppended ==
  ASSUME txs \in Seq(Row), NEW rows, NEW status \in Statuses, NEW row \in Row, NEW A, NEW B,
         \A i \in 1..Len(txs) : i \in A <=> i \in B
  PROVE  PointsOf(Append(Marked(rows, status), row), B) =
           PointsOf(txs, A) + IF Len(txs) + 1 \in B THEN row.points ELSE 0
BY MarkedRows, SumOfMarked, SumAppended

\* or not.
LEMMA SumOfAppended ==
  ASSUME txs \in Seq(Row), NEW row \in Row, NEW A, NEW B,
         \A i \in 1..Len(txs) : i \in A <=> i \in B
  PROVE  PointsOf(Append(txs, row), B) =
           PointsOf(txs, A) + IF Len(txs) + 1 \in B THEN row.points ELSE 0
<1>1. PointsOf(txs, B) = PointsOf(txs, A)
  BY SameSum
<1> QED BY <1>1, SumAppended

-----------------------------------------------------------------------------
(* The cached balances.                                                    *)

Waiting(c) == {i \in RowsOf(c) : txs[i].status = "PENDING"}

\* Why GREATEST(0, ...) never cuts anything off: what is held is never negative.
HeldRows ==
  \A i \in DOMAIN txs :
    txs[i].status = "PENDING" => txs[i].points >= 0 /\ txs[i].source \in {"staff", "external"}

Balanced == HeldRows /\ BalanceIsLedger /\ PendingIsLedger

\* Balanced, customer by customer.
LEMMA BalancedMeans ==
  Balanced <=>
    /\ HeldRows
    /\ \A c \in Customers : /\ points[c] = PointsOf(txs, Counted(c))
                             /\ pending[c] = PointsOf(txs, Waiting(c))
BY DEF Balanced, BalanceIsLedger, PendingIsLedger, Waiting

\* Settlement moves from pending to points exactly what it marks POSTED.
LEMMA SettleBalanced ==
  ASSUME Typed, Balanced, NEW w \in Workers, SettlePending(w)
  PROVE  Balanced'
<1>0. PICK c \in Customers : c = req[w].cust
  BY DEF Typed, JobsFit, JobFits, SettlePending
<1>1. /\ txs \in Seq(Row) /\ DOMAIN txs = 1..Len(txs)
      /\ points \in [Customers -> Int] /\ pending \in [Customers -> Int]
  BY DEF Typed, TypeOK
<1>2. /\ txs' = Marked(Due(c), "POSTED")
      /\ points' = [points EXCEPT ![c] = @ + PointsOf(txs, Due(c))]
      /\ pending' = [pending EXCEPT ![c] = Greatest(0, @ - PointsOf(txs, Due(c)))]
      /\ "POSTED" \in Statuses
  BY <1>0 DEF SettlePending, Statuses
<1>3. /\ txs' \in Seq(Row) /\ Len(txs') = Len(txs) /\ DOMAIN txs' = 1..Len(txs)
  BY <1>1, <1>2, MarkedRows
<1>4. \A i \in 1..Len(txs) :
        /\ txs'[i].cust = txs[i].cust
        /\ txs'[i].source = txs[i].source
        /\ txs'[i].points = txs[i].points
        /\ txs'[i].status = IF i \in Due(c) THEN "POSTED" ELSE txs[i].status
  BY <1>1, <1>2, MarkedFields
<1>5. HeldRows'
  BY <1>1, <1>3, <1>4 DEF Balanced, HeldRows
<1>6. ASSUME NEW x \in Customers
      PROVE  points'[x] = PointsOf(txs', Counted(x)')
  <2>1. points[x] = PointsOf(txs, Counted(x)) /\ points[x] \in Int
    BY <1>1 DEF Balanced, BalanceIsLedger
  <2>2. CASE x = c
    <3>1. Counted(c) \cap Due(c) = {}
      BY DEF Counted, RowsOf, Due
    <3>2. \A i \in 1..Len(txs) : i \in Counted(c) \cup Due(c) <=> i \in Counted(c)'
      BY <1>1, <1>3, <1>4 DEF Counted, RowsOf, Due, Balanced, HeldRows
    <3>3. PointsOf(txs', Counted(c)') = PointsOf(txs, Counted(c) \cup Due(c))
      BY <1>1, <1>2, <3>2, SumOfMarked
    <3>4. PointsOf(txs, Counted(c) \cup Due(c)) = PointsOf(txs, Counted(c)) + PointsOf(txs, Due(c))
      BY <1>1, <3>1, SumOfUnion
    <3> QED BY <1>1, <1>2, <2>1, <2>2, <3>3, <3>4
  <2>3. CASE x # c
    <3>1. \A i \in 1..Len(txs) : i \in Counted(x) <=> i \in Counted(x)'
      BY <1>1, <1>3, <1>4, <2>3 DEF Counted, RowsOf, Due
    <3>2. PointsOf(txs', Counted(x)') = PointsOf(txs, Counted(x))
      BY <1>1, <1>2, <3>1, SumOfMarked
    <3> QED BY <1>1, <1>2, <2>1, <2>3, <3>2
  <2> QED BY <2>2, <2>3
<1>7. ASSUME NEW x \in Customers
      PROVE  pending'[x] = PointsOf(txs', Waiting(x)')
  <2>1. pending[x] = PointsOf(txs, Waiting(x)) /\ pending[x] \in Int
    BY <1>1 DEF Balanced, PendingIsLedger, Waiting
  <2>2. CASE x = c
    <3> DEFINE rest == Waiting(c) \ Due(c)
    <3>1. rest \cap Due(c) = {} /\ rest \cup Due(c) = Waiting(c)
      BY DEF Waiting, RowsOf, Due
    <3>2. \A i \in 1..Len(txs) : i \in rest <=> i \in Waiting(c)'
      BY <1>1, <1>3, <1>4 DEF Waiting, RowsOf, Due
    <3>3. PointsOf(txs', Waiting(c)') = PointsOf(txs, rest)
      BY <1>1, <1>2, <3>2, SumOfMarked
    <3>4. PointsOf(txs, Waiting(c)) = PointsOf(txs, rest) + PointsOf(txs, Due(c))
      BY <1>1, <3>1, SumOfUnion
    <3>5. PointsOf(txs, rest) \in Nat /\ PointsOf(txs, Due(c)) \in Int
      BY <1>1, SumNatural, PointsOfType DEF Balanced, HeldRows, Waiting, RowsOf
    <3>6. pending'[c] = Greatest(0, pending[c] - PointsOf(txs, Due(c)))
      BY <1>1, <1>2
    <3> QED BY <2>1, <2>2, <3>3, <3>4, <3>5, <3>6 DEF Greatest
  <2>3. CASE x # c
    <3>1. \A i \in 1..Len(txs) : i \in Waiting(x) <=> i \in Waiting(x)'
      BY <1>1, <1>3, <1>4, <2>3 DEF Waiting, RowsOf, Due
    <3>2. PointsOf(txs', Waiting(x)') = PointsOf(txs, Waiting(x))
      BY <1>1, <1>2, <3>1, SumOfMarked
    <3> QED BY <1>1, <1>2, <2>1, <2>3, <3>2
  <2> QED BY <2>2, <2>3
<1> QED BY <1>5, <1>6, <1>7 DEF Balanced, BalanceIsLedger, PendingIsLedger, Waiting

\* Posted rows expire, and nothing is deducted for them.
LEMMA ExpiringBalanced ==
  ASSUME Typed, Balanced, NEW rows, \A i \in rows : txs[i].status = "POSTED",
         txs' = Marked(rows, "EXPIRED"), UNCHANGED <<points, pending>>
  PROVE  Balanced'
<1>1. txs \in Seq(Row) /\ DOMAIN txs = 1..Len(txs) /\ "EXPIRED" \in Statuses
  BY DEF Typed, TypeOK, Statuses
<1>2. txs' \in Seq(Row) /\ Len(txs') = Len(txs) /\ DOMAIN txs' = 1..Len(txs)
  BY <1>1, MarkedRows
<1>3. \A i \in 1..Len(txs) :
        /\ txs'[i].cust = txs[i].cust
        /\ txs'[i].source = txs[i].source
        /\ txs'[i].points = txs[i].points
        /\ txs'[i].status = IF i \in rows THEN "EXPIRED" ELSE txs[i].status
  BY <1>1, MarkedFields
<1>4. HeldRows'
  BY <1>1, <1>2, <1>3 DEF Balanced, HeldRows
<1>5. ASSUME NEW x \in Customers
      PROVE  points'[x] = PointsOf(txs', Counted(x)') /\ pending'[x] = PointsOf(txs', Waiting(x)')
  <2>1. points'[x] = PointsOf(txs, Counted(x)) /\ pending'[x] = PointsOf(txs, Waiting(x))
    BY DEF Balanced, BalanceIsLedger, PendingIsLedger, Waiting
  <2>2. \A i \in 1..Len(txs) : i \in Counted(x) <=> i \in Counted(x)'
    BY <1>1, <1>2, <1>3 DEF Counted, RowsOf
  <2>3. \A i \in 1..Len(txs) : i \in Waiting(x) <=> i \in Waiting(x)'
    BY <1>1, <1>2, <1>3 DEF Waiting, RowsOf
  <2>4. PointsOf(txs', Counted(x)') = PointsOf(txs, Counted(x))
    BY <1>1, <2>2, SumOfMarked
  <2>5. PointsOf(txs', Waiting(x)') = PointsOf(txs, Waiting(x))
    BY <1>1, <2>3, SumOfMarked
  <2> QED BY <2>1, <2>4, <2>5
<1> QED BY <1>4, <1>5 DEF Balanced, BalanceIsLedger, PendingIsLedger, Waiting

\* Posted rows may expire, and a new row goes with the balance it belongs to.
LEMMA AppendingBalanced ==
  ASSUME Typed, Balanced, NEW rows, \A i \in rows : txs[i].status = "POSTED",
         NEW row \in Row, row.source # "reversal",
         \/ row.status = "POSTED"
         \/ row.status = "PENDING" /\ row.points >= 0 /\ row.source \in {"staff", "external"},
         txs' = Append(Marked(rows, "EXPIRED"), row),
         \A x \in Customers :
           /\ points'[x] = points[x] +
                IF row.cust = x /\ row.status = "POSTED" THEN row.points ELSE 0
           /\ pending'[x] = pending[x] +
                IF row.cust = x /\ row.status = "PENDING" THEN row.points ELSE 0
  PROVE  Balanced'
<1> DEFINE marked == Marked(rows, "EXPIRED")
           last == Len(txs) + 1
<1>1. /\ txs \in Seq(Row) /\ DOMAIN txs = 1..Len(txs) /\ Len(txs) \in Nat
      /\ "EXPIRED" \in Statuses
      /\ points \in [Customers -> Int] /\ pending \in [Customers -> Int]
  BY DEF Typed, TypeOK, Statuses
<1>2. row.cust \in Customers /\ row.points \in Int
  BY DEF Row
<1>3. marked \in Seq(Row) /\ Len(marked) = Len(txs)
  BY <1>1, MarkedRows
<1>4. /\ txs' \in Seq(Row) /\ DOMAIN txs' = 1..last /\ txs'[last] = row
      /\ \A i \in 1..Len(txs) : txs'[i] = marked[i]
  BY <1>1, <1>3, AppendedRow
<1>5. \A i \in 1..Len(txs) :
        /\ txs'[i].cust = txs[i].cust
        /\ txs'[i].source = txs[i].source
        /\ txs'[i].points = txs[i].points
        /\ txs'[i].status = IF i \in rows THEN "EXPIRED" ELSE txs[i].status
  BY <1>1, <1>4, MarkedFields
<1>6. HeldRows'
  <2>1. ASSUME NEW i \in 1..last, txs'[i].status = "PENDING"
        PROVE  txs'[i].points >= 0 /\ txs'[i].source \in {"staff", "external"}
    <3>1. CASE i = last
      BY <1>4, <2>1, <3>1
    <3>2. CASE i # last
      <4>1. i \in 1..Len(txs)
        BY <1>1, <3>2, EarlierRow
      <4> QED BY <1>1, <4>1, <1>5, <2>1 DEF Balanced, HeldRows
    <3> QED BY <3>1, <3>2
  <2> QED BY <1>4, <2>1 DEF HeldRows
<1>7. ASSUME NEW x \in Customers
      PROVE  points'[x] = PointsOf(txs', Counted(x)') /\ pending'[x] = PointsOf(txs', Waiting(x)')
  <2>1. /\ points[x] = PointsOf(txs, Counted(x)) /\ pending[x] = PointsOf(txs, Waiting(x))
        /\ points[x] \in Int /\ pending[x] \in Int
    BY <1>1 DEF Balanced, BalanceIsLedger, PendingIsLedger, Waiting
  <2>2. \A i \in 1..Len(txs) : i \in Counted(x) <=> i \in Counted(x)'
    BY <1>1, <1>4, <1>5 DEF Counted, RowsOf
  <2>3. \A i \in 1..Len(txs) : i \in Waiting(x) <=> i \in Waiting(x)'
    BY <1>1, <1>4, <1>5 DEF Waiting, RowsOf
  <2>4. last \in Counted(x)' <=> row.cust = x /\ row.status = "POSTED"
    BY <1>1, <1>4 DEF Counted, RowsOf
  <2>5. last \in Waiting(x)' <=> row.cust = x /\ row.status = "PENDING"
    BY <1>1, <1>4 DEF Waiting, RowsOf
  <2>6. PointsOf(txs', Counted(x)') =
          PointsOf(txs, Counted(x)) + IF last \in Counted(x)' THEN row.points ELSE 0
    BY <1>1, <2>2, SumOfMarkedAppended
  <2>7. PointsOf(txs', Waiting(x)') =
          PointsOf(txs, Waiting(x)) + IF last \in Waiting(x)' THEN row.points ELSE 0
    BY <1>1, <2>3, SumOfMarkedAppended
  <2>8. /\ points'[x] = points[x] +
             IF row.cust = x /\ row.status = "POSTED" THEN row.points ELSE 0
        /\ pending'[x] = pending[x] +
             IF row.cust = x /\ row.status = "PENDING" THEN row.points ELSE 0
    OBVIOUS
  <2> QED BY <2>1, <2>4, <2>5, <2>6, <2>7, <2>8
<1> QED BY <1>6, <1>7 DEF Balanced, BalanceIsLedger, PendingIsLedger, Waiting

\* Marking no row.
LEMMA MarkedNothing ==
  ASSUME txs \in Seq(Row), NEW status
  PROVE  Marked({}, status) = txs
BY DEF Marked

\* A reversal takes back row i: from the balance when it counted, from what
\* is held when it was waiting.
LEMMA ReversingBalanced ==
  ASSUME Typed, Balanced, NEW i \in DOMAIN txs, NEW effect \in Int, NEW q \in Requests,
         txs[i].source # "reversal", Reverse(i, effect, q),
         \/ /\ txs[i].status = "PENDING"
            /\ points' = points
            /\ pending' = [pending EXCEPT ![txs[i].cust] = Greatest(0, @ - txs[i].points)]
         \/ /\ txs[i].status \in {"POSTED", "EXPIRED"}
            /\ points' = [points EXCEPT ![txs[i].cust] = @ - txs[i].points]
            /\ pending' = pending
  PROVE  Balanced'
<1> DEFINE marked == Marked({i}, "REVERSED")
           row == [NewRow(txs[i].cust, "reversal", effect, "POSTED", q) EXCEPT !.orig = i]
           last == Len(txs) + 1
<1>1. /\ txs \in Seq(Row) /\ DOMAIN txs = 1..Len(txs) /\ Len(txs) \in Nat
      /\ "REVERSED" \in Statuses /\ day \in Nat
      /\ points \in [Customers -> Int] /\ pending \in [Customers -> Int]
  BY DEF Typed, TypeOK, Statuses
<1>2. txs[i] \in Row /\ txs[i].cust \in Customers /\ txs[i].points \in Int /\ i \in Nat
  <2>1. txs[i] \in Row /\ i \in Nat
    BY <1>1
  <2> QED BY <2>1 DEF Row
<1>3. NewRow(txs[i].cust, "reversal", effect, "POSTED", q) \in Row
  BY <1>1, <1>2, NewRowType DEF Sources, Statuses
<1>4. row \in Row /\ row.source = "reversal" /\ row.status = "POSTED"
  BY <1>2, <1>3 DEF Row, NewRow
<1>5. marked \in Seq(Row) /\ Len(marked) = Len(txs)
  BY <1>1, MarkedRows
<1>6. txs' = Append(marked, row)
  BY DEF Reverse
<1> HIDE DEF row, marked
<1>7. /\ txs' \in Seq(Row) /\ DOMAIN txs' = 1..last /\ txs'[last] = row
      /\ \A k \in 1..Len(txs) : txs'[k] = marked[k]
  <2>1. row \in Row
    BY <1>4
  <2>2. /\ txs' \in Seq(Row) /\ Len(txs') = Len(marked) + 1 /\ txs'[Len(marked) + 1] = row
        /\ \A k \in 1..Len(marked) : txs'[k] = marked[k]
    BY <1>5, <1>6, <2>1, AppendedRow
  <2>3. DOMAIN txs' = 1..Len(txs')
    BY <2>2
  <2> QED BY <1>5, <2>2, <2>3
<1>8. \A k \in 1..Len(txs) :
        /\ txs'[k].cust = txs[k].cust
        /\ txs'[k].source = txs[k].source
        /\ txs'[k].points = txs[k].points
        /\ txs'[k].status = IF k = i THEN "REVERSED" ELSE txs[k].status
  BY <1>1, <1>7, MarkedFields DEF marked
<1>9. HeldRows'
  <2>1. ASSUME NEW k \in 1..last, txs'[k].status = "PENDING"
        PROVE  txs'[k].points >= 0 /\ txs'[k].source \in {"staff", "external"}
    <3>1. CASE k = last
      BY <1>4, <1>7, <2>1, <3>1
    <3>2. CASE k # last
      <4>1. k \in 1..Len(txs)
        BY <1>1, <3>2, EarlierRow
      <4> QED BY <1>1, <4>1, <1>8, <2>1 DEF Balanced, HeldRows
    <3> QED BY <3>1, <3>2
  <2> QED BY <1>7, <2>1 DEF HeldRows
<1>10. ASSUME NEW A, NEW B, last \notin B, \A k \in 1..Len(txs) : k \in B <=> k \in A \ {i}
       PROVE  /\ PointsOf(txs', B) = PointsOf(txs, A \ {i})
              /\ i \in A => PointsOf(txs, A) = PointsOf(txs', B) + txs[i].points
              /\ i \notin A => PointsOf(txs, A) = PointsOf(txs', B)
              /\ PointsOf(txs', B) \in Int
  <2>1. PointsOf(txs', B) = PointsOf(txs, A \ {i}) + 0
    BY <1>1, <1>4, <1>6, <1>10, SumOfMarkedAppended DEF marked
  <2>2. PointsOf(txs, A \ {i}) \in Int
    BY <1>1, PointsOfType
  <2>3. PointsOf(txs, (A \ {i}) \cup {i}) = PointsOf(txs, A \ {i}) + PointsOf(txs, {i})
    BY <1>1, SumOfUnion, (A \ {i}) \cap {i} = {}
  <2>4. PointsOf(txs, {i}) = txs[i].points
    BY <1>1, SumOfOne
  <2>5. i \in A => (A \ {i}) \cup {i} = A
    OBVIOUS
  <2>6. i \notin A => A \ {i} = A
    OBVIOUS
  <2>7. PointsOf(txs', B) = PointsOf(txs, A \ {i})
    BY <2>1, <2>2
  <2>8. CASE i \in A
    BY <2>2, <2>3, <2>4, <2>5, <2>7, <2>8
  <2>9. CASE i \notin A
    BY <2>2, <2>6, <2>7, <2>9
  <2> QED BY <2>8, <2>9
<1>11. ASSUME NEW x \in Customers
       PROVE  points'[x] = PointsOf(txs', Counted(x)') /\ pending'[x] = PointsOf(txs', Waiting(x)')
  <2>1. /\ points[x] = PointsOf(txs, Counted(x)) /\ pending[x] = PointsOf(txs, Waiting(x))
        /\ points[x] \in Int /\ pending[x] \in Int
    BY <1>1 DEF Balanced, BalanceIsLedger, PendingIsLedger, Waiting
  <2>2. last \notin Counted(x)' /\ last \notin Waiting(x)'
    BY <1>4, <1>7 DEF Counted, Waiting, RowsOf
  <2>3. \A k \in 1..Len(txs) : k \in Counted(x)' <=> k \in Counted(x) \ {i}
    BY <1>1, <1>7, <1>8 DEF Counted, RowsOf
  <2>4. \A k \in 1..Len(txs) : k \in Waiting(x)' <=> k \in Waiting(x) \ {i}
    BY <1>1, <1>7, <1>8 DEF Waiting, RowsOf
  <2>5. /\ i \in Counted(x) => PointsOf(txs, Counted(x)) = PointsOf(txs', Counted(x)') + txs[i].points
        /\ i \notin Counted(x) => PointsOf(txs, Counted(x)) = PointsOf(txs', Counted(x)')
        /\ PointsOf(txs', Counted(x)') \in Int
    BY <1>10, <2>2, <2>3
  <2>6. /\ i \in Waiting(x) => PointsOf(txs, Waiting(x)) = PointsOf(txs', Waiting(x)') + txs[i].points
        /\ i \notin Waiting(x) => PointsOf(txs, Waiting(x)) = PointsOf(txs', Waiting(x)')
        /\ PointsOf(txs', Waiting(x)') \in Int
    BY <1>10, <2>2, <2>4
  <2>7. /\ i \in Counted(x) <=> x = txs[i].cust /\ txs[i].status \in {"POSTED", "EXPIRED"}
        /\ i \in Waiting(x) <=> x = txs[i].cust /\ txs[i].status = "PENDING"
    BY DEF Counted, Waiting, RowsOf
  <2>8. CASE txs[i].status = "PENDING"
    <3>1. PointsOf(txs', Waiting(x)') \in Nat
      <4>1. Waiting(x)' \subseteq DOMAIN txs' /\ \A k \in Waiting(x)' : txs'[k].points >= 0
        BY <1>9 DEF Waiting, RowsOf, HeldRows
      <4> QED BY <1>7, <4>1, SumNatural
    <3>2. /\ points' = points
          /\ pending' = [pending EXCEPT ![txs[i].cust] = Greatest(0, @ - txs[i].points)]
      BY <2>8
    <3>3. points'[x] = PointsOf(txs', Counted(x)')
      BY <2>1, <2>5, <2>7, <2>8, <3>2
    <3>4. pending'[x] = PointsOf(txs', Waiting(x)')
      <4>1. CASE x = txs[i].cust
        BY <1>1, <1>2, <2>1, <2>6, <2>7, <2>8, <3>1, <3>2, <4>1 DEF Greatest
      <4>2. CASE x # txs[i].cust
        BY <1>1, <2>1, <2>6, <2>7, <3>2, <4>2
      <4> QED BY <4>1, <4>2
    <3> QED BY <3>3, <3>4
  <2>9. CASE txs[i].status \in {"POSTED", "EXPIRED"}
    <3>1. /\ points' = [points EXCEPT ![txs[i].cust] = @ - txs[i].points]
          /\ pending' = pending
      BY <2>9
    <3>2. points'[x] = PointsOf(txs', Counted(x)')
      <4>1. CASE x = txs[i].cust
        BY <1>1, <1>2, <2>1, <2>5, <2>7, <2>9, <3>1, <4>1
      <4>2. CASE x # txs[i].cust
        BY <1>1, <2>1, <2>5, <2>7, <3>1, <4>2
      <4> QED BY <4>1, <4>2
    <3>3. pending'[x] = PointsOf(txs', Waiting(x)')
      BY <2>1, <2>6, <2>7, <2>9, <3>1
    <3> QED BY <3>2, <3>3
  <2> QED BY <2>8, <2>9
<1> QED BY <1>9, <1>11 DEF Balanced, BalanceIsLedger, PendingIsLedger, Waiting

\* Settlement and expiry keep the balances.
LEMMA UpkeepBalanced ==
  ASSUME Typed, Balanced, NEW w \in Workers, Upkeep(w)
  PROVE  Balanced'
<1>1. CASE SettlePending(w)
  BY <1>1, SettleBalanced
<1>2. CASE ExpireNothing(w) \/ UpkeepFails(w)
  BY <1>2 DEF ExpireNothing, UpkeepFails, balances, Balanced, HeldRows, BalanceIsLedger,
              PendingIsLedger, Counted, RowsOf
<1>3. CASE ExpirePoints(w)
  <2> DEFINE c == req[w].cust
             row == NewRow(c, "expire", -Deductible(c), "POSTED", None)
  <2>1. /\ c \in Customers /\ txs \in Seq(Row) /\ day \in Nat
        /\ points \in [Customers -> Int] /\ pending \in [Customers -> Int]
    BY <1>3 DEF Typed, TypeOK, JobsFit, JobFits, ExpirePoints
  <2>2. \A i \in Stale(c) : txs[i].status = "POSTED"
    BY DEF Stale
  <2>3. Deductible(c) \in Int
    BY <2>1, PointsOfType DEF Deductible, Least, Greatest
  <2>4. CASE Deductible(c) > 0
    <3>1. /\ points' = [points EXCEPT ![c] = @ - Deductible(c)]
          /\ txs' = Append(Marked(Stale(c), "EXPIRED"), row)
          /\ pending' = pending
      BY <1>3, <2>4 DEF ExpirePoints
    <3>2. row \in Row
      BY <2>1, <2>3, NewRowType DEF Sources, Statuses
    <3>3. /\ row.cust = c /\ row.source = "expire" /\ row.status = "POSTED"
          /\ row.points = -Deductible(c)
      BY DEF NewRow
    <3>4. \A x \in Customers :
           /\ points'[x] = points[x] +
                IF row.cust = x /\ row.status = "POSTED" THEN row.points ELSE 0
           /\ pending'[x] = pending[x] +
                IF row.cust = x /\ row.status = "PENDING" THEN row.points ELSE 0
      BY <2>1, <2>3, <3>1, <3>3
    <3> QED BY <2>2, <3>1, <3>2, <3>3, <3>4, AppendingBalanced
  <2>5. CASE ~(Deductible(c) > 0)
    <3>1. txs' = Marked(Stale(c), "EXPIRED") /\ UNCHANGED <<points, pending>>
      BY <1>3, <2>5 DEF ExpirePoints
    <3> QED BY <2>2, <3>1, ExpiringBalanced
  <2> QED BY <2>4, <2>5
<1> QED BY <1>1, <1>2, <1>3 DEF Upkeep

\* An award, held or not, keeps the balances.
LEMMA CreditBalanced ==
  ASSUME Typed, Balanced, NEW job \in Job, job.cust \in Customers,
         job.program \in Programs, NEW source \in {"staff", "external"}, Credit(job, source)
  PROVE  Balanced'
<1>1. /\ txs \in Seq(Row) /\ day \in Nat
      /\ points \in [Customers -> Int] /\ pending \in [Customers -> Int]
  BY DEF Typed, TypeOK
<1>2. job.program.hold \in Nat /\ job.points \in Nat
  BY ProgramAssumption DEF Job
<1> DEFINE status == IF Held(job) THEN "PENDING" ELSE "POSTED"
           plain == NewRow(job.cust, source, job.points, status, job.key)
           row == [plain EXCEPT !.qr = job.qr,
                                !.due = IF Held(job) THEN day + job.program.hold ELSE 0]
<1>3. plain \in Row
  BY <1>1, <1>2, NewRowType DEF Job, Sources, Statuses
<1>4. job.qr \in QrTokens \cup {None} /\ (IF Held(job) THEN day + job.program.hold ELSE 0) \in Nat
  BY <1>1, <1>2 DEF Job
<1>5. row \in Row
  BY <1>3, <1>4 DEF Row
<1>6. /\ row.cust = job.cust /\ row.source = source
      /\ row.status = status /\ row.points = job.points
  BY DEF NewRow
<1>7. txs' = Append(Marked({}, "EXPIRED"), row)
  BY <1>1, MarkedNothing DEF Credit
<1>8. \A x \in Customers :
       /\ points'[x] = points[x] +
            IF row.cust = x /\ row.status = "POSTED" THEN row.points ELSE 0
       /\ pending'[x] = pending[x] +
            IF row.cust = x /\ row.status = "PENDING" THEN row.points ELSE 0
  BY <1>1, <1>2, <1>6 DEF Credit, PostedPart, HeldPart
<1>9. row.source # "reversal" /\ row.points >= 0
  BY <1>2, <1>6
<1> HIDE DEF row
<1> QED BY <1>5, <1>6, <1>7, <1>8, <1>9, AppendingBalanced

\* A redemption keeps the balances.
LEMMA RedeemBalanced ==
  ASSUME Typed, Balanced, NEW c \in Customers, NEW r \in Rewards,
         txs' = Append(txs, NewRow(c, "redeem", -Cost[r], "POSTED", None)),
         points' = [points EXCEPT ![c] = @ - Cost[r]],
         pending' = pending
  PROVE  Balanced'
<1> DEFINE row == NewRow(c, "redeem", -Cost[r], "POSTED", None)
<1>1. /\ txs \in Seq(Row) /\ day \in Nat /\ Cost[r] \in Nat
      /\ points \in [Customers -> Int] /\ pending \in [Customers -> Int]
  BY CostAssumption DEF Typed, TypeOK
<1>2. row \in Row
  BY <1>1, NewRowType DEF Sources, Statuses
<1>3. /\ row.cust = c /\ row.source = "redeem" /\ row.status = "POSTED"
      /\ row.points = -Cost[r]
  BY DEF NewRow
<1>4. txs' = Append(Marked({}, "EXPIRED"), row)
  BY <1>1, MarkedNothing
<1>5. \A x \in Customers :
       /\ points'[x] = points[x] +
            IF row.cust = x /\ row.status = "POSTED" THEN row.points ELSE 0
       /\ pending'[x] = pending[x] +
            IF row.cust = x /\ row.status = "PENDING" THEN row.points ELSE 0
  BY <1>1, <1>3
<1> HIDE DEF row
<1> QED BY <1>2, <1>3, <1>4, <1>5, AppendingBalanced

\* Steps that leave the tables alone.
LEMMA SameTables ==
  ASSUME Balanced, UNCHANGED <<txs, points, pending>>
  PROVE  Balanced'
BY DEF Balanced, HeldRows, BalanceIsLedger, PendingIsLedger, Counted, RowsOf

\* The transaction of any request keeps the balances, when it is refused too.
LEMMA CommitBalanced ==
  ASSUME Typed, Balanced, NEW w \in Workers, Commit(w)
  PROVE  Balanced'
<1>1. req[w] \in Job /\ JobFits(req[w])
  BY DEF Typed, TypeOK, JobsFit
<1>2. CASE UNCHANGED <<txs, points, pending>>
  BY <1>2, SameTables
<1>3. CASE CommitAward(w) /\ Credit(req[w], "staff")
  <2>1. req[w].cust \in Customers /\ req[w].program \in Programs
    BY <1>1, <1>3 DEF CommitAward, JobFits
  <2> QED BY <1>1, <1>3, <2>1, CreditBalanced
<1>4. CASE CommitExternal(w) /\ Credit(req[w], "external")
  <2>1. req[w].cust \in Customers /\ req[w].program \in Programs
    BY <1>1, <1>4 DEF CommitExternal, JobFits
  <2> QED BY <1>1, <1>4, <2>1, CreditBalanced
<1>5. CASE CommitRedeem(w) /\ ~UNCHANGED <<txs, points, pending>>
  <2>1. req[w].cust \in Customers /\ req[w].reward \in Rewards
    BY <1>1, <1>5 DEF CommitRedeem, JobFits
  <2>2. /\ txs' = Append(txs, NewRow(req[w].cust, "redeem", -Cost[req[w].reward], "POSTED", None))
        /\ points' = [points EXCEPT ![req[w].cust] = @ - Cost[req[w].reward]]
        /\ pending' = pending
    BY <1>5 DEF CommitRedeem, Refuse, balances
  <2> QED BY <2>1, <2>2, RedeemBalanced
<1> QED BY <1>2, <1>3, <1>4, <1>5 DEF Commit, CheckAward, CommitAward, CommitExternal, Refuse, balances

\* A refund keeps the balances.
LEMMA RefundBalanced ==
  ASSUME Typed, Balanced, NEW w \in Workers, NEW q \in Requests, NEW i \in DOMAIN txs,
         Refund(w, q, i)
  PROVE  Balanced'
<1>1. txs \in Seq(Row) /\ points \in [Customers -> Int]
  BY DEF Typed, TypeOK
<1>2. txs[i].cust \in Customers /\ txs[i].points \in Int
  <2>1. txs[i] \in Row
    BY <1>1
  <2> QED BY <2>1 DEF Row
<1>3. CASE RefundAgain(w, q, i) \/ RefundRefused(w, q, i)
  BY <1>3, SameTables DEF RefundAgain, RefundRefused, Refuse, balances
<1>4. CASE RefundHeld(w, q, i)
  <2>1. /\ txs[i].source # "reversal" /\ Reverse(i, 0, q) /\ 0 \in Int
        /\ txs[i].status = "PENDING"
        /\ points' = points
        /\ pending' = [pending EXCEPT ![txs[i].cust] = Greatest(0, @ - txs[i].points)]
    BY <1>4 DEF RefundHeld
  <2> QED BY <2>1, ReversingBalanced
<1>5. CASE RefundPosted(w, q, i)
  <2>1. /\ txs[i].source # "reversal" /\ Reverse(i, -txs[i].points, q)
        /\ -txs[i].points \in Int
        /\ txs[i].status \in {"POSTED", "EXPIRED"}
        /\ points' = [points EXCEPT ![txs[i].cust] = @ + -txs[i].points]
        /\ pending' = pending
    BY <1>2, <1>5 DEF RefundPosted
  <2>2. points' = [points EXCEPT ![txs[i].cust] = @ - txs[i].points]
    BY <1>1, <1>2, <2>1
  <2> QED BY <2>1, <2>2, ReversingBalanced
<1> QED BY <1>3, <1>4, <1>5 DEF Refund

\* Empty tables are in balance.
LEMMA InitBalanced == Init => Balanced
<1> SUFFICES ASSUME Init PROVE Balanced
  OBVIOUS
<1>1. txs = <<>> /\ points = [c \in Customers |-> 0] /\ pending = [c \in Customers |-> 0]
  BY DEF Init
<1> QED BY <1>1, SumOfNone DEF Balanced, HeldRows, BalanceIsLedger, PendingIsLedger

\* No step brings the balances out of line.
LEMMA NextBalanced == Typed /\ Balanced /\ [Next]_vars => Balanced'
<1> SUFFICES ASSUME Typed, Balanced, [Next]_vars PROVE Balanced'
  OBVIOUS
<1>1. CASE \E w \in Workers : Arrive(w)
  BY <1>1, SameTables DEF Arrive, BeginAward, BeginRedeem, BeginExternal, BeginUpkeep, RefuseToken, Refuse,
                          Accept, balances
<1>2. CASE \E w \in Workers : Upkeep(w) \/ Commit(w)
  BY <1>2, UpkeepBalanced, CommitBalanced
<1>3. CASE \E w \in Workers, q \in Requests, i \in DOMAIN txs : Refund(w, q, i)
  BY <1>3, RefundBalanced
<1>4. CASE Crash \/ (\E p \in Programs : SetProgram(p)) \/ NextDay \/ UNCHANGED vars
  BY <1>4, SameTables DEF Crash, SetProgram, NextDay, vars, balances
<1> QED BY <1>1, <1>2, <1>3, <1>4 DEF Next

(* Conservation: in every reachable state of every instance, the spendable *)
(* balance is the sum of the posted and expired rows that are not          *)
(* reversals, whatever requests, retries, crashes and settings led there.  *)
THEOREM BalanceCorrect == Spec => []BalanceIsLedger
<1>1. Spec => [](Typed /\ Balanced)
  BY InitTyped, NextTyped, InitBalanced, NextBalanced, PTL DEF Spec
<1>2. Typed /\ Balanced => BalanceIsLedger
  BY DEF Balanced
<1> QED BY <1>1, <1>2, PTL

(* And pending_points is the sum of the held rows.                         *)
THEOREM PendingCorrect == Spec => []PendingIsLedger
<1>1. Spec => [](Typed /\ Balanced)
  BY InitTyped, NextTyped, InitBalanced, NextBalanced, PTL DEF Spec
<1>2. Typed /\ Balanced => PendingIsLedger
  BY DEF Balanced
<1> QED BY <1>1, <1>2, PTL

-----------------------------------------------------------------------------
(* No negative balance.                                                    *)

\* Settlement only adds, and expiry takes at most what there is.
LEMMA UpkeepNotNegative ==
  ASSUME Typed, Balanced, NEW w \in Workers, Upkeep(w),
         \A c \in Customers : points[c] >= 0
  PROVE  \A c \in Customers : points'[c] >= 0
<1>1. txs \in Seq(Row) /\ points \in [Customers -> Int]
  BY DEF Typed, TypeOK
<1>2. CASE SettlePending(w)
  <2>1. PointsOf(txs, Due(req[w].cust)) \in Nat
    BY <1>1, SumNatural DEF Due, Balanced, HeldRows
  <2>2. points' = [points EXCEPT ![req[w].cust] = @ + PointsOf(txs, Due(req[w].cust))]
    BY <1>2 DEF SettlePending
  <2> QED BY <1>1, <2>1, <2>2
<1>3. CASE ExpirePoints(w)
  <2> DEFINE c == req[w].cust
  <2>1. c \in Customers /\ points[c] \in Int
    BY <1>1, <1>3 DEF Typed, JobsFit, JobFits, ExpirePoints
  <2>2. PointsOf(txs, Stale(c)) \in Int
    BY <1>1, PointsOfType
  <2>3. Deductible(c) \in Int /\ points[c] - Deductible(c) >= 0
    BY <2>1, <2>2 DEF Deductible, Greatest, Least
  <2>4. points' = [points EXCEPT ![c] = @ - Deductible(c)] \/ points' = points
    BY <1>3 DEF ExpirePoints
  <2> QED BY <1>1, <2>3, <2>4
<1>4. CASE ExpireNothing(w) \/ UpkeepFails(w)
  BY <1>4 DEF ExpireNothing, UpkeepFails, balances
<1> QED BY <1>2, <1>3, <1>4 DEF Upkeep

\* A redemption takes only what there is.
LEMMA CommitNotNegative ==
  ASSUME Typed, NEW w \in Workers, Commit(w),
         \A c \in Customers : points[c] >= 0
  PROVE  \A c \in Customers : points'[c] >= 0
<1>1. /\ points \in [Customers -> Int] /\ req[w] \in Job /\ JobFits(req[w])
  BY DEF Typed, TypeOK, JobsFit
<1>2. CASE points' = points
  BY <1>2
<1>3. CASE points' = [points EXCEPT ![req[w].cust] = @ + PostedPart(req[w])]
  <2>1. PostedPart(req[w]) \in Nat
    BY <1>1 DEF PostedPart, Job
  <2> QED BY <1>1, <1>3, <2>1
<1>4. CASE /\ CommitRedeem(w)
           /\ points[req[w].cust] >= Cost[req[w].reward]
           /\ points' = [points EXCEPT ![req[w].cust] = @ - Cost[req[w].reward]]
  <2>1. req[w].cust \in Customers /\ Cost[req[w].reward] \in Nat
    BY <1>1, <1>4, CostAssumption DEF CommitRedeem, JobFits
  <2>2. points[req[w].cust] - Cost[req[w].reward] >= 0
    BY <1>1, <1>4, <2>1
  <2> QED BY <1>1, <1>4, <2>1, <2>2
<1> QED
  BY <1>2, <1>3, <1>4 DEF Commit, CheckAward, CommitAward, CommitExternal, CommitRedeem, Credit, Refuse, balances

\* A refund asks the policy before it takes.
LEMMA RefundNotNegative ==
  ASSUME Typed, NEW w \in Workers, NEW q \in Requests, NEW i \in DOMAIN txs,
         Refund(w, q, i), ~program.allowNegative, \A c \in Customers : points[c] >= 0
  PROVE  \A c \in Customers : points'[c] >= 0
<1>1. txs \in Seq(Row) /\ points \in [Customers -> Int]
  BY DEF Typed, TypeOK
<1>2. txs[i].cust \in Customers /\ txs[i].points \in Int
  <2>1. txs[i] \in Row
    BY <1>1
  <2> QED BY <2>1 DEF Row
<1>3. CASE points' = points
  BY <1>3
<1>4. CASE RefundPosted(w, q, i)
  <2>1. /\ points' = [points EXCEPT ![txs[i].cust] = @ + -txs[i].points]
        /\ points[txs[i].cust] - txs[i].points >= 0
    BY <1>4 DEF RefundPosted, RefundAllowed
  <2> QED BY <1>1, <1>2, <2>1
<1> QED
  BY <1>3, <1>4 DEF Refund, RefundAgain, RefundRefused, RefundHeld, Refuse, balances

\* No step makes a balance negative.
LEMMA NextNotNegative == Typed /\ Balanced /\ NeverNegative /\ [Next]_vars => NeverNegative'
<1> SUFFICES ASSUME Typed, Balanced, NeverNegative, [Next]_vars,
                    \A p \in Programs : ~p.allowNegative
             PROVE  \A c \in Customers : points'[c] >= 0
  BY DEF NeverNegative
<1>1. (\A c \in Customers : points[c] >= 0) /\ ~program.allowNegative
  BY DEF NeverNegative, Typed, TypeOK
<1>2. CASE \E w \in Workers : Upkeep(w) \/ Commit(w)
  BY <1>1, <1>2, UpkeepNotNegative, CommitNotNegative
<1>3. CASE \E w \in Workers, q \in Requests, i \in DOMAIN txs : Refund(w, q, i)
  BY <1>1, <1>3, RefundNotNegative
<1>4. CASE points' = points
  BY <1>1, <1>4
<1> QED
  BY <1>2, <1>3, <1>4 DEF Next, vars, balances, Crash, SetProgram, NextDay, Arrive, Accept,
                          BeginAward, BeginRedeem, BeginExternal, BeginUpkeep, RefuseToken, Refuse

(* Where the program does not allow it, no balance is ever negative.       *)
THEOREM NotNegative == Spec => []NeverNegative
<1>1. Init => NeverNegative
  BY DEF Init, NeverNegative
<1>2. Spec => [](Typed /\ Balanced /\ NeverNegative)
  BY <1>1, InitTyped, NextTyped, InitBalanced, NextBalanced, NextNotNegative, PTL DEF Spec
<1> QED BY <1>2, PTL

-----------------------------------------------------------------------------
(* What a step does to the rows: it may move their statuses forward, and   *)
(* it may add one row at the end.  lifetime_points follows the rows.       *)

Succeeds(new, old) ==
  \/ new = old
  \/ /\ <<old.status, new.status>> \in Forward
     /\ new = [old EXCEPT !.status = new.status]

\* Row i alone may become REVERSED, none if i is 0, and POSTED is what is due.
Successors(i) ==
  \A j \in DOMAIN txs :
    /\ Succeeds(txs'[j], txs[j])
    /\ txs'[j].status = "REVERSED" => txs[j].status = "REVERSED" \/ j = i
    /\ txs[j].status = "PENDING" /\ txs'[j].status = "POSTED" => txs[j].due <= day

Marking == Len(txs') = Len(txs) /\ Successors(0) /\ UNCHANGED <<usedQr, lifetime>>

Adding(row, i) ==
  /\ Len(txs') = Len(txs) + 1
  /\ txs'[Len(txs) + 1] = row
  /\ Successors(i)

NewKey(row) == \A j \in DOMAIN txs : txs[j].source = row.source => txs[j].key # row.key

\* An award earns its points at once, unless some program holds them.
Earning(row) ==
  /\ row.status # "REVERSED" /\ row.points \in Nat
  /\ row.status = "PENDING" => \E p \in Programs : p.hold > 0
  /\ row.status # "PENDING" => lifetime' = [lifetime EXCEPT ![row.cust] = @ + row.points]

AddsPlain(row) ==
  /\ Adding(row, 0)
  /\ row.source \in {"expire", "redeem"} /\ row.status = "POSTED" /\ row.points <= 0
  /\ UNCHANGED <<usedQr, lifetime>>

AddsStaff(row) ==
  /\ Adding(row, 0)
  /\ row.source = "staff" /\ Earning(row)
  /\ NewKey(row) /\ row.key \in TxIds
  /\ row.qr \notin usedQr /\ usedQr' = usedQr \cup {row.qr}

AddsExternal(row) ==
  /\ Adding(row, 0)
  /\ row.source = "external" /\ Earning(row)
  /\ NewKey(row) /\ row.key \in Events
  /\ UNCHANGED usedQr

AddsReversal(row) ==
  /\ row.orig \in DOMAIN txs
  /\ Adding(row, row.orig)
  /\ row.source = "reversal" /\ row.status = "POSTED"
  /\ NewKey(row) /\ row.key \in Requests /\ row.orig \in 1..MaxRows
  /\ txs[row.orig].source # "reversal"
  /\ txs[row.orig].status # "REVERSED" /\ txs'[row.orig].status = "REVERSED"
  /\ row.cust = txs[row.orig].cust /\ row.points \in {0, -txs[row.orig].points}
  /\ lifetime' \in {lifetime, [lifetime EXCEPT ![row.cust] =
                                 LifetimeAfter(row.cust, -txs[row.orig].points)]}
  /\ UNCHANGED usedQr

RowStep ==
  \/ Marking
  \/ \E row \in Row :
       AddsPlain(row) \/ AddsStaff(row) \/ AddsExternal(row) \/ AddsReversal(row)

\* Marking rows whose statuses may move that way leaves successors.
LEMMA MarkedSuccessors ==
  ASSUME txs \in Seq(Row), NEW rows, NEW status \in {"POSTED", "EXPIRED"},
         \A j \in DOMAIN txs : j \in rows =>
           /\ <<txs[j].status, status>> \in Forward
           /\ status = "POSTED" => txs[j].due <= day,
         NEW j \in DOMAIN txs
  PROVE  LET new == Marked(rows, status)[j]
         IN  /\ Succeeds(new, txs[j])
             /\ new.status = "REVERSED" => txs[j].status = "REVERSED"
             /\ txs[j].status = "PENDING" /\ new.status = "POSTED" => txs[j].due <= day
<1>1. txs[j] \in Row /\ j \in 1..Len(txs)
  OBVIOUS
<1>2. Marked(rows, status)[j] = IF j \in rows THEN [txs[j] EXCEPT !.status = status] ELSE txs[j]
  BY <1>1 DEF Marked
<1>3. [txs[j] EXCEPT !.status = status].status = status
  BY <1>1 DEF Row
<1> QED BY <1>2, <1>3 DEF Succeeds

\* The lookups by key: 0 is said only if there is no such row.
LEMMA NoSuchAward ==
  ASSUME txs \in Seq(Row), NEW t, AwardWith(t) = 0
  PROVE  \A j \in DOMAIN txs : txs[j].source = "staff" => txs[j].key # t
<1> SUFFICES ASSUME \E j \in DOMAIN txs : txs[j].source = "staff" /\ txs[j].key = t PROVE FALSE
  OBVIOUS
<1>1. AwardWith(t) = CHOOSE j \in DOMAIN txs : txs[j].source = "staff" /\ txs[j].key = t
  BY DEF AwardWith, RowWhere
<1>2. AwardWith(t) \in DOMAIN txs
  BY <1>1
<1> QED BY <1>2

LEMMA SuchAward ==
  ASSUME NEW t, AwardWith(t) # 0
  PROVE  AwardWith(t) \in RowsFrom("staff") /\ txs[AwardWith(t)].key = t
<1>1. \E j \in DOMAIN txs : txs[j].source = "staff" /\ txs[j].key = t
  BY DEF AwardWith, RowWhere
<1>2. AwardWith(t) = CHOOSE j \in DOMAIN txs : txs[j].source = "staff" /\ txs[j].key = t
  BY <1>1 DEF AwardWith, RowWhere
<1> QED BY <1>1, <1>2 DEF RowsFrom

LEMMA NoSuchExternal ==
  ASSUME txs \in Seq(Row), NEW e, ExternalWith(e) = 0
  PROVE  \A j \in DOMAIN txs : txs[j].source = "external" => txs[j].key # e
<1> SUFFICES ASSUME \E j \in DOMAIN txs : txs[j].source = "external" /\ txs[j].key = e PROVE FALSE
  OBVIOUS
<1>1. ExternalWith(e) = CHOOSE j \in DOMAIN txs : txs[j].source = "external" /\ txs[j].key = e
  BY DEF ExternalWith, RowWhere
<1>2. ExternalWith(e) \in DOMAIN txs
  BY <1>1
<1> QED BY <1>2

LEMMA NoSuchReversal ==
  ASSUME txs \in Seq(Row), NEW q, ReversalWith(q) = 0
  PROVE  \A j \in DOMAIN txs : txs[j].source = "reversal" => txs[j].key # q
<1> SUFFICES ASSUME \E j \in DOMAIN txs : txs[j].source = "reversal" /\ txs[j].key = q PROVE FALSE
  OBVIOUS
<1>1. ReversalWith(q) = CHOOSE j \in DOMAIN txs : txs[j].source = "reversal" /\ txs[j].key = q
  BY DEF ReversalWith, RowWhere
<1>2. ReversalWith(q) \in DOMAIN txs
  BY <1>1
<1> QED BY <1>2

\* An unchanged table.
LEMMA SameRows ==
  ASSUME Typed, txs' = txs, usedQr' = usedQr, lifetime' = lifetime
  PROVE  Marking
BY DEF Marking, Successors, Succeeds

\* A row added to the table as it is.
LEMMA AppendedRows ==
  ASSUME txs \in Seq(Row), NEW row \in Row, txs' = Append(txs, row)
  PROVE  Adding(row, 0)
<1>1. /\ Len(txs') = Len(txs) + 1 /\ txs'[Len(txs) + 1] = row
      /\ \A j \in 1..Len(txs) : txs'[j] = txs[j]
  BY AppendedRow
<1> QED BY <1>1 DEF Adding, Successors, Succeeds

LEMMA UpkeepRows ==
  ASSUME Typed, NEW w \in Workers, Upkeep(w)
  PROVE  Marking \/ \E row \in Row : AddsPlain(row)
<1> DEFINE c == req[w].cust
<1>1. txs \in Seq(Row) /\ points \in [Customers -> Int] /\ day \in Nat
  BY DEF Typed, TypeOK
<1>2. CASE SettlePending(w)
  <2>1. txs' = Marked(Due(c), "POSTED") /\ usedQr' = usedQr /\ lifetime' = lifetime
    BY <1>2 DEF SettlePending
  <2>2. \A j \in DOMAIN txs : j \in Due(c) =>
               <<txs[j].status, "POSTED">> \in Forward /\ txs[j].due <= day
    BY DEF Due, Forward
  <2>3. Len(txs') = Len(txs)
    BY <1>1, <2>1, MarkedRows DEF Statuses
  <2>4. Successors(0)
    BY <1>1, <2>1, <2>2, MarkedSuccessors DEF Successors
  <2> QED BY <2>1, <2>3, <2>4 DEF Marking
<1>3. CASE ExpirePoints(w)
  <2> DEFINE marked == Marked(Stale(c), "EXPIRED")
             row == NewRow(c, "expire", -Deductible(c), "POSTED", None)
  <2>1. c \in Customers
    BY <1>3 DEF ExpirePoints, Typed, JobsFit, JobFits
  <2>2. Deductible(c) \in Int /\ -Deductible(c) <= 0
    BY <1>1, <2>1, PointsOfType DEF Deductible, Least, Greatest
  <2>3. row \in Row /\ row.source = "expire" /\ row.status = "POSTED" /\ row.points <= 0
    BY <1>1, <2>1, <2>2, NewRowType DEF Sources, Statuses, NewRow
  <2>4. \A j \in DOMAIN txs : j \in Stale(c) => <<txs[j].status, "EXPIRED">> \in Forward
    BY DEF Stale, Forward
  <2>5. marked \in Seq(Row) /\ Len(marked) = Len(txs)
    BY <1>1, MarkedRows DEF Statuses
  <2>6. \A j \in DOMAIN txs : /\ Succeeds(marked[j], txs[j])
                              /\ marked[j].status = "REVERSED" => txs[j].status = "REVERSED"
                              /\ txs[j].status = "PENDING" => marked[j].status # "POSTED"
                                                               \/ txs[j].due <= day
    BY <1>1, <2>4, MarkedSuccessors
  <2>7. /\ txs' = marked \/ txs' = Append(marked, row)
        /\ usedQr' = usedQr /\ lifetime' = lifetime
    BY <1>3 DEF ExpirePoints
  <2> HIDE DEF marked, row
  <2>8. CASE txs' = marked
    BY <2>5, <2>6, <2>7, <2>8 DEF Marking, Successors
  <2>9. CASE txs' = Append(marked, row)
    <3>1. /\ Len(txs') = Len(marked) + 1 /\ txs'[Len(marked) + 1] = row
          /\ \A j \in 1..Len(marked) : txs'[j] = marked[j]
      BY <2>3, <2>5, <2>9, AppendedRow
    <3>2. Adding(row, 0)
      BY <1>1, <2>5, <2>6, <3>1 DEF Adding, Successors
    <3> QED BY <2>3, <2>7, <3>2 DEF AddsPlain
  <2> QED BY <2>7, <2>8, <2>9
<1>4. CASE ExpireNothing(w) \/ UpkeepFails(w)
  BY <1>4, SameRows DEF ExpireNothing, UpkeepFails, balances
<1> QED BY <1>2, <1>3, <1>4 DEF Upkeep

\* The row of an award.
LEMMA CreditRows ==
  ASSUME Typed, NEW job \in Job, job.cust \in Customers, job.program \in Programs,
         NEW source \in Sources, Credit(job, source)
  PROVE  \E row \in Row :
           /\ Adding(row, 0)
           /\ row.source = source /\ row.key = job.key /\ row.qr = job.qr
           /\ Earning(row)
<1>1. txs \in Seq(Row) /\ day \in Nat
  BY DEF Typed, TypeOK
<1>2. job.program.hold \in Nat /\ job.points \in Nat
  BY ProgramAssumption DEF Job
<1> DEFINE plain == NewRow(job.cust, source, job.points,
                           IF Held(job) THEN "PENDING" ELSE "POSTED", job.key)
           row == [plain EXCEPT !.qr = job.qr,
                                !.due = IF Held(job) THEN day + job.program.hold ELSE 0]
<1>3. plain \in Row
  BY <1>1, <1>2, NewRowType DEF Job, Statuses
<1>4. job.qr \in QrTokens \cup {None} /\ (IF Held(job) THEN day + job.program.hold ELSE 0) \in Nat
  BY <1>1, <1>2 DEF Job
<1>5. row \in Row
  BY <1>3, <1>4 DEF Row
<1>6. row.source = source /\ row.key = job.key /\ row.qr = job.qr
  BY <1>3 DEF NewRow, Row
<1>7. txs' = Append(txs, row)
  BY DEF Credit
<1>8. Earning(row)
  <2>1. /\ row.status = IF Held(job) THEN "PENDING" ELSE "POSTED"
        /\ row.points = job.points /\ row.cust = job.cust
    BY <1>3 DEF NewRow, Row
  <2>2. lifetime' = [lifetime EXCEPT ![job.cust] = @ + PostedPart(job)]
    BY DEF Credit
  <2>3. Held(job) => job.program.hold > 0
    BY DEF Held
  <2> HIDE DEF row
  <2> QED BY <1>2, <2>1, <2>2, <2>3 DEF Earning, PostedPart
<1> HIDE DEF row
<1> QED BY <1>1, <1>5, <1>6, <1>7, <1>8, AppendedRows

LEMMA CommitRows ==
  ASSUME Typed, NEW w \in Workers, Commit(w)
  PROVE  RowStep
<1>1. /\ req[w] \in Job /\ JobFits(req[w]) /\ txs \in Seq(Row) /\ day \in Nat
      /\ points \in [Customers -> Int]
  BY DEF Typed, TypeOK, JobsFit
<1>2. CASE txs' = txs /\ usedQr' = usedQr /\ lifetime' = lifetime
  BY <1>2, SameRows DEF RowStep
<1>3. CASE /\ CommitAward(w) /\ AwardWith(req[w].key) = 0 /\ req[w].qr \notin usedQr
           /\ BurnQr(req[w].qr) /\ Credit(req[w], "staff")
  <2>1. PICK row \in Row :
          /\ Adding(row, 0)
          /\ row.source = "staff" /\ row.key = req[w].key /\ row.qr = req[w].qr
          /\ Earning(row)
    BY <1>1, <1>3, CreditRows DEF CommitAward, JobFits, Sources
  <2>2. NewKey(row) /\ row.key \in TxIds
    BY <1>1, <1>3, <2>1, NoSuchAward DEF NewKey, CommitAward, JobFits
  <2> QED BY <1>3, <2>1, <2>2 DEF RowStep, AddsStaff, BurnQr
<1>4. CASE /\ CommitExternal(w) /\ ExternalWith(req[w].key) = 0
           /\ Credit(req[w], "external") /\ usedQr' = usedQr
  <2>1. PICK row \in Row :
          /\ Adding(row, 0)
          /\ row.source = "external" /\ row.key = req[w].key /\ Earning(row)
    BY <1>1, <1>4, CreditRows DEF CommitExternal, JobFits, Sources
  <2>2. NewKey(row) /\ row.key \in Events
    BY <1>1, <1>4, <2>1, NoSuchExternal DEF NewKey, CommitExternal, JobFits
  <2> QED BY <1>4, <2>1, <2>2 DEF RowStep, AddsExternal
<1>5. CASE /\ CommitRedeem(w) /\ usedQr' = usedQr /\ lifetime' = lifetime
           /\ txs' = Append(txs, NewRow(req[w].cust, "redeem", -Cost[req[w].reward], "POSTED", None))
  <2> DEFINE row == NewRow(req[w].cust, "redeem", -Cost[req[w].reward], "POSTED", None)
  <2>1. /\ req[w].cust \in Customers
        /\ -Cost[req[w].reward] \in Int /\ -Cost[req[w].reward] <= 0
    BY <1>1, <1>5, CostAssumption DEF CommitRedeem, JobFits
  <2>2. row \in Row /\ row.source = "redeem" /\ row.status = "POSTED" /\ row.points <= 0
    BY <1>1, <2>1, NewRowType DEF Sources, Statuses, NewRow
  <2> HIDE DEF row
  <2> QED BY <1>1, <1>5, <2>2, AppendedRows DEF RowStep, AddsPlain, row
<1> QED
  BY <1>2, <1>3, <1>4, <1>5 DEF Commit, CheckAward, CommitAward, CommitExternal, CommitRedeem, Refuse, balances

LEMMA ReverseRows ==
  ASSUME Typed, NEW i \in DOMAIN txs, NEW effect \in {0, -txs[i].points}, NEW q \in Requests,
         Reverse(i, effect, q), ReversalWith(q) = 0, txs[i].status # "REVERSED",
         txs[i].source # "reversal", usedQr' = usedQr,
         lifetime' \in {lifetime, [lifetime EXCEPT ![txs[i].cust] =
                                      LifetimeAfter(txs[i].cust, -txs[i].points)]}
  PROVE  RowStep
<1>1. txs \in Seq(Row) /\ day \in Nat
  BY DEF Typed, TypeOK
<1>2. txs[i] \in Row /\ i \in Nat /\ i \in 1..Len(txs)
  BY <1>1
<1>3. txs[i].cust \in Customers /\ txs[i].points \in Int /\ effect \in Int
      /\ txs[i].status \in Statuses
  BY <1>2 DEF Row
<1> DEFINE plain == NewRow(txs[i].cust, "reversal", effect, "POSTED", q)
           row == [plain EXCEPT !.orig = i]
           marked == Marked({i}, "REVERSED")
<1>4. plain \in Row
  BY <1>1, <1>3, NewRowType DEF Sources, Statuses
<1>5. row \in Row
  BY <1>2, <1>4 DEF Row
<1>6. /\ row.source = "reversal" /\ row.status = "POSTED" /\ row.key = q /\ row.orig = i
      /\ row.cust = txs[i].cust /\ row.points = effect
  BY <1>4 DEF NewRow, Row
<1>7. txs' = Append(marked, row)
  BY DEF Reverse
<1>8. /\ marked \in Seq(Row) /\ Len(marked) = Len(txs)
      /\ \A j \in 1..Len(txs) : marked[j] = IF j \in {i} THEN [txs[j] EXCEPT !.status = "REVERSED"]
                                            ELSE txs[j]
  BY <1>1, MarkedRows DEF Statuses
<1> HIDE DEF row, marked
<1>9. /\ Len(txs') = Len(txs) + 1 /\ txs'[Len(txs) + 1] = row
      /\ \A j \in 1..Len(txs) : txs'[j] = marked[j]
  BY <1>5, <1>7, <1>8, AppendedRow
<1>10. [txs[i] EXCEPT !.status = "REVERSED"].status = "REVERSED"
  BY <1>2 DEF Row
<1>11. <<txs[i].status, "REVERSED">> \in Forward
  BY <1>3 DEF Forward, Statuses
<1>12. Successors(i) /\ txs'[i].status = "REVERSED"
  <2>1. txs'[i] = [txs[i] EXCEPT !.status = "REVERSED"]
    BY <1>2, <1>8, <1>9
  <2>2. Succeeds(txs'[i], txs[i]) /\ txs'[i].status = "REVERSED"
    BY <1>10, <1>11, <2>1 DEF Succeeds
  <2>3. ASSUME NEW j \in DOMAIN txs, j # i PROVE txs'[j] = txs[j]
    <3>1. j \in 1..Len(txs)
      BY <1>1
    <3>2. txs'[j] = marked[j] /\ j \notin {i}
      BY <1>9, <2>3, <3>1
    <3> QED BY <1>8, <3>1, <3>2
  <2> QED BY <2>2, <2>3 DEF Successors, Succeeds
<1>13. NewKey(row) /\ row.key \in Requests /\ row.orig \in 1..MaxRows
  <2>1. i \in 1..MaxRows
    BY <1>1, <1>2, BoundAssumption DEF Reverse
  <2> QED BY <1>1, <1>6, <2>1, NoSuchReversal DEF NewKey
<1> QED BY <1>2, <1>5, <1>6, <1>9, <1>12, <1>13 DEF RowStep, AddsReversal, Adding

LEMMA NextRows == Typed /\ [Next]_vars => RowStep
<1> SUFFICES ASSUME Typed, [Next]_vars PROVE RowStep
  OBVIOUS
<1>1. CASE txs' = txs /\ usedQr' = usedQr /\ lifetime' = lifetime
  BY <1>1, SameRows DEF RowStep
<1>2. CASE \E w \in Workers : Upkeep(w) \/ Commit(w)
  BY <1>2, UpkeepRows, CommitRows DEF RowStep
<1>3. CASE \E w \in Workers, q \in Requests, i \in DOMAIN txs :
             RefundHeld(w, q, i) \/ RefundPosted(w, q, i)
  BY <1>3, ReverseRows DEF RefundHeld, RefundPosted
<1> QED
  BY <1>1, <1>2, <1>3 DEF Next, vars, balances, Crash, SetProgram, NextDay, Arrive, Accept,
     BeginAward, BeginRedeem, BeginExternal, BeginUpkeep, RefuseToken, Refund, RefundAgain, RefundRefused, Refuse

-----------------------------------------------------------------------------
(* The rows before and after a step.                                       *)

\* Nothing of a row but its status changes.
LEMMA Identity ==
  ASSUME Typed, NEW j \in DOMAIN txs, Succeeds(txs'[j], txs[j])
  PROVE  /\ txs'[j].source = txs[j].source /\ txs'[j].key = txs[j].key
         /\ txs'[j].qr = txs[j].qr /\ txs'[j].orig = txs[j].orig
         /\ txs'[j].cust = txs[j].cust /\ txs'[j].points = txs[j].points
<1>1. txs[j] \in Row
  BY DEF Typed, TypeOK
<1> QED BY <1>1 DEF Succeeds, Row

\* A table that grows by a row.
LEMMA Grown ==
  ASSUME Typed, Typed', NEW row, NEW i, Adding(row, i)
  PROVE  /\ DOMAIN txs' = DOMAIN txs \cup {Len(txs) + 1}
         /\ Len(txs) + 1 \notin DOMAIN txs
         /\ \A j \in DOMAIN txs : j \in Nat \ {0} /\ j < Len(txs) + 1
         /\ txs'[Len(txs) + 1] = row
         /\ \A j \in DOMAIN txs : Succeeds(txs'[j], txs[j])
<1>1. txs \in Seq(Row) /\ txs' \in Seq(Row)
  BY DEF Typed, TypeOK
<1>2. DOMAIN txs = 1..Len(txs) /\ DOMAIN txs' = 1..Len(txs') /\ Len(txs) \in Nat
  BY <1>1
<1> QED BY <1>2 DEF Adding, Successors

\* A table whose rows are marked at most.
LEMMA SameSize ==
  ASSUME Typed, Typed', Marking
  PROVE  DOMAIN txs' = DOMAIN txs /\ \A j \in DOMAIN txs : Succeeds(txs'[j], txs[j])
<1>1. txs \in Seq(Row) /\ txs' \in Seq(Row)
  BY DEF Typed, TypeOK
<1> QED BY <1>1 DEF Marking, Successors

LEMMA AllSucceed ==
  ASSUME Typed, Typed', RowStep
  PROVE  /\ DOMAIN txs \subseteq DOMAIN txs'
         /\ \A j \in DOMAIN txs :
              /\ Succeeds(txs'[j], txs[j])
              /\ txs[j].status = "PENDING" /\ txs'[j].status = "POSTED" => txs[j].due <= day
<1>1. CASE Marking
  BY <1>1, SameSize DEF Marking, Successors
<1>2. ASSUME NEW row \in Row, NEW i, Adding(row, i)
      PROVE  /\ DOMAIN txs \subseteq DOMAIN txs'
             /\ \A j \in DOMAIN txs :
                  /\ Succeeds(txs'[j], txs[j])
                  /\ txs[j].status = "PENDING" /\ txs'[j].status = "POSTED" => txs[j].due <= day
  BY <1>2, Grown DEF Adding, Successors
<1> QED
  BY <1>1, <1>2 DEF RowStep, AddsPlain, AddsStaff, AddsExternal, AddsReversal

(* The table is append-only, and a row that becomes REVERSED stays so.     *)
THEOREM AppendOnlyCorrect == Spec => AppendOnly
<1>1. Typed /\ Typed' /\ RowStep =>
        /\ DOMAIN txs \subseteq DOMAIN txs'
        /\ \A i \in DOMAIN txs :
             \/ txs'[i] = txs[i]
             \/ /\ <<txs[i].status, txs'[i].status>> \in Forward
                /\ txs'[i] = [txs[i] EXCEPT !.status = txs'[i].status]
  BY AllSucceed DEF Succeeds
<1>2. Spec => []Typed /\ [][Next]_vars
  BY InitTyped, NextTyped, PTL DEF Spec
<1> QED BY <1>1, <1>2, NextTyped, NextRows, PTL DEF AppendOnly

(* No held row is posted before its day.                                   *)
THEOREM HeldUntilDueCorrect == Spec => HeldUntilDue
<1>1. Typed /\ Typed' /\ RowStep =>
        \A i \in DOMAIN txs :
          txs[i].status = "PENDING" /\ txs'[i].status = "POSTED" => txs[i].due <= day
  BY AllSucceed
<1>2. Spec => []Typed /\ [][Next]_vars
  BY InitTyped, NextTyped, PTL DEF Spec
<1> QED BY <1>1, <1>2, NextTyped, NextRows, PTL DEF HeldUntilDue

-----------------------------------------------------------------------------
(* Once only.                                                              *)

\* The rows of a source, after a step.
LEMMA RowsFromAfter ==
  ASSUME Typed, Typed', NEW source,
         NEW row, NEW i, Adding(row, i)
  PROVE  /\ RowsFrom(source) \subseteq DOMAIN txs
         /\ \A j \in RowsFrom(source)' :
              (j \in RowsFrom(source)) \/ (j = Len(txs) + 1 /\ row.source = source)
         /\ \A j \in RowsFrom(source) : j \in RowsFrom(source)'
         /\ row.source = source => Len(txs) + 1 \in RowsFrom(source)'
<1>1. \A j \in DOMAIN txs : txs'[j].source = txs[j].source
  BY Grown, Identity
<1> QED BY <1>1, Grown DEF RowsFrom

LEMMA RowsFromMarked ==
  ASSUME Typed, Typed', NEW source, Marking
  PROVE  RowsFrom(source)' = RowsFrom(source)
<1>1. \A j \in DOMAIN txs : txs'[j].source = txs[j].source
  BY SameSize, Identity
<1> QED BY <1>1, SameSize DEF RowsFrom

LEMMA KeysStayDistinct ==
  ASSUME Typed, Typed', RowStep, NEW source \in {"staff", "external", "reversal"},
         \A i, k \in RowsFrom(source) : txs[i].key = txs[k].key => i = k
  PROVE  \A i, k \in RowsFrom(source)' : txs'[i].key = txs'[k].key => i = k
<1>1. CASE Marking
  <2>1. \A j \in DOMAIN txs : txs'[j].key = txs[j].key
    BY <1>1, SameSize, Identity
  <2>2. RowsFrom(source) \subseteq DOMAIN txs
    BY DEF RowsFrom
  <2> QED BY <1>1, <2>1, <2>2, RowsFromMarked
<1>2. ASSUME NEW row \in Row, NEW n, Adding(row, n), row.source = source => NewKey(row)
      PROVE  \A i, k \in RowsFrom(source)' : txs'[i].key = txs'[k].key => i = k
  <2>1. \A j \in DOMAIN txs : txs'[j].key = txs[j].key
    BY <1>2, Grown, Identity
  <2>2. \A j \in RowsFrom(source)' :
          (j \in RowsFrom(source)) \/ (j = Len(txs) + 1 /\ row.source = source)
    BY <1>2, RowsFromAfter
  <2>3. \A j \in RowsFrom(source) : j \in DOMAIN txs /\ txs[j].source = source
    BY DEF RowsFrom
  <2>4. txs'[Len(txs) + 1] = row
    BY <1>2, Grown
  <2>5. row.source = source => \A j \in RowsFrom(source) : txs[j].key # row.key
    BY <1>2, <2>3 DEF NewKey
  <2> QED BY <2>1, <2>2, <2>3, <2>4, <2>5
<1> QED
  BY <1>1, <1>2 DEF RowStep, AddsPlain, AddsStaff, AddsExternal, AddsReversal

\* What the lookups, the tokens and the reversals together guarantee.
Once ==
  /\ \A s \in {"staff", "external", "reversal"} :
       \A i, k \in RowsFrom(s) : txs[i].key = txs[k].key => i = k
  /\ \A i, k \in RowsFrom("staff") : txs[i].qr = txs[k].qr => i = k
  /\ QrBurntByAward

LEMMA RowStepOnce ==
  ASSUME Typed, Typed', RowStep, Once
  PROVE  Once'
<1>1. ASSUME NEW s \in {"staff", "external", "reversal"}
      PROVE  \A i, k \in RowsFrom(s)' : txs'[i].key = txs'[k].key => i = k
  BY KeysStayDistinct DEF Once
<1>2. \A j \in RowsFrom("staff") : j \in DOMAIN txs
  BY DEF RowsFrom
<1>3. CASE RowsFrom("staff")' = RowsFrom("staff") /\ usedQr' = usedQr
           /\ \A j \in DOMAIN txs : txs'[j].qr = txs[j].qr
  <2>1. \A i, k \in RowsFrom("staff")' : txs'[i].qr = txs'[k].qr => i = k
    BY <1>2, <1>3 DEF Once
  <2>2. QrBurntByAward'
    BY <1>2, <1>3 DEF Once, QrBurntByAward
  <2> QED BY <1>1, <2>1, <2>2 DEF Once
<1>4. CASE Marking
  BY <1>3, <1>4, SameSize, Identity, RowsFromMarked DEF Marking
<1>5. ASSUME NEW row \in Row, NEW i, Adding(row, i), row.source # "staff", usedQr' = usedQr
      PROVE  Once'
  <2>1. RowsFrom("staff")' = RowsFrom("staff")
    BY <1>5, RowsFromAfter
  <2>2. \A j \in DOMAIN txs : txs'[j].qr = txs[j].qr
    BY <1>5, Grown, Identity
  <2> QED BY <1>3, <1>5, <2>1, <2>2
<1>6. ASSUME NEW row \in Row, AddsStaff(row) PROVE Once'
  <2>1. Adding(row, 0) /\ row.source = "staff" /\ row.qr \notin usedQr
        /\ usedQr' = usedQr \cup {row.qr}
    BY <1>6 DEF AddsStaff
  <2>2. /\ \A j \in RowsFrom("staff")' : j \in RowsFrom("staff") \/ j = Len(txs) + 1
        /\ RowsFrom("staff") \subseteq RowsFrom("staff")' /\ Len(txs) + 1 \in RowsFrom("staff")'
    BY <2>1, RowsFromAfter
  <2>3. \A j \in RowsFrom("staff") : txs'[j].qr = txs[j].qr
    BY <1>2, <2>1, Grown, Identity
  <2>4. txs'[Len(txs) + 1].qr = row.qr
    BY <2>1, Grown
  <2>5. \A j \in RowsFrom("staff") : txs[j].qr # row.qr
    BY <2>1 DEF Once, QrBurntByAward
  <2>6. \A i, k \in RowsFrom("staff")' : txs'[i].qr = txs'[k].qr => i = k
    BY <2>2, <2>3, <2>4, <2>5 DEF Once
  <2>7. QrBurntByAward'
    BY <2>1, <2>2, <2>3, <2>4 DEF Once, QrBurntByAward
  <2> QED BY <1>1, <2>6, <2>7 DEF Once
<1> QED
  BY <1>4, <1>5, <1>6 DEF RowStep, AddsPlain, AddsExternal, AddsReversal

\* Redemptions are told apart by their requestIds.
RedeemedOnce ==
  \A i, k \in DOMAIN redemptions : redemptions[i].key = redemptions[k].key => i = k

LEMMA NextRedeemedOnce ==
  ASSUME Typed, Typed', RedeemedOnce, [Next]_vars
  PROVE  RedeemedOnce'
<1>1. CASE redemptions' = redemptions
  BY <1>1 DEF RedeemedOnce
<1>2. ASSUME NEW w \in Workers, CommitRedeem(w), redemptions' # redemptions
      PROVE  RedeemedOnce'
  <2> DEFINE entry == [cust |-> req[w].cust, reward |-> req[w].reward, key |-> req[w].key,
                       made |-> day, balance |-> points[req[w].cust] - Cost[req[w].reward]]
  <2>1. redemptions' = Append(redemptions, entry) /\ RedemptionsWith(req[w].key) = {}
    BY <1>2 DEF CommitRedeem, Refuse
  <2>2. \A i \in DOMAIN redemptions : redemptions[i].key # req[w].key
    BY <2>1 DEF RedemptionsWith, RedemptionsWhere
  <2>3. redemptions \in Seq(Redemption) /\ redemptions' \in Seq(Redemption)
    BY DEF Typed, TypeOK
  <2>4. entry.key = req[w].key
    OBVIOUS
  <2> HIDE DEF entry
  <2>5. /\ DOMAIN redemptions = 1..Len(redemptions) /\ Len(redemptions) \in Nat
        /\ DOMAIN redemptions' = 1..(Len(redemptions) + 1)
        /\ redemptions'[Len(redemptions) + 1] = entry
        /\ \A i \in DOMAIN redemptions : redemptions'[i] = redemptions[i]
    BY <2>1, <2>3
  <2>6. \A i \in DOMAIN redemptions' : i \in DOMAIN redemptions \/ i = Len(redemptions) + 1
    BY <2>5
  <2> QED BY <2>2, <2>4, <2>5, <2>6 DEF RedeemedOnce
<1> QED
  BY <1>1, <1>2 DEF Next, vars, balances, Crash, SetProgram, NextDay, Arrive, Accept,
     BeginAward, BeginRedeem, BeginExternal, BeginUpkeep, RefuseToken, Refund, RefundAgain, RefundRefused,
     RefundHeld, RefundPosted, Refuse, Upkeep, SettlePending, ExpireNothing, ExpirePoints,
     UpkeepFails, Commit, CheckAward, CommitAward, CommitExternal

LEMMA InitOnce == Init => Once /\ RedeemedOnce
BY DEF Init, Once, RowsFrom, QrBurntByAward, RedeemedOnce

LEMMA NextOnce == Typed /\ Once /\ RedeemedOnce /\ [Next]_vars => Once' /\ RedeemedOnce'
BY NextTyped, NextRows, RowStepOnce, NextRedeemedOnce

LEMMA EachOnce == Once /\ RedeemedOnce => TakesEffectOnce
BY DEF Once, RedeemedOnce, TakesEffectOnce, DistinctRows

(* Idempotency, for any number of clients that repeat and interleave their *)
(* requests: no txId, token, event or requestId takes effect twice.        *)
THEOREM TakesEffectOnceCorrect == Spec => []TakesEffectOnce
<1>1. Spec => [](Typed /\ Once /\ RedeemedOnce)
  BY InitTyped, NextTyped, InitOnce, NextOnce, PTL DEF Spec
<1> QED BY <1>1, EachOnce, PTL

(* The burnt tokens are those of the awards.                               *)
THEOREM QrBurntCorrect == Spec => []QrBurntByAward
<1>1. Spec => [](Typed /\ Once /\ RedeemedOnce)
  BY InitTyped, NextTyped, InitOnce, NextOnce, PTL DEF Spec
<1>2. Once => QrBurntByAward
  BY DEF Once
<1> QED BY <1>1, <1>2, PTL

-----------------------------------------------------------------------------
(* Reversed rows and their reversals.                                      *)

\* A row of the table is typed, and a reversed one stays reversed.
LEMMA StaysReversed ==
  ASSUME Typed, NEW j \in DOMAIN txs, Succeeds(txs'[j], txs[j]), txs[j].status = "REVERSED"
  PROVE  txs'[j].status = "REVERSED"
BY DEF Succeeds, Forward

LEMMA MarkedPairs ==
  ASSUME Typed, Typed', Marking, ReversalsPairUp
  PROVE  ReversalsPairUp'
<1>1. RowsFrom("reversal")' = RowsFrom("reversal") /\ DOMAIN txs' = DOMAIN txs
  BY RowsFromMarked, SameSize
<1>2. \A j \in DOMAIN txs :
         /\ txs'[j].orig = txs[j].orig /\ txs'[j].cust = txs[j].cust
         /\ txs'[j].points = txs[j].points
         /\ txs'[j].status = "REVERSED" <=> txs[j].status = "REVERSED"
  BY SameSize, Identity, StaysReversed DEF Marking, Successors, Typed, TypeOK
<1>3. \A k \in RowsFrom("reversal") : k \in DOMAIN txs /\ txs[k].orig \in DOMAIN txs
  <2>1. DOMAIN txs = 1..Len(txs) /\ Len(txs) \in Nat
    BY DEF Typed, TypeOK
  <2>2. ASSUME NEW k \in RowsFrom("reversal")
        PROVE  k \in DOMAIN txs /\ txs[k].orig \in 1..(k - 1)
    BY DEF RowsFrom, ReversalsPairUp
  <2> QED BY <2>1, <2>2
<1> QED BY <1>1, <1>2, <1>3 DEF ReversalsPairUp, DistinctRows

LEMMA AddedPairs ==
  ASSUME Typed, Typed', ReversalsPairUp, NEW row \in Row,
         \/ row.source # "reversal" /\ row.status # "REVERSED" /\ Adding(row, 0)
         \/ AddsReversal(row)
  PROVE  ReversalsPairUp'
<1> DEFINE n == Len(txs) + 1
           i == IF row.source = "reversal" THEN row.orig ELSE 0
<1>1. Adding(row, i) /\ row.status # "REVERSED"
  BY DEF AddsReversal
<1>2. /\ DOMAIN txs' = DOMAIN txs \cup {n} /\ n \notin DOMAIN txs
      /\ \A j \in DOMAIN txs : j \in Nat \ {0} /\ j < n
      /\ txs'[n] = row
  BY <1>1, Grown
<1>3. \A j \in DOMAIN txs :
         /\ txs'[j].orig = txs[j].orig /\ txs'[j].cust = txs[j].cust
         /\ txs'[j].points = txs[j].points
         /\ txs'[j].status = "REVERSED" <=> txs[j].status = "REVERSED" \/ j = i
  <2>1. row.source = "reversal" => txs'[row.orig].status = "REVERSED"
    BY DEF AddsReversal
  <2> QED BY <1>1, <1>2, <2>1, Grown, Identity, StaysReversed DEF Adding, Successors
<1>4. /\ RowsFrom("reversal") \subseteq DOMAIN txs
      /\ \A j \in RowsFrom("reversal")' :
           j \in RowsFrom("reversal") \/ (j = n /\ row.source = "reversal")
      /\ \A j \in RowsFrom("reversal") : j \in RowsFrom("reversal")'
      /\ row.source = "reversal" => n \in RowsFrom("reversal")'
  BY <1>1, RowsFromAfter
<1>5. row.source = "reversal" =>
        /\ row.orig \in DOMAIN txs
        /\ txs[row.orig].status # "REVERSED"
        /\ row.cust = txs[row.orig].cust /\ row.points \in {0, -txs[row.orig].points}
  BY DEF AddsReversal
<1>6. \A k \in RowsFrom("reversal") :
        /\ txs[k].orig \in DOMAIN txs /\ txs[k].orig \in 1..(k - 1)
        /\ txs[txs[k].orig].status = "REVERSED"
        /\ txs[txs[k].orig].cust = txs[k].cust
        /\ txs[k].points \in {0, -txs[txs[k].orig].points}
  <2>1. DOMAIN txs = 1..Len(txs) /\ Len(txs) \in Nat
    BY DEF Typed, TypeOK
  <2>2. ASSUME NEW k \in RowsFrom("reversal")
        PROVE  k \in DOMAIN txs /\ txs[k].orig \in 1..(k - 1)
    BY DEF RowsFrom, ReversalsPairUp
  <2> QED BY <2>1, <2>2 DEF ReversalsPairUp
<1>7. n \in Nat
  BY DEF Typed, TypeOK
<1> HIDE DEF n, i
<1>8. ASSUME NEW k \in RowsFrom("reversal")'
      PROVE  LET o == txs'[k].orig
             IN  /\ o \in 1..(k - 1)
                 /\ txs'[o].status = "REVERSED"
                 /\ txs'[o].cust = txs'[k].cust
                 /\ txs'[k].points \in {0, -txs'[o].points}
  <2>1. CASE k \in RowsFrom("reversal")
    BY <1>3, <1>4, <1>6, <2>1
  <2>2. CASE k = n /\ row.source = "reversal"
    <3>1. txs'[k] = row /\ row.orig \in DOMAIN txs /\ i = row.orig
      BY <1>2, <1>5, <2>2 DEF i
    <3>2. row.orig \in 1..(k - 1)
      BY <1>2, <1>7, <2>2, <3>1
    <3>3. /\ txs'[row.orig].status = "REVERSED" /\ txs'[row.orig].cust = row.cust
          /\ txs'[row.orig].points = txs[row.orig].points
      BY <1>3, <1>5, <2>2, <3>1
    <3> QED BY <1>5, <2>2, <3>1, <3>2, <3>3
  <2> QED BY <1>4, <2>1, <2>2
<1>9. ASSUME NEW j \in DOMAIN txs', txs'[j].status = "REVERSED"
      PROVE  \E k \in RowsFrom("reversal")' : txs'[k].orig = j
  <2>1. j \in DOMAIN txs
    BY <1>1, <1>2, <1>9
  <2>2. CASE txs[j].status = "REVERSED"
    <3>1. PICK k \in RowsFrom("reversal") : txs[k].orig = j
      BY <2>1, <2>2 DEF ReversalsPairUp
    <3> QED BY <1>3, <1>4, <3>1
  <2>3. CASE txs[j].status # "REVERSED"
    <3>1. j = i
      BY <1>3, <1>9, <2>1, <2>3
    <3>2. row.source = "reversal" /\ j = row.orig
      BY <1>2, <2>1, <3>1 DEF i
    <3> QED BY <1>2, <1>4, <3>2
  <2> QED BY <2>2, <2>3
<1>10. ASSUME NEW a \in RowsFrom("reversal")', NEW b \in RowsFrom("reversal")',
              txs'[a].orig = txs'[b].orig
       PROVE  a = b
  <2>1. \A k \in RowsFrom("reversal") : txs'[k].orig = txs[k].orig
                                       /\ (row.source = "reversal" => txs[k].orig # row.orig)
    BY <1>3, <1>4, <1>5, <1>6
  <2>2. \A c, d \in RowsFrom("reversal") : txs[c].orig = txs[d].orig => c = d
    BY DEF ReversalsPairUp, DistinctRows
  <2> QED BY <1>2, <1>4, <1>10, <2>1, <2>2
<1> QED BY <1>8, <1>9, <1>10 DEF ReversalsPairUp, DistinctRows

LEMMA RowStepPairs ==
  ASSUME Typed, Typed', RowStep, ReversalsPairUp
  PROVE  ReversalsPairUp'
BY MarkedPairs, AddedPairs DEF RowStep, AddsPlain, AddsStaff, AddsExternal, Earning

(* A transaction is reversed once only, and every reversal is the later    *)
(* row of its own pair, of the same customer and of the opposite points.   *)
THEOREM ReversalsCorrect == Spec => []ReversalsPairUp
<1>1. Init => ReversalsPairUp
  BY DEF Init, ReversalsPairUp, RowsFrom, DistinctRows
<1>2. Typed /\ ReversalsPairUp /\ [Next]_vars => ReversalsPairUp'
  BY NextTyped, NextRows, RowStepPairs
<1> QED BY <1>1, <1>2, InitTyped, NextTyped, PTL DEF Spec

-----------------------------------------------------------------------------
(* Answers.                                                                *)

\* A worker that is busy has no answer yet.
NoAnswerYet == \A w \in Workers : req[w].at # "idle" => req[w].answer = "none"

LEMMA IdleFields ==
  ASSUME NEW a
  PROVE  LET done == [Idle EXCEPT !.answer = a]
         IN  done.at = "idle" /\ done.answer = a /\ Idle.at = "idle" /\ Idle.answer = "none"
BY DEF Idle

LEMMA AnswerGiven ==
  ASSUME Typed, NEW w \in Workers, NEW a, Answer(w, a)
  PROVE  /\ req'[w].at = "idle" /\ req'[w].answer = a
         /\ \A v \in Workers : v # w => req'[v] = req[v]
BY IdleFields DEF Answer, Typed, TypeOK

LEMMA NextNoAnswer ==
  ASSUME Typed, NoAnswerYet, [Next]_vars
  PROVE  NoAnswerYet'
<1>1. CASE req' = req
  BY <1>1 DEF NoAnswerYet
<1>2. CASE Crash
  BY <1>2, IdleFields DEF Crash, NoAnswerYet
<1>3. ASSUME NEW w \in Workers, NEW a, Answer(w, a)
      PROVE  NoAnswerYet'
  BY <1>3, AnswerGiven DEF NoAnswerYet
<1>4. ASSUME NEW w \in Workers, NEW job, Accept(w, job), job.answer = "none"
      PROVE  NoAnswerYet'
  BY <1>4 DEF Accept, NoAnswerYet, Typed, TypeOK
<1>5. ASSUME NEW w \in Workers, NEW last, NEW next, NextStep(w, last, next),
             req[w].at # "idle"
      PROVE  NoAnswerYet'
  <2>1. CASE Answer(w, "ok")
    BY <1>3, <2>1
  <2>2. CASE req' = [req EXCEPT ![w].at = next]
    <3>1. req[w] \in Job /\ req \in [Workers -> Job]
      BY DEF Typed, TypeOK
    <3>2. req'[w].answer = req[w].answer /\ \A v \in Workers : v # w => req'[v] = req[v]
      BY <2>2, <3>1 DEF Job
    <3> QED BY <1>5, <3>2 DEF NoAnswerYet
  <2> QED BY <1>5, <2>1, <2>2 DEF NextStep
<1>6. CASE \E w \in Workers : Arrive(w)
  <2>1. Idle.answer = "none"
    BY IdleFields
  <2>2. CASE \E w \in Workers : RefuseToken(w)
    BY <1>3, <2>2 DEF RefuseToken, Refuse
  <2>3. CASE ~\E w \in Workers : RefuseToken(w)
    BY <1>4, <1>6, <2>3 DEF Arrive, BeginAward, BeginRedeem, BeginExternal, BeginUpkeep, Idle
  <2> QED BY <2>2, <2>3
<1>7. CASE \E w \in Workers : Upkeep(w)
  BY <1>5, <1>7 DEF Upkeep, SettlePending, ExpireNothing, ExpirePoints, UpkeepFails,
     AfterSettle, AfterExpire
<1>8. CASE \E w \in Workers : Commit(w)
  <2>1. ASSUME NEW w \in Workers, req' = [req EXCEPT ![w].at = "commit"], req[w].at = "check"
        PROVE  NoAnswerYet'
    <3>1. req[w] \in Job /\ req \in [Workers -> Job]
      BY DEF Typed, TypeOK
    <3>2. req'[w].answer = req[w].answer /\ \A v \in Workers : v # w => req'[v] = req[v]
      BY <2>1, <3>1 DEF Job
    <3> QED BY <2>1, <3>2 DEF NoAnswerYet
  <2> QED
    BY <1>3, <1>8, <2>1 DEF Commit, CheckAward, CommitAward, CommitExternal, CommitRedeem, Refuse
<1>9. CASE \E w \in Workers, q \in Requests, i \in DOMAIN txs : Refund(w, q, i)
  BY <1>3, <1>9 DEF Refund, RefundAgain, RefundRefused, RefundHeld, RefundPosted, Refuse
<1> QED
  BY <1>1, <1>2, <1>6, <1>7, <1>8, <1>9 DEF Next, vars, SetProgram, NextDay

\* Only a worker's own check or commit refuses what it is about to commit.
LEMMA WhoIsRefused ==
  ASSUME Typed, NoAnswerYet, [Next]_vars, NEW w \in Workers, Refused(w)
  PROVE  Commit(w)
<1>1. req'[w] # req[w] /\ req[w].at # "idle"
  BY DEF Refused, NoAnswerYet
<1>2. ASSUME NEW v \in Workers, NEW a, Answer(v, a) PROVE v = w
  BY <1>1, <1>2, AnswerGiven
<1>3. ASSUME NEW v \in Workers, NEW job, Accept(v, job) PROVE FALSE
  BY <1>1, <1>3 DEF Accept, Free, Typed, TypeOK
<1>4. ~Crash
  BY IdleFields DEF Crash, Refused
<1>5. ASSUME NEW v \in Workers, NEW last, NEW next, NextStep(v, last, next) PROVE v = w
  BY <1>1, <1>2, <1>5 DEF NextStep, Typed, TypeOK
<1>6. ~\E v \in Workers : Arrive(v)
  <2>1. ~\E v \in Workers : RefuseToken(v)
    BY <1>1, <1>2 DEF RefuseToken, Refuse, Free
  <2> QED BY <1>3, <2>1 DEF Arrive, BeginAward, BeginRedeem, BeginExternal, BeginUpkeep
<1>7. ~\E v \in Workers : Upkeep(v)
  <2> SUFFICES ASSUME NEW v \in Workers, Upkeep(v) PROVE FALSE
    OBVIOUS
  <2>1. req[v].at \in {"settle", "expire"}
    BY DEF Upkeep, SettlePending, ExpireNothing, ExpirePoints, UpkeepFails
  <2>2. v = w
    BY <1>5 DEF Upkeep, SettlePending, ExpireNothing, ExpirePoints, UpkeepFails,
       AfterSettle, AfterExpire
  <2> QED BY <2>1, <2>2 DEF Refused
<1>8. ~\E v \in Workers, q \in Requests, i \in DOMAIN txs : Refund(v, q, i)
  <2> SUFFICES ASSUME NEW v \in Workers, NEW q \in Requests, NEW i \in DOMAIN txs, Refund(v, q, i)
               PROVE  FALSE
    OBVIOUS
  <2>1. Free(v)
    BY DEF Refund, RefundAgain, RefundRefused, RefundHeld, RefundPosted
  <2>2. v = w
    BY <1>2 DEF Refund, RefundAgain, RefundRefused, RefundHeld, RefundPosted, Refuse
  <2> QED BY <1>1, <2>1, <2>2 DEF Free
<1>9. \A v \in Workers : Commit(v) => v = w
  <2>1. \A v \in Workers : req' = [req EXCEPT ![v].at = "commit"] => v = w
    BY <1>1 DEF Typed, TypeOK
  <2> QED BY <1>2, <2>1 DEF Commit, CheckAward, CommitAward, CommitExternal, CommitRedeem, Refuse
<1> QED
  BY <1>1, <1>4, <1>6, <1>7, <1>8, <1>9 DEF Next, vars, SetProgram, NextDay

LEMMA RefusedAward ==
  ASSUME Typed, NoAnswerYet, Once, [Next]_vars, NEW w \in Workers, Refused(w),
         req[w].op = "award", SameAward(req[w])
  PROVE  req[w].at = "check" /\ ~(WithinPlan /\ WithinGuards(req[w]))
<1> DEFINE known == AwardWith(req[w].key)
<1>1. \A a : Answer(w, a) => a \in {"conflict", "denied"}
  BY AnswerGiven DEF Refused
<1>2. ASSUME CheckAward(w)
      PROVE  req[w].at = "check" /\ ~(WithinPlan /\ WithinGuards(req[w]))
  <2>1. req' # [req EXCEPT ![w].at = "commit"]
    <3>1. req[w] \in Job /\ req \in [Workers -> Job] /\ req[w].answer = "none"
      BY <1>2 DEF Typed, TypeOK, NoAnswerYet, CheckAward
    <3>2. req'[w].answer # req[w].answer
      BY <3>1 DEF Refused
    <3>3. [req[w] EXCEPT !.at = "commit"].answer = req[w].answer
      BY <3>1 DEF Job
    <3> QED BY <3>1, <3>2, <3>3
  <2> QED BY <1>2, <2>1 DEF CheckAward
<1> SUFFICES ASSUME ~CheckAward(w) PROVE FALSE
  BY <1>2
<1>3. CommitAward(w)
  BY WhoIsRefused DEF Commit, CommitExternal, CommitRedeem
<1>4. txs \in Seq(Row)
  BY DEF Typed, TypeOK
<1>5. CASE known # 0
  <2>1. known \in RowsFrom("staff") /\ txs[known].key = req[w].key
    BY <1>5, SuchAward
  <2>2. txs[known].cust # req[w].cust
    BY <1>3, <1>1, <1>5 DEF CommitAward, Refuse
  <2> QED BY <2>1, <2>2 DEF SameAward, Once
<1>6. CASE known = 0
  BY <1>4, <1>6, NoSuchAward DEF SameAward, RowsFrom
<1> QED BY <1>5, <1>6

LEMMA RefusedRedemption ==
  ASSUME Typed, NoAnswerYet, RedeemedOnce, [Next]_vars, NEW w \in Workers, Refused(w),
         req[w].op = "redeem"
  PROVE  ~SameRedemption(req[w])
<1> DEFINE known == RedemptionsWith(req[w].key)
<1>1. CommitRedeem(w)
  BY WhoIsRefused DEF Commit, CheckAward, CommitAward, CommitExternal
<1>2. \A a : Answer(w, a) => a \in {"conflict", "denied"}
  BY AnswerGiven DEF Refused
<1>3. known = {i \in DOMAIN redemptions : redemptions[i].key = req[w].key}
  BY DEF RedemptionsWith, RedemptionsWhere
<1>4. CASE known # {}
  <2>1. PICK i \in known : ~(redemptions[i].cust = req[w].cust
                             /\ redemptions[i].reward = req[w].reward)
    BY <1>1, <1>2, <1>4 DEF CommitRedeem, Refuse
  <2> QED BY <1>3, <2>1 DEF SameRedemption, RedeemedOnce
<1>5. CASE known = {}
  BY <1>3, <1>5 DEF SameRedemption
<1> QED BY <1>4, <1>5

(* Whatever happened in between, an award or a redemption that is sent     *)
(* again is never told that it conflicts with itself; an award that has    *)
(* been made is refused at most by the plan's limit or the guards, which   *)
(* are checked before its transaction.                                     *)
THEOREM RetryCorrect == Spec => RetryIsAnswered
<1>1. Init => NoAnswerYet
  BY IdleFields DEF Init, NoAnswerYet
<1>2. Typed /\ NoAnswerYet /\ Once /\ RedeemedOnce /\ [Next]_vars =>
        \A w \in Workers : Refused(w) =>
          /\ req[w].op = "award" /\ SameAward(req[w]) =>
               req[w].at = "check" /\ ~(WithinPlan /\ WithinGuards(req[w]))
          /\ req[w].op = "redeem" => ~SameRedemption(req[w])
  BY RefusedAward, RefusedRedemption
<1>3. Spec => [](Typed /\ NoAnswerYet /\ Once /\ RedeemedOnce) /\ [][Next]_vars
  BY <1>1, InitTyped, NextTyped, InitOnce, NextOnce, NextNoAnswer, PTL DEF Spec
<1> QED BY <1>2, <1>3, PTL DEF RetryIsAnswered

-----------------------------------------------------------------------------
(* The redemptions.                                                        *)

Redeeming(w, d) ==
  LET job == req[w]
      today == {i \in DOMAIN redemptions : redemptions[i].cust = job.cust /\ redemptions[i].made = day}
  IN  /\ job \in Job /\ JobFits(job) /\ job.op = "redeem"
      /\ d = [cust |-> job.cust, reward |-> job.reward, key |-> job.key, made |-> day,
              balance |-> points[job.cust] - Cost[job.reward]]
      /\ redemptions' = Append(redemptions, d)
      /\ InStock(job.reward)
      /\ stock' = [stock EXCEPT ![job.reward] = IF @ = None THEN None ELSE @ - 1]
      /\ BelowLimit(job.program.maxPerDay, Cardinality(today))
      /\ UNCHANGED day

\* A step leaves redemptions and stock alone, or it is a redemption.
LEMMA NextRedemptions ==
  ASSUME Typed, [Next]_vars
  PROVE  \/ redemptions' = redemptions /\ stock' = stock /\ day' \in {day, day + 1}
         \/ \E w \in Workers : \E d : Redeeming(w, d)
<1>1. CASE \E w \in Workers : CommitRedeem(w)
  <2>1. PICK w \in Workers : CommitRedeem(w)
    BY <1>1
  <2>2. req[w] \in Job /\ JobFits(req[w])
    BY DEF Typed, TypeOK, JobsFit
  <2>3. {i \in DOMAIN redemptions : redemptions[i].cust = req[w].cust /\ redemptions[i].made = day}
        = {i \in RedemptionsWhere(LAMBDA d : d.cust = req[w].cust) : redemptions[i].made = day}
    BY DEF RedemptionsWhere
  <2> QED BY <2>1, <2>2, <2>3 DEF CommitRedeem, Redeeming, WithinLimits, Refuse
<1>2. CASE UNCHANGED vars \/ Crash \/ (\E p \in Programs : SetProgram(p)) \/ NextDay
  BY <1>2 DEF vars, balances, Crash, SetProgram, NextDay
<1>3. CASE \E w \in Workers : Arrive(w)
  BY <1>3 DEF Arrive, Accept, BeginAward, BeginRedeem, BeginExternal, BeginUpkeep, RefuseToken, Refuse
<1>4. CASE \E w \in Workers : Upkeep(w)
  BY <1>4 DEF balances, Upkeep, SettlePending, ExpireNothing, ExpirePoints, UpkeepFails
<1>5. CASE \E w \in Workers : CheckAward(w) \/ CommitAward(w) \/ CommitExternal(w)
  BY <1>5 DEF CheckAward, CommitAward, CommitExternal, Refuse
<1>6. CASE \E w \in Workers, q \in Requests, i \in DOMAIN txs : Refund(w, q, i)
  BY <1>6 DEF Refund, RefundAgain, RefundRefused, RefundHeld, RefundPosted, Refuse
<1> QED
  BY <1>1, <1>2, <1>3, <1>4, <1>5, <1>6 DEF Next, Commit

\* The redemptions are finitely many, and a new one is one more.
LEMMA OneMore ==
  ASSUME Typed, Typed', NEW d, redemptions' = Append(redemptions, d)
  PROVE  LET n == Len(redemptions) + 1
         IN  /\ DOMAIN redemptions' = DOMAIN redemptions \cup {n}
             /\ n \notin DOMAIN redemptions
             /\ redemptions'[n] = d
             /\ \A i \in DOMAIN redemptions : redemptions'[i] = redemptions[i]
<1>1. redemptions \in Seq(Redemption) /\ redemptions' \in Seq(Redemption)
  BY DEF Typed, TypeOK
<1> HIDE DEF Redemption
<1> QED BY <1>1

LEMMA FiniteRedemptions ==
  ASSUME Typed, NEW S \in SUBSET DOMAIN redemptions
  PROVE  IsFiniteSet(S) /\ Cardinality(S) \in Nat
<1>1. DOMAIN redemptions = 1..Len(redemptions) /\ Len(redemptions) \in Int
  BY DEF Typed, TypeOK
<1>2. IsFiniteSet(1..Len(redemptions))
  BY <1>1, FS_Interval
<1> QED BY <1>1, <1>2, FS_Subset, FS_CardinalityType

\* The redemptions of a reward.
RedeemedAs(r) == {i \in DOMAIN redemptions : redemptions[i].reward = r}

Stocked ==
  \A r \in Rewards : InitialStock[r] # None =>
    /\ stock[r] \in Nat
    /\ stock[r] + Cardinality(RedeemedAs(r)) = InitialStock[r]

LEMMA NextStocked ==
  ASSUME Typed, Typed', Stocked, [Next]_vars
  PROVE  Stocked'
<1>1. CASE redemptions' = redemptions /\ stock' = stock
  BY <1>1 DEF Stocked, RedeemedAs
<1>2. ASSUME NEW w \in Workers, NEW d, Redeeming(w, d) PROVE Stocked'
  <2> DEFINE n == Len(redemptions) + 1
             a == req[w].reward
  <2>1. /\ redemptions' = Append(redemptions, d) /\ d.reward = a /\ InStock(a)
        /\ stock' = [stock EXCEPT ![a] = IF @ = None THEN None ELSE @ - 1]
        /\ a \in Rewards
    BY <1>2 DEF Redeeming, JobFits
  <2>2. /\ DOMAIN redemptions' = DOMAIN redemptions \cup {n}
        /\ n \notin DOMAIN redemptions /\ redemptions'[n] = d
        /\ \A i \in DOMAIN redemptions : redemptions'[i] = redemptions[i]
    BY <2>1, OneMore
  <2> SUFFICES ASSUME NEW r \in Rewards, InitialStock[r] # None
               PROVE  /\ stock'[r] \in Nat
                      /\ stock'[r] + Cardinality(RedeemedAs(r)') = InitialStock[r]
    BY DEF Stocked
  <2>3. stock[r] \in Nat /\ stock[r] + Cardinality(RedeemedAs(r)) = InitialStock[r]
    BY DEF Stocked
  <2>4. IsFiniteSet(RedeemedAs(r)) /\ Cardinality(RedeemedAs(r)) \in Nat
    BY FiniteRedemptions DEF RedeemedAs
  <2>5. stock \in [Rewards -> Int \cup {None}]
    BY DEF Typed, TypeOK
  <2> HIDE DEF n, a
  <2>6. CASE r = a
    <3>1. RedeemedAs(r)' = RedeemedAs(r) \cup {n} /\ n \notin RedeemedAs(r)
      BY <2>1, <2>2, <2>6 DEF RedeemedAs
    <3>2. Cardinality(RedeemedAs(r)') = Cardinality(RedeemedAs(r)) + 1
      BY <2>4, <3>1, FS_AddElement
    <3>3. stock[r] # None /\ stock[r] > 0 /\ stock'[r] = stock[r] - 1
      BY <2>1, <2>3, <2>5, <2>6, NullAssumption DEF InStock
    <3> QED BY <2>3, <2>4, <3>2, <3>3
  <2>7. CASE r # a
    <3>1. RedeemedAs(r)' = RedeemedAs(r)
      BY <2>1, <2>2, <2>7 DEF RedeemedAs
    <3>2. stock'[r] = stock[r]
      BY <2>1, <2>5, <2>7
    <3> QED BY <2>3, <3>1, <3>2
  <2> QED BY <2>6, <2>7
<1> QED BY <1>1, <1>2, NextRedemptions

(* No reward is given away beyond its stock, by however many requests at   *)
(* once.                                                                   *)
THEOREM StockCorrect == Spec => []StockConserved
<1>1. Init => Stocked
  <2> SUFFICES ASSUME Init PROVE Stocked
    OBVIOUS
  <2>1. redemptions = <<>> /\ stock = InitialStock
    BY DEF Init
  <2>2. \A r \in Rewards : RedeemedAs(r) = {}
    BY <2>1 DEF RedeemedAs
  <2>3. \A r \in Rewards : InitialStock[r] # None => InitialStock[r] \in Nat
    BY StockAssumption
  <2>4. \A r \in Rewards : Cardinality(RedeemedAs(r)) = 0
    BY <2>2, FS_EmptySet
  <2> QED BY <2>1, <2>3, <2>4 DEF Stocked
<1>2. Typed /\ Stocked /\ [Next]_vars => Stocked'
  BY NextTyped, NextStocked
<1>3. Stocked => StockConserved
  BY DEF Stocked, StockConserved, RedeemedAs, RedemptionsWhere
<1> QED BY <1>1, <1>2, <1>3, InitTyped, NextTyped, PTL DEF Spec

-----------------------------------------------------------------------------
(* The limit of a day.                                                     *)

RedeemedOn(c, x) == {i \in DOMAIN redemptions : redemptions[i].cust = c /\ redemptions[i].made = x}

MadeByNow == \A i \in DOMAIN redemptions : redemptions[i].made <= day

Limits == {p.maxPerDay : p \in Programs}

WithinDay ==
  \A c \in Customers, x \in 0..day :
    \E m \in Limits : Cardinality(RedeemedOn(c, x)) <= m

LEMMA NextWithinDay ==
  ASSUME 0 \notin Limits, Typed, Typed', MadeByNow, WithinDay, [Next]_vars
  PROVE  MadeByNow' /\ WithinDay'
<1>1. redemptions \in Seq(Redemption) /\ day \in Nat
      /\ \A i \in DOMAIN redemptions : redemptions[i].made \in Nat
  <2>1. redemptions \in Seq(Redemption) /\ day \in Nat
    BY DEF Typed, TypeOK
  <2>2. \A i \in DOMAIN redemptions : redemptions[i] \in Redemption
    BY <2>1
  <2>3. \A d \in Redemption : d.made \in Nat
    BY DEF Redemption
  <2> QED BY <2>1, <2>2, <2>3
<1>2. CASE redemptions' = redemptions /\ day' = day
  BY <1>2 DEF MadeByNow, WithinDay, RedeemedOn
<1>3. CASE redemptions' = redemptions /\ day' = day + 1
  <2>1. MadeByNow'
    BY <1>1, <1>3 DEF MadeByNow
  <2>2. ASSUME NEW c \in Customers, NEW x \in 0..(day + 1)
        PROVE  \E m \in Limits : Cardinality(RedeemedOn(c, x)) <= m
    <3>1. CASE x \in 0..day
      BY <3>1 DEF WithinDay
    <3>2. CASE x = day + 1
      <4>1. RedeemedOn(c, x) = {}
        BY <1>1, <3>2 DEF RedeemedOn, MadeByNow
      <4>2. program.maxPerDay \in Limits /\ program.maxPerDay \in Nat
        BY ProgramAssumption DEF Typed, TypeOK, Limits
      <4> QED BY <4>1, <4>2, FS_EmptySet
    <3> QED BY <1>1, <3>1, <3>2
  <2> QED BY <1>3, <2>1, <2>2 DEF WithinDay, RedeemedOn
<1>4. ASSUME NEW w \in Workers, NEW d, Redeeming(w, d) PROVE MadeByNow' /\ WithinDay'
  <2> DEFINE n == Len(redemptions) + 1
             b == req[w].cust
             limit == req[w].program.maxPerDay
  <2>1. /\ redemptions' = Append(redemptions, d) /\ d.cust = b /\ d.made = day
        /\ BelowLimit(limit, Cardinality(RedeemedOn(b, day)))
        /\ req[w].program \in Programs /\ day' = day
    BY <1>4 DEF Redeeming, JobFits, RedeemedOn
  <2>2. /\ DOMAIN redemptions' = DOMAIN redemptions \cup {n}
        /\ n \notin DOMAIN redemptions /\ redemptions'[n] = d
        /\ \A i \in DOMAIN redemptions : redemptions'[i] = redemptions[i]
    BY <2>1, OneMore
  <2>3. limit \in Limits /\ limit \in Nat /\ limit # 0
    BY <2>1, ProgramAssumption DEF Limits
  <2> HIDE DEF n, b, limit
  <2>4. MadeByNow'
    BY <1>1, <2>1, <2>2 DEF MadeByNow
  <2>5. ASSUME NEW c \in Customers, NEW x \in 0..day
        PROVE  \E m \in Limits : Cardinality(RedeemedOn(c, x)') <= m
    <3>1. CASE c = b /\ x = day
      <4>1. IsFiniteSet(RedeemedOn(c, x)) /\ Cardinality(RedeemedOn(c, x)) \in Nat
        BY FiniteRedemptions DEF RedeemedOn
      <4>2. RedeemedOn(c, x)' = RedeemedOn(c, x) \cup {n} /\ n \notin RedeemedOn(c, x)
        BY <2>1, <2>2, <3>1 DEF RedeemedOn
      <4>3. Cardinality(RedeemedOn(c, x)') = Cardinality(RedeemedOn(c, x)) + 1
        BY <4>1, <4>2, FS_AddElement
      <4>4. Cardinality(RedeemedOn(c, x)) < limit
        BY <2>1, <2>3, <3>1 DEF BelowLimit
      <4> QED BY <2>3, <4>1, <4>3, <4>4
    <3>2. CASE ~(c = b /\ x = day)
      <4>1. RedeemedOn(c, x)' = RedeemedOn(c, x)
        BY <2>1, <2>2, <3>2 DEF RedeemedOn
      <4> QED BY <4>1 DEF WithinDay
    <3> QED BY <3>1, <3>2
  <2> QED BY <2>1, <2>4, <2>5 DEF WithinDay
<1> QED BY <1>2, <1>3, <1>4, NextRedemptions DEF Redeeming

(* However many workers decide with whatever copies of the program, nobody *)
(* redeems more often in a day than one of the owner's limits allows.      *)
THEOREM DailyLimitCorrect == Spec => []DailyLimitKept
<1>1. CASE 0 \in Limits
  <2>1. DailyLimitKept
    BY <1>1 DEF DailyLimitKept, Limits
  <2> QED BY <2>1, PTL
<1>2. CASE 0 \notin Limits
  <2>1. Init => MadeByNow /\ WithinDay
    <3> SUFFICES ASSUME Init PROVE MadeByNow /\ WithinDay
      OBVIOUS
    <3>1. redemptions = <<>> /\ program \in Programs
      BY DEF Init
    <3>2. \A c \in Customers, x \in 0..day : RedeemedOn(c, x) = {}
      BY <3>1 DEF RedeemedOn
    <3>3. program.maxPerDay \in Limits /\ program.maxPerDay \in Nat
      BY <3>1, ProgramAssumption DEF Limits
    <3>4. MadeByNow
      BY <3>1 DEF MadeByNow
    <3>5. ASSUME NEW c \in Customers, NEW x \in 0..day
          PROVE  \E m \in Limits : Cardinality(RedeemedOn(c, x)) <= m
      <4>1. Cardinality(RedeemedOn(c, x)) = 0
        BY <3>2, FS_EmptySet
      <4> QED BY <3>3, <4>1
    <3> QED BY <3>4, <3>5 DEF WithinDay
  <2>2. Typed /\ MadeByNow /\ WithinDay /\ [Next]_vars => MadeByNow' /\ WithinDay'
    BY <1>2, NextTyped, NextWithinDay
  <2>3. WithinDay => DailyLimitKept
    BY DEF WithinDay, DailyLimitKept, RedeemedOn, RedemptionsWhere, Limits
  <2> QED BY <2>1, <2>2, <2>3, InitTyped, NextTyped, PTL DEF Spec
<1> QED BY <1>1, <1>2

-----------------------------------------------------------------------------
(* Points earned.                                                          *)

\* Rows without positive points add up to nothing positive.
LEMMA SumNotPositive ==
  ASSUME NEW table \in Seq(Row), NEW A,
         \A i \in 1..Len(table) : i \in A => table[i].points <= 0
  PROVE  PointsOf(table, A) <= 0
<1> DEFINE n == Len(table)
           f == [i \in 1..n |-> IF i \in A THEN table[i].points ELSE 0]
           g == [i \in 1..n |-> -f[i]]
           h == [i \in 1..n |-> 0]
<1>1. n \in Nat /\ \A i \in 1..n : table[i].points \in Int
  BY RowPoints
<1>2. \A i \in 1..n : f[i] \in Int /\ f[i] <= 0
  BY <1>1
<1>3. PointsOf(table, A) = Total(f, n)
  BY DEF PointsOf
<1>4. \A i \in 1..n : g[i] = -f[i] /\ h[i] = 0
  OBVIOUS
<1> HIDE DEF f, g, h, n
<1>5. \A i \in 1..n : f[i] \in Int /\ g[i] \in Int /\ g[i] \in Nat /\ h[i] = f[i] + g[i]
  BY <1>2, <1>4
<1>6. Total(h, n) = Total(f, n) + Total(g, n)
  BY <1>1, <1>5, TotalSum
<1>7. Total(h, n) = 0 /\ Total(g, n) \in Nat /\ Total(f, n) \in Int
  BY <1>1, <1>4, <1>5, TotalZero, TotalNatural, TotalType
<1> QED BY <1>3, <1>6, <1>7

\* A step that marks rows, or adds one, and what it does to a sum.
LEMMA SumMarking ==
  ASSUME Typed, Typed', Marking, NEW A
  PROVE  PointsOf(txs', A) = PointsOf(txs, A)
<1>1. txs \in Seq(Row) /\ txs' \in Seq(Row) /\ Len(txs') = Len(txs) /\ DOMAIN txs = 1..Len(txs)
  BY DEF Typed, TypeOK, Marking
<1>2. \A i \in 1..Len(txs) : txs'[i].points = txs[i].points
  BY <1>1, SameSize, Identity
<1> QED BY <1>1, <1>2, SameSum

LEMMA SumAdding ==
  ASSUME Typed, Typed', NEW row \in Row, NEW k, Adding(row, k), NEW A
  PROVE  PointsOf(txs', A) = PointsOf(txs, A) + IF Len(txs) + 1 \in A THEN row.points ELSE 0
<1> DEFINE before == [i \in 1..Len(txs) |-> txs'[i]]
<1>1. /\ txs \in Seq(Row) /\ txs' \in Seq(Row) /\ DOMAIN txs = 1..Len(txs) /\ Len(txs) \in Nat
      /\ Len(txs') = Len(txs) + 1 /\ txs'[Len(txs) + 1] = row
  BY DEF Typed, TypeOK, Adding
<1>2. \A i \in 1..Len(txs) : txs'[i].points = txs[i].points /\ txs'[i] \in Row
  BY <1>1, Grown, Identity
<1>3. before \in Seq(Row) /\ Len(before) = Len(txs)
  BY <1>1, <1>2
<1>4. Append(before, row) = txs'
  <2>1. Append(before, row) \in Seq(Row) /\ Len(Append(before, row)) = Len(txs')
    BY <1>1, <1>3
  <2>2. \A i \in 1..Len(txs') : Append(before, row)[i] = txs'[i]
    BY <1>1, <1>3
  <2> QED BY <1>1, <2>1, <2>2
<1>5. \A i \in 1..Len(txs) : before[i].points = txs[i].points
  BY <1>2
<1> HIDE DEF before
<1>6. PointsOf(before, A) = PointsOf(txs, A)
  BY <1>1, <1>3, <1>5, SameSum
<1>7. PointsOf(Append(before, row), A) =
        PointsOf(before, A) + IF Len(before) + 1 \in A THEN row.points ELSE 0
  BY <1>3, SumAppended
<1> QED BY <1>3, <1>4, <1>6, <1>7

\* What a customer has earned and not given back.
Earned(c) ==
  {i \in RowsOf(c) : txs[i].source \in {"staff", "external"} /\ txs[i].status # "REVERSED"}

\* Awards give and the rest takes; nothing is held.
Signs ==
  \A i \in DOMAIN txs :
    /\ txs[i].status # "PENDING"
    /\ txs[i].source \in {"staff", "external"} => txs[i].points >= 0
    /\ txs[i].source \in {"expire", "redeem"} => txs[i].points <= 0

LifetimeCovers == \A c \in Customers : lifetime[c] >= PointsOf(txs, Earned(c))

NoHolds == \A p \in Programs : p.hold = 0

LEMMA SignsStay ==
  ASSUME NoHolds, Typed, Typed', RowStep, Signs
  PROVE  Signs'
<1>1. \A j \in DOMAIN txs : Succeeds(txs'[j], txs[j]) =>
        /\ txs'[j].status # "PENDING"
        /\ txs'[j].source = txs[j].source /\ txs'[j].points = txs[j].points
  BY Identity DEF Succeeds, Forward, Signs
<1>2. CASE Marking
  BY <1>1, <1>2, SameSize DEF Signs
<1>3. ASSUME NEW row \in Row, NEW i, Adding(row, i), row.status # "PENDING",
             row.source \in {"staff", "external"} => row.points >= 0,
             row.source \in {"expire", "redeem"} => row.points <= 0
      PROVE  Signs'
  <2>1. /\ DOMAIN txs' = DOMAIN txs \cup {Len(txs) + 1} /\ txs'[Len(txs) + 1] = row
        /\ \A j \in DOMAIN txs : Succeeds(txs'[j], txs[j])
    BY <1>3, Grown
  <2> QED BY <1>1, <1>3, <2>1 DEF Signs
<1>4. ASSUME NEW row \in Row, AddsStaff(row) \/ AddsExternal(row)
      PROVE  Adding(row, 0) /\ row.status # "PENDING" /\ row.points >= 0
             /\ row.source \in {"staff", "external"}
  BY <1>4, ProgramAssumption DEF AddsStaff, AddsExternal, Earning, NoHolds
<1>5. ASSUME NEW row \in Row, AddsPlain(row) PROVE Signs'
  BY <1>3, <1>5 DEF AddsPlain
<1>6. ASSUME NEW row \in Row, AddsReversal(row) PROVE Signs'
  BY <1>3, <1>6 DEF AddsReversal
<1> QED BY <1>2, <1>3, <1>4, <1>5, <1>6 DEF RowStep

LEMMA CoverMarking ==
  ASSUME Typed, Typed', Marking, LifetimeCovers
  PROVE  LifetimeCovers'
<1> SUFFICES ASSUME NEW c \in Customers PROVE lifetime'[c] >= PointsOf(txs', Earned(c)')
  BY DEF LifetimeCovers
<1>1. \A j \in DOMAIN txs :
         /\ txs'[j].source = txs[j].source /\ txs'[j].cust = txs[j].cust
         /\ txs'[j].status = "REVERSED" <=> txs[j].status = "REVERSED"
  BY SameSize, Identity, StaysReversed DEF Marking, Successors, Typed, TypeOK
<1>2. Earned(c)' = Earned(c)
  BY <1>1, SameSize DEF Earned, RowsOf
<1> QED BY <1>2, SumMarking DEF LifetimeCovers, Marking

LEMMA CoverAdding ==
  ASSUME Typed, Typed', LifetimeCovers, NEW row \in Row, Adding(row, 0),
         \/ row.source \in {"expire", "redeem"} /\ lifetime' = lifetime
         \/ /\ row.source \in {"staff", "external"} /\ row.status # "REVERSED"
            /\ lifetime' = [lifetime EXCEPT ![row.cust] = @ + row.points]
  PROVE  LifetimeCovers'
<1> SUFFICES ASSUME NEW c \in Customers PROVE lifetime'[c] >= PointsOf(txs', Earned(c)')
  BY DEF LifetimeCovers
<1> DEFINE n == Len(txs) + 1
<1>1. /\ DOMAIN txs' = DOMAIN txs \cup {n} /\ n \notin DOMAIN txs /\ txs'[n] = row
      /\ \A j \in DOMAIN txs : j \in Nat \ {0}
  BY Grown
<1>2. \A j \in DOMAIN txs :
         /\ txs'[j].source = txs[j].source /\ txs'[j].cust = txs[j].cust
         /\ txs'[j].status = "REVERSED" <=> txs[j].status = "REVERSED"
  BY <1>1, Grown, Identity, StaysReversed DEF Adding, Successors
<1>3. /\ lifetime \in [Customers -> Int] /\ txs \in Seq(Row) /\ txs' \in Seq(Row)
      /\ row.points \in Int /\ row.cust \in Customers
  BY DEF Typed, TypeOK, Row
<1>4. PointsOf(txs', Earned(c)') =
        PointsOf(txs, Earned(c)') + IF n \in Earned(c)' THEN row.points ELSE 0
  BY SumAdding
<1>5. \A j \in 1..Len(txs) : j \in Earned(c) <=> j \in Earned(c)'
  BY <1>1, <1>2, <1>3 DEF Earned, RowsOf
<1>6. PointsOf(txs, Earned(c)') = PointsOf(txs, Earned(c)) /\ PointsOf(txs, Earned(c)) \in Int
  BY <1>3, <1>5, SameSum, PointsOfType
<1>7. n \in Earned(c)' <=>
        row.cust = c /\ row.source \in {"staff", "external"} /\ row.status # "REVERSED"
  BY <1>1 DEF Earned, RowsOf
<1>8. lifetime[c] >= PointsOf(txs, Earned(c)) /\ lifetime[c] \in Int
  BY <1>3 DEF LifetimeCovers
<1> HIDE DEF n
<1>9. CASE row.source \in {"expire", "redeem"} /\ lifetime' = lifetime
  BY <1>4, <1>6, <1>7, <1>8, <1>9
<1>10. CASE /\ row.source \in {"staff", "external"} /\ row.status # "REVERSED"
            /\ lifetime' = [lifetime EXCEPT ![row.cust] = @ + row.points]
  <2>1. lifetime'[c] = lifetime[c] + IF row.cust = c THEN row.points ELSE 0
    BY <1>3, <1>10
  <2> QED BY <1>3, <1>4, <1>6, <1>7, <1>8, <1>10, <2>1
<1> QED BY <1>9, <1>10

LEMMA CoverReversal ==
  ASSUME Typed, Typed', LifetimeCovers, Signs, NEW row \in Row, AddsReversal(row)
  PROVE  LifetimeCovers'
<1> DEFINE n == Len(txs) + 1
           i == row.orig
<1>1. /\ i \in DOMAIN txs /\ Adding(row, i) /\ row.source = "reversal"
      /\ txs[i].status # "REVERSED" /\ txs'[i].status = "REVERSED" /\ row.cust = txs[i].cust
      /\ txs[i].source # "reversal"
      /\ \/ lifetime' = lifetime
         \/ lifetime' = [lifetime EXCEPT ![row.cust] = LifetimeAfter(row.cust, -txs[i].points)]
  BY DEF AddsReversal
<1> SUFFICES ASSUME NEW c \in Customers PROVE lifetime'[c] >= PointsOf(txs', Earned(c)')
  BY DEF LifetimeCovers
<1>2. /\ DOMAIN txs' = DOMAIN txs \cup {n} /\ n \notin DOMAIN txs /\ txs'[n] = row
      /\ \A j \in DOMAIN txs : j \in Nat \ {0}
  BY <1>1, Grown
<1>3. \A j \in DOMAIN txs :
         /\ txs'[j].source = txs[j].source /\ txs'[j].cust = txs[j].cust
         /\ txs'[j].status = "REVERSED" <=> txs[j].status = "REVERSED" \/ j = i
  BY <1>1, <1>2, Grown, Identity, StaysReversed DEF Adding, Successors
<1>4. /\ lifetime \in [Customers -> Int] /\ txs \in Seq(Row) /\ txs' \in Seq(Row)
      /\ DOMAIN txs = 1..Len(txs) /\ txs[i] \in Row /\ txs[i].points \in Int
      /\ row.cust \in Customers
  <2>1. txs[i] \in Row
    BY <1>1 DEF Typed, TypeOK
  <2>2. lifetime \in [Customers -> Int] /\ txs \in Seq(Row) /\ txs' \in Seq(Row)
    BY DEF Typed, TypeOK
  <2>3. DOMAIN txs = 1..Len(txs)
    BY <2>2
  <2>4. txs[i].points \in Int /\ row.cust \in Customers
    BY <2>1 DEF Row
  <2> QED BY <2>1, <2>2, <2>3, <2>4
<1> HIDE DEF n, i
<1>5. Earned(c)' = Earned(c) \ {i}
  BY <1>1, <1>2, <1>3 DEF Earned, RowsOf
<1>6. PointsOf(txs', Earned(c)') = PointsOf(txs, Earned(c) \ {i})
  <2>1. n \notin Earned(c)'
    BY <1>2, <1>5 DEF Earned, RowsOf
  <2>2. PointsOf(txs', Earned(c)') = PointsOf(txs, Earned(c)') + 0
    BY <1>1, <2>1, SumAdding DEF n
  <2> QED BY <1>4, <1>5, <2>2, PointsOfType
<1>7. lifetime[c] >= PointsOf(txs, Earned(c)) /\ lifetime[c] \in Int
  BY <1>4 DEF LifetimeCovers
<1>8. PointsOf(txs, Earned(c) \ {i}) \in Nat /\ PointsOf(txs, Earned(c)) \in Nat
  BY <1>4, SumNatural DEF Signs, Earned, RowsOf
<1>9. i \in Earned(c) =>
        PointsOf(txs, Earned(c)) = PointsOf(txs, Earned(c) \ {i}) + txs[i].points
  <2> SUFFICES ASSUME i \in Earned(c)
               PROVE  PointsOf(txs, Earned(c)) = PointsOf(txs, Earned(c) \ {i}) + txs[i].points
    OBVIOUS
  <2>1. (Earned(c) \ {i}) \cup {i} = Earned(c) /\ (Earned(c) \ {i}) \cap {i} = {}
    OBVIOUS
  <2>2. PointsOf(txs, {i}) = txs[i].points
    BY <1>1, <1>4, SumOfOne
  <2> QED BY <1>4, <2>1, <2>2, SumOfUnion
<1>10. i \notin Earned(c) => Earned(c) \ {i} = Earned(c)
  OBVIOUS
<1>11. i \in Earned(c) => txs[i].points >= 0
  BY <1>1 DEF Signs, Earned
<1> DEFINE before == PointsOf(txs, Earned(c))
           after == PointsOf(txs', Earned(c)')
<1>12. /\ lifetime[c] >= before /\ before \in Nat /\ after \in Nat
       /\ after = before - IF i \in Earned(c) THEN txs[i].points ELSE 0
  <2>1. lifetime[c] >= before /\ before \in Nat
    BY <1>7, <1>8
  <2>2. after = PointsOf(txs, Earned(c) \ {i}) /\ after \in Nat
    BY <1>6, <1>8
  <2> HIDE DEF after
  <2>3. CASE i \in Earned(c)
    <3>1. before = after + txs[i].points
      BY <1>9, <2>2, <2>3
    <3> HIDE DEF before
    <3> QED BY <1>4, <2>1, <2>2, <2>3, <3>1
  <2>4. CASE i \notin Earned(c)
    <3>1. before = after
      BY <1>10, <2>2, <2>4
    <3> HIDE DEF before
    <3> QED BY <2>1, <2>2, <2>4, <3>1
  <2> QED BY <2>3, <2>4
<1> HIDE DEF before, after
<1>13. lifetime'[c] >= after => lifetime'[c] >= PointsOf(txs', Earned(c)')
  BY DEF after
<1>14. CASE lifetime'[c] = lifetime[c]
  BY <1>4, <1>7, <1>11, <1>14, <1>12, <1>13
<1>15. CASE lifetime'[c] = Greatest(0, lifetime[c] + Least(-txs[i].points, 0)) /\ row.cust = c
  <2>1. CASE i \in Earned(c)
    BY <1>4, <1>7, <1>11, <1>15, <1>12, <1>13, <2>1 DEF Greatest, Least
  <2>2. CASE i \notin Earned(c)
    <3>1. txs[i].source \notin {"staff", "external"}
      BY <1>1, <1>15, <2>2 DEF Earned, RowsOf
    <3>2. txs[i].source \in Sources
      BY <1>4 DEF Row
    <3>3. txs[i].points <= 0
      BY <1>1, <3>1, <3>2 DEF Signs, Sources
    <3> QED BY <1>4, <1>7, <1>15, <1>12, <1>13, <2>2, <3>3 DEF Greatest, Least
  <2> QED BY <2>1, <2>2
<1> QED BY <1>1, <1>4, <1>14, <1>15 DEF LifetimeAfter

LEMMA RowStepCovers ==
  ASSUME NoHolds, Typed, Typed', RowStep, Signs, LifetimeCovers
  PROVE  LifetimeCovers'
<1>1. ASSUME NEW row \in Row, AddsStaff(row) \/ AddsExternal(row)
      PROVE  LifetimeCovers'
  <2>1. row.status # "PENDING"
    BY <1>1 DEF AddsStaff, AddsExternal, Earning, NoHolds
  <2> QED BY <1>1, <2>1, CoverAdding DEF AddsStaff, AddsExternal, Earning
<1>2. ASSUME NEW row \in Row, AddsPlain(row) PROVE LifetimeCovers'
  BY <1>2, CoverAdding DEF AddsPlain
<1> QED BY <1>1, <1>2, CoverMarking, CoverReversal DEF RowStep

\* The balance counts what was earned, and what was spent or expired.
LEMMA CoveredBalance ==
  ASSUME Typed, Balanced, Signs, LifetimeCovers, NEW c \in Customers
  PROVE  points[c] <= lifetime[c]
<1> DEFINE spent == Counted(c) \ Earned(c)
<1>1. /\ txs \in Seq(Row) /\ DOMAIN txs = 1..Len(txs)
      /\ lifetime[c] \in Int /\ \A i \in 1..Len(txs) : txs[i] \in Row
  BY DEF Typed, TypeOK
<1>2. \A i \in 1..Len(txs) : txs[i].source \in Sources /\ txs[i].status \in Statuses
  BY <1>1 DEF Row
<1>3. Counted(c) = Earned(c) \cup spent /\ Earned(c) \cap spent = {}
  BY <1>1, <1>2 DEF Counted, Earned, RowsOf, Signs, Statuses
<1>4. \A i \in 1..Len(txs) : i \in spent => txs[i].points <= 0
  BY <1>1, <1>2 DEF Counted, Earned, RowsOf, Signs, Sources
<1> HIDE DEF spent
<1>5. PointsOf(txs, Counted(c)) = PointsOf(txs, Earned(c)) + PointsOf(txs, spent)
  BY <1>1, <1>3, SumOfUnion
<1>6. PointsOf(txs, spent) <= 0 /\ PointsOf(txs, spent) \in Int /\ PointsOf(txs, Earned(c)) \in Int
  BY <1>1, <1>4, SumNotPositive, PointsOfType
<1>7. points[c] = PointsOf(txs, Counted(c)) /\ lifetime[c] >= PointsOf(txs, Earned(c))
  BY DEF Balanced, BalanceIsLedger, LifetimeCovers
<1> QED BY <1>1, <1>5, <1>6, <1>7

(* Where nothing is held, refunds, expiries and refunded redemptions never *)
(* leave a customer with more points than were ever earned.                *)
THEOREM LifetimeCorrect == Spec => []SpendableWithinLifetime
<1>1. CASE ~NoHolds
  <2>1. SpendableWithinLifetime
    BY <1>1 DEF SpendableWithinLifetime, NoHolds
  <2> QED BY <2>1, PTL
<1>2. CASE NoHolds
  <2>1. Init => Signs /\ LifetimeCovers
    <3> SUFFICES ASSUME Init PROVE Signs /\ LifetimeCovers
      OBVIOUS
    <3>1. txs = <<>> /\ lifetime = [c \in Customers |-> 0]
      BY DEF Init
    <3>2. Signs
      BY <3>1 DEF Signs
    <3>3. ASSUME NEW c \in Customers PROVE lifetime[c] >= PointsOf(txs, Earned(c))
      <4>1. PointsOf(txs, Earned(c)) = 0
        BY <3>1, SumOfNone
      <4> QED BY <3>1, <4>1
    <3> QED BY <3>2, <3>3 DEF LifetimeCovers
  <2>2. Typed /\ Signs /\ LifetimeCovers /\ [Next]_vars => Signs' /\ LifetimeCovers'
    BY <1>2, NextTyped, NextRows, SignsStay, RowStepCovers
  <2>3. Typed /\ Balanced /\ Signs /\ LifetimeCovers => SpendableWithinLifetime
    BY CoveredBalance DEF SpendableWithinLifetime
  <2> QED
    BY <2>1, <2>2, <2>3, InitTyped, NextTyped, InitBalanced, NextBalanced, PTL DEF Spec
<1> QED BY <1>1, <1>2

-----------------------------------------------------------------------------
(* The promise to the customers.                                           *)

\* Every row came with a key of its own kind.
KnownKeys ==
  \A i \in DOMAIN txs :
    /\ txs[i].source = "staff" => txs[i].key \in TxIds
    /\ txs[i].source = "external" => txs[i].key \in Events
    /\ txs[i].source = "reversal" => txs[i].key \in Requests /\ txs[i].orig \in 1..MaxRows

LEMMA NextKnownKeys ==
  ASSUME Typed, Typed', RowStep, KnownKeys
  PROVE  KnownKeys'
<1>1. \A j \in DOMAIN txs : Succeeds(txs'[j], txs[j]) =>
        /\ txs'[j].source = txs[j].source /\ txs'[j].key = txs[j].key
        /\ txs'[j].orig = txs[j].orig
  BY Identity
<1>2. CASE Marking
  BY <1>1, <1>2, SameSize DEF KnownKeys
<1>3. ASSUME NEW row \in Row, NEW i, Adding(row, i),
             /\ row.source = "staff" => row.key \in TxIds
             /\ row.source = "external" => row.key \in Events
             /\ row.source = "reversal" => row.key \in Requests /\ row.orig \in 1..MaxRows
      PROVE  KnownKeys'
  <2>1. /\ DOMAIN txs' = DOMAIN txs \cup {Len(txs) + 1} /\ txs'[Len(txs) + 1] = row
        /\ \A j \in DOMAIN txs : Succeeds(txs'[j], txs[j])
    BY <1>3, Grown
  <2> QED BY <1>1, <1>3, <2>1 DEF KnownKeys
<1> QED
  BY <1>2, <1>3 DEF RowStep, AddsPlain, AddsStaff, AddsExternal, AddsReversal

\* The tickets are tickets that were ever issued,
LEMMA TicketsKnown ==
  ASSUME Typed, KnownKeys
  PROVE  UsedTickets \subseteq AllTickets
<1>1. \A i \in DOMAIN redemptions : redemptions[i].key \in Requests
  <2>1. \A i \in DOMAIN redemptions : redemptions[i] \in Redemption
    BY DEF Typed, TypeOK
  <2>2. \A d \in Redemption : d.key \in Requests
    BY DEF Redemption
  <2> QED BY <2>1, <2>2
<1>2. usedQr \subseteq QrTokens
  BY DEF Typed, TypeOK
<1>3. \A i \in DOMAIN txs :
    /\ txs[i].source = "staff" => txs[i].key \in TxIds
    /\ txs[i].source = "external" => txs[i].key \in Events
    /\ txs[i].source = "reversal" => txs[i].key \in Requests /\ txs[i].orig \in 1..MaxRows
  BY DEF KnownKeys
<1> QED BY <1>1, <1>2, <1>3 DEF UsedTickets, AllTickets, RowsFrom

\* and stay used.
LEMMA TicketsStay ==
  ASSUME Typed, Typed', [Next]_vars
  PROVE  UsedTickets \subseteq UsedTickets'
<1>1. RowStep
  BY NextRows
<1>2. \A j \in DOMAIN txs :
        /\ j \in DOMAIN txs' /\ txs'[j].source = txs[j].source
        /\ txs'[j].key = txs[j].key /\ txs'[j].orig = txs[j].orig
  BY <1>1, AllSucceed, Identity
<1>3. usedQr \subseteq usedQr'
  BY <1>1 DEF RowStep, Marking, AddsPlain, AddsStaff, AddsExternal, AddsReversal
<1>4. \A i \in DOMAIN redemptions :
        i \in DOMAIN redemptions' /\ redemptions'[i].key = redemptions[i].key
  <2>1. CASE redemptions' = redemptions
    BY <2>1
  <2>2. ASSUME NEW w \in Workers, NEW d, Redeeming(w, d)
        PROVE  \A i \in DOMAIN redemptions :
                 i \in DOMAIN redemptions' /\ redemptions'[i] = redemptions[i]
    BY <2>2, OneMore DEF Redeeming
  <2> QED BY <2>1, <2>2, NextRedemptions
<1> QED BY <1>2, <1>3, <1>4 DEF UsedTickets, RowsFrom

\* Marking rows, or adding one that stands for no request, uses none.
LEMMA NoTicket ==
  ASSUME Typed, Typed', redemptions' = redemptions,
         Marking \/ \E row \in Row : AddsPlain(row)
  PROVE  UsedTickets' = UsedTickets
<1>1. usedQr' = usedQr /\ RowStep
  BY DEF Marking, AddsPlain, RowStep
<1>2. \A j \in DOMAIN txs :
        /\ j \in DOMAIN txs' /\ txs'[j].source = txs[j].source
        /\ txs'[j].key = txs[j].key /\ txs'[j].orig = txs[j].orig
  BY <1>1, AllSucceed, Identity
<1>3. \A j \in DOMAIN txs' : j \in DOMAIN txs \/ txs'[j].source \in {"expire", "redeem"}
  <2>1. CASE Marking
    BY <2>1, SameSize
  <2>2. ASSUME NEW row \in Row, AddsPlain(row)
        PROVE  \A j \in DOMAIN txs' :
                 j \in DOMAIN txs \/ txs'[j].source \in {"expire", "redeem"}
    BY <2>2, Grown DEF AddsPlain
  <2> QED BY <2>1, <2>2
<1>4. \A j : /\ j \in DOMAIN txs /\ txs[j].source = "staff" <=>
                  j \in DOMAIN txs' /\ txs'[j].source = "staff"
             /\ j \in DOMAIN txs /\ txs[j].source = "external" <=>
                  j \in DOMAIN txs' /\ txs'[j].source = "external"
             /\ j \in DOMAIN txs /\ txs[j].source = "reversal" <=>
                  j \in DOMAIN txs' /\ txs'[j].source = "reversal"
  BY <1>2, <1>3
<1> QED BY <1>1, <1>2, <1>4 DEF UsedTickets, RowsFrom

\* What Use asks of the tickets of a step that adds one.
Fresh == UsedTickets' \ UsedTickets

LEMMA TicketsUsed ==
  ASSUME Typed, Typed', KnownKeys', [Next]_vars, NEW t \in UsedTickets', t \notin UsedTickets
  PROVE  Ideal!Use(Fresh)
<1>1. UsedTickets' \subseteq AllTickets
  <2>1. (Typed /\ KnownKeys => UsedTickets \subseteq AllTickets)'
    BY TicketsKnown, PTL
  <2> QED BY <2>1 DEF AllTickets
<1> QED BY <1>1, TicketsStay DEF Fresh, Ideal!Use

\* A purchase, whichever service books it.
LEMMA EarnSimulated ==
  ASSUME Typed, NEW job \in Job, job.cust \in Customers, job.program \in Programs,
         NEW source, Credit(job, source), Ideal!Use(Fresh)
  PROVE  Ideal!Next
<1> DEFINE c == job.cust
           n == job.points
<1>1. points \in [Customers -> Int] /\ pending \in [Customers -> Int] /\ n \in Nat
  BY DEF Typed, TypeOK, Job
<1>2. CASE Held(job)
  <2>1. points' = points /\ pending' = [pending EXCEPT ![c] = @ + n]
    BY <1>1, <1>2 DEF Credit, PostedPart, HeldPart
  <2>2. n = pending'[c] - pending[c]
    BY <1>1, <2>1
  <2>3. Ideal!Earn(c, Fresh, n)
    BY <1>1, <2>1 DEF Ideal!Earn
  <2> QED BY <2>2, <2>3 DEF Ideal!Next, Ideal!Change, Fresh
<1>3. CASE ~Held(job)
  <2>1. pending' = pending /\ points' = [points EXCEPT ![c] = @ + n]
    BY <1>1, <1>3 DEF Credit, PostedPart, HeldPart
  <2>2. n = points'[c] - points[c]
    BY <1>1, <2>1
  <2>3. Ideal!Earn(c, Fresh, n)
    BY <1>1, <2>1 DEF Ideal!Earn
  <2> QED BY <2>2, <2>3 DEF Ideal!Next, Ideal!Change, Fresh
<1> QED BY <1>2, <1>3

LEMMA UpkeepSimulated ==
  ASSUME Typed, Typed', Balanced, NEW w \in Workers, Upkeep(w)
  PROVE  [Ideal!Next]_(Ideal!ledger)
<1> DEFINE c == req[w].cust
<1>1. txs \in Seq(Row) /\ points \in [Customers -> Int] /\ pending \in [Customers -> Int]
  BY DEF Typed, TypeOK
<1>2. UsedTickets' = UsedTickets
  BY UpkeepRows, NoTicket DEF Upkeep, SettlePending, ExpireNothing, ExpirePoints, UpkeepFails
<1>3. CASE SettlePending(w)
  <2> DEFINE n == PointsOf(txs, Due(c))
             rest == Waiting(c) \ Due(c)
  <2>1. /\ c \in Customers /\ points' = [points EXCEPT ![c] = @ + n]
        /\ pending' = [pending EXCEPT ![c] = Greatest(0, @ - n)]
    BY <1>3 DEF SettlePending, Typed, JobsFit, JobFits
  <2>2. rest \cap Due(c) = {} /\ rest \cup Due(c) = Waiting(c)
    BY DEF Waiting, RowsOf, Due
  <2>3. PointsOf(txs, Waiting(c)) = PointsOf(txs, rest) + n
    BY <1>1, <2>2, SumOfUnion
  <2>4. PointsOf(txs, rest) \in Nat /\ n \in Nat
    BY <1>1, SumNatural DEF Balanced, HeldRows, Waiting, RowsOf, Due
  <2>5. pending[c] = PointsOf(txs, Waiting(c)) /\ pending[c] \in Int
    BY <1>1, <2>1 DEF Balanced, PendingIsLedger, Waiting
  <2> HIDE DEF n, rest
  <2>6. n \in 0..pending[c] /\ pending' = [pending EXCEPT ![c] = @ - n]
    <3>1. n \in 0..pending[c] /\ Greatest(0, pending[c] - n) = pending[c] - n
      BY <2>3, <2>4, <2>5 DEF Greatest
    <3> QED BY <2>1, <3>1
  <2>7. n = points'[c] - points[c]
    BY <1>1, <2>1, <2>4
  <2>8. Ideal!Release(c, n)
    BY <1>2, <2>1, <2>6 DEF Ideal!Release
  <2> QED BY <2>1, <2>7, <2>8 DEF Ideal!Next, Ideal!Change
<1>4. CASE ExpirePoints(w) /\ Deductible(c) > 0
  <2> DEFINE n == Deductible(c)
  <2>1. c \in Customers /\ points' = [points EXCEPT ![c] = @ - n] /\ pending' = pending
    BY <1>4 DEF ExpirePoints, Typed, JobsFit, JobFits
  <2>2. PointsOf(txs, Stale(c)) \in Int /\ points[c] \in Int
    BY <1>1, <2>1, PointsOfType
  <2>3. n \in 1..points[c]
    BY <1>4, <2>2 DEF Deductible, Least, Greatest
  <2> HIDE DEF n
  <2>4. n = points[c] - points'[c]
    BY <1>1, <2>1, <2>3
  <2>5. Ideal!Lapse(c, n)
    BY <1>2, <2>1, <2>3 DEF Ideal!Lapse
  <2> QED BY <2>1, <2>4, <2>5 DEF Ideal!Next, Ideal!Change
<1>5. CASE ExpirePoints(w) /\ ~(Deductible(c) > 0)
  BY <1>2, <1>5 DEF ExpirePoints, Ideal!ledger
<1>6. CASE ExpireNothing(w) \/ UpkeepFails(w)
  BY <1>2, <1>6 DEF ExpireNothing, UpkeepFails, balances, Ideal!ledger
<1> QED BY <1>3, <1>4, <1>5, <1>6 DEF Upkeep

\* Nothing that the customers see.
LEMMA Unseen ==
  ASSUME UNCHANGED <<txs, balances, usedQr, redemptions>>
  PROVE  UNCHANGED Ideal!ledger
BY DEF Ideal!ledger, UsedTickets, RowsFrom, balances

LEMMA CommitSimulated ==
  ASSUME Typed, Typed', KnownKeys', Once, RedeemedOnce, [Next]_vars, NEW w \in Workers, Commit(w)
  PROVE  [Ideal!Next]_(Ideal!ledger)
<1> DEFINE job == req[w]
<1>1. /\ job \in Job /\ JobFits(job) /\ txs \in Seq(Row)
      /\ points \in [Customers -> Int] /\ pending \in [Customers -> Int]
  BY DEF Typed, TypeOK, JobsFit
<1>2. CASE UNCHANGED <<txs, balances, usedQr, redemptions>>
  BY <1>2, Unseen
<1>3. CASE CommitAward(w) /\ AwardWith(job.key) = 0 /\ Credit(job, "staff")
  <2>1. /\ job.cust \in Customers /\ job.program \in Programs /\ "staff" \in Sources
    BY <1>1, <1>3 DEF CommitAward, JobFits, Sources
  <2>2. PICK row \in Row : Adding(row, 0) /\ row.source = "staff" /\ row.key = job.key
    BY <1>1, <1>3, <2>1, CreditRows
  <2>3. <<"txId", job.key>> \in UsedTickets'
    BY <2>2, Grown DEF UsedTickets, RowsFrom
  <2>4. <<"txId", job.key>> \notin UsedTickets
    BY <1>1, <1>3, NoSuchAward DEF UsedTickets, RowsFrom
  <2>5. Ideal!Use(Fresh)
    BY <2>3, <2>4, TicketsUsed
  <2> QED BY <1>1, <1>3, <2>1, <2>5, EarnSimulated
<1>4. CASE CommitExternal(w) /\ ExternalWith(job.key) = 0 /\ Credit(job, "external")
  <2>1. /\ job.cust \in Customers /\ job.program \in Programs /\ "external" \in Sources
    BY <1>1, <1>4 DEF CommitExternal, JobFits, Sources
  <2>2. PICK row \in Row : Adding(row, 0) /\ row.source = "external" /\ row.key = job.key
    BY <1>1, <1>4, <2>1, CreditRows
  <2>3. <<"event", job.key>> \in UsedTickets'
    BY <2>2, Grown DEF UsedTickets, RowsFrom
  <2>4. <<"event", job.key>> \notin UsedTickets
    BY <1>1, <1>4, NoSuchExternal DEF UsedTickets, RowsFrom
  <2>5. Ideal!Use(Fresh)
    BY <2>3, <2>4, TicketsUsed
  <2> QED BY <1>1, <1>4, <2>1, <2>5, EarnSimulated
<1>5. CASE /\ CommitRedeem(w) /\ RedemptionsWith(job.key) = {}
           /\ points[job.cust] >= Cost[job.reward]
           /\ points' = [points EXCEPT ![job.cust] = @ - Cost[job.reward]]
           /\ pending' = pending
           /\ redemptions' = Append(redemptions,
                 [cust |-> job.cust, reward |-> job.reward, key |-> job.key, made |-> day,
                  balance |-> points[job.cust] - Cost[job.reward]])
  <2> DEFINE c == job.cust
             n == Cost[job.reward]
             d == [cust |-> c, reward |-> job.reward, key |-> job.key, made |-> day,
                   balance |-> points[c] - n]
  <2>1. c \in Customers /\ n \in Nat \ {0} /\ points[c] \in Int /\ points[c] >= n
    BY <1>1, <1>5, CostAssumption DEF CommitRedeem, JobFits
  <2>2. d.key = job.key /\ redemptions' = Append(redemptions, d)
    BY <1>5
  <2> HIDE DEF d
  <2>3. /\ Len(redemptions) + 1 \in DOMAIN redemptions'
        /\ redemptions'[Len(redemptions) + 1] = d
    BY <2>2, OneMore
  <2>4. <<"redeem", job.key>> \in UsedTickets'
    BY <2>2, <2>3 DEF UsedTickets, RowsFrom
  <2>5. <<"redeem", job.key>> \notin UsedTickets
    BY <1>5 DEF UsedTickets, RowsFrom, RedemptionsWith, RedemptionsWhere
  <2>6. Ideal!Use(Fresh)
    BY <2>4, <2>5, TicketsUsed
  <2> HIDE DEF n
  <2>7. points' = [points EXCEPT ![c] = @ - n] /\ pending' = pending
    BY <1>5 DEF n
  <2> HIDE DEF c
  <2>8. n = points[c] - points'[c] /\ n \in 1..points[c]
    BY <1>1, <2>1, <2>7
  <2>9. Ideal!Spend(c, Fresh, n)
    BY <2>6, <2>7, <2>8 DEF Ideal!Spend
  <2> QED BY <2>1, <2>8, <2>9 DEF Ideal!Next, Ideal!Change, Fresh
<1> QED
  BY <1>2, <1>3, <1>4, <1>5 DEF Commit, CheckAward, CommitAward, CommitExternal, CommitRedeem, Refuse

LEMMA RefundSimulated ==
  ASSUME Typed, Typed', Balanced, KnownKeys', [Next]_vars,
         NEW w \in Workers, NEW q \in Requests, NEW i \in DOMAIN txs, Refund(w, q, i)
  PROVE  [Ideal!Next]_(Ideal!ledger)
<1> DEFINE c == txs[i].cust
           n == txs[i].points
<1>1. /\ txs \in Seq(Row) /\ txs' \in Seq(Row) /\ day \in Nat
      /\ points \in [Customers -> Int] /\ pending \in [Customers -> Int]
      /\ program \in Programs
  BY DEF Typed, TypeOK
<1>2. c \in Customers /\ n \in Int
  <2>1. txs[i] \in Row
    BY <1>1
  <2> QED BY <2>1 DEF Row
<1>3. CASE RefundAgain(w, q, i) \/ RefundRefused(w, q, i)
  BY <1>3, Unseen DEF RefundAgain, RefundRefused, Refuse
<1>4. ASSUME NEW effect \in Int, ReversalWith(q) = 0, Reverse(i, effect, q)
      PROVE  Ideal!Use(Fresh)
  <2> DEFINE plain == NewRow(c, "reversal", effect, "POSTED", q)
             row == [plain EXCEPT !.orig = i]
             marked == Marked({i}, "REVERSED")
  <2>1. plain \in Row /\ i \in Nat
    BY <1>1, <1>2, <1>4, NewRowType DEF Sources, Statuses
  <2>2. row \in Row /\ row.source = "reversal" /\ row.key = q
    BY <2>1 DEF NewRow, Row
  <2>3. txs' = Append(marked, row) /\ marked \in Seq(Row)
    BY <1>1, <1>4, MarkedRows DEF Reverse, Statuses
  <2> HIDE DEF row, marked
  <2>4. Len(marked) + 1 \in DOMAIN txs' /\ txs'[Len(marked) + 1] = row
    BY <1>1, <2>2, <2>3, AppendedRow
  <2>5. <<"refund", q>> \in UsedTickets'
    BY <2>2, <2>4 DEF UsedTickets, RowsFrom
  <2>6. <<"refund", q>> \notin UsedTickets
    BY <1>1, <1>4, NoSuchReversal DEF UsedTickets, RowsFrom
  <2> QED BY <2>5, <2>6, TicketsUsed
<1>5. CASE RefundHeld(w, q, i)
  <2>1. /\ ReversalWith(q) = 0 /\ Reverse(i, 0, q) /\ txs[i].status = "PENDING"
        /\ points' = points /\ pending' = [pending EXCEPT ![c] = Greatest(0, @ - n)]
    BY <1>5 DEF RefundHeld
  <2> DEFINE rest == Waiting(c) \ {i}
  <2>2. rest \cap {i} = {} /\ rest \cup {i} = Waiting(c)
    BY <2>1 DEF Waiting, RowsOf
  <2>3. PointsOf(txs, Waiting(c)) = PointsOf(txs, rest) + n
    <3>1. PointsOf(txs, {i}) = n
      <4>1. i \in 1..Len(txs)
        BY <1>1
      <4> QED BY <1>1, <4>1, SumOfOne
    <3>2. rest \cap {i} = {} /\ rest \cup {i} = Waiting(c)
      BY <2>2
    <3> HIDE DEF rest
    <3>3. PointsOf(txs, rest \cup {i}) = PointsOf(txs, rest) + PointsOf(txs, {i})
      BY <1>1, <3>2, SumOfUnion
    <3> QED BY <3>1, <3>2, <3>3
  <2>4. PointsOf(txs, rest) \in Nat /\ n \in Nat
    <3>1. \A j \in 1..Len(txs) : j \in rest => txs[j].points >= 0
      BY <1>1 DEF Balanced, HeldRows, Waiting, RowsOf
    <3>2. n >= 0
      BY <2>1 DEF Balanced, HeldRows
    <3> QED BY <1>1, <1>2, <3>1, <3>2, SumNatural
  <2>5. pending[c] = PointsOf(txs, Waiting(c)) /\ pending[c] \in Int
    BY <1>1, <1>2 DEF Balanced, PendingIsLedger, Waiting
  <2> HIDE DEF n, c, rest
  <2>6. n \in 0..pending[c] /\ pending' = [pending EXCEPT ![c] = @ - n]
    <3>1. n \in 0..pending[c] /\ Greatest(0, pending[c] - n) = pending[c] - n
      BY <2>3, <2>4, <2>5 DEF Greatest
    <3> QED BY <2>1, <3>1
  <2>7. n = pending[c] - pending'[c]
    BY <1>1, <1>2, <2>4, <2>6
  <2>8. Ideal!Use(Fresh)
    BY <1>4, <2>1, 0 \in Int
  <2>9. Ideal!Undo(c, Fresh, n)
    BY <2>1, <2>6, <2>8 DEF Ideal!Undo
  <2> QED BY <1>2, <2>7, <2>9 DEF Ideal!Next, Ideal!Change, Fresh
<1>6. CASE RefundPosted(w, q, i)
  <2>1. /\ ReversalWith(q) = 0 /\ Reverse(i, -n, q) /\ RefundAllowed(c, n)
        /\ points' = [points EXCEPT ![c] = @ + -n] /\ pending' = pending
    BY <1>6 DEF RefundPosted
  <2> HIDE DEF n, c
  <2>2. Ideal!Use(Fresh)
    BY <1>2, <1>4, <2>1
  <2>3. points' = [points EXCEPT ![c] = @ - n] /\ n = points[c] - points'[c]
    <3>1. points[c] \in Int /\ points[c] + -n = points[c] - n
      BY <1>1, <1>2
    <3>2. points' = [points EXCEPT ![c] = points[c] - n]
      BY <2>1, <3>1
    <3>3. points'[c] = points[c] - n
      BY <1>1, <1>2, <3>2
    <3> QED BY <1>2, <3>1, <3>2, <3>3
  <2>4. (\E p \in Programs : p.allowNegative) \/ n <= points[c]
    BY <1>1, <1>2, <2>1 DEF RefundAllowed
  <2>5. Ideal!Undo(c, Fresh, n)
    BY <2>1, <2>2, <2>3, <2>4 DEF Ideal!Undo
  <2> QED BY <1>2, <2>3, <2>5 DEF Ideal!Next, Ideal!Change, Fresh
<1> QED BY <1>3, <1>5, <1>6 DEF Refund

LEMMA NextSimulated ==
  ASSUME Typed, Typed', Balanced, KnownKeys', Once, RedeemedOnce, [Next]_vars
  PROVE  [Ideal!Next]_(Ideal!ledger)
<1>1. CASE \E w \in Workers : Upkeep(w) \/ Commit(w)
  BY <1>1, UpkeepSimulated, CommitSimulated
<1>2. CASE \E w \in Workers, q \in Requests, i \in DOMAIN txs : Refund(w, q, i)
  BY <1>2, RefundSimulated
<1>3. CASE UNCHANGED <<txs, balances, usedQr, redemptions>>
  BY <1>3, Unseen
<1>4. CASE \E w \in Workers : Arrive(w)
  BY <1>3, <1>4 DEF Arrive, Accept, BeginAward, BeginRedeem, BeginExternal, BeginUpkeep, RefuseToken, Refuse
<1> QED
  BY <1>1, <1>2, <1>3, <1>4 DEF Next, vars, balances, Crash, SetProgram, NextDay

(* The promise is kept: seen from outside, every run of the requests is a  *)
(* run of the ideal ledger, in which a ticket counts once and points only  *)
(* move as Earn, Release, Spend, Lapse and Undo say.                       *)
THEOREM PromiseKept == Spec => ImplementsIdeal
<1>1. Init => Ideal!Init
  BY DEF Init, Ideal!Init, UsedTickets, RowsFrom
<1>2. Init => KnownKeys
  BY DEF Init, KnownKeys
<1>3. Typed /\ KnownKeys /\ [Next]_vars => KnownKeys'
  BY NextTyped, NextRows, NextKnownKeys
<1>4. Typed /\ Typed' /\ Balanced /\ KnownKeys' /\ Once /\ RedeemedOnce /\ [Next]_vars =>
        [Ideal!Next]_(Ideal!ledger)
  BY NextSimulated
<1> QED
  BY <1>1, <1>2, <1>3, <1>4, InitTyped, NextTyped, InitBalanced, NextBalanced, InitOnce,
     NextOnce, PTL DEF Spec, ImplementsIdeal, Ideal!Spec
=============================================================================
