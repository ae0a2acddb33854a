------------------------------- MODULE Rewards -------------------------------
(***************************************************************************)
(* What an award earns a customer besides its points (staff-award-hooks,   *)
(* achievements-service, challenges-service) and what a refund takes back  *)
(* (gamification/reconciliation-service), for one customer.  The hooks of  *)
(* an award run after its transaction, in transactions of their own; those *)
(* of several awards and the refunds of the customer run at the same time. *)
(*                                                                         *)
(* A transaction is modelled by its reads and its commit.  It holds the    *)
(* row of its award from the start, and the row of the balance from its    *)
(* first payment.  Time passes in windows of the recurring challenges.     *)
(***************************************************************************)
EXTENDS Totals, SequencesExt, FiniteSetsExt

CONSTANTS
  Desks,       \* processes that award, run hooks and refund
  Purchases,   \* what may be sold: [points, visits, spend, items]
  Badge,       \* the achievements, by ascending need: [metric, need, reward]
  Challenge,   \* the challenge of each metric that has one:
               \* [need, reward, recurring, max], max is NoValue when unlimited
  NoValue,
  MaxRows,     \* bound on the rows
  LastWindow   \* bound on the clock

VARIABLES
  rows,     \* rows of transactions
  points,   \* customer_balances.points
  earned,   \* customer_achievements: for each badge, its row or NoValue
  course,   \* customer_challenges: for each challenge, its row or NoValue
  desk,     \* what each process is doing
  window    \* the clock

rewardVars == <<rows, points, earned, course, desk, window>>

Metrics == <<"points", "visits", "spend", "items">>

\* The limits of gamification-support.js, without the rewards of no points:
\* those are granted, but never paid, and have no row that could be reversed.
ASSUME RewardAssumption ==
  /\ Purchases \subseteq [points : Nat, visits : Nat, spend : Nat, items : Nat]
  /\ Badge \in Seq([metric : ToSet(Metrics), need : Nat \ {0}, reward : Nat \ {0}])
  /\ DOMAIN Challenge \subseteq ToSet(Metrics)
  /\ \A m \in DOMAIN Challenge :
       Challenge[m] \in [need : Nat \ {0}, reward : Nat \ {0}, recurring : BOOLEAN,
                        max : (Nat \ {0}) \cup {NoValue}]

Nothing == [points |-> 0, visits |-> 0, spend |-> 0, items |-> 0]

\* The row of a challenge, as it is taken to be where there is none.
Unstarted == [progress |-> 0, completed |-> FALSE, on |-> NoValue, times |-> 0, history |-> <<>>]

RowOf(m) == IF course[m] = NoValue THEN Unstarted ELSE course[m]

Away == [at |-> "idle", source |-> 0, part |-> 0, stats |-> Nothing,
         badge |-> 0, paid |-> <<>>, seen |-> Unstarted]

RewardsInit ==
  /\ rows = <<>>
  /\ points = 0
  /\ earned = [b \in DOMAIN Badge |-> NoValue]
  /\ course = [m \in DOMAIN Challenge |-> NoValue]
  /\ desk = [d \in Desks |-> Away]
  /\ window = 0

-----------------------------------------------------------------------------
(* Rows and what is read from them.                                        *)

Row(kind, of, source, sale) ==
  [kind |-> kind, of |-> of, source |-> source, sale |-> sale,
   window |-> window, original |-> 0, reversed |-> FALSE]

Purchase(sale) == Row("PURCHASE", NoValue, 0, sale)
RewardRow(kind, of, source, n) == Row(kind, of, source, [Nothing EXCEPT !.points = n])

\* status = 'POSTED', and no reversal.
Active(source) == ~rows[source].reversed

\* The rows that count for the statistics: not reversed, not reversals.
Counting(rs) == {i \in DOMAIN rs : ~rs[i].reversed /\ rs[i].original = 0}
Bought(rs)   == {i \in Counting(rs) : rs[i].kind = "PURCHASE"}

SumOver(rs, S, m) == Total([i \in DOMAIN rs |-> IF i \in S THEN rs[i].sale[m] ELSE 0], Len(rs))

\* getCustomerGamificationStats: customer_ltv has the totals of some sales, the
\* triggers being late as CustomerState says, and has not heard of some refunds.
Sold(rs) == {i \in DOMAIN rs : rs[i].kind = "PURCHASE" /\ rs[i].original = 0}

StatsWith(rs, balance, heard) ==
  [points |-> balance, visits |-> SumOver(rs, heard, "visits"),
   spend  |-> SumOver(rs, heard, "spend"), items |-> SumOver(rs, Counting(rs), "items")]

\* As a refund reads it, which has refreshed customer_ltv before.
StatsOf(rs, balance) == StatsWith(rs, balance, Bought(rs))

\* getChallengeMetricValue, over all time or in one window.
MetricOf(rs, m) ==
  SumOver(rs, IF m = "items" THEN Counting(rs) ELSE Bought(rs), m)
MetricIn(rs, m, w) ==
  SumOver(rs, {i \in IF m = "points" THEN Bought(rs) ELSE Counting(rs) : rs[i].window = w}, m)

-----------------------------------------------------------------------------
(* Locks.                                                                  *)

NeverLocks(d, row) == FALSE

\* Its transaction is open, on the row of this award.
Locks(d, row) == desk[d].at \in {"look", "pay", "write", "refund"} /\ desk[d].source = row

RowHeld(d, row) == \E o \in Desks \ {d} : Locks(o, row)

PointsHeld(d) ==
  \E o \in Desks \ {d} : desk[o].at = "refund" \/ desk[o].paid # <<>>

Sets(d, work) == desk' = [desk EXCEPT ![d] = work]

-----------------------------------------------------------------------------
(* An award and its hooks.                                                 *)

MakeAward(d, sale) ==
  /\ desk[d].at = "idle" /\ ~PointsHeld(d)
  /\ Len(rows) < MaxRows
  /\ rows' = Append(rows, Purchase(sale))
  /\ points' = points + sale.points
  /\ Sets(d, [Away EXCEPT !.at = "check", !.source = Len(rows) + 1])
  /\ UNCHANGED <<earned, course, window>>

\* The part after this one: 0 are the achievements, i is the metric i.
Continue(d, part) ==
  Sets(d, IF part > Len(Metrics) THEN Away
          ELSE [Away EXCEPT !.at = IF part <= 1 THEN "check" ELSE "begin",
                            !.source = desk[d].source, !.part = part])

\* The achievements and the challenges start with a look at the award, outside
\* of a transaction: a refund ends the hooks.
CheckSource(d) ==
  /\ desk[d].at = "check"
  /\ IF Active(desk[d].source) THEN Sets(d, [desk[d] EXCEPT !.at = "begin"]) ELSE Sets(d, Away)
  /\ UNCHANGED <<rows, points, earned, course, window>>

\* checkAndAwardAchievements.
BeginBadges(d) ==
  /\ desk[d].at = "begin" /\ desk[d].part = 0
  /\ ~RowHeld(d, desk[d].source)
  /\ IF Active(desk[d].source)
       THEN \E heard \in SUBSET Sold(rows) :
              Sets(d, [desk[d] EXCEPT !.at = "look", !.badge = 1,
                                      !.stats = StatsWith(rows, points, heard)])
       ELSE Continue(d, 1)
  /\ UNCHANGED <<rows, points, earned, course, window>>

\* The next achievement: is it not earned yet, and reached?
LookAtBadge(d) ==
  LET job == desk[d]
  IN  /\ job.at = "look" /\ job.badge <= Len(Badge)
      /\ IF earned[job.badge] = NoValue
              /\ job.stats[Badge[job.badge].metric] >= Badge[job.badge].need
           THEN Sets(d, [job EXCEPT !.at = "pay"])
           ELSE Sets(d, [job EXCEPT !.badge = @ + 1])
      /\ UNCHANGED <<rows, points, earned, course, window>>

\* The payment waits for the balance, and keeps it.
PayBadge(d) ==
  LET job == desk[d]
  IN  /\ job.at = "pay" /\ ~PointsHeld(d)
      /\ Sets(d, [job EXCEPT !.at = "look", !.badge = @ + 1, !.paid = Append(@, job.badge)])
      /\ UNCHANGED <<rows, points, earned, course, window>>

RewardsOf(d) ==
  [i \in DOMAIN desk[d].paid |->
     RewardRow("ACHIEVEMENT", desk[d].paid[i], desk[d].source, Badge[desk[d].paid[i]].reward)]

\* The achievements are inserted ON CONFLICT DO NOTHING, the payments are not.
CommitBadges(d) ==
  LET job == desk[d]
      new == RewardsOf(d)
      place(b) == Len(rows) + CHOOSE i \in DOMAIN job.paid : job.paid[i] = b
  IN  /\ job.at = "look" /\ job.badge > Len(Badge)
      /\ Len(rows) + Len(new) <= MaxRows
      /\ rows' = rows \o new
      /\ points' = points + SumOver(new, DOMAIN new, "points")
      /\ earned' = [b \in DOMAIN earned |->
           IF earned[b] = NoValue /\ b \in ToSet(job.paid)
           THEN [source |-> job.source, reward |-> place(b)] ELSE earned[b]]
      /\ Continue(d, 1)
      /\ UNCHANGED <<course, window>>

\* updateChallengeProgress for one metric: the row is read.
MetricAt(d) == Metrics[desk[d].part]
Gain(d)     == rows[desk[d].source].sale[MetricAt(d)]
MetricConcerned(d) == MetricAt(d) \in DOMAIN Challenge /\ Gain(d) > 0

BeginChallenge(d) ==
  /\ desk[d].at = "begin" /\ desk[d].part > 0
  /\ ~RowHeld(d, desk[d].source)
  /\ IF MetricConcerned(d) /\ Active(desk[d].source)
       THEN Sets(d, [desk[d] EXCEPT !.at = "write", !.seen = RowOf(MetricAt(d))])
       ELSE Continue(d, desk[d].part + 1)
  /\ UNCHANGED <<rows, points, earned, course, window>>

\* No more completions are allowed, or none in this window.
Exhausted(ch, row) ==
  \/ ch.max # NoValue /\ row.times >= ch.max
  \/ ch.recurring /\ row.completed /\ row.on = window

AtMost(n, max) == IF max = NoValue \/ n <= max THEN n ELSE max

\* calculateMilestoneCompletionDelta, or once for a recurring challenge.
Completions(ch, row, progress) ==
  IF ch.recurring THEN IF progress >= ch.need THEN 1 ELSE 0
  ELSE Greatest(0, AtMost(progress \div ch.need, ch.max) - row.times)

\* completeChallengeForCustomer, n times; the row is as it is by now.
Completed(row, n, source) ==
  IF n = 0 THEN row
  ELSE [row EXCEPT !.completed = TRUE, !.on = window, !.times = @ + n,
          !.history = @ \o [i \in 1..n |-> [source |-> source, reward |-> Len(rows) + i,
                                            window |-> window]]]

\* The progress is written as computed from the row that was read.
WriteChallenge(d) ==
  LET job   == desk[d]
      m     == MetricAt(d)
      ch    == Challenge[m]
      reset == ch.recurring /\ job.seen.completed
      now   == IF reset THEN [RowOf(m) EXCEPT !.completed = FALSE, !.on = NoValue] ELSE RowOf(m)
      progress == (IF reset THEN 0 ELSE job.seen.progress) + Gain(d)
      n     == Completions(ch, job.seen, progress)
  IN  /\ job.at = "write"
      /\ IF Exhausted(ch, job.seen)
           THEN UNCHANGED <<rows, points, course>>
           ELSE /\ n > 0 => ~PointsHeld(d)
                /\ Len(rows) + n <= MaxRows
                /\ course' = [course EXCEPT ![m] =
                     Completed([now EXCEPT !.progress = progress], n, job.source)]
                /\ rows' = rows \o [i \in 1..n |-> RewardRow("CHALLENGE", m, job.source, ch.reward)]
                /\ points' = points + n * ch.reward
      /\ Continue(d, job.part + 1)
      /\ UNCHANGED <<earned, window>>

-----------------------------------------------------------------------------
(* A refund: what it computes, on db = [rows, points, earned].             *)

AlwaysStanding(rs, i) == TRUE

\* Not reversed by anybody yet.
Standing(rs, i) == ~rs[i].reversed

\* Reverse row i: the points are taken back by a row that names it.
Reversed(db, i, kind) ==
  LET back == [Row(kind, NoValue, 0, [Nothing EXCEPT !.points = -db.rows[i].sale.points])
                 EXCEPT !.original = i]
  IN  [db EXCEPT !.rows = Append([@ EXCEPT ![i].reversed = TRUE], back),
                 !.points = @ - db.rows[i].sale.points]

\* getRewardTransactions, the latest first; of any source when it is 0.
Rewards(rs, kind, of, source) ==
  {i \in DOMAIN rs : /\ rs[i].kind = kind /\ rs[i].of = of /\ Standing(rs, i)
                     /\ source # 0 => rs[i].source = source}

LatestOf(S) == IF S = {} THEN 0 ELSE Max(S)

\* The payment that is named, or else the latest of the source.
PaymentOf(rs, kind, of, named, source) ==
  IF named \in DOMAIN rs /\ Standing(rs, named) THEN named ELSE LatestOf(Rewards(rs, kind, of, source))

\* reconcileAchievements: the first that is no longer reached, by descending
\* need, until there is none.
Unreached(db) ==
  {b \in DOMAIN Badge : /\ db.earned[b] # NoValue
                        /\ StatsOf(db.rows, db.points)[Badge[b].metric] < Badge[b].need}

RevokeBadge(db, b, refunded) ==
  LET near == PaymentOf(db.rows, "ACHIEVEMENT", b, db.earned[b].reward, refunded)
      paid == IF near # 0 THEN near ELSE LatestOf(Rewards(db.rows, "ACHIEVEMENT", b, 0))
      gone == [db EXCEPT !.earned[b] = NoValue]
  IN  IF paid = 0 THEN gone ELSE Reversed(gone, paid, "ACHIEVEMENT")

ReconcileBadges(db, refunded) ==
  LET pass[n \in 0..Len(Badge)] ==
        IF n = 0 THEN db
        ELSE IF Unreached(pass[n - 1]) = {} THEN pass[n - 1]
        ELSE RevokeBadge(pass[n - 1], Max(Unreached(pass[n - 1])), refunded)
  IN  pass[Len(Badge)]

\* A payment of a challenge, unless it is reversed by now.
TakeBack(db, i) ==
  IF i = 0 \/ ~Standing(db.rows, i) THEN db ELSE Reversed(db, i, "CHALLENGE")

\* The entries that are in a set, in their order.
Among(history, S) ==
  LET upTo[n \in 0..Len(history)] ==
        IF n = 0 THEN <<>>
        ELSE IF history[n] \in S THEN Append(upTo[n - 1], history[n]) ELSE upTo[n - 1]
  IN  upTo[Len(history)]

Without(history, gone) == Among(history, ToSet(history) \ ToSet(gone))

LastOf(history, default) == IF history = <<>> THEN default ELSE Last(history).window

Payment(rs, m, entry) == PaymentOf(rs, "CHALLENGE", m, entry.reward, entry.source)

\* The payments of some completions, each looked for when its turn comes.
TakeInTurn(db, m, gone) ==
  LET after[n \in 0..Len(gone)] ==
        IF n = 0 THEN db ELSE TakeBack(after[n - 1], Payment(after[n - 1].rows, m, gone[n]))
  IN  after[Len(gone)]

\* All of them looked for first; the same one may be found twice.
TakeNamed(db, m, gone) ==
  LET after[n \in 0..Len(gone)] ==
        IF n = 0 THEN db ELSE TakeBack(after[n - 1], Payment(db.rows, m, gone[n]))
  IN  after[Len(gone)]

\* The latest payments of the challenge.
TakeLatest(db, m, number) ==
  LET after[n \in 0..number] ==
        IF n = 0 THEN db
        ELSE TakeBack(after[n - 1], LatestOf(Rewards(after[n - 1].rows, "CHALLENGE", m, 0)))
  IN  after[number]

\* A recurring challenge: the completions by this award whose window no longer
\* has enough in it.
ReconcileRecurring(db, m, row, refunded) ==
  LET gone == Among(row.history, {entry \in ToSet(row.history) :
                /\ entry.source = refunded
                /\ MetricIn(db.rows, m, entry.window) < Challenge[m].need})
      left == Without(row.history, gone)
      here == \E i \in DOMAIN left : left[i].window = window
  IN  [db |-> TakeInTurn(db, m, gone),
       row |-> [progress |-> MetricIn(db.rows, m, window), completed |-> here,
                on |-> IF here THEN window ELSE NoValue, times |-> Len(left), history |-> left]]

\* A milestone challenge: as many completions as what is left is worth; those
\* by this award go first, then the latest.  Where fewer payments are found
\* than completions are taken, the latest are reversed as well.
ReconcileMilestones(db, m, row, refunded) ==
  LET value    == MetricOf(db.rows, m)
      expected == AtMost(value \div Challenge[m].need, Challenge[m].max)
      excess   == Greatest(0, row.times - expected)
      latest   == Reverse(row.history)
      byIt     == {entry \in ToSet(latest) : entry.source = refunded}
      order    == Among(latest, byIt) \o Among(latest, ToSet(latest) \ byIt)
      gone     == SubSeq(order, 1, Least(excess, Len(order)))
      found    == {n \in DOMAIN gone : Payment(db.rows, m, gone[n]) # 0}
      further  == IF Cardinality(found) >= excess THEN 0
                  ELSE excess - Cardinality({Payment(db.rows, m, gone[n]) : n \in found})
      left     == Without(row.history, gone)
  IN  [db |-> TakeLatest(TakeNamed(db, m, gone), m, further),
       row |-> [progress |-> value, completed |-> expected > 0,
                on |-> LastOf(left, IF expected > 0 THEN row.on ELSE NoValue),
                times |-> expected, history |-> left]]

Reconciled(db, m, row, refunded) ==
  IF Challenge[m].recurring THEN ReconcileRecurring(db, m, row, refunded)
  ELSE ReconcileMilestones(db, m, row, refunded)

\* reconcileChallenges, for the rows of customer_challenges that were read.
ReconcileChallenge(acc, m, read, refunded) ==
  IF m \notin DOMAIN read \/ read[m] = NoValue THEN acc
  ELSE LET one == Reconciled(acc.db, m, read[m], refunded)
       IN  [db |-> one.db, course |-> [acc.course EXCEPT ![m] = one.row]]

ReconcileChallenges(db, read, refunded) ==
  LET reconciled(acc, m) == ReconcileChallenge(acc, m, read, refunded)
      start == [db |-> db, course |-> course]
  IN  reconciled(reconciled(reconciled(reconciled(start, "points"), "visits"), "spend"), "items")

-----------------------------------------------------------------------------
(* refundAwardTransaction.  A reward may be refunded by itself, too.       *)

Refund(d, i) ==
  /\ desk[d].at = "idle"
  /\ rows[i].original = 0 /\ Active(i)
  /\ ~RowHeld(d, i) /\ ~PointsHeld(d)
  /\ Sets(d, [Away EXCEPT !.at = "refund", !.source = i, !.seen = course])
  /\ UNCHANGED <<rows, points, earned, course, window>>

CommitRefund(d) ==
  LET i       == desk[d].source
      marked  == Reversed([rows |-> rows, points |-> points, earned |-> earned], i, "PURCHASE")
      badges  == ReconcileBadges(marked, i)
      outcome == ReconcileChallenges(badges, desk[d].seen, i)
  IN  /\ desk[d].at = "refund"
      /\ Len(rows) < MaxRows
      /\ rows' = outcome.db.rows
      /\ points' = outcome.db.points
      /\ earned' = outcome.db.earned
      /\ course' = outcome.course
      /\ Sets(d, Away)
      /\ UNCHANGED window

\* A statement of the hooks fails: the challenges still come after the badges.
FailBadges(d) ==
  /\ desk[d].at \in {"begin", "look", "pay"} /\ desk[d].part = 0
  /\ Continue(d, 1)
  /\ UNCHANGED <<rows, points, earned, course, window>>

\* Another failure, or the process dies: nothing resumes the hooks.
AbandonDesk(d) ==
  /\ desk[d].at # "idle"
  /\ Sets(d, Away)
  /\ UNCHANGED <<rows, points, earned, course, window>>

NextWindow ==
  /\ window < LastWindow
  /\ window' = window + 1
  /\ UNCHANGED <<rows, points, earned, course, desk>>

Hook(d) ==
  \/ CheckSource(d) \/ BeginBadges(d) \/ LookAtBadge(d) \/ PayBadge(d) \/ CommitBadges(d)
  \/ BeginChallenge(d) \/ WriteChallenge(d) \/ FailBadges(d)

RewardsNext ==
  \/ \E d \in Desks :
       \/ \E sale \in Purchases : MakeAward(d, sale)
       \/ \E i \in DOMAIN rows : Refund(d, i)
       \/ Hook(d) \/ CommitRefund(d) \/ AbandonDesk(d)
  \/ NextWindow

RewardsSpec == RewardsInit /\ [][RewardsNext]_rewardVars

-----------------------------------------------------------------------------
(* Properties.                                                             *)

(* Whatever is granted, refunded, revoked and granted again at the same    *)
(* time: the balance is the sum of the rows, and what was taken back was   *)
(* taken back once, by a row for as many points.  The hooks, the revocation*)
(* and a direct refund of a reward all reverse and pay on their own, and   *)
(* the revocation looks for a substitute when a reward is gone.            *)
RewardMoneyKept ==
  /\ points = SumOver(rows, DOMAIN rows, "points")
  /\ \A i \in DOMAIN rows :
       LET backs == {k \in DOMAIN rows : rows[k].original = i}
       IN  /\ Cardinality(backs) = IF rows[i].reversed THEN 1 ELSE 0
           /\ \A k \in backs : rows[k].sale.points = -rows[i].sale.points

(* An award that has been refunded earns nothing any more, although its    *)
(* hooks run after it, in other transactions, and at the same time.        *)
EarnedWhileStanding ==
  [][\A i \in DOMAIN rows' \ DOMAIN rows :
       rows'[i].source # 0 => ~rows'[rows'[i].source].reversed]_rewardVars

(* "Recurring challenges can complete once per active recurrence window"   *)
(* (docs/LOYALTY_POLICY.md).                                               *)
OncePerWindow ==
  \A m \in DOMAIN Challenge : Challenge[m].recurring /\ course[m] # NoValue =>
    \A i, k \in DOMAIN course[m].history :
      course[m].history[i].window = course[m].history[k].window => i = k
=============================================================================
