---------------------------- MODULE CustomerState ----------------------------
(***************************************************************************)
(* What is derived from the transactions of a customer: customer_ltv and   *)
(* visit_streaks (schema-extensions.sql, customer-derived-state).  Triggers*)
(* keep them as rows are written; awards of the staff and refunds compute  *)
(* them anew at their end.                                                 *)
(*                                                                         *)
(* The triggers of an INSERT run inside of it: the first computes the      *)
(* totals, then waits for the row of customer_ltv, and the second looks at *)
(* the streak.  Redemptions and refunds lock the balance before they write *)
(* a row, the others afterwards: they can wait for each other, and the     *)
(* database then ends one of them.                                         *)
(***************************************************************************)
EXTENDS Integers, Sequences, FiniteSets

CONSTANTS
  Sessions,       \* transactions that run at the same time
  Kinds,          \* what they do, besides refunds
  NoRow,
  MaxHistory,     \* bound on the rows
  LastDate        \* bound on the clock

ASSUME KindsAssumption ==
  /\ Kinds \subseteq {"award", "external", "redeem", "settle", "expire"}
  /\ NoRow \notin Kinds \cup {"refund"}

VARIABLES
  history,   \* rows of transactions, committed
  ltv,       \* row of customer_ltv, committed
  streak,    \* row of visit_streaks, committed, or NoRow
  session,   \* what each transaction is doing
  date       \* the clock, CURRENT_DATE

stateVars == <<history, ltv, streak, session, date>>

ScriptWithoutRefresh(kind) ==
  CASE kind \in {"award", "external"} -> <<"post", "derive", "balance">>
    [] kind \in {"redeem", "refund"}  -> <<"balance", "post", "derive">>
    [] OTHER                          -> <<"touch", "derive", "balance">>

\* The statements of a transaction.  "post" computes the totals with a new row
\* and "touch" without one, "derive" waits for customer_ltv, "balance" for
\* customer_balances.
Script(kind) ==
  CASE kind = "award"    -> <<"post", "derive", "balance", "refresh">>
    [] kind = "external" -> <<"post", "derive", "balance">>
    [] kind = "redeem"   -> <<"balance", "post", "derive">>
    [] kind = "refund"   -> <<"balance", "post", "derive", "refresh">>
    [] kind = "settle"   -> <<"touch", "derive", "balance">>
    [] kind = "expire"   -> <<"touch", "derive", "balance", "post", "derive">>

NoTotals == [spend |-> 0, transactions |-> 0]

Free == [kind |-> NoRow, step |-> 0, date |-> 0, visits |-> 0, of |-> 0,
         row |-> FALSE, held |-> {}, totals |-> NoTotals, streak |-> NoRow]

StateInit ==
  /\ history = <<>>
  /\ ltv = NoTotals
  /\ streak = NoRow
  /\ session = [s \in Sessions |-> Free]
  /\ date = 0

-----------------------------------------------------------------------------
(* What is derived.                                                        *)

Awards == {"award", "external"}

IsPurchase(row) == row.kind \in Awards

\* type = 'PURCHASE' AND source <> 'reversal' AND status <> 'REVERSED': the
\* type is PURCHASE unless another one is given, so this counts redemptions
\* and expiries.
Included(h) == {i \in DOMAIN h : h[i].kind # "refund" /\ ~h[i].reversed}

TotalsOf(h) ==
  [spend |-> Cardinality({i \in Included(h) : IsPurchase(h[i])}),
   transactions |-> Cardinality(Included(h))]

VisitDates(h) == {h[i].date : i \in {k \in Included(h) : h[k].visits > 0}}

\* The days up to d that follow each other.
RunTo(dates, d) ==
  Cardinality({n \in 0..d : \A k \in d - n .. d : k \in dates})

LargestOf(S) == CHOOSE x \in S : \A y \in S : y <= x

\* calculateVisitStreakMetrics.
StreakOf(dates) ==
  IF dates = {} THEN NoRow
  ELSE LET last == LargestOf(dates)
       IN  [current |-> RunTo(dates, last), longest |-> LargestOf({RunTo(dates, d) : d \in dates}),
            last |-> last, started |-> last - RunTo(dates, last) + 1]

\* update_visit_streak.
StreakAfterVisit(old, today) ==
  IF old = NoRow THEN [current |-> 1, longest |-> 1, last |-> today, started |-> today]
  ELSE IF old.last = today THEN old
  ELSE IF old.last = today - 1
    THEN [old EXCEPT !.current = @ + 1, !.last = today,
                     !.longest = IF old.current + 1 > @ THEN old.current + 1 ELSE @]
    ELSE [old EXCEPT !.current = 1, !.last = today, !.started = today]

-----------------------------------------------------------------------------
(* Transactions.                                                           *)

LtvHeld(s)     == \E o \in Sessions \ {s} : "ltv" \in session[o].held
BalanceLocked(s) == \E o \in Sessions \ {s} : "balance" \in session[o].held

\* What the session sees: the committed rows and what it has written itself.
Marked(s) ==
  IF session[s].kind # "refund" THEN history
  ELSE [history EXCEPT ![session[s].of].reversed = TRUE]

Written(s) ==
  IF ~session[s].row THEN history
  ELSE Append(Marked(s), [kind |-> session[s].kind, date |-> session[s].date,
                          visits |-> session[s].visits, reversed |-> FALSE])

Begin(s, kind, visits, of) ==
  /\ session[s].kind = NoRow
  /\ session' = [session EXCEPT ![s] =
       [Free EXCEPT !.kind = kind, !.step = 1, !.date = date, !.visits = visits, !.of = of]]
  /\ UNCHANGED <<history, ltv, streak, date>>

StartSession(s) ==
  \/ \E kind \in Kinds \cap Awards, visits \in {0, 1} : Begin(s, kind, visits, 0)
  \/ \E kind \in Kinds \ Awards : Begin(s, kind, 0, 0)

\* refundAwardTransaction locks the row first.
StartRefund(s, i) ==
  /\ IsPurchase(history[i]) /\ ~history[i].reversed
  /\ \A o \in Sessions : session[o].of # i
  /\ Begin(s, "refund", 0, i)

AtStep(s, name) ==
  /\ session[s].kind # NoRow
  /\ session[s].step <= Len(Script(session[s].kind))
  /\ Script(session[s].kind)[session[s].step] = name

Advances(s, work) ==
  /\ session' = [session EXCEPT ![s] = [work EXCEPT !.step = @ + 1]]
  /\ UNCHANGED <<history, ltv, streak, date>>

TouchRow(s) ==
  /\ AtStep(s, "touch")
  /\ Advances(s, [session[s] EXCEPT !.totals = TotalsOf(history)])

Post(s) ==
  LET work == [session[s] EXCEPT !.row = TRUE]
      seen == Append(history, [kind |-> work.kind, date |-> work.date,
                               visits |-> work.visits, reversed |-> FALSE])
  IN  /\ AtStep(s, "post")
      /\ Len(history) < MaxHistory
      /\ Advances(s, [work EXCEPT !.totals = TotalsOf(seen)])

\* What the transaction has put into visit_streaks, or what is committed.
StreakSeen(s) == IF "ltv" \in session[s].held THEN session[s].streak ELSE streak

\* update_customer_ltv writes what was computed before the wait; then
\* update_visit_streak, for a row with visits.
Derive(s) ==
  LET work == session[s]
  IN  /\ AtStep(s, "derive") /\ ~LtvHeld(s)
      /\ Advances(s, [work EXCEPT !.held = @ \cup {"ltv"},
           !.streak = IF work.row /\ work.visits > 0
                      THEN StreakAfterVisit(StreakSeen(s), work.date) ELSE StreakSeen(s)])

TakeBalance(s) ==
  /\ AtStep(s, "balance") /\ ~BalanceLocked(s)
  /\ Advances(s, [session[s] EXCEPT !.held = @ \cup {"balance"}])

\* refreshCustomerDerivedState.
Refresh(s) ==
  /\ AtStep(s, "refresh")
  /\ Advances(s, [session[s] EXCEPT !.totals = TotalsOf(Written(s)),
                                    !.streak = StreakOf(VisitDates(Written(s)))])

Commit(s) ==
  /\ session[s].kind # NoRow
  /\ session[s].step > Len(Script(session[s].kind))
  /\ session[s].row => Len(history) < MaxHistory
  /\ history' = Written(s)
  /\ ltv' = session[s].totals
  /\ streak' = session[s].streak
  /\ session' = [session EXCEPT ![s] = Free]
  /\ UNCHANGED date

\* A statement fails, the process dies, or the database ends a deadlock.
Abort(s) ==
  /\ session[s].kind # NoRow
  /\ session' = [session EXCEPT ![s] = Free]
  /\ UNCHANGED <<history, ltv, streak, date>>

Midnight ==
  /\ date < LastDate
  /\ date' = date + 1
  /\ UNCHANGED <<history, ltv, streak, session>>

Works(s) ==
  \/ TouchRow(s) \/ Post(s) \/ Derive(s) \/ TakeBalance(s) \/ Refresh(s) \/ Commit(s) \/ Abort(s)

StateNext ==
  \/ \E s \in Sessions :
       \/ StartSession(s)
       \/ \E i \in DOMAIN history : StartRefund(s, i)
       \/ Works(s)
  \/ Midnight

StateSpec == StateInit /\ [][StateNext]_stateVars

-----------------------------------------------------------------------------
(* Properties.                                                             *)

(* Whatever commits in between, is rolled back, or crosses midnight: when  *)
(* an award of the staff or a refund commits, the totals and the streak    *)
(* are those of the rows.  It computes them before, under the two locks    *)
(* that every writer of rows needs; what the triggers have computed is     *)
(* older than their wait, and is repaired by this alone.                   *)
RefreshRestores ==
  [][history' # history /\ history'[Len(history')].kind \in {"award", "refund"} =>
       /\ ltv' = TotalsOf(history')
       /\ streak' = StreakOf(VisitDates(history'))]_stateVars
=============================================================================
