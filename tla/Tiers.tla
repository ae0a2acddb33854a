-------------------------------- MODULE Tiers --------------------------------
(***************************************************************************)
(* The tier of a customer: raised by the trigger on the balance and by the *)
(* hook of an award, moved both ways by the nightly retention sweep under  *)
(* the policy rolling_days, given to whoever has none when the tier is     *)
(* looked at, and lost when the owner deletes it.  Each of them reads      *)
(* first and writes later, in transactions that lock neither the tier read *)
(* nor the balance, except the award, which holds the balance.             *)
(***************************************************************************)
EXTENDS Integers, Sequences

CONSTANTS
  NoTier,
  TierMin,     \* a function from the levels, 1 the lowest, to min_points
  Workers,     \* requests, hooks and sweeps at once
  Gains,       \* points of an award, or of a refund
  Reentry,     \* reentry_extra_points of the policy
  MaxPoints    \* bound on the balance

\* As in DEFAULT_TIERS: the levels are 1, 2, ..., and only 1 needs no points.
ASSUME TierAssumption ==
  /\ TierMin \in Seq(Int) /\ TierMin # <<>>
  /\ \A t \in DOMAIN TierMin : TierMin[t] <= 0 <=> t = 1
  /\ NoTier \notin DOMAIN TierMin

VARIABLES
  balance,    \* customer_balances.points
  held,       \* customer_tiers: a level, 0 if tier_id is NULL, NoTier if no row
  logged,     \* levels of tier_history
  existing,   \* loyalty_tiers
  situation,  \* the policy, and whether the customer is as old as the tiers
  job         \* what each worker has read and will write

tierVars == <<balance, held, logged, existing, situation, job>>

Levels == DOMAIN TierMin

NoJob == [op |-> "none", seen |-> 0, to |-> NoTier, points |-> 0]

Situations == [rolling : BOOLEAN, tiered : BOOLEAN]

\* The insertion of the balance has run the trigger, if there were tiers.
TiersInit ==
  /\ balance = 0
  /\ situation \in Situations
  /\ held = IF situation.tiered THEN 1 ELSE NoTier
  /\ logged = IF situation.tiered THEN {1} ELSE {}
  /\ existing = Levels
  /\ job = [w \in Workers |-> NoJob]

-----------------------------------------------------------------------------

LevelOf(h) == IF h \in Levels THEN h ELSE 0

Highest(S) == CHOOSE t \in S : \A u \in S : u <= t
Lowest(S)  == CHOOSE t \in S : \A u \in S : t <= u

Reached(p) == {t \in existing : TierMin[t] <= p}

PromotionBelow(p) ==
  LET above == {t \in Reached(p) : t > LevelOf(held)}
  IN  IF above = {} THEN NoTier ELSE Lowest(above)

\* What the trigger and checkTierProgression look for.
Promotion(p) ==
  LET above == {t \in Reached(p) : t > LevelOf(held)}
  IN  IF above = {} THEN NoTier ELSE Highest(above)

\* pickRetentionTier, of the points in the window.
RetentionTier(rolling) ==
  LET past     == Highest(logged \cup {LevelOf(held)})
      again(t) == Reentry > 0 /\ t <= past /\ t > LevelOf(held)
      eligible == {t \in Reached(rolling) : again(t) => rolling >= TierMin[t] + Reentry}
  IN  IF eligible = {} THEN Lowest(existing) ELSE Highest(eligible)

Reads(w, op, to, p) ==
  /\ job[w] = NoJob
  /\ job' = [job EXCEPT ![w] = [op |-> op, seen |-> held, to |-> to, points |-> p]]
  /\ UNCHANGED <<balance, held, logged, existing, situation>>

Doing(w, op) == job[w].op = op

JobDone(w) ==
  /\ job' = [job EXCEPT ![w] = NoJob]
  /\ UNCHANGED situation

\* A tier deleted meanwhile: the foreign key refuses it.
Writable(w) == job[w].to \in existing

KeepTier(w) == JobDone(w) /\ UNCHANGED <<balance, held, logged, existing>>

FailJob(w) == job[w] # NoJob /\ KeepTier(w)

Logs(t) == logged' = logged \cup {t}

-----------------------------------------------------------------------------

\* The transaction of an award, or of a refund: it holds the balance from its
\* update, and the trigger reads within it.
StartAward(w) ==
  /\ \A v \in Workers : ~Doing(v, "award")
  /\ \E gain \in Gains :
       /\ balance + gain \in 0..MaxPoints
       /\ Reads(w, "award", Promotion(balance + gain), balance + gain)

CommitAward(w) ==
  /\ Doing(w, "award")
  /\ job[w].to # NoTier => Writable(w)
  /\ balance' = job[w].points
  /\ IF job[w].to = NoTier
     THEN UNCHANGED <<held, logged>>
     ELSE held' = job[w].to /\ Logs(job[w].to)
  /\ JobDone(w)
  /\ UNCHANGED existing

\* checkTierProgression.
StartCheck(w) == Promotion(balance) # NoTier /\ Reads(w, "check", Promotion(balance), 0)

CommitCheck(w) ==
  /\ Doing(w, "check")
  /\ Writable(w)
  /\ held' = job[w].to
  /\ Logs(job[w].to)
  /\ JobDone(w)
  /\ UNCHANGED <<balance, existing>>

\* runTierRetentionSweep, of what was posted in the window.
StartSweep(w) ==
  /\ situation.rolling
  /\ existing # {}
  /\ \E rolling \in 0..MaxPoints : Reads(w, "sweep", RetentionTier(rolling), 0)

\* No tier was found: the row is inserted if there is still none.
Bootstrap(w) ==
  /\ Doing(w, "sweep")
  /\ job[w].seen \in {0, NoTier}
  /\ Writable(w)
  /\ held' = IF held = NoTier THEN job[w].to ELSE held
  /\ Logs(job[w].to)
  /\ JobDone(w)
  /\ UNCHANGED <<balance, existing>>

\* A tier is moved, perhaps over what was written meanwhile.
Move(w) ==
  /\ Doing(w, "sweep")
  /\ job[w].seen \in Levels
  /\ job[w].to # job[w].seen
  /\ Writable(w)
  /\ held' = job[w].to
  /\ Logs(job[w].to)
  /\ JobDone(w)
  /\ UNCHANGED <<balance, existing>>

\* The tier stays, or may not be lowered before the days of grace are over.
Spare(w) ==
  /\ Doing(w, "sweep")
  /\ job[w].seen \in Levels
  /\ job[w].to <= job[w].seen
  /\ KeepTier(w)

\* getCustomerTierInfo of a customer with no tier: the lowest, not recorded.
StartLook(w) == held \in {0, NoTier} /\ 1 \in existing /\ Reads(w, "look", 1, 0)

Assign(w) ==
  /\ Doing(w, "look")
  /\ Writable(w)
  /\ held' = 1
  /\ JobDone(w)
  /\ UNCHANGED <<balance, logged, existing>>

\* deleteTier counts the customers of the tier, and then deletes it: the
\* references to it become NULL, and its history goes with it.
StartDelete(w) == \E t \in existing \ {held} : Reads(w, "delete", t, 0)

Delete(w) ==
  /\ Doing(w, "delete")
  /\ existing' = existing \ {job[w].to}
  /\ held' = IF held = job[w].to THEN 0 ELSE held
  /\ logged' = logged \ {job[w].to}
  /\ JobDone(w)
  /\ UNCHANGED balance

Begins(w) == StartAward(w) \/ StartCheck(w) \/ StartSweep(w) \/ StartLook(w) \/ StartDelete(w)

TiersNext ==
  \E w \in Workers :
    \/ Begins(w)
    \/ CommitAward(w) \/ CommitCheck(w) \/ Bootstrap(w) \/ Move(w) \/ Spare(w)
    \/ Assign(w) \/ Delete(w) \/ FailJob(w)

TiersSpec == TiersInit /\ [][TiersNext]_tierVars

-----------------------------------------------------------------------------

\* A tier above the lowest is in the history, whoever gave it: the sweep asks
\* the history whether the customer must pay to come back.
HistoryCovers == held \in Levels \ {1} => held \in logged

\* Where tiers are kept for life a customer has every tier that was reached.
KeptForLife ==
  ~situation.rolling /\ situation.tiered /\ existing = Levels
    => \A t \in Reached(balance) : t <= held

(* Tiers are never taken from a customer, or left out of the history, by   *)
(* transactions that overtake each other, refunds and failures included.   *)
TiersSound == HistoryCovers /\ KeptForLife
=============================================================================
