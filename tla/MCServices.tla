----------------------------- MODULE MCServices -----------------------------
(* Small instances of the services that do not touch each other, side by    *)
(* side: service says which of them a behaviour is about, the others rest   *)
(* in their initial states.                                                 *)
EXTENDS GiftCards, PaymentEvents, OfflineQueue, BrowserSessions, Migrations, Lifecycle,
        Accounts, Rewards, Joining, CustomerState, Tiers, TLC

VARIABLE service

-----------------------------------------------------------------------------
\* Values of the constants.

Owner   == [role |-> "OWNER", manage |-> FALSE]
Cashier == [role |-> "CASHIER", manage |-> TRUE]

OwnerAndCashier == {Owner, Cashier}

\* Cards that expire at the end of the first day, or never.
FirstDayOrNever == {0, Null}

\* An approved payment of a customer, one that does not name the business,
\* one that names nobody, and one that is not approved.
FourPayloads ==
  [approved : {TRUE}, slug : {TRUE}, guest : Guests \cup {Absent}]
    \cup [approved : {TRUE}, slug : {FALSE}, guest : Guests]
    \cup {[approved |-> FALSE, slug |-> TRUE, guest |-> Absent]}

BornOnTheFirstDay == [g \in Customers |-> 0]
BirthdayPoints    == [birthday |-> 5, winback |-> 0]

\* The super admin is also a member of the staff, with the same address.
EmailOfEach == [a \in Staff \cup {Super} |-> IF a = "manager" THEN "m@x" ELSE "o@x"]

\* A badge for the first visit, and one for a number of points that its reward
\* helps to reach; a milestone challenge and a daily one.
CupOfCoffee == {[points |-> 2, visits |-> 1, spend |-> 0, items |-> 0]}

TwoBadges ==
  <<[metric |-> "visits", need |-> 1, reward |-> 3], [metric |-> "points", need |-> 4, reward |-> 1]>>

TwoChallenges ==
  [points |-> [need |-> 2, reward |-> 1, recurring |-> FALSE, max |-> NoValue],
   visits |-> [need |-> 1, reward |-> 1, recurring |-> TRUE, max |-> NoValue]]

\* A sign-up completes the referral, or the purchases do.
AtSignupOrLater == {[signup |-> TRUE, min |-> 0], [signup |-> FALSE, min |-> 2]}

\* Three tiers, two of which one award can reach at once.
ThreeTiers  == 1 :> 0 @@ 2 :> 2 @@ 3 :> 4
UpAndDown   == {4, -2}

\* A release that adds a file, and one in which somebody edited another.
Released == <<[version |-> "a", checksum |-> 1], [version |-> "b", checksum |-> 1]>>
Later    == Append(Released, [version |-> "c", checksum |-> 1])
Edited   == <<[version |-> "a", checksum |-> 1], [version |-> "b", checksum |-> 2]>>

ThreeBuilds == {Released, Later, Edited}

\* What the theorems about the services assume of their constants.
ASSUME PayloadsFit == PaymentAssumption
ASSUME PolicyFits  == PolicyAssumption /\ Visitors # {}
ASSUME BuildsFit   == BuildAssumption

-----------------------------------------------------------------------------
(* The behaviours.                                                         *)

Services ==
  {"giftCards", "paymentEvents", "lifecycle", "offlineQueue", "accounts",
   "rewards", "joining", "derivedState", "tiers", "browsers", "migrations"}

SInit ==
  /\ service \in Services
  /\ GiftInit
  /\ PaymentInit /\ LifecycleInit /\ QueueInit /\ AccountsInit
  /\ RewardsInit /\ JoiningInit /\ StateInit /\ TiersInit
  /\ SessionInit /\ SchemaInit
  /\ service # "joining" => settings.signup
  /\ service # "tiers" => situation.rolling /\ situation.tiered

SNext ==
  \/ /\ service = "giftCards" /\ GiftNext
     /\ UNCHANGED <<service, paymentVars, lifecycleVars, offlineVars,
                    accountVars, rewardVars, joiningVars, stateVars, tierVars,
                    sessionVars, schema>>
  \/ /\ service = "paymentEvents" /\ PaymentNext
     /\ UNCHANGED <<service, giftVars, lifecycleVars, offlineVars, accountVars,
                    rewardVars, joiningVars, stateVars, tierVars, sessionVars,
                    schema>>
  \/ /\ service = "lifecycle" /\ LifecycleNext
     /\ UNCHANGED <<service, giftVars, paymentVars, offlineVars, accountVars,
                    rewardVars, joiningVars, stateVars, tierVars, sessionVars,
                    schema>>
  \/ /\ service = "offlineQueue" /\ QueueNext
     /\ UNCHANGED <<service, giftVars, paymentVars, lifecycleVars,
                    accountVars, rewardVars, joiningVars, stateVars, tierVars,
                    sessionVars, schema>>
  \/ /\ service = "accounts" /\ AccountsNext
     /\ UNCHANGED <<service, giftVars, paymentVars, lifecycleVars,
                    offlineVars, rewardVars, joiningVars, stateVars, tierVars,
                    sessionVars, schema>>
  \/ /\ service = "rewards" /\ RewardsNext
     /\ UNCHANGED <<service, giftVars, paymentVars, lifecycleVars,
                    offlineVars, accountVars, joiningVars, stateVars, tierVars,
                    sessionVars, schema>>
  \/ /\ service = "joining" /\ JoiningNext
     /\ UNCHANGED <<service, giftVars, paymentVars, lifecycleVars,
                    offlineVars, accountVars, rewardVars, stateVars,
                    tierVars, sessionVars, schema>>
  \/ /\ service = "derivedState" /\ StateNext
     /\ UNCHANGED <<service, giftVars, paymentVars, lifecycleVars,
                    offlineVars, accountVars, rewardVars, joiningVars, tierVars,
                    sessionVars, schema>>
  \/ /\ service = "tiers" /\ TiersNext
     /\ UNCHANGED <<service, giftVars, paymentVars, lifecycleVars,
                    offlineVars, accountVars, rewardVars, joiningVars,
                    stateVars, sessionVars, schema>>
  \/ /\ service = "browsers" /\ SessionNext
     /\ UNCHANGED <<service, giftVars, paymentVars, lifecycleVars,
                    offlineVars, accountVars, rewardVars, joiningVars,
                    stateVars, tierVars, schema>>
  \/ /\ service = "migrations" /\ SchemaNext
     /\ UNCHANGED <<service, giftVars, paymentVars, lifecycleVars,
                    offlineVars, accountVars, rewardVars, joiningVars,
                    stateVars, tierVars, sessionVars>>

svars ==
  <<service, giftVars, paymentVars, lifecycleVars, offlineVars, accountVars,
    rewardVars, joiningVars, stateVars, tierVars, sessionVars, schema>>

SSpec == SInit /\ [][SNext]_svars

=============================================================================
