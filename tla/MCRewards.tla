------------------------------ MODULE MCRewards ------------------------------
(* A small instance of Rewards: visits only, with one daily challenge.       *)
EXTENDS Rewards

OneVisit   == {[points |-> 1, visits |-> 1, spend |-> 0, items |-> 0]}
NoBadges   == <<>>
DailyVisit == [visits |-> [need |-> 1, reward |-> 1, recurring |-> TRUE, max |-> NoValue]]
=============================================================================
