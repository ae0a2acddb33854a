------------------------- MODULE MCRequestSessions -------------------------
(* Small instances of RequestSessions for TLC. *)
EXTENDS RequestSessions, TLC

CONSTANTS r1, r2, a, b

\* An award and a join, of two businesses.
AwardAndJoin == (r1 :> "award") @@ (r2 :> "join")
TwoTenants   == (r1 :> a) @@ (r2 :> b)
=============================================================================
