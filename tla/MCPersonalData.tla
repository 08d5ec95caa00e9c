--------------------------- MODULE MCPersonalData ---------------------------
(* Two interchangeable users; two emojis, each of a scope of its own; two   *)
(* polls of one or two options; sessions of five minutes.                   *)
EXTENDS PersonalData, TLC

CONSTANTS u1, u2, e1, e2, p1, p2

MCOrder == <<e1, e2>>
TwoScopes == e1 :> "profile" @@ e2 :> "activity-history"
ShortestPhases == <<1, 1, 1, 1, 1>>
UserSymmetry == Permutations({u1, u2})
=============================================================================
