------------------------------ MODULE MCConsent ------------------------------
(* Two interchangeable users and two emojis, each of a scope of its own.   *)
EXTENDS Consent, TLC

CONSTANTS u1, u2, e1, e2

MCOrder == <<e1, e2>>
TwoScopes == e1 :> "profile" @@ e2 :> "activity-history"
UserSymmetry == Permutations({u1, u2})
=============================================================================
