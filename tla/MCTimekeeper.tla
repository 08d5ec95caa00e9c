---------------------------- MODULE MCTimekeeper ----------------------------
(* Short phases, so that a day and the start of the next one fit.          *)
EXTENDS Timekeeper

Nobody == {}
ShortPhases == <<2, 1, 1, 1, 1>>
=============================================================================
