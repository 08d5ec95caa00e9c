----------------------------- MODULE MCSnapshots -----------------------------
(* Days of three seconds, a timer in the second one, and two deletes of one *)
(* user, the second of which stands for anyone's.  The disk is as earlier   *)
(* processes left it, so that one start is enough.                          *)
EXTENDS Snapshots

CONSTANT u1
=============================================================================
