----------------------------- MODULE MCReminder -----------------------------
(* Two users, one of whom refuses direct messages.                         *)
EXTENDS Reminder

CONSTANTS open, closed
=============================================================================
