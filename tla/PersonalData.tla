---------------------------- MODULE PersonalData ----------------------------
(***************************************************************************)
(* What is kept of users by their consent, side by side: the ledger of     *)
(* consent itself, the polls, and the attendance of the voice sessions.    *)
(* The latter two ask the ledger and hear of its changes, which the        *)
(* modules of both have as steps of their own; beyond that the three share *)
(* neither a file nor a variable.  A behaviour exercises one of them, and  *)
(* the others rest.                                                        *)
(***************************************************************************)
EXTENDS Consent, Integers

CONSTANTS
  Polls, Options, MaxEdits, MaxActs, MaxRevokes, MaxPollStarts, MaxPollFaults,
  SessionPhases, DayLength, DailyStart, NoSession, MaxTime, MaxSkips, MaxConsents,
  MaxSessionStarts, MaxSessionFaults

VARIABLES
  component,  \* the one that this behaviour exercises
  up, consent, file, drafts, closing, edits, posted, shown, told, lost, blurred, acts, revokes,
  pollStarts, pollFaults,
  now, sessionPhase, stopping, startAt, order, session, paused, skipFlag, tasks, buttons,
  attendance, log, granted, revoked, acked, owed, consented, completed, early, skips, consents,
  sessionStarts, sessionFaults

Poll == INSTANCE Poll WITH
  starts <- pollStarts, faults <- pollFaults, MaxStarts <- MaxPollStarts, MaxFaults <- MaxPollFaults

Timekeeper == INSTANCE Timekeeper WITH
  phase <- sessionPhase, file <- attendance, starts <- sessionStarts, faults <- sessionFaults,
  Phases <- SessionPhases, MaxStarts <- MaxSessionStarts, MaxFaults <- MaxSessionFaults

ASSUME PersonalDataAssumption ==
  /\ Poll!PollAssumption
  /\ Timekeeper!NoSessionAssumption /\ Timekeeper!PhasesAssumption /\ Timekeeper!DayAssumption
  /\ Timekeeper!BoundsAssumption /\ Timekeeper!WithinTheDay

pollVars == <<up, consent, file, drafts, closing, edits, posted, shown, told, lost, blurred,
              acts, revokes, pollStarts, pollFaults>>
timekeeperVars == <<now, sessionPhase, stopping, startAt, order, session, paused, skipFlag, tasks,
                    buttons, attendance, log, granted, revoked, acked, owed, consented, completed,
                    early, skips, consents, sessionStarts, sessionFaults>>
dataVars == <<component, vars, pollVars, timekeeperVars>>

\* Consent to be named in polls may be there from the beginning; while the
\* polls rest there is none.
DataInit ==
  /\ component \in {"consent", "poll", "timekeeper"}
  /\ Init /\ Poll!Init /\ Timekeeper!Init
  /\ component # "poll" => consent = {}

Exercises(c) == component = c /\ UNCHANGED component

DataNext ==
  \/ Exercises("consent") /\ Next /\ UNCHANGED <<pollVars, timekeeperVars>>
  \/ Exercises("poll") /\ Poll!Next /\ UNCHANGED <<vars, timekeeperVars>>
  \/ Exercises("timekeeper") /\ Timekeeper!Next /\ UNCHANGED <<vars, pollVars>>

DataSpec == DataInit /\ [][DataNext]_dataVars

-----------------------------------------------------------------------------
(* Properties, beside those of Consent.                                    *)

(* The variables of the polls have their types.                            *)
PollTypeOK == component = "poll" => Poll!TypeOK

(* What the users of a poll were told is saved.                            *)
ToldIsSaved == Poll!ToldIsSaved

(* Once its edits are through, the message of a poll shows its votes.      *)
ShownOnceQuiet == Poll!ShownOnceQuiet

(* Nobody gets into the polls but by consent.                              *)
NamedByConsent == Poll!NamedByConsent

(* Nobody's attendance is kept who never consented and checked in.         *)
AttendanceProvenance == Timekeeper!AttendanceProvenance

(* A consenting user's check-in outlives its session.                      *)
AttendanceKept == Timekeeper!AttendanceKept

=============================================================================
