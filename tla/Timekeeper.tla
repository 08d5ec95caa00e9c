----------------------------- MODULE Timekeeper ------------------------------
(***************************************************************************)
(* The daily voice session: one timer starts it, a loop waits for each     *)
(* event of the timeline and announces it, moderators pause and skip,      *)
(* users check in by button, and the attendance is written at the end or   *)
(* on a graceful shutdown.  All of it shares module-level variables.       *)
(*                                                                         *)
(* Time is counted in minutes of the wall clock (minuteMs = 60_000).  The  *)
(* code between two awaits on Discord or on a timer is one step; the       *)
(* awaits on the consent service and on files end within the same turn.    *)
(***************************************************************************)
EXTENDS Integers, FiniteSets, Sequences

CONSTANTS
  Users,
  Phases,       \* config.phases: their durations; work and break alternate
  DayLength,    \* minutes of a day
  DailyStart,   \* startHourJst and startMinuteJst, in minutes
  NoSession,    \* activeSession === null
  MaxTime,      \* bound: the clock stops there
  MaxStarts,    \* bound: starts of the process
  MaxSkips,     \* bound: /timekeeper skip
  MaxConsents,  \* bound: consent given or taken back
  MaxFaults     \* bound: failed requests and writes, crashes in a write

\* TimekeeperSessionEngagement: its start, the attendance of all days as
\* loaded at its begin, and who has checked in.
Sessions == [id : Int, dates : SUBSET (Users \X Int), checks : SUBSET Users]

ASSUME UsersAssumption == IsFiniteSet(Users)
ASSUME NoSessionAssumption == NoSession \notin Sessions
ASSUME PhasesAssumption == Phases \in Seq(Nat \ {0}) /\ Len(Phases) = 5
ASSUME DayAssumption == DayLength \in Nat \ {0} /\ DailyStart \in 0..DayLength - 1
ASSUME BoundsAssumption == {MaxTime, MaxStarts, MaxSkips, MaxConsents, MaxFaults} \subseteq Nat

VARIABLES
  now,       \* the clock
  phase,     \* of runSession and its timer: see RunPhases
  stopping,  \* a graceful shutdown has cancelled the session
  startAt,   \* the start of the session scheduled or running
  order,     \* the event in turn
  session,   \* activeSession: id, attendance and who has checked in
  paused,    \* activePaused
  skipFlag,  \* skipFlag
  tasks,     \* progress messages still updated: when they end
  buttons,   \* ids of sessions whose check-in buttons were posted
  file,      \* data/timekeeper-history.json: attendance by (user, session)
  log,       \* data/timekeeper-sessions.json: sessions cut by a shutdown
  granted,   \* consent: (user, scope)
  revoked,   \* revokedUsers
  acked,     \* history: check-ins that were acknowledged
  owed,      \* history: the ones of users who consented and still do
  consented, \* history: users who ever consented to attendance
  completed, \* history: sessions that ran to their end
  early,     \* history: events announced ahead of their time
  skips, consents, starts, faults   \* counters of the bounds

command == <<paused, skipFlag>>
stored == <<file, log>>
consent == <<granted, revoked, consented, consents>>
history == <<acked, owed, completed>>
vars == <<now, phase, stopping, startAt, order, session, command, tasks, buttons, stored,
          consent, history, early, skips, starts, faults>>

RunPhases == {"down", "idle", "connecting", "posting", "turn", "waiting",
              "announcing", "playing", "settling", "closing"}
Up == phase # "down"
Scopes == {"activity-history", "profile"}

-----------------------------------------------------------------------------
(* The timeline and the schedule.                                          *)

\* The start of each phase, and the end of the last, in minutes after the
\* start of the session.
Begin ==
  LET Break1 == Phases[1]
      Work2  == Break1 + Phases[2]
      Break2 == Work2 + Phases[3]
      Work3  == Break2 + Phases[4]
  IN  <<0, Break1, Work2, Break2, Work3, Work3 + Phases[5]>>
Total == Begin[Len(Phases) + 1]

\* As configured, a session is over before midnight.
ASSUME WithinTheDay == DailyStart + Total <= DayLength

Orders == 1..2 * (Len(Phases) + 1)
Last == 2 * (Len(Phases) + 1)

\* The work phase that event o announces, warns of, or ends.
Work(o) == 2 * ((o - 1) \div 4) + 1
Kind(o) ==
  CASE o % 4 = 1 -> "work-start-soon"
    [] o % 4 = 2 -> "phase-start"
    [] o % 4 = 3 -> "phase-ending-soon"
    [] o = Last  -> "session-end"
    [] OTHER     -> "break-start"

Offset(o) ==
  CASE o % 4 = 1 -> Begin[Work(o)] - 1
    [] o % 4 = 2 -> Begin[Work(o)]
    [] o % 4 = 3 -> Begin[Work(o) + 1] - 1
    [] OTHER     -> Begin[Work(o) + 1]
At(o) == startAt + Offset(o)

SendsText(o) == Kind(o) \in {"phase-start", "break-start"}
\* endAt of an event that sends text; one minute for the others.
EndAt(o) ==
  CASE Kind(o) = "phase-start" -> startAt + Begin[Work(o) + 1]
    [] Kind(o) = "break-start" -> startAt + Begin[Work(o) + 2]
    [] OTHER                   -> At(o) + 1

\* findTimelineStartIndex
Remaining == {o \in Orders : now < EndAt(o)}
First == CHOOSE o \in Remaining : \A p \in Remaining : o <= p

\* Mutant: the index in the timeline, which counts from 0.
StartIndex == First - 1
StartOrder == First

Today(t) == (t \div DayLength) * DayLength + DailyStart
NextDailyStart(t) == IF Today(t) <= t THEN Today(t) + DayLength ELSE Today(t)

\* Mutant: the session of today is never resumed.
NextStartOnly(t) == NextDailyStart(t)

CurrentOrNextStart(t) ==
  IF Today(t) <= t /\ t < Today(t) + Total THEN Today(t) ELSE NextDailyStart(t)

PreparationLead == 3
-----------------------------------------------------------------------------
(* Attendance.                                                             *)

Missing == [kind |-> "missing", rows |-> {}]

Authorized(u) == <<u, "activity-history">> \in granted /\ u \notin revoked

\* Mutants: nobody is asked; the history starts afresh.
AttendedUnasked(s) == s.dates \cup {<<u, s.id>> : u \in s.checks}
EngagementFresh(id) == [id |-> id, dates |-> {}, checks |-> {}]

\* The attendance of a session with those of its check-ins that may be kept.
Attended(s) == s.dates \cup {<<u, s.id>> : u \in {w \in s.checks : Authorized(w)}}

\* createSessionEngagement
Engagement(id) == [id |-> id, dates |-> file.rows, checks |-> {}]

\* persistSessionAttendance: the whole file is replaced.
PersistAttendance == file' = [kind |-> "ok", rows |-> Attended(session)]

Fault == faults < MaxFaults /\ faults' = faults + 1
-----------------------------------------------------------------------------
Init ==
  /\ now = 0 /\ phase = "down" /\ stopping = FALSE /\ startAt = 0 /\ order = 1
  /\ session = NoSession /\ paused = FALSE /\ skipFlag = FALSE
  /\ tasks = {} /\ buttons = {}
  /\ file = Missing /\ log = {}
  /\ granted = {} /\ revoked = {} /\ consented = {}
  /\ acked = {} /\ owed = {} /\ completed = {}
  /\ early = 0 /\ skips = 0 /\ consents = 0 /\ starts = 0 /\ faults = 0

\* resolvePlaybackTimeouts: the audio is cut off before the next event.
WithinBudget == order < Last => now + 1 < At(order + 1)

Tick ==
  /\ now < MaxTime /\ now' = now + 1
  /\ phase = "playing" => WithinBudget
  /\ UNCHANGED <<phase, stopping, startAt, order, session, command, tasks, buttons, stored,
                 consent, history, early, skips, starts, faults>>

-----------------------------------------------------------------------------
(* The session.                                                            *)

\* scheduleNextSession
Schedule == phase' = "idle" /\ startAt' = CurrentOrNextStart(now)

\* The timer fires: runSession resolves the channels and joins the voice.
Prepare ==
  /\ phase = "idle" /\ now + PreparationLead >= startAt
  /\ phase' = "connecting"
  /\ UNCHANGED <<now, stopping, startAt, order, session, command, tasks, buttons, stored,
                 consent, history, early, skips, starts, faults>>

\* Connected in time: the session becomes the active one.  A late one first
\* posts the messages it has missed.
BeginSession ==
  /\ phase = "connecting" /\ Remaining # {} /\ file.kind # "torn"
  /\ session' = Engagement(startAt) /\ order' = StartOrder /\ tasks' = {}
  /\ phase' = IF StartOrder > 1 THEN "posting" ELSE "turn"
  /\ UNCHANGED <<now, stopping, startAt, command, buttons, stored, consent, history, early,
                 skips, starts, faults>>

\* Connected too late: nothing is left to announce.
TooLate ==
  /\ phase = "connecting" /\ Remaining = {}
  /\ Schedule
  /\ UNCHANGED <<now, stopping, order, session, command, tasks, buttons, stored,
                 consent, history, early, skips, starts, faults>>

Posted ==
  /\ phase = "posting" /\ phase' = "turn"
  /\ UNCHANGED <<now, stopping, startAt, order, session, command, tasks, buttons, stored,
                 consent, history, early, skips, starts, faults>>

\* The wait for the event is over: it is announced, or suppressed.
Suppressed == paused /\ session # NoSession /\ Kind(order) = "phase-ending-soon"
Due ==
  IF Suppressed
  THEN order' = order + 1 /\ phase' = "turn" /\ UNCHANGED early
  ELSE /\ phase' = "announcing" /\ UNCHANGED order
       /\ early' = IF At(order) > now THEN early + 1 ELSE early

\* The head of the loop.  It runs on from the announcement before without
\* an await: nothing else takes place in between (see Next).
Turn ==
  /\ phase = "turn" /\ order <= Last
  /\ IF At(order) > now /\ ~skipFlag
     THEN phase' = "waiting" /\ UNCHANGED <<order, early, skipFlag>>
     ELSE Due /\ skipFlag' = (skipFlag /\ At(order) <= now)
  /\ UNCHANGED <<now, stopping, startAt, session, paused, tasks, buttons, stored,
                 consent, history, skips, starts, faults>>

TurnOver ==
  /\ phase = "turn" /\ order > Last /\ phase' = "settling"
  /\ UNCHANGED <<now, stopping, startAt, order, session, command, tasks, buttons, stored,
                 consent, history, early, skips, starts, faults>>

WaitOver ==
  /\ phase = "waiting" /\ At(order) <= now /\ Due
  /\ UNCHANGED <<now, stopping, startAt, session, command, tasks, buttons, stored,
                 consent, history, skips, starts, faults>>

\* playAnnouncement sends its message, which is then updated every minute
\* until the phase ends, and plays the audio.
Announce ==
  /\ phase = "announcing" /\ phase' = "playing"
  /\ tasks' = IF SendsText(order) THEN tasks \cup {EndAt(order)} ELSE tasks
  /\ buttons' = IF SendsText(order) /\ session # NoSession
                THEN buttons \cup {session.id} ELSE buttons
  /\ UNCHANGED <<now, stopping, startAt, order, session, command, stored,
                 consent, history, early, skips, starts, faults>>

Played ==
  /\ phase = "playing" /\ phase' = "turn" /\ order' = order + 1
  /\ UNCHANGED <<now, stopping, startAt, session, command, tasks, buttons, stored,
                 consent, history, early, skips, starts, faults>>

TaskOver(t) ==
  /\ t \in tasks /\ tasks' = tasks \ {t}
  /\ t <= now /\ UNCHANGED faults
  /\ UNCHANGED <<now, phase, stopping, startAt, order, session, command, buttons, stored,
                 consent, history, early, skips, starts>>

\* An edit of the progress message fails: its updates end.
TaskFails(t) ==
  /\ t \in tasks /\ tasks' = tasks \ {t}
  /\ Fault
  /\ UNCHANGED <<now, phase, stopping, startAt, order, session, command, buttons, stored,
                 consent, history, early, skips, starts>>

\* Mutants: the progress messages are not awaited; the pause is not reset.
SettledAnyway == TRUE
ResetSkipOnly == skipFlag' = FALSE /\ UNCHANGED paused

Settled == tasks = {}
ResetCommands == paused' = FALSE /\ skipFlag' = FALSE

\* All messages are final: the attendance is written.
Close ==
  /\ phase = "settling" /\ Settled
  /\ phase' = "closing"
  /\ IF session = NoSession
     THEN UNCHANGED <<file, session>>
     ELSE PersistAttendance /\ session' = [session EXCEPT !.dates = Attended(session)]
  /\ UNCHANGED <<now, stopping, startAt, order, command, tasks, buttons, log,
                 consent, history, early, skips, starts, faults>>

\* The fortunes are sent, the module variables are reset, and the next
\* session is scheduled.
EndSession ==
  /\ phase = "closing"
  /\ session' = NoSession /\ ResetCommands
  /\ completed' = IF session = NoSession THEN completed ELSE completed \cup {session.id}
  /\ Schedule
  /\ UNCHANGED <<now, stopping, order, tasks, buttons, stored, consent, acked, owed, early,
                 skips, starts, faults>>

\* runSession throws (a channel, the voice connection, a message, a file):
\* the error is logged and the next session scheduled, and nothing is reset.
SessionFails ==
  /\ \/ phase = "connecting" /\ file.kind = "torn" /\ Remaining # {} /\ UNCHANGED faults
     \/ phase \in {"connecting", "posting", "announcing", "playing", "settling", "closing"} /\ Fault
  /\ Schedule
  /\ UNCHANGED <<now, stopping, order, session, command, tasks, buttons, stored,
                 consent, history, early, skips, starts>>

-----------------------------------------------------------------------------
(* Moderators and users.                                                   *)

Pause ==
  /\ Up /\ session # NoSession /\ ~paused /\ paused' = TRUE
  /\ UNCHANGED <<now, phase, stopping, startAt, order, session, skipFlag, tasks, buttons,
                 stored, consent, history, early, skips, starts, faults>>

Resume ==
  /\ Up /\ session # NoSession /\ paused /\ paused' = FALSE
  /\ UNCHANGED <<now, phase, stopping, startAt, order, session, skipFlag, tasks, buttons,
                 stored, consent, history, early, skips, starts, faults>>

\* Mutant: the flag is set also when a wait was there to be cut short.
SkipFlagAlways == TRUE

SkipFlagAfterSkip == IF phase = "waiting" THEN skipFlag ELSE TRUE

\* requestTimekeeperSkip: the current wait ends, or the next one will.
Skip ==
  /\ Up /\ session # NoSession /\ skips < MaxSkips /\ skips' = skips + 1
  /\ skipFlag' = SkipFlagAfterSkip
  /\ IF phase = "waiting" THEN Due ELSE UNCHANGED <<phase, order, early>>
  /\ UNCHANGED <<now, stopping, startAt, session, paused, tasks, buttons, stored,
                 consent, history, starts, faults>>

\* A button of the active session.  The last edit of a message takes its
\* buttons away, but a press may be under way by then.
CheckIn(u) ==
  /\ Up /\ session # NoSession /\ session.id \in buttons /\ u \notin session.checks
  /\ session' = [session EXCEPT !.checks = @ \cup {u}]
  /\ acked' = acked \cup {<<u, session.id>>}
  /\ owed' = IF Authorized(u) /\ phase # "closing" THEN owed \cup {<<u, session.id>>} ELSE owed
  /\ UNCHANGED <<now, phase, stopping, startAt, order, command, tasks, buttons, stored,
                 consent, completed, early, skips, starts, faults>>

NoLongerOwed(u) == owed' = {p \in owed : p[1] # u}

\* The consent events, as attachPersistenceAuthorization takes them: of any
\* scope.  revokedUsers lives in the process.
Consented(u, s) ==
  /\ Up /\ consents < MaxConsents /\ consents' = consents + 1
  /\ <<u, s>> \notin granted /\ granted' = granted \cup {<<u, s>>}
  /\ revoked' = revoked \ {u}
  /\ consented' = IF s = "activity-history" THEN consented \cup {u} ELSE consented
  /\ UNCHANGED <<now, phase, stopping, startAt, order, session, command, tasks, buttons, stored,
                 history, early, skips, starts, faults>>

Revoked(u, s) ==
  /\ Up /\ consents < MaxConsents /\ consents' = consents + 1
  /\ <<u, s>> \in granted /\ granted' = granted \ {<<u, s>>}
  /\ revoked' = revoked \cup {u} /\ NoLongerOwed(u)
  /\ UNCHANGED <<now, phase, stopping, startAt, order, session, command, tasks, buttons, stored,
                 consented, acked, completed, early, skips, starts, faults>>

\* /privacy delete: the consent is cleared and the user's attendance taken
\* out of the file, unless it cannot be read.
ForgetUser(u) ==
  /\ Up /\ consents < MaxConsents /\ consents' = consents + 1
  /\ granted' = {p \in granted : p[1] # u}
  /\ revoked' = IF granted' # granted THEN revoked \ {u} ELSE revoked
  /\ NoLongerOwed(u)
  /\ file' = [file EXCEPT !.rows = {p \in @ : p[1] # u}]
  /\ UNCHANGED <<now, phase, stopping, startAt, order, session, command, tasks, buttons, log,
                 consented, acked, completed, early, skips, starts, faults>>

-----------------------------------------------------------------------------
(* The process.                                                            *)

Start ==
  /\ phase = "down" /\ starts < MaxStarts /\ starts' = starts + 1
  /\ Schedule
  /\ UNCHANGED <<now, stopping, order, session, command, tasks, buttons, stored,
                 consent, history, early, skips, faults>>

\* A signal: cancelActiveSession, before the client is destroyed.
Cancel ==
  /\ Up /\ ~stopping /\ stopping' = TRUE
  /\ IF session = NoSession
     THEN UNCHANGED <<session, command, stored>>
     ELSE /\ IF session.checks = {} THEN UNCHANGED file ELSE PersistAttendance
          /\ log' = log \cup {session.id}
          /\ session' = NoSession /\ ResetCommands
  /\ UNCHANGED <<now, phase, startAt, order, tasks, buttons, consent, history, early, skips,
                 starts, faults>>

\* The write fails: the shutdown goes on without it.
CancelFails ==
  /\ Up /\ ~stopping /\ stopping' = TRUE /\ session # NoSession /\ Fault
  /\ UNCHANGED <<now, phase, startAt, order, session, command, tasks, buttons, stored,
                 consent, history, early, skips, starts>>

\* The check-ins of a session in memory die with it.
Ended ==
  /\ Up /\ phase' = "down" /\ stopping' = FALSE /\ startAt' = 0 /\ order' = 1
  /\ session' = NoSession /\ ResetCommands /\ tasks' = {} /\ revoked' = {}
  /\ owed' = IF session = NoSession THEN owed ELSE {p \in owed : p[2] # session.id}
  /\ UNCHANGED <<now, buttons, log, granted, consented, consents, acked, completed,
                 early, skips, starts>>

\* The end of a graceful shutdown, or of a process that is killed.
Stop == Ended /\ UNCHANGED <<file, faults>>

\* The history is written in place: the process may die halfway through.
CrashInWrite ==
  /\ session # NoSession
  /\ \/ phase = "settling" /\ Settled
     \/ ~stopping /\ session.checks # {}
  /\ Ended /\ Fault
  /\ file' = [kind |-> "torn", rows |-> {}]

-----------------------------------------------------------------------------
Loop ==
  \/ Prepare \/ BeginSession \/ TooLate \/ Posted \/ Turn \/ TurnOver \/ WaitOver
  \/ Announce \/ Played \/ Close \/ EndSession \/ SessionFails
Progress == \E t \in tasks : TaskOver(t)

Others ==
  \/ Tick \/ Progress
  \/ \E t \in tasks : TaskFails(t)
  \/ Pause \/ Resume \/ Skip
  \/ \E u \in Users : CheckIn(u) \/ ForgetUser(u)
  \/ \E u \in Users, s \in Scopes : Consented(u, s) \/ Revoked(u, s)
  \/ Start \/ Cancel \/ CancelFails \/ Stop \/ CrashInWrite

Next == Loop \/ (phase # "turn" /\ Others)

Spec == Init /\ [][Next]_vars

\* Time passes, timers fire, the player is bounded by its timeouts, and a
\* request to Discord ends.
Fairness == WF_vars(Tick) /\ WF_vars(Loop) /\ WF_vars(Progress)

FairSpec == Spec /\ Fairness
-----------------------------------------------------------------------------
(* Properties.                                                             *)

\* Every variable has its type, and while an event is in turn it is one of
\* the timeline.
TypeOK ==
  /\ {now, early, skips, consents, starts, faults} \subseteq Nat
  /\ phase \in RunPhases /\ stopping \in BOOLEAN
  /\ startAt \in Int /\ order \in 1..Last + 1
  /\ phase \in {"posting", "waiting", "announcing", "playing"} => order \in Orders
  /\ session \in Sessions \cup {NoSession}
  /\ paused \in BOOLEAN /\ skipFlag \in BOOLEAN
  /\ tasks \subseteq Int /\ buttons \subseteq Int
  /\ file \in [kind : {"missing", "ok", "torn"}, rows : SUBSET (Users \X Int)]
  /\ log \subseteq Int /\ completed \subseteq Int
  /\ granted \subseteq Users \X Scopes /\ revoked \subseteq Users /\ consented \subseteq Users
  /\ acked \subseteq Users \X Int /\ owed \subseteq Users \X Int

\* Nobody's attendance is kept unasked: what the file holds, or a session
\* would write, is of users who consented to it at some time and whose
\* check-in in that session was acknowledged.
Kept == file.rows \cup (IF session = NoSession THEN {} ELSE session.dates)

AttendanceProvenance == \A p \in Kept : p[1] \in consented /\ p \in acked

\* A consenting user's check-in is in the file as soon as its session is no
\* longer the active one, be it over or cut by a graceful shutdown, and stays
\* there: later sessions and the deletions of others, which rewrite the file,
\* keep it.
AttendanceKept ==
  faults = 0 =>
    \A p \in owed : session = NoSession \/ session.id # p[2] => p \in file.rows

\* An event is announced ahead of its time only because of a skip, and one
\* skip advances one event: never more events are early than skips given.
EarlyOnlyBySkip == early + (IF skipFlag THEN 1 ELSE 0) <= skips

\* Claimed where cancelActiveSession resets the variables ("does not leak
\* pause/skip state into the next one"): unless a session has failed, a new
\* one begins neither paused nor with a skip in store.
StartsClean ==
  [][session = NoSession /\ session' # NoSession /\ faults = 0 => ~paused /\ ~skipFlag]_vars

\* A session that ran to its end does not run again on the same day, though
\* moderators may skip to its last event long before its time.
OncePerDay ==
  [][session = NoSession /\ session' # NoSession /\ faults = 0
       => session'.id \notin completed]_vars

\* A process that is up before the start of a session begins it, whatever
\* became of the session before and of the first attempts to connect, unless
\* it ends, the history is damaged, or the session is over before the voice
\* connection stands.
EachDay ==
  \A d \in {t \in 1..MaxTime + PreparationLead : t = Today(t)} :
    (Up /\ now + PreparationLead < d)
      ~> \/ ~Up \/ file.kind = "torn"
         \/ session # NoSession /\ session.id = d
         \/ phase = "connecting" /\ startAt = d /\ now >= d + Total

\* Claimed at TimekeeperSessionSnapshot ("activeSessionId is non-null only
\* while runSession is actively executing").
ActiveOnlyWhileRunning ==
  session # NoSession => phase \notin {"down", "idle"}
=============================================================================
