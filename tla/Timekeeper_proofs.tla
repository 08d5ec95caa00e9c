------------------------- MODULE Timekeeper_proofs --------------------------
(***************************************************************************)
(* Proofs about Timekeeper: what is in the attendance file was consented   *)
(* to and acknowledged, what is owed gets there and stays there, and what  *)
(* the moderators command in one session does not outlive it.              *)
(***************************************************************************)
EXTENDS Timekeeper, TLAPS

-----------------------------------------------------------------------------
(* The timeline.                                                           *)

\* Twelve events, and the time at which each phase begins.
LEMMA TimelineShape ==
  /\ Last = 12 /\ Orders = 1..12
  /\ \A i \in 1..6 : Begin[i] \in Nat
  /\ Total \in Nat /\ Total = Begin[6]
<1>1. Len(Phases) = 5 /\ \A i \in 1..5 : Phases[i] \in Nat
  BY PhasesAssumption
<1>2. Last = 12 /\ Orders = 1..12
  BY <1>1 DEF Last, Orders
<1>3. \A i \in 1..6 : Begin[i] \in Nat
  BY <1>1 DEF Begin
<1> QED
  BY <1>1, <1>2, <1>3 DEF Total

\* Every event has a time, and an end.
LEMMA EventTimes ==
  ASSUME NEW o \in Orders, startAt \in Int
  PROVE  At(o) \in Int /\ EndAt(o) \in Int
<1>1. \A i \in 1..6 : Begin[i] \in Int
  BY TimelineShape
<1>2. o \in 1..12 /\ Last = 12
  BY TimelineShape
<1>3. Work(o) \in {1, 3, 5}
  BY <1>2 DEF Work
<1>4. Begin[Work(o)] \in Int /\ Begin[Work(o) + 1] \in Int
  BY <1>1, <1>3
<1>5. At(o) \in Int
  BY <1>4 DEF At, Offset
<1>6. Kind(o) = "break-start" => Begin[Work(o) + 2] \in Int
  <2>1. Kind(o) = "break-start" => o \in {4, 8}
    BY <1>2 DEF Kind
  <2>2. Kind(o) = "break-start" => Work(o) \in {1, 3}
    BY <2>1 DEF Work
  <2> QED
    BY <2>2, <1>1
<1> QED
  BY <1>4, <1>5, <1>6 DEF EndAt

\* findTimelineStartIndex returns the first event that is not over.
LEMMA FirstRemaining ==
  ASSUME Remaining # {}
  PROVE  /\ StartOrder \in Orders /\ now < EndAt(StartOrder)
         /\ \A o \in Orders : o < StartOrder => ~(now < EndAt(o))
<1>1. Remaining \subseteq 1..12
  BY TimelineShape DEF Remaining
<1>2. \E o \in Remaining : \A p \in Remaining : o <= p
  <2> SUFFICES ASSUME \A o \in Remaining : \E p \in Remaining : ~(o <= p)
               PROVE  FALSE
    OBVIOUS
  <2>1. 1 \notin Remaining
    BY <1>1
  <2>2. 2 \notin Remaining
    BY <1>1, <2>1
  <2>3. 3 \notin Remaining
    BY <1>1, <2>1, <2>2
  <2>4. 4 \notin Remaining
    BY <1>1, <2>1, <2>2, <2>3
  <2>5. 5 \notin Remaining
    BY <1>1, <2>1, <2>2, <2>3, <2>4
  <2>6. 6 \notin Remaining
    BY <1>1, <2>1, <2>2, <2>3, <2>4, <2>5
  <2>7. \A o \in Remaining : o \in 7..12
    BY <1>1, <2>1, <2>2, <2>3, <2>4, <2>5, <2>6
  <2>8. 7 \notin Remaining
    BY <2>7
  <2>9. 8 \notin Remaining
    BY <2>7, <2>8
  <2>10. 9 \notin Remaining
    BY <2>7, <2>8, <2>9
  <2>11. \A o \in Remaining : o \in 10..12
    BY <2>7, <2>8, <2>9, <2>10
  <2>12. 10 \notin Remaining
    BY <2>11
  <2>13. 11 \notin Remaining
    BY <2>11, <2>12
  <2>14. 12 \notin Remaining
    BY <2>11, <2>12, <2>13
  <2> QED
    BY <2>11, <2>12, <2>13, <2>14
<1>3. First \in Remaining /\ \A p \in Remaining : First <= p
  BY <1>2 DEF First
<1> QED
  BY <1>1, <1>3 DEF StartOrder, Remaining

\* The start that scheduleNextSession computes is a time.
LEMMA StartIsTime ==
  ASSUME NEW t \in Int
  PROVE  CurrentOrNextStart(t) \in Int
BY DayAssumption DEF CurrentOrNextStart, NextDailyStart, Today

-----------------------------------------------------------------------------
(* Type correctness, part by part.                                         *)

CountOK == {now, early, skips, consents, starts, faults} \subseteq Nat

LoopOK ==
  /\ phase \in RunPhases /\ stopping \in BOOLEAN
  /\ startAt \in Int /\ order \in 1..Last + 1
  /\ phase \in {"posting", "waiting", "announcing", "playing"} => order \in Orders
  /\ tasks \subseteq Int

SessionOK ==
  /\ session \in Sessions \cup {NoSession}
  /\ file \in [kind : {"missing", "ok", "torn"}, rows : SUBSET (Users \X Int)]
  /\ buttons \subseteq Int /\ log \subseteq Int /\ completed \subseteq Int

CommandOK == paused \in BOOLEAN /\ skipFlag \in BOOLEAN

ConsentOK ==
  /\ granted \subseteq Users \X Scopes /\ revoked \subseteq Users /\ consented \subseteq Users
  /\ acked \subseteq Users \X Int /\ owed \subseteq Users \X Int

\* TypeOK in parts, each about what one group of actions changes.
LEMMA TypeParts == TypeOK <=> CountOK /\ LoopOK /\ SessionOK /\ CommandOK /\ ConsentOK
BY DEF TypeOK, CountOK, LoopOK, SessionOK, CommandOK, ConsentOK

\* The same parts, of the next state.
LEMMA TypePartsNext ==
  TypeOK' <=> CountOK' /\ LoopOK' /\ SessionOK' /\ CommandOK' /\ ConsentOK'
BY DEF TypeOK, CountOK, LoopOK, SessionOK, CommandOK, ConsentOK

\* The attendance of a session is of users, at times.
LEMMA AttendedType ==
  ASSUME SessionOK, session # NoSession
  PROVE  Attended(session) \subseteq Users \X Int
BY DEF SessionOK, Sessions, Attended

\* Every action keeps the counters natural numbers.
LEMMA CountType ==
  ASSUME TypeOK, [Next]_vars
  PROVE  CountOK'
<1> USE DEF TypeOK, CountOK
<1>1. CASE Loop
  BY <1>1 DEF Loop, Prepare, BeginSession, TooLate, Posted, Turn, TurnOver, WaitOver, Due,
     Announce, Played, Close, EndSession, SessionFails, Fault, consent, history
<1>2. CASE Tick \/ Progress \/ (\E t \in tasks : TaskFails(t)) \/ Pause \/ Resume \/ Skip
  BY <1>2 DEF Tick, Progress, TaskOver, TaskFails, Pause, Resume, Skip, Due, Fault, consent,
     history
<1>3. CASE \E u \in Users : CheckIn(u) \/ ForgetUser(u)
  BY <1>3 DEF CheckIn, ForgetUser, consent, history
<1>4. CASE \E u \in Users, s \in Scopes : Consented(u, s) \/ Revoked(u, s)
  BY <1>4 DEF Consented, Revoked, consent, history
<1>5. CASE Start \/ Cancel \/ CancelFails \/ Stop \/ CrashInWrite
  BY <1>5 DEF Start, Cancel, CancelFails, Stop, CrashInWrite, Ended, Fault, consent, history
<1>6. CASE UNCHANGED vars
  BY <1>6 DEF vars, consent, history
<1> QED
  BY <1>1, <1>2, <1>3, <1>4, <1>5, <1>6 DEF Next, Others

\* Every action keeps the state of the loop typed; the event in turn is one
\* of the timeline whenever the loop is about to use it.
LEMMA LoopType ==
  ASSUME TypeOK, [Next]_vars
  PROVE  LoopOK'
<1>0. Last = 12 /\ Orders = 1..12 /\ LoopOK /\ now \in Int
  BY TimelineShape DEF TypeOK, LoopOK
<1>1. \A o \in Orders : EndAt(o) \in Int
  BY <1>0, EventTimes DEF LoopOK
<1>2. CurrentOrNextStart(now) \in Int
  BY <1>0, StartIsTime
<1>3. Remaining # {} => StartOrder \in Orders
  BY FirstRemaining
<1> USE <1>0 DEF LoopOK, RunPhases
<1>4. CASE Prepare \/ Posted \/ TurnOver \/ Played \/ Close
  BY <1>4 DEF Prepare, Posted, TurnOver, Played, Close
<1>5. CASE BeginSession
  BY <1>5, <1>3 DEF BeginSession
<1>6. CASE TooLate \/ EndSession \/ SessionFails \/ Start
  BY <1>6, <1>2 DEF TooLate, EndSession, SessionFails, Start, Schedule
<1>7. CASE Turn \/ WaitOver \/ Skip
  <2>1. Due => (phase' = "turn" /\ order' = order + 1) \/ (phase' = "announcing" /\ order' = order)
    BY DEF Due
  <2>2. UNCHANGED <<stopping, startAt, tasks>>
    BY <1>7 DEF Turn, WaitOver, Skip
  <2>3. (phase' = phase /\ order' = order) \/ order \in Orders
    BY <1>7 DEF Turn, WaitOver, Skip
  <2>4. CASE phase' = phase /\ order' = order
    BY <2>2, <2>4
  <2>5. CASE phase' = "waiting" /\ order' = order
    BY <2>2, <2>3, <2>5
  <2>6. CASE Due
    BY <2>1, <2>2, <2>3, <2>6
  <2> QED
    BY <1>7, <2>4, <2>5, <2>6 DEF Turn, WaitOver, Skip
<1>8. CASE Announce
  BY <1>8, <1>1 DEF Announce
<1>9. CASE Tick \/ Progress \/ (\E t \in tasks : TaskFails(t)) \/ Pause \/ Resume
  BY <1>9 DEF Tick, Progress, TaskOver, TaskFails, Pause, Resume
<1>10. CASE \E u \in Users : CheckIn(u) \/ ForgetUser(u)
  BY <1>10 DEF CheckIn, ForgetUser
<1>11. CASE \E u \in Users, s \in Scopes : Consented(u, s) \/ Revoked(u, s)
  BY <1>11 DEF Consented, Revoked
<1>12. CASE Cancel \/ CancelFails
  BY <1>12 DEF Cancel, CancelFails
<1>13. CASE Stop \/ CrashInWrite
  <2>1. Ended
    BY <1>13 DEF Stop, CrashInWrite
  <2>2. stopping' \in BOOLEAN
    BY <2>1 DEF Ended
  <2>3. phase' = "down" /\ startAt' = 0 /\ order' = 1 /\ tasks' = {}
    BY <2>1 DEF Ended
  <2> QED
    BY <2>2, <2>3
<1>14. CASE UNCHANGED vars
  BY <1>14 DEF vars
<1> QED
  BY <1>4, <1>5, <1>6, <1>7, <1>8, <1>9, <1>10, <1>11, <1>12, <1>13, <1>14
     DEF Next, Loop, Others

\* Every action keeps the session and the files typed.
LEMMA SessionType ==
  ASSUME TypeOK, [Next]_vars
  PROVE  SessionOK'
<1>0. SessionOK /\ startAt \in Int
  BY DEF TypeOK, SessionOK
<1>1. session # NoSession => Attended(session) \subseteq Users \X Int
  BY <1>0, AttendedType
<1> USE <1>0 DEF SessionOK, Sessions, stored
<1>2. CASE Prepare \/ TooLate \/ Posted \/ Turn \/ TurnOver \/ WaitOver \/ Played \/ SessionFails
  BY <1>2 DEF Prepare, TooLate, Posted, Turn, TurnOver, WaitOver, Played, SessionFails, history
<1>3. CASE BeginSession
  BY <1>3 DEF BeginSession, Engagement, history
<1>4. CASE Announce
  BY <1>4 DEF Announce, history
<1>5. CASE Close
  BY <1>5, <1>1 DEF Close, PersistAttendance, history
<1>6. CASE EndSession
  BY <1>6 DEF EndSession
<1>7. CASE Tick \/ Progress \/ (\E t \in tasks : TaskFails(t)) \/ Pause \/ Resume \/ Skip
  BY <1>7 DEF Tick, Progress, TaskOver, TaskFails, Pause, Resume, Skip, history
<1>8. CASE \E u \in Users : CheckIn(u)
  BY <1>8 DEF CheckIn
<1>9. CASE \E u \in Users : ForgetUser(u)
  BY <1>9 DEF ForgetUser
<1>10. CASE \E u \in Users, s \in Scopes : Consented(u, s) \/ Revoked(u, s)
  BY <1>10 DEF Consented, Revoked, history
<1>11. CASE Cancel
  <2>1. session' \in {session, NoSession} /\ UNCHANGED <<buttons, completed>>
    BY <1>11 DEF Cancel, history
  <2>2. file' = file \/ (session # NoSession /\ PersistAttendance)
    BY <1>11 DEF Cancel
  <2>3. log' = log \/ (session # NoSession /\ log' = log \cup {session.id})
    BY <1>11 DEF Cancel
  <2>4. log' \subseteq Int
    BY <2>3
  <2>5. file' \in [kind : {"missing", "ok", "torn"}, rows : SUBSET (Users \X Int)]
    BY <2>2, <1>1 DEF PersistAttendance
  <2> QED
    BY <2>1, <2>4, <2>5
<1>12. CASE Start \/ CancelFails
  BY <1>12 DEF Start, CancelFails, history
<1>13. CASE Stop \/ CrashInWrite
  <2>1. Ended /\ (file' = file \/ file' = [kind |-> "torn", rows |-> {}])
    BY <1>13 DEF Stop, CrashInWrite
  <2>2. file' \in [kind : {"missing", "ok", "torn"}, rows : SUBSET (Users \X Int)]
    BY <2>1
  <2> QED
    BY <2>1, <2>2 DEF Ended
<1>14. CASE UNCHANGED vars
  BY <1>14 DEF vars, history
<1> QED
  BY <1>2, <1>3, <1>4, <1>5, <1>6, <1>7, <1>8, <1>9, <1>10, <1>11, <1>12, <1>13, <1>14
     DEF Next, Loop, Others

\* Every action keeps the commands of the moderators Boolean.
LEMMA CommandType ==
  ASSUME TypeOK, [Next]_vars
  PROVE  CommandOK'
<1>0. CommandOK
  BY TypeParts
<1> USE <1>0 DEF CommandOK, command
<1>1. CASE Turn
  BY <1>1 DEF Turn
<1>2. CASE Loop /\ ~Turn
  BY <1>2 DEF Loop, Prepare, BeginSession, TooLate, Posted, TurnOver, WaitOver, Announce, Played,
     Close, EndSession, SessionFails, ResetCommands
<1>3. CASE Tick \/ Progress \/ (\E t \in tasks : TaskFails(t)) \/ Pause \/ Resume \/ Skip
  BY <1>3 DEF Tick, Progress, TaskOver, TaskFails, Pause, Resume, Skip, SkipFlagAfterSkip
<1>4. CASE \E u \in Users : CheckIn(u) \/ ForgetUser(u)
  BY <1>4 DEF CheckIn, ForgetUser
<1>5. CASE \E u \in Users, s \in Scopes : Consented(u, s) \/ Revoked(u, s)
  BY <1>5 DEF Consented, Revoked
<1>6. CASE Start \/ Cancel \/ CancelFails \/ Stop \/ CrashInWrite
  BY <1>6 DEF Start, Cancel, CancelFails, Stop, CrashInWrite, Ended, ResetCommands
<1>7. CASE UNCHANGED vars
  BY <1>7 DEF vars
<1> QED
  BY <1>1, <1>2, <1>3, <1>4, <1>5, <1>6, <1>7 DEF Next, Others

\* Every action keeps the consent and the histories typed.
LEMMA ConsentType ==
  ASSUME TypeOK, [Next]_vars
  PROVE  ConsentOK'
<1>0. ConsentOK /\ SessionOK
  BY TypeParts
<1> USE <1>0 DEF ConsentOK
<1>1. CASE Loop
  BY <1>1 DEF Loop, Prepare, BeginSession, TooLate, Posted, Turn, TurnOver, WaitOver, Announce,
     Played, Close, EndSession, SessionFails, consent, history
<1>2. CASE Tick \/ Progress \/ (\E t \in tasks : TaskFails(t)) \/ Pause \/ Resume \/ Skip
  BY <1>2 DEF Tick, Progress, TaskOver, TaskFails, Pause, Resume, Skip, consent, history
<1>3. CASE \E u \in Users : CheckIn(u)
  BY <1>3 DEF CheckIn, consent, SessionOK, Sessions
<1>4. CASE \E u \in Users : ForgetUser(u)
  BY <1>4 DEF ForgetUser, NoLongerOwed
<1>5. CASE \E u \in Users, s \in Scopes : Consented(u, s)
  BY <1>5 DEF Consented, history
<1>6. CASE \E u \in Users, s \in Scopes : Revoked(u, s)
  BY <1>6 DEF Revoked, NoLongerOwed
<1>7. CASE Start \/ Cancel \/ CancelFails
  BY <1>7 DEF Start, Cancel, CancelFails, consent, history
<1>8. CASE Stop \/ CrashInWrite
  BY <1>8 DEF Stop, CrashInWrite, Ended
<1>9. CASE UNCHANGED vars
  BY <1>9 DEF vars, consent, history
<1> QED
  BY <1>1, <1>2, <1>3, <1>4, <1>5, <1>6, <1>7, <1>8, <1>9 DEF Next, Others

\* Every variable has its type, whatever the users, the phases and the
\* bounds, and the loop never uses an event outside the timeline.
THEOREM TypeCorrect == Spec => []TypeOK
<1>1. Init => TypeOK
  <2> SUFFICES ASSUME Init
               PROVE  TypeOK
    OBVIOUS
  <2>1. CountOK
    BY DEF Init, CountOK
  <2>2. LoopOK
    <3>1. stopping \in BOOLEAN
      BY DEF Init
    <3>2. phase = "down" /\ startAt = 0 /\ order = 1 /\ tasks = {}
      BY DEF Init
    <3> QED
      BY <3>1, <3>2, TimelineShape DEF LoopOK, RunPhases
  <2>3. SessionOK
    BY DEF Init, SessionOK, Missing
  <2>4. CommandOK
    BY DEF Init, CommandOK
  <2>5. ConsentOK
    BY DEF Init, ConsentOK
  <2> QED
    BY <2>1, <2>2, <2>3, <2>4, <2>5, TypeParts
<1>2. TypeOK /\ [Next]_vars => TypeOK'
  BY CountType, LoopType, SessionType, CommandType, ConsentType, TypePartsNext
<1> QED
  BY <1>1, <1>2, PTL DEF Spec

-----------------------------------------------------------------------------
(* Attendance is kept of those who were asked and who were there.          *)

\* Behind AttendanceProvenance: a grant in force was given, and a check-in
\* in memory was acknowledged.
ProvenanceInv ==
  /\ AttendanceProvenance
  /\ \A u \in Users : <<u, "activity-history">> \in granted => u \in consented
  /\ session # NoSession => \A u \in session.checks : <<u, session.id>> \in acked

\* What a session may write is of users who consented and who checked in.
LEMMA AttendedProvenance ==
  ASSUME TypeOK, ProvenanceInv, session # NoSession, NEW p \in Attended(session)
  PROVE  p[1] \in consented /\ p \in acked
<1>1. CASE p \in session.dates
  BY <1>1 DEF ProvenanceInv, AttendanceProvenance, Kept
<1>2. CASE p \notin session.dates
  <2>1. PICK u \in session.checks : Authorized(u) /\ p = <<u, session.id>>
    BY <1>2 DEF Attended
  <2>2. u \in Users
    BY <2>1 DEF TypeOK, Sessions
  <2> QED
    BY <2>1, <2>2 DEF ProvenanceInv, Authorized
<1> QED
  BY <1>1, <1>2

\* Every step keeps the provenance.
LEMMA ProvenanceInductive ==
  ASSUME TypeOK, ProvenanceInv, [Next]_vars
  PROVE  ProvenanceInv'
<1>0. session # NoSession => \A p \in Attended(session) : p[1] \in consented /\ p \in acked
  BY AttendedProvenance
<1> USE DEF ProvenanceInv, AttendanceProvenance, Kept, stored, consent
<1>1. CASE Prepare \/ TooLate \/ Posted \/ Turn \/ TurnOver \/ WaitOver \/ Played \/ SessionFails
  BY <1>1 DEF Prepare, TooLate, Posted, Turn, TurnOver, WaitOver, Played, SessionFails, history
<1>2. CASE BeginSession
  BY <1>2 DEF BeginSession, Engagement, history
<1>3. CASE Announce
  BY <1>3 DEF Announce, history
<1>4. CASE Close
  <2>1. CASE session = NoSession
    BY <1>4, <2>1 DEF Close, history
  <2>2. CASE session # NoSession
    <3>1. session \in Sessions
      BY <2>2 DEF TypeOK
    <3>2. session'.dates = Attended(session) /\ session'.checks = session.checks
          /\ session'.id = session.id /\ file'.rows = Attended(session)
      BY <1>4, <2>2, <3>1 DEF Close, PersistAttendance, Sessions
    <3>3. UNCHANGED <<consented, granted, acked>>
      BY <1>4 DEF Close, history
    <3> QED
      BY <1>0, <2>2, <3>2, <3>3
  <2> QED
    BY <2>1, <2>2
<1>5. CASE EndSession
  BY <1>5 DEF EndSession
<1>6. CASE Tick \/ Progress \/ (\E t \in tasks : TaskFails(t)) \/ Pause \/ Resume \/ Skip
  BY <1>6 DEF Tick, Progress, TaskOver, TaskFails, Pause, Resume, Skip, history
<1>7. ASSUME NEW u \in Users, CheckIn(u)
      PROVE  ProvenanceInv'
  <2>1. session \in Sessions
    BY <1>7 DEF CheckIn, TypeOK
  <2>2. session'.dates = session.dates /\ session'.checks = session.checks \cup {u}
        /\ session'.id = session.id
    BY <1>7, <2>1 DEF CheckIn, Sessions
  <2>3. UNCHANGED <<file, granted, consented>> /\ acked' = acked \cup {<<u, session.id>>}
    BY <1>7 DEF CheckIn
  <2>4. session # NoSession
    BY <1>7 DEF CheckIn
  <2> QED
    BY <2>2, <2>3, <2>4
<1>8. ASSUME NEW u \in Users, ForgetUser(u)
      PROVE  ProvenanceInv'
  <2>1. file'.rows \subseteq file.rows
    BY <1>8 DEF ForgetUser, TypeOK
  <2>2. granted' \subseteq granted /\ UNCHANGED <<session, consented, acked>>
    BY <1>8 DEF ForgetUser
  <2> QED
    BY <2>1, <2>2
<1>9. ASSUME NEW u \in Users, NEW s \in Scopes, Consented(u, s) \/ Revoked(u, s)
      PROVE  ProvenanceInv'
  <2>1. UNCHANGED <<file, session, acked>> /\ consented \subseteq consented'
    BY <1>9 DEF Consented, Revoked, history
  <2>2. \A w \in Users : <<w, "activity-history">> \in granted' => w \in consented'
    BY <1>9 DEF Consented, Revoked
  <2> QED
    BY <2>1, <2>2
<1>10. CASE Cancel
  <2>1. session' \in {session, NoSession} /\ UNCHANGED <<granted, consented, acked>>
    BY <1>10 DEF Cancel, history
  <2>2. file' = file \/ (session # NoSession /\ file'.rows = Attended(session))
    BY <1>10 DEF Cancel, PersistAttendance
  <2> QED
    BY <2>1, <2>2, <1>0
<1>11. CASE Start \/ CancelFails
  BY <1>11 DEF Start, CancelFails, history
<1>12. CASE Stop \/ CrashInWrite
  <2>1. Ended /\ (file' = file \/ file' = [kind |-> "torn", rows |-> {}])
    BY <1>12 DEF Stop, CrashInWrite
  <2> QED
    BY <2>1 DEF Ended
<1>13. CASE UNCHANGED vars
  BY <1>13 DEF vars, history
<1> QED
  BY <1>1, <1>2, <1>3, <1>4, <1>5, <1>6, <1>7, <1>8, <1>9, <1>10, <1>11, <1>12, <1>13
     DEF Next, Loop, Others

\* Nobody's attendance is kept without their consent at some time, and their
\* acknowledged check-in in that very session.
THEOREM NobodyKeptUnasked == Spec => []AttendanceProvenance
<1>1. Init => ProvenanceInv
  BY DEF Init, ProvenanceInv, AttendanceProvenance, Kept, Missing
<1>2. TypeOK /\ ProvenanceInv /\ [Next]_vars => ProvenanceInv'
  BY ProvenanceInductive
<1>3. ProvenanceInv => AttendanceProvenance
  BY DEF ProvenanceInv
<1> QED
  BY <1>1, <1>2, <1>3, TypeCorrect, PTL DEF Spec

-----------------------------------------------------------------------------
(* What moderators command.                                                *)

\* A flag in store counts for at most one skip.
LEMMA EarlyWith ==
  ASSUME NEW e \in Int, NEW k \in Int, NEW f, e < k
  PROVE  e + (IF f THEN 1 ELSE 0) <= k
<1>1. CASE f
  BY <1>1
<1>2. CASE ~f
  BY <1>2
<1> QED
  BY <1>1, <1>2

\* No flag counts for nothing.
LEMMA EarlyWithout ==
  ASSUME NEW e \in Int, NEW k \in Int, NEW f, ~f, e <= k
  PROVE  e + (IF f THEN 1 ELSE 0) <= k
OBVIOUS

\* Either nothing moves, or the flag is reset, or a skip is spent: the one
\* it takes for an event to be early is never taken twice.
LEMMA EarlyInductive ==
  ASSUME TypeOK, EarlyOnlyBySkip, [Next]_vars
  PROVE  EarlyOnlyBySkip'
<1>0. early \in Nat /\ skips \in Nat
  BY DEF TypeOK
<1>1. skipFlag => early + 1 <= skips
  BY DEF EarlyOnlyBySkip
<1>2. early <= skips
  BY <1>0 DEF EarlyOnlyBySkip
<1>3. Due => early' = early \/ (early' = early + 1 /\ At(order) > now)
  BY DEF Due
<1>4. CASE UNCHANGED <<early, skips, skipFlag>>
  BY <1>4 DEF EarlyOnlyBySkip
<1>5. CASE UNCHANGED <<early, skips>> /\ skipFlag' = FALSE
  BY <1>0, <1>2, <1>5 DEF EarlyOnlyBySkip
<1>6. CASE Turn
  <2>1. CASE At(order) > now /\ ~skipFlag
    BY <1>4, <1>6, <2>1 DEF Turn
  <2>2. CASE ~(At(order) > now /\ ~skipFlag)
    <3>1. Due /\ skips' = skips
      BY <1>6, <2>2 DEF Turn
    <3>2. skipFlag' = (skipFlag /\ At(order) <= now)
      BY <1>6, <2>2 DEF Turn
    <3>3. now \in Int /\ At(order) \in Int
      BY <1>6, TimelineShape, EventTimes DEF Turn, TypeOK
    <3>4. CASE At(order) <= now
      <4>1. early' = early
        BY <1>3, <3>1, <3>3, <3>4
      <4>2. skipFlag' => skipFlag
        BY <3>2
      <4>3. CASE skipFlag'
        <5>1. early + 1 <= skips
          BY <1>1, <4>2, <4>3
        <5>2. early' < skips' /\ early' \in Int /\ skips' \in Int
          BY <1>0, <3>1, <4>1, <5>1
        <5> QED
          BY <5>2, EarlyWith DEF EarlyOnlyBySkip
      <4>4. CASE ~skipFlag'
        BY <1>0, <1>2, <3>1, <4>1, <4>4 DEF EarlyOnlyBySkip
      <4> QED
        BY <4>3, <4>4
    <3>5. CASE ~(At(order) <= now)
      <4>1. skipFlag
        BY <2>2, <3>3, <3>5
      <4>2. ~skipFlag'
        BY <3>2, <3>5
      <4>3. early' <= early + 1
        BY <1>0, <1>3, <3>1
      <4>4. early + 1 <= skips
        BY <1>1, <4>1
      <4>5. early' <= skips' /\ early' \in Int /\ skips' \in Int
        BY <1>0, <1>3, <3>1, <4>3, <4>4
      <4> QED
        BY <4>2, <4>5, EarlyWithout DEF EarlyOnlyBySkip
    <3> QED
      BY <3>4, <3>5
  <2> QED
    BY <2>1, <2>2
<1>7. CASE WaitOver
  <2>1. now \in Int /\ At(order) \in Int
    BY <1>7, TimelineShape, EventTimes DEF WaitOver, TypeOK
  <2>2. early' = early /\ UNCHANGED <<skips, skipFlag>>
    BY <1>3, <1>7, <2>1 DEF WaitOver, command
  <2> QED
    BY <1>4, <2>2
<1>8. CASE Skip
  <2>1. skips' = skips + 1
    BY <1>8 DEF Skip
  <2>2. CASE phase = "waiting"
    <3>1. skipFlag' = skipFlag
      BY <1>8, <2>2 DEF Skip, SkipFlagAfterSkip
    <3>0. early' \in {early, early + 1}
      BY <1>3, <1>8, <2>2 DEF Skip
    <3>2. CASE skipFlag
      <4>1. early + 1 <= skips
        BY <1>1, <3>2
      <4>2. early' <= early + 1 /\ early' \in Int /\ skips' \in Int
        BY <1>0, <2>1, <3>0
      <4>3. early' < skips'
        <5>1. early' <= skips
          BY <1>0, <4>1, <4>2
        <5> QED
          BY <1>0, <2>1, <4>2, <5>1
      <4> QED
        BY <4>2, <4>3, EarlyWith DEF EarlyOnlyBySkip
    <3>3. CASE ~skipFlag
      <4>1. ~skipFlag'
        BY <3>1, <3>3
      <4>2. early' <= skips' /\ early' \in Int /\ skips' \in Int
        BY <1>0, <1>2, <2>1, <3>0
      <4> QED
        BY <4>1, <4>2, EarlyWithout DEF EarlyOnlyBySkip
    <3> QED
      BY <3>2, <3>3
  <2>3. CASE phase # "waiting"
    <3>1. skipFlag' = TRUE /\ early' = early
      BY <1>8, <2>3 DEF Skip, SkipFlagAfterSkip
    <3> QED
      BY <1>0, <1>2, <2>1, <3>1 DEF EarlyOnlyBySkip
  <2> QED
    BY <2>2, <2>3
<1>9. CASE Loop /\ ~Turn /\ ~WaitOver
  BY <1>4, <1>5, <1>9 DEF Loop, Prepare, BeginSession, TooLate, Posted, TurnOver, Announce,
     Played, Close, EndSession, SessionFails, ResetCommands, command
<1>10. CASE Tick \/ Progress \/ (\E t \in tasks : TaskFails(t)) \/ Pause \/ Resume
  BY <1>4, <1>10 DEF Tick, Progress, TaskOver, TaskFails, Pause, Resume, command
<1>11. CASE \E u \in Users : CheckIn(u) \/ ForgetUser(u)
  BY <1>4, <1>11 DEF CheckIn, ForgetUser, command
<1>12. CASE \E u \in Users, s \in Scopes : Consented(u, s) \/ Revoked(u, s)
  BY <1>4, <1>12 DEF Consented, Revoked, command
<1>13. CASE Start \/ Cancel \/ CancelFails \/ Stop \/ CrashInWrite
  BY <1>4, <1>5, <1>13 DEF Start, Cancel, CancelFails, Stop, CrashInWrite, Ended, ResetCommands,
     command
<1>14. CASE UNCHANGED vars
  BY <1>4, <1>14 DEF vars, command
<1> QED
  BY <1>6, <1>7, <1>8, <1>9, <1>10, <1>11, <1>12, <1>13, <1>14 DEF Next, Others

\* No more events are ever announced ahead of their time than skips were
\* given, with any phases and any number of skips.
THEOREM OneEventPerSkip == Spec => []EarlyOnlyBySkip
<1>1. Init => EarlyOnlyBySkip
  BY DEF Init, EarlyOnlyBySkip
<1>2. TypeOK /\ EarlyOnlyBySkip /\ [Next]_vars => EarlyOnlyBySkip'
  BY EarlyInductive
<1> QED
  BY <1>1, <1>2, TypeCorrect, PTL DEF Spec

-----------------------------------------------------------------------------
(* From one session to the next, as long as nothing fails.                 *)

\* A failure is counted, and the count never goes back.
LEMMA FaultCounts ==
  ASSUME TypeOK
  PROVE  /\ Fault => faults' # 0
         /\ [Next]_vars /\ faults' = 0 => faults = 0
<1>0. faults \in Nat
  BY DEF TypeOK
<1>1. Fault => faults' # 0 /\ faults' = faults + 1
  BY <1>0 DEF Fault
<1>2. CASE UNCHANGED faults
  BY <1>1, <1>2
<1>3. CASE Fault
  BY <1>1, <1>3
<1>4. [Next]_vars => Fault \/ UNCHANGED faults
  BY DEF Next, Loop, Others, vars, Prepare, BeginSession, TooLate, Posted, Turn, TurnOver,
     WaitOver, Announce, Played, Close, EndSession, SessionFails, Tick, Progress, TaskOver,
     TaskFails, Pause, Resume, Skip, CheckIn, ForgetUser, Consented, Revoked, Start, Cancel,
     CancelFails, Stop, CrashInWrite, Ended
<1> QED
  BY <1>1, <1>2, <1>3, <1>4

\* While nothing has failed the file can be read, there is no session
\* outside runSession, and without one nothing is commanded.
CleanInv ==
  faults = 0 =>
    /\ file.kind # "torn"
    /\ phase \in {"down", "idle", "connecting"} => session = NoSession
    /\ session = NoSession => ~paused /\ ~skipFlag

\* A step that does not fail keeps it.
LEMMA CleanInductive ==
  ASSUME TypeOK, CleanInv, [Next]_vars
  PROVE  CleanInv'
<1> SUFFICES ASSUME faults' = 0
             PROVE  CleanInv'
  BY DEF CleanInv
<1>0. faults = 0 /\ ~Fault
  BY FaultCounts
<1> USE <1>0 DEF CleanInv, command, stored
<1>1. CASE Prepare \/ TooLate \/ Posted \/ TurnOver \/ Announce \/ Played
  BY <1>1 DEF Prepare, TooLate, Posted, TurnOver, Announce, Played, Schedule
<1>2. CASE BeginSession
  BY <1>2 DEF BeginSession
<1>3. CASE Turn
  <2>1. phase' \in {"waiting", "turn", "announcing"} /\ UNCHANGED <<file, session, paused>>
    BY <1>3 DEF Turn, Due
  <2>2. skipFlag' => skipFlag
    BY <1>3 DEF Turn
  <2> QED
    BY <2>1, <2>2
<1>4. CASE WaitOver
  BY <1>4 DEF WaitOver, Due
<1>5. CASE Close
  <2>1. session # NoSession => session' \in Sessions /\ file'.kind # "torn"
    BY <1>5, AttendedType DEF Close, PersistAttendance, TypeOK, SessionOK, Sessions
  <2>2. session # NoSession => session' # NoSession
    BY <2>1, NoSessionAssumption
  <2>3. session = NoSession => UNCHANGED <<file, session>>
    BY <1>5 DEF Close
  <2>4. UNCHANGED <<paused, skipFlag>> /\ phase' = "closing"
    BY <1>5 DEF Close
  <2> QED
    BY <2>1, <2>2, <2>3, <2>4
<1>6. CASE EndSession
  BY <1>6 DEF EndSession, ResetCommands
<1>7. CASE SessionFails
  BY <1>7 DEF SessionFails
<1>8. CASE Tick \/ Progress \/ (\E t \in tasks : TaskFails(t)) \/ Pause \/ Resume
  BY <1>8 DEF Tick, Progress, TaskOver, TaskFails, Pause, Resume
<1>9. CASE Skip
  BY <1>9 DEF Skip, Due
<1>10. CASE \E u \in Users : CheckIn(u)
  <2>1. session # NoSession /\ session' \in Sessions
    BY <1>10 DEF CheckIn, TypeOK, Sessions
  <2>2. session' # NoSession
    BY <2>1, NoSessionAssumption
  <2>3. UNCHANGED <<file, phase>>
    BY <1>10 DEF CheckIn
  <2> QED
    BY <2>1, <2>2, <2>3
<1>11. CASE \E u \in Users : ForgetUser(u)
  <2>1. file'.kind = file.kind /\ UNCHANGED <<phase, session, paused, skipFlag>>
    BY <1>11 DEF ForgetUser, TypeOK
  <2> QED
    BY <2>1
<1>12. CASE \E u \in Users, s \in Scopes : Consented(u, s) \/ Revoked(u, s)
  BY <1>12 DEF Consented, Revoked
<1>13. CASE Start
  BY <1>13 DEF Start, Schedule
<1>14. CASE Cancel
  <2>1. CASE session = NoSession
    BY <1>14, <2>1 DEF Cancel
  <2>2. CASE session # NoSession
    <3>1. file'.kind # "torn"
      BY <1>14, <2>2 DEF Cancel, PersistAttendance
    <3>2. session' = NoSession /\ ~paused' /\ ~skipFlag'
      BY <1>14, <2>2 DEF Cancel, ResetCommands
    <3> QED
      BY <3>1, <3>2
  <2> QED
    BY <2>1, <2>2
<1>15. CASE CancelFails \/ CrashInWrite
  BY <1>15 DEF CancelFails, CrashInWrite
<1>16. CASE Stop
  <2>1. UNCHANGED file
    BY <1>16 DEF Stop
  <2>2. session' = NoSession /\ ~paused' /\ ~skipFlag'
    BY <1>16 DEF Stop, Ended, ResetCommands
  <2> QED
    BY <2>1, <2>2
<1>17. CASE UNCHANGED vars
  BY <1>17 DEF vars
<1> QED
  BY <1>1, <1>2, <1>3, <1>4, <1>5, <1>6, <1>7, <1>8, <1>9, <1>10, <1>11, <1>12, <1>13, <1>14,
     <1>15, <1>16, <1>17 DEF Next, Loop, Others

\* CleanInv holds of every reachable state.
LEMMA CleanAlways == Spec => []CleanInv
<1>1. Init => CleanInv
  BY DEF Init, CleanInv, Missing
<1>2. TypeOK /\ CleanInv /\ [Next]_vars => CleanInv'
  BY CleanInductive
<1> QED
  BY <1>1, <1>2, TypeCorrect, PTL DEF Spec

\* No pause and no skip of one session reaches the next, in any number of
\* days and restarts, unless a session has failed.
THEOREM SessionsStartClean == Spec => StartsClean
<1>1. CleanInv => [session = NoSession /\ session' # NoSession /\ faults = 0
                     => ~paused /\ ~skipFlag]_vars
  BY DEF CleanInv
<1> QED
  BY <1>1, CleanAlways, PTL DEF Spec, StartsClean

\* The session that scheduleNextSession picks is not over yet.
LEMMA StartIsAhead ==
  ASSUME NEW t \in Int
  PROVE  t < CurrentOrNextStart(t) + Total
<1>1. Today(t) \in Int /\ NextDailyStart(t) \in Int /\ t < NextDailyStart(t)
  BY DayAssumption DEF NextDailyStart, Today
<1> QED
  BY <1>1, TimelineShape DEF CurrentOrNextStart

\* The last message lasts until the end of the session, and no pause keeps
\* it from being sent.
LEMMA LastMessage ==
  ASSUME TypeOK
  PROVE  /\ 10 \in Orders /\ Last = 12
         /\ EndAt(10) = startAt + Total /\ startAt + Total \in Int /\ now \in Int
         /\ SendsText(10) /\ Kind(10) = "phase-start"
<1>1. Last = 12 /\ Orders = 1..12 /\ Total = Begin[6] /\ Total \in Nat
  BY TimelineShape
<1>2. Kind(10) = "phase-start" /\ Work(10) = 5
  BY <1>1 DEF Kind, Work
<1> QED
  BY <1>1, <1>2 DEF EndAt, SendsText, TypeOK

\* While nothing has failed: the sessions that ran to their end are over by
\* the clock too, because the last message is awaited, and so none of them
\* is scheduled again.
Running == {"posting", "turn", "waiting", "announcing", "playing", "settling"}
LastSent == phase \in Running /\ (order > 10 \/ (order = 10 /\ phase = "playing"))
Over == startAt + Total <= now

OnceInv ==
  faults = 0 =>
    /\ \A c \in completed : c + Total <= now
    /\ phase \in {"idle", "connecting"} => startAt \notin completed
    /\ session # NoSession => session.id = startAt
    /\ LastSent => startAt + Total \in tasks \/ Over
    /\ phase = "settling" => order > 10
    /\ phase = "closing" => Over

\* A session is scheduled that has not been completed.
LEMMA ScheduleFresh ==
  ASSUME TypeOK, Schedule, NEW S \in SUBSET Int, \A c \in S : c + Total <= now
  PROVE  startAt' \notin S
<1>1. now \in Int /\ Total \in Int
  BY TimelineShape DEF TypeOK
<1>2. startAt' = CurrentOrNextStart(now) /\ startAt' \in Int
  BY <1>1, StartIsTime DEF Schedule
<1>3. now < startAt' + Total
  BY <1>1, <1>2, StartIsAhead
<1> QED
  BY <1>1, <1>2, <1>3

\* A step that does not fail keeps OnceInv.
LEMMA OnceInductive ==
  ASSUME TypeOK, CleanInv, OnceInv, [Next]_vars
  PROVE  OnceInv'
<1> SUFFICES ASSUME faults' = 0
             PROVE  OnceInv'
  BY DEF OnceInv
<1>0. faults = 0 /\ ~Fault /\ order \in Int /\ completed \subseteq Int
  BY FaultCounts, TimelineShape DEF TypeOK
<1>1. 10 \in Orders /\ EndAt(10) = startAt + Total /\ startAt + Total \in Int /\ now \in Int
      /\ Kind(10) = "phase-start" /\ SendsText(10) /\ Last = 12 /\ Total \in Int /\ startAt \in Int
  BY LastMessage, TimelineShape DEF TypeOK
<1>2. /\ \A c \in completed : c + Total <= now
      /\ phase \in {"idle", "connecting"} => startAt \notin completed
      /\ session # NoSession => session.id = startAt
      /\ LastSent => startAt + Total \in tasks \/ Over
      /\ phase = "settling" => order > 10
      /\ phase = "closing" => Over
  BY <1>0 DEF OnceInv
<1>3. CASE Prepare \/ Posted
  BY <1>2, <1>3 DEF Prepare, Posted, history, OnceInv, LastSent, Running, Over
<1>4. CASE BeginSession
  <2>1. completed' = completed /\ now' = now /\ startAt' = startAt /\ session'.id = startAt
    BY <1>4 DEF BeginSession, Engagement, history
  <2>2. order' = StartOrder /\ phase' \in {"posting", "turn"} /\ StartOrder \in Orders
    BY <1>4, FirstRemaining DEF BeginSession
  <2>3. StartOrder > 10 => Over
    <3>1. \A o \in Orders : o < StartOrder => ~(now < EndAt(o))
      BY <1>4, FirstRemaining DEF BeginSession
    <3> QED
      BY <1>1, <3>1 DEF Over
  <2> QED
    BY <1>2, <2>1, <2>2, <2>3 DEF OnceInv, LastSent, Over
<1>5. CASE TooLate \/ Start
  <2>1. Schedule /\ completed' = completed /\ now' = now /\ session' = session /\ session = NoSession
    BY <1>0, <1>5 DEF TooLate, Start, history, CleanInv
  <2>2. startAt' \notin completed
    BY <1>0, <1>2, <2>1, ScheduleFresh
  <2> QED
    BY <1>2, <2>1, <2>2 DEF OnceInv, LastSent, Running, Schedule
<1>6. CASE Turn \/ WaitOver \/ Skip
  <2>1. UNCHANGED <<now, startAt, session, completed, tasks>>
    BY <1>6 DEF Turn, WaitOver, Skip, history
  <2>2. Due => phase' \in {"turn", "announcing"} /\ (order' = order \/ (order # 10 /\ order' = order + 1))
    BY <1>1 DEF Due, Suppressed
  <2>3. CASE phase' = phase /\ order' = order
    BY <1>2, <2>1, <2>3 DEF OnceInv, LastSent, Over
  <2>4. CASE phase \in {"turn", "waiting"} /\ phase' \in {"waiting", "turn", "announcing"}
             /\ (order' = order \/ (order # 10 /\ order' = order + 1))
    BY <1>0, <1>2, <2>1, <2>4 DEF OnceInv, LastSent, Running, Over
  <2> QED
    BY <1>6, <2>2, <2>3, <2>4 DEF Turn, WaitOver, Skip
<1>7. CASE TurnOver
  BY <1>0, <1>1, <1>2, <1>7 DEF TurnOver, history, OnceInv, LastSent, Running, Over
<1>8. CASE Announce
  <2>1. UNCHANGED <<now, startAt, session, completed, order>> /\ phase = "announcing" /\ phase' = "playing"
    BY <1>8 DEF Announce, history
  <2>2. tasks \subseteq tasks' /\ (order = 10 => startAt + Total \in tasks')
    BY <1>1, <1>8 DEF Announce
  <2> QED
    BY <1>2, <2>1, <2>2 DEF OnceInv, LastSent, Running, Over
<1>9. CASE Played
  BY <1>0, <1>2, <1>9 DEF Played, history, OnceInv, LastSent, Running, Over
<1>10. CASE Close
  <2>1. UNCHANGED <<now, startAt, completed>> /\ phase = "settling" /\ phase' = "closing" /\ tasks = {}
    BY <1>10 DEF Close, Settled, history
  <2>2. Over
    BY <1>2, <2>1 DEF LastSent, Running
  <2>3. session' # NoSession => session # NoSession /\ session'.id = session.id
    BY <1>10 DEF Close, TypeOK, Sessions
  <2> QED
    BY <1>2, <2>1, <2>2, <2>3 DEF OnceInv, LastSent, Running, Over
<1>11. CASE EndSession
  <2>1. Schedule /\ now' = now /\ session' = NoSession /\ Over /\ phase' = "idle"
    BY <1>2, <1>11 DEF EndSession, Schedule
  <2>2. completed' \in SUBSET Int /\ \A c \in completed' : c + Total <= now
    BY <1>0, <1>1, <1>2, <1>11, <2>1 DEF EndSession, Over
  <2>3. startAt' \notin completed'
    BY <2>1, <2>2, ScheduleFresh
  <2> QED
    BY <2>1, <2>2, <2>3 DEF OnceInv, LastSent, Running
<1>12. CASE SessionFails \/ CancelFails \/ CrashInWrite \/ \E t \in tasks : TaskFails(t)
  BY <1>0, <1>12 DEF SessionFails, CancelFails, CrashInWrite, TaskFails, CleanInv
<1>13. CASE Tick
  <2>1. now' = now + 1 /\ UNCHANGED <<startAt, session, completed, tasks, order, phase>>
    BY <1>13 DEF Tick, history
  <2>2. (\A c \in completed : c + Total <= now') /\ (Over => Over')
    BY <1>0, <1>1, <1>2, <2>1 DEF Over
  <2> QED
    BY <1>2, <2>1, <2>2 DEF OnceInv, LastSent
<1>14. CASE Progress
  <2>1. PICK t \in tasks : TaskOver(t)
    BY <1>14 DEF Progress
  <2>2. UNCHANGED <<now, startAt, session, completed, order, phase>>
    BY <2>1 DEF TaskOver, history
  <2>3. t <= now /\ tasks' = tasks \ {t}
    BY <2>1 DEF TaskOver
  <2>4. startAt + Total \in tasks => startAt + Total \in tasks' \/ Over
    BY <2>3 DEF Over
  <2> QED
    BY <1>2, <2>2, <2>4 DEF OnceInv, LastSent, Over
<1>15. CASE Pause \/ Resume
  BY <1>2, <1>15 DEF Pause, Resume, history, OnceInv, LastSent, Over
<1>16. CASE \E u \in Users : CheckIn(u)
  <2>1. UNCHANGED <<now, startAt, completed, tasks, order, phase>>
    BY <1>16 DEF CheckIn
  <2>2. session # NoSession /\ session'.id = session.id
    BY <1>16 DEF CheckIn, TypeOK, Sessions
  <2> QED
    BY <1>2, <2>1, <2>2 DEF OnceInv, LastSent, Over
<1>17. CASE (\E u \in Users : ForgetUser(u)) \/ \E u \in Users, s \in Scopes : Consented(u, s) \/ Revoked(u, s)
  <2>1. UNCHANGED <<now, startAt, session, completed, tasks, order, phase>>
    BY <1>17 DEF ForgetUser, Consented, Revoked, history
  <2> QED
    BY <1>2, <2>1 DEF OnceInv, LastSent, Over
<1>18. CASE Cancel
  <2>1. UNCHANGED <<now, startAt, completed, tasks, order, phase>> /\ session' \in {session, NoSession}
    BY <1>18 DEF Cancel, history
  <2> QED
    BY <1>2, <2>1 DEF OnceInv, LastSent, Over
<1>19. CASE Stop
  <2>1. UNCHANGED <<now, completed>> /\ phase' = "down" /\ session' = NoSession
    BY <1>19 DEF Stop, Ended
  <2> QED
    BY <1>2, <2>1 DEF OnceInv, LastSent, Running
<1>20. CASE UNCHANGED vars
  BY <1>2, <1>20 DEF vars, history, OnceInv, LastSent, Over
<1> QED
  BY <1>3, <1>4, <1>5, <1>6, <1>7, <1>8, <1>9, <1>10, <1>11, <1>12, <1>13, <1>14, <1>15, <1>16,
     <1>17, <1>18, <1>19, <1>20 DEF Next, Loop, Others

\* A session that ran to its end does not run again, however far moderators
\* skip ahead and whenever the process restarts, unless something fails.
THEOREM NoSessionTwice == Spec => OncePerDay
<1>1. Init => OnceInv
  BY DEF Init, OnceInv, LastSent, Running
<1>2. TypeOK /\ CleanInv /\ OnceInv /\ [Next]_vars => OnceInv'
  BY OnceInductive
<1>3. TypeOK /\ CleanInv /\ OnceInv /\ [Next]_vars
        => [session = NoSession /\ session' # NoSession /\ faults = 0
              => session'.id \notin completed]_vars
  <2> SUFFICES ASSUME TypeOK, CleanInv, OnceInv, Next, session = NoSession, session' # NoSession,
                      faults = 0
               PROVE  session'.id \notin completed
    OBVIOUS
  <2>1. BeginSession
    BY DEF Next, Loop, Others, Prepare, TooLate, Posted, Turn, TurnOver, WaitOver, Announce, Played,
       Close, EndSession, SessionFails, Tick, Progress, TaskOver, TaskFails, Pause, Resume, Skip,
       CheckIn, ForgetUser, Consented, Revoked, Start, Cancel, CancelFails, Stop, CrashInWrite, Ended
  <2> QED
    BY <2>1 DEF BeginSession, Engagement, OnceInv
<1> QED
  BY <1>1, <1>2, <1>3, TypeCorrect, CleanAlways, PTL DEF Spec, OncePerDay

-----------------------------------------------------------------------------
(* The attendance that is owed.                                            *)

\* In the file and in what the session will write, or about to be.
InHand(p) ==
  \/ p \in file.rows /\ p \in session.dates
  \/ phase # "closing" /\ p[1] \in session.checks /\ p[2] = session.id

\* While nothing has failed, what is owed may be kept, and is in hand or,
\* with no session, in the file.
KeptInv ==
  faults = 0 =>
    \A p \in owed :
      /\ Authorized(p[1])
      /\ session = NoSession => p \in file.rows
      /\ session # NoSession => InHand(p)

\* The attendance of a session covers all that is in its hand.
LEMMA InHandAttended ==
  ASSUME TypeOK, NEW p \in owed, Authorized(p[1]), InHand(p)
  PROVE  p \in Attended(session)
<1>1. p = <<p[1], p[2]>>
  BY DEF TypeOK
<1>2. CASE p \in session.dates
  BY <1>2 DEF Attended
<1>3. CASE p[1] \in session.checks /\ p[2] = session.id
  <2>1. p[1] \in {w \in session.checks : Authorized(w)}
    BY <1>3
  <2>2. p \in {<<u, session.id>> : u \in {w \in session.checks : Authorized(w)}}
    BY <1>1, <1>3, <2>1
  <2> QED
    BY <2>2 DEF Attended
<1> QED
  BY <1>2, <1>3 DEF InHand

\* A step that does not fail keeps what is owed in hand.
LEMMA KeptInductive ==
  ASSUME TypeOK, CleanInv, KeptInv, [Next]_vars
  PROVE  KeptInv'
<1> SUFFICES ASSUME faults' = 0
             PROVE  KeptInv'
  BY DEF KeptInv
<1>0. faults = 0 /\ ~Fault
  BY FaultCounts
<1>1. \A p \in owed : /\ Authorized(p[1])
                      /\ session = NoSession => p \in file.rows
                      /\ session # NoSession => InHand(p)
  BY <1>0 DEF KeptInv
<1> USE DEF KeptInv, Authorized, InHand, consent, stored
<1>2. CASE UNCHANGED <<owed, granted, revoked, session, file>> /\ (phase' = phase \/ phase' # "closing")
  BY <1>1, <1>2
<1>3. CASE Prepare \/ TooLate \/ Posted \/ Turn \/ TurnOver \/ WaitOver \/ Announce \/ Played
  BY <1>2, <1>3 DEF Prepare, TooLate, Posted, Turn, TurnOver, WaitOver, Announce, Played, Schedule,
     Due, history
<1>4. CASE BeginSession
  <2>1. session = NoSession /\ session' = Engagement(startAt) /\ UNCHANGED <<owed, granted, revoked, file>>
    BY <1>0, <1>4 DEF BeginSession, CleanInv, history
  <2>2. session'.dates = file.rows
    BY <2>1 DEF Engagement
  <2> QED
    BY <1>1, <2>1, <2>2
<1>5. CASE Close
  <2>1. UNCHANGED <<owed, granted, revoked>> /\ phase' = "closing"
    BY <1>5 DEF Close, history
  <2>2. CASE session = NoSession
    BY <1>1, <1>5, <2>1, <2>2 DEF Close
  <2>3. CASE session # NoSession
    <3>1. session'.dates = Attended(session) /\ file'.rows = Attended(session)
      BY <1>5, <2>3 DEF Close, PersistAttendance, TypeOK, Sessions
    <3>2. session' # NoSession
      BY <1>5, <2>3, NoSessionAssumption, AttendedType
         DEF Close, PersistAttendance, TypeOK, SessionOK, Sessions
    <3>3. \A p \in owed : p \in Attended(session)
      BY <1>1, <2>3, InHandAttended
    <3> QED
      BY <1>1, <2>1, <3>1, <3>2, <3>3
  <2> QED
    BY <2>2, <2>3
<1>6. CASE EndSession
  <2>1. UNCHANGED <<owed, granted, revoked, file>> /\ session' = NoSession /\ phase = "closing"
    BY <1>6 DEF EndSession
  <2> QED
    BY <1>1, <2>1
<1>7. CASE SessionFails \/ CancelFails \/ CrashInWrite \/ \E t \in tasks : TaskFails(t)
  BY <1>0, <1>7 DEF SessionFails, CancelFails, CrashInWrite, TaskFails, CleanInv
<1>8. CASE Tick \/ Progress \/ Pause \/ Resume \/ Skip
  BY <1>2, <1>8 DEF Tick, Progress, TaskOver, Pause, Resume, Skip, Due, history
<1>9. ASSUME NEW u \in Users, CheckIn(u)
      PROVE  KeptInv'
  <2>1. session \in Sessions /\ session # NoSession
    BY <1>9 DEF CheckIn, TypeOK
  <2>2. session'.dates = session.dates /\ session'.checks = session.checks \cup {u}
        /\ session'.id = session.id
    BY <1>9, <2>1 DEF CheckIn, Sessions
  <2>3. UNCHANGED <<file, granted, revoked, phase>>
    BY <1>9 DEF CheckIn
  <2>4. \A p \in owed : Authorized(p[1])' /\ InHand(p)'
    BY <1>1, <2>1, <2>2, <2>3
  <2>5. Authorized(u) /\ phase # "closing" => Authorized(u)' /\ InHand(<<u, session.id>>)'
    BY <2>2, <2>3
  <2>6. owed' = owed \/ (Authorized(u) /\ phase # "closing" /\ owed' = owed \cup {<<u, session.id>>})
    BY <1>9 DEF CheckIn
  <2>7. ASSUME NEW p \in owed'
        PROVE  Authorized(p[1])' /\ InHand(p)'
    <3>1. CASE p \in owed
      BY <2>4, <3>1
    <3>2. CASE p \notin owed
      <4>1. p = <<u, session.id>> /\ Authorized(u) /\ phase # "closing"
        BY <2>6, <3>2
      <4>2. p[1] = u /\ p[2] = session.id
        BY <4>1
      <4> QED
        BY <2>2, <2>3, <4>1, <4>2
    <3> QED
      BY <3>1, <3>2
  <2>8. session' # NoSession
    BY <1>9, <2>1, NoSessionAssumption DEF CheckIn, Sessions
  <2> QED
    BY <2>7, <2>8
<1>10. ASSUME NEW u \in Users, ForgetUser(u)
       PROVE  KeptInv'
  <2>1. owed' = {p \in owed : p[1] # u} /\ granted' = {p \in granted : p[1] # u}
        /\ revoked' \subseteq revoked /\ UNCHANGED <<session, phase>>
    BY <1>10 DEF ForgetUser, NoLongerOwed
  <2>2. file'.rows = {p \in file.rows : p[1] # u}
    BY <1>10 DEF ForgetUser, TypeOK
  <2> QED
    BY <1>1, <2>1, <2>2
<1>11. ASSUME NEW u \in Users, NEW s \in Scopes, Consented(u, s) \/ Revoked(u, s)
       PROVE  KeptInv'
  <2>1. UNCHANGED <<file, session, phase>>
    BY <1>11 DEF Consented, Revoked
  <2>2. owed' \subseteq owed /\ \A p \in owed' : Authorized(p[1])'
    BY <1>1, <1>11 DEF Consented, Revoked, NoLongerOwed, history
  <2> QED
    BY <1>1, <2>1, <2>2
<1>12. CASE Start
  <2>1. UNCHANGED <<owed, granted, revoked, session, file>> /\ phase' = "idle"
    BY <1>12 DEF Start, Schedule, history
  <2> QED
    BY <1>2, <2>1
<1>13. CASE Cancel
  <2>1. UNCHANGED <<owed, granted, revoked, phase>>
    BY <1>13 DEF Cancel, history
  <2>2. CASE session = NoSession
    BY <1>2, <1>13, <2>1, <2>2 DEF Cancel
  <2>3. CASE session # NoSession
    <3>1. session' = NoSession
      BY <1>13, <2>3 DEF Cancel
    <3>2. CASE session.checks = {}
      BY <1>1, <1>13, <2>1, <2>3, <3>1, <3>2 DEF Cancel
    <3>3. CASE session.checks # {}
      <4>1. file'.rows = Attended(session)
        BY <1>13, <2>3, <3>3 DEF Cancel, PersistAttendance
      <4>2. \A p \in owed : p \in Attended(session)
        BY <1>1, <2>3, InHandAttended
      <4> QED
        BY <1>1, <2>1, <3>1, <4>1, <4>2
    <3> QED
      BY <3>2, <3>3
  <2> QED
    BY <2>2, <2>3
<1>14. CASE Stop
  <2>1. UNCHANGED <<file, granted>> /\ revoked' = {} /\ session' = NoSession
    BY <1>14 DEF Stop, Ended
  <2>2. owed' = IF session = NoSession THEN owed ELSE {p \in owed : p[2] # session.id}
    BY <1>14 DEF Stop, Ended
  <2> QED
    BY <1>1, <2>1, <2>2
<1>15. CASE UNCHANGED vars
  BY <1>2, <1>15 DEF vars, history
<1> QED
  BY <1>3, <1>4, <1>5, <1>6, <1>7, <1>8, <1>9, <1>10, <1>11, <1>12, <1>13, <1>14, <1>15
     DEF Next, Loop, Others

\* While nothing fails, every consenting user's check-in reaches the file
\* with the end of its session and stays in it, for any number of users,
\* days, shutdowns and changes of consent.
THEOREM CheckInsAreKept == Spec => []AttendanceKept
<1>1. Init => KeptInv
  BY DEF Init, KeptInv
<1>2. TypeOK /\ CleanInv /\ KeptInv /\ [Next]_vars => KeptInv'
  BY KeptInductive
<1>3. KeptInv => AttendanceKept
  BY DEF KeptInv, InHand, AttendanceKept
<1> QED
  BY <1>1, <1>2, <1>3, TypeCorrect, CleanAlways, PTL DEF Spec
=============================================================================
