--------------------------- MODULE Reminder_proofs ---------------------------
(***************************************************************************)
(* Proofs about Reminder: its types, the limit per user, what survives in  *)
(* the file, the sleep of the loop, and deliveries that happen once.       *)
(***************************************************************************)
EXTENDS Reminder, FiniteSetTheorems, TLAPS

-----------------------------------------------------------------------------
(* Type correctness.                                                       *)

NumbersOK == now \in Nat /\ wakeAt \in Nat /\ made \in Nat /\ starts \in Nat /\ faults \in Nat

FileOK ==
  /\ file \in [kind : {"missing", "ok", "torn"}, rows : SUBSET Reminders]
  /\ IsFiniteSet(file.rows)

QueueOK ==
  /\ queue \in SUBSET Reminders /\ IsFiniteSet(queue)
  /\ pending \in SUBSET Reminders /\ completed \in SUBSET Reminders
  /\ pending \cup completed \subseteq queue /\ pending \cap completed = {}

AskingOK == asking \in SUBSET Reminders /\ IsFiniteSet(asking)

HistoryOK ==
  /\ accepted \in SUBSET Reminders /\ IsFiniteSet(accepted)
  /\ delivered \in SUBSET Reminders /\ recent \in SUBSET Reminders
  /\ forgotten \in SUBSET Reminders /\ rushed \subseteq Users

PhaseOK == phase \in {"down", "dispatch", "sleep"}

\* TypeOK in parts, each about what one group of actions changes.
LEMMA TypeParts ==
  TypeOK <=> NumbersOK /\ FileOK /\ QueueOK /\ AskingOK /\ HistoryOK /\ PhaseOK
BY DEF TypeOK, NumbersOK, FileOK, QueueOK, AskingOK, HistoryOK, PhaseOK

\* The same parts, of the next state.
LEMMA TypePartsNext ==
  TypeOK' <=> NumbersOK' /\ FileOK' /\ QueueOK' /\ AskingOK' /\ HistoryOK' /\ PhaseOK'
BY DEF TypeOK, NumbersOK, FileOK, QueueOK, AskingOK, HistoryOK, PhaseOK

\* The limits and bounds are numbers.
LEMMA Limits ==
  /\ MaxPerUser \in Nat /\ MaxDuration \in Nat /\ ScanInterval \in Nat
  /\ MaxOverlap \in Nat /\ MaxPerUser > 0 /\ MaxOverlap > 0
  /\ MaxTime \in Nat /\ MaxAdds \in Nat /\ MaxStarts \in Nat /\ MaxFaults \in Nat
BY LimitsAssumption

\* persist writes finitely many reminders, or nothing.
LEMMA PersistType ==
  ASSUME NEW rows \in SUBSET Reminders, IsFiniteSet(rows), FileOK, faults \in Nat, Persist(rows)
  PROVE  FileOK' /\ faults' \in Nat
<1>1. CASE file' = [kind |-> "ok", rows |-> rows] /\ UNCHANGED faults
  BY <1>1 DEF FileOK
<1>2. CASE Fault /\ UNCHANGED file
  BY <1>2 DEF FileOK, Fault
<1> QED
  BY <1>1, <1>2 DEF Persist

\* The reminders that are due are some of the reminders.
LEMMA OverdueSubset ==
  ASSUME NEW rows
  PROVE  Overdue(rows) \subseteq rows
BY DEF Overdue

\* A step of the loop keeps the types.
LEMMA LoopType ==
  ASSUME TypeOK, Loop
  PROVE  TypeOK'
<1> USE TypeParts, TypePartsNext
<1>1. ASSUME NEW r \in pending, SendOk(r)
      PROVE  TypeOK'
  <2>1. r \in Reminders /\ r \in queue /\ r \notin completed
    BY DEF QueueOK
  <2>2. QueueOK'
    BY <1>1, <2>1 DEF SendOk, AfterSend, QueueOK
  <2>3. HistoryOK'
    BY <1>1, <2>1 DEF SendOk, HistoryOK
  <2> QED
    BY <1>1, <2>2, <2>3 DEF SendOk, NumbersOK, FileOK, AskingOK, PhaseOK
<1>2. ASSUME NEW r \in pending, SendFails(r)
      PROVE  TypeOK'
  <2>1. QueueOK'
    BY <1>2 DEF SendFails, AfterFailure, QueueOK
  <2>2. NumbersOK'
    BY <1>2 DEF SendFails, NumbersOK
  <2> QED
    BY <1>2, <2>1, <2>2 DEF SendFails, history, HistoryOK, FileOK, AskingOK, PhaseOK
<1>3. CASE DispatchDone
  <2>1. Remaining \in SUBSET Reminders /\ IsFiniteSet(Remaining)
    BY FS_Subset DEF QueueOK, Remaining
  <2>2. FileOK' /\ faults' \in Nat
    BY <1>3, <2>1, PersistType DEF DispatchDone, FileOK, NumbersOK
  <2>3. wakeAt' \in Nat
    BY <1>3, <2>1, Limits DEF DispatchDone, WakeUps, Clock, NumbersOK, Reminders
  <2>4. QueueOK'
    BY <1>3, <2>1 DEF DispatchDone, QueueOK
  <2> QED
    BY <1>3, <2>2, <2>3, <2>4 DEF DispatchDone, NumbersOK, history, HistoryOK, AskingOK, PhaseOK
<1>4. CASE Wake
  <2>1. QueueOK'
    BY <1>4, OverdueSubset DEF Wake, BeginTick, QueueOK
  <2> QED
    BY <1>4, <2>1 DEF Wake, BeginTick, NumbersOK, FileOK, history, HistoryOK, AskingOK, PhaseOK
<1> QED
  BY <1>1, <1>2, <1>3, <1>4 DEF Loop, Dispatch

\* A step of a command keeps the types.
LEMMA CommandType ==
  ASSUME TypeOK,
         \/ \E u \in Users, d \in 1..MaxDuration : Command(u, d)
         \/ \E r \in asking : Granted(r) \/ Denied(r)
         \/ \E u \in Users : ForgetUser(u)
  PROVE  TypeOK'
<1> USE TypeParts, TypePartsNext
<1>1. ASSUME NEW u \in Users, NEW d \in 1..MaxDuration, Command(u, d)
      PROVE  TypeOK'
  <2> DEFINE r == [id |-> made + 1, user |-> u, fireAt |-> now + d]
  <2>1. r \in Reminders
    BY Limits DEF NumbersOK, Reminders
  <2>2. AskingOK'
    BY <1>1, <2>1, FS_AddElement DEF Command, AskingOK
  <2>3. NumbersOK'
    BY <1>1 DEF Command, loop, NumbersOK
  <2> QED
    BY <1>1, <2>2, <2>3 DEF Command, loop, history, FileOK, QueueOK, HistoryOK, PhaseOK
<1>2. ASSUME NEW r \in asking, Granted(r)
      PROVE  TypeOK'
  <2>1. r \in Reminders
    BY DEF AskingOK
  <2>2. queue' \in SUBSET Reminders /\ IsFiniteSet(queue')
    BY <1>2, <2>1, FS_AddElement DEF Granted, QueueOK
  <2>3. FileOK' /\ faults' \in Nat
    BY <1>2, <2>2, PersistType DEF Granted, NumbersOK
  <2>4. QueueOK'
    BY <1>2, <2>2 DEF Granted, QueueOK
  <2>5. AskingOK'
    BY <1>2, FS_RemoveElement DEF Granted, AskingOK
  <2>6. HistoryOK'
    BY <1>2, <2>1, FS_AddElement DEF Granted, HistoryOK
  <2> QED
    BY <1>2, <2>3, <2>4, <2>5, <2>6 DEF Granted, WakeScheduler, NumbersOK, PhaseOK
<1>3. ASSUME NEW r \in asking, Denied(r)
      PROVE  TypeOK'
  <2>1. AskingOK'
    BY <1>3, FS_RemoveElement DEF Denied, AskingOK
  <2> QED
    BY <1>3, <2>1 DEF Denied, loop, history, NumbersOK, FileOK, QueueOK, HistoryOK, PhaseOK
<1>4. ASSUME NEW u \in Users, ForgetUser(u)
      PROVE  TypeOK'
  <2>1. FileOK'
    <3>1. CASE file' = [file EXCEPT !.rows = @ \ Of(@, u)]
      <4>1. file.rows \ Of(file.rows, u) \in SUBSET file.rows
        OBVIOUS
      <4>2. IsFiniteSet(file.rows \ Of(file.rows, u))
        BY <4>1, FS_Subset DEF FileOK
      <4> QED
        BY <3>1, <4>1, <4>2 DEF FileOK
    <3>2. CASE UNCHANGED file
      BY <3>2 DEF FileOK
    <3> QED
      BY <1>4, <3>1, <3>2 DEF ForgetUser
  <2>2. forgotten' \in SUBSET Reminders
    BY <1>4 DEF ForgetUser, HistoryOK, Of
  <2>3. faults' \in Nat
    BY <1>4 DEF ForgetUser, Fault, NumbersOK
  <2> QED
    BY <1>4, <2>1, <2>2, <2>3 DEF ForgetUser, loop, NumbersOK, QueueOK, AskingOK, HistoryOK, PhaseOK
<1> QED
  BY <1>1, <1>2, <1>3, <1>4

\* A start or an end of the process keeps the types.
LEMMA ProcessType ==
  ASSUME TypeOK, Start \/ Stop \/ CrashInWrite
  PROVE  TypeOK'
<1> USE TypeParts, TypePartsNext
<1>1. CASE Start
  <2>1. Load \in SUBSET Reminders /\ IsFiniteSet(Load)
    BY FS_EmptySet DEF Load, FileOK
  <2>2. QueueOK'
    BY <1>1, <2>1, OverdueSubset DEF Start, BeginTick, QueueOK
  <2> QED
    BY <1>1, <2>2 DEF Start, BeginTick, history, NumbersOK, FileOK, AskingOK, HistoryOK, PhaseOK
<1>2. ASSUME Ended, FileOK', faults' \in Nat
      PROVE  TypeOK'
  BY <1>2, FS_EmptySet DEF Ended, history, NumbersOK, QueueOK, AskingOK, HistoryOK, PhaseOK
<1>3. CASE Stop
  BY <1>2, <1>3 DEF Stop, FileOK, NumbersOK
<1>4. CASE CrashInWrite
  <2>1. FileOK'
    BY <1>4, FS_EmptySet DEF CrashInWrite, FileOK
  <2> QED
    BY <1>2, <1>4, <2>1 DEF CrashInWrite, Fault, NumbersOK
<1> QED
  BY <1>1, <1>3, <1>4

\* TypeOK is inductive.
LEMMA TypeStep ==
  ASSUME TypeOK, [Next]_vars
  PROVE  TypeOK'
<1>1. CASE Tick
  BY <1>1, TypeParts, TypePartsNext DEF Tick, loop, history, NumbersOK, FileOK, QueueOK, AskingOK,
     HistoryOK, PhaseOK
<1>2. CASE UNCHANGED vars
  BY <1>2, TypeParts, TypePartsNext DEF vars, NumbersOK, FileOK, QueueOK, AskingOK, HistoryOK, PhaseOK
<1> QED
  BY <1>1, <1>2, LoopType, CommandType, ProcessType DEF Next

\* Initially every variable has its type.
LEMMA TypeInit == Init => TypeOK
BY FS_EmptySet DEF Init, TypeOK

\* Every reachable state is well-typed: a batch is always a part of the
\* queue, and never holds a reminder both as delivered and as still to try.
THEOREM TypeCorrect == Spec => []TypeOK
BY TypeInit, TypeStep, PTL DEF Spec

-----------------------------------------------------------------------------
(* The loop does not oversleep.                                            *)

\* The end of a sleep is not later than any future reminder.
LEMMA SleepStep ==
  ASSUME TypeOK, NeverOversleeps, [Next]_vars
  PROVE  NeverOversleeps'
<1> SUFFICES ASSUME phase' = "sleep", NEW r \in queue', r.fireAt > now'
             PROVE  wakeAt' <= r.fireAt
  BY DEF NeverOversleeps
<1> USE DEF NeverOversleeps
<1>1. CASE Tick
  <2>1. r \in queue /\ r.fireAt \in Nat /\ now \in Nat
    BY <1>1, TypeParts DEF Tick, QueueOK, Reminders, NumbersOK
  <2> QED
    BY <1>1, <2>1 DEF Tick, loop
<1>2. CASE Dispatch \/ Wake \/ Start \/ Stop \/ CrashInWrite
  BY <1>2 DEF Dispatch, SendOk, SendFails, Wake, Start, Stop, CrashInWrite, BeginTick, Ended
<1>3. CASE DispatchDone
  <2>1. r.fireAt \in WakeUps(Remaining)
    BY <1>3 DEF DispatchDone, WakeUps
  <2> QED
    BY <1>3, <2>1 DEF DispatchDone
<1>4. ASSUME NEW q \in asking, Granted(q)
      PROVE  wakeAt' <= r.fireAt
  <2>1. r.fireAt \in Nat /\ now \in Nat
    BY <1>4, TypeStep, TypeParts, TypePartsNext DEF Next, Granted, QueueOK, Reminders, NumbersOK
  <2> QED
    BY <1>4, <2>1 DEF Granted, WakeScheduler
<1>5. CASE \/ \E u \in Users, d \in 1..MaxDuration : Command(u, d)
           \/ \E q \in asking : Denied(q)
           \/ \E u \in Users : ForgetUser(u)
  BY <1>5 DEF Command, Denied, ForgetUser, loop
<1>6. CASE UNCHANGED vars
  BY <1>6 DEF vars
<1> QED
  BY <1>1, <1>2, <1>3, <1>4, <1>5, <1>6 DEF Next, Loop

\* The loop never sleeps past a reminder, whenever it was added.
THEOREM LoopNeverOversleeps == Spec => []NeverOversleeps
<1>1. Init => NeverOversleeps
  BY DEF Init, NeverOversleeps
<1> QED
  BY <1>1, SleepStep, TypeCorrect, PTL DEF Spec

-----------------------------------------------------------------------------
(* A process that is down holds nothing in memory.                         *)

DownEmpty == ~Running => queue = {} /\ asking = {}

\* The queue is filled by a start, and both end with the process.
LEMMA DownStep ==
  ASSUME TypeOK, DownEmpty, [Next]_vars
  PROVE  DownEmpty'
<1> USE DEF DownEmpty, Running
<1>1. CASE Tick \/ Wake \/ DispatchDone \/ Dispatch
  BY <1>1 DEF Tick, Wake, BeginTick, DispatchDone, Dispatch, SendOk, SendFails, loop
<1>2. CASE Start \/ Stop \/ CrashInWrite
  BY <1>2 DEF Start, BeginTick, Stop, CrashInWrite, Ended
<1>3. ASSUME NEW u \in Users, \/ \E d \in 1..MaxDuration : Command(u, d)
                              \/ ForgetUser(u)
      PROVE  DownEmpty'
  BY <1>3 DEF Command, ForgetUser, loop
<1>4. ASSUME NEW r \in asking, Granted(r) \/ Denied(r)
      PROVE  DownEmpty'
  BY <1>4 DEF Granted, Denied, loop
<1>5. CASE UNCHANGED vars
  BY <1>5 DEF vars
<1> QED
  BY <1>1, <1>2, <1>3, <1>4, <1>5 DEF Next, Loop

-----------------------------------------------------------------------------
(* The limit per user.                                                     *)

Patient == Users \ rushed
Bounded(rows) == \A u \in Patient : Cardinality(Of(rows, u)) <= MaxPerUser

\* What inductively keeps the limit of who waits for the answer to a command:
\* the waiting command counts already.
LimitInv ==
  /\ \A u \in Patient : Cardinality(Of(queue, u)) + Cardinality(Of(asking, u)) <= MaxPerUser
  /\ Bounded(file.rows)

\* The reminders of a user are finitely many, and fewer rows hold no more.
LEMMA OfSubset ==
  ASSUME NEW S, IsFiniteSet(S), NEW T, T \subseteq S, NEW u
  PROVE  /\ IsFiniteSet(Of(T, u)) /\ IsFiniteSet(Of(S, u))
         /\ Cardinality(Of(T, u)) \in Nat /\ Cardinality(Of(S, u)) \in Nat
         /\ Cardinality(Of(T, u)) <= Cardinality(Of(S, u))
         /\ Cardinality(Of(S, u)) <= Cardinality(S) /\ Cardinality(S) \in Nat
<1>1. Of(S, u) \in SUBSET S /\ Of(T, u) \in SUBSET Of(S, u)
  BY DEF Of
<1>2. IsFiniteSet(Of(S, u)) /\ Cardinality(Of(S, u)) <= Cardinality(S)
  BY <1>1, FS_Subset
<1>3. IsFiniteSet(Of(T, u)) /\ Cardinality(Of(T, u)) <= Cardinality(Of(S, u))
  BY <1>1, <1>2, FS_Subset
<1> QED
  BY <1>2, <1>3, FS_CardinalityType

\* One reminder more is at most one more of its own user, none of another.
LEMMA OfAdd ==
  ASSUME NEW S, IsFiniteSet(S), NEW r, NEW u
  PROVE  /\ Cardinality(Of(S \cup {r}, u)) <= Cardinality(Of(S, u)) + 1
         /\ r.user # u => Of(S \cup {r}, u) = Of(S, u)
<1>1. CASE r.user = u
  <2>1. Of(S \cup {r}, u) = Of(S, u) \cup {r}
    BY <1>1 DEF Of
  <2>2. IsFiniteSet(Of(S, u)) /\ Cardinality(Of(S, u)) \in Nat
    BY OfSubset
  <2>3. Cardinality(Of(S, u) \cup {r}) <= Cardinality(Of(S, u)) + 1
    BY <2>2, FS_AddElement
  <2> QED
    BY <1>1, <2>1, <2>3
<1>2. CASE r.user # u
  <2>1. Of(S \cup {r}, u) = Of(S, u)
    BY <1>2 DEF Of
  <2>2. Cardinality(Of(S, u)) \in Nat
    BY OfSubset
  <2> QED
    BY <2>1, <2>2
<1> QED
  BY <1>1, <1>2

\* One reminder less is exactly one less of its own user.
LEMMA OfRemove ==
  ASSUME NEW S, IsFiniteSet(S), NEW r \in S, NEW u
  PROVE  /\ r.user = u => Cardinality(Of(S \ {r}, u)) = Cardinality(Of(S, u)) - 1
         /\ r.user # u => Of(S \ {r}, u) = Of(S, u)
<1>1. IsFiniteSet(Of(S, u))
  BY OfSubset
<1>2. ASSUME r.user = u
      PROVE  Cardinality(Of(S \ {r}, u)) = Cardinality(Of(S, u)) - 1
  <2>1. Of(S \ {r}, u) = Of(S, u) \ {r} /\ r \in Of(S, u)
    BY <1>2 DEF Of
  <2> QED
    BY <1>1, <2>1, FS_RemoveElement
<1>3. r.user # u => Of(S \ {r}, u) = Of(S, u)
  BY DEF Of
<1> QED
  BY <1>2, <1>3

\* The write of a queue within the limit leaves a file within the limit.
LEMMA PersistBounded ==
  ASSUME Bounded(file.rows), NEW rows, Bounded(rows), Persist(rows), UNCHANGED rushed
  PROVE  Bounded(file.rows)'
BY DEF Persist, Fault, Bounded, Patient, Of

\* Among no reminders nobody has one.
LEMMA EmptyOf == \A u : Of({}, u) = {} /\ Cardinality(Of({}, u)) = 0
BY FS_EmptySet DEF Of

\* The check of a command leaves room for it if none waits already, and no
\* other step adds a reminder.
LEMMA LimitStep ==
  ASSUME TypeOK, DownEmpty, LimitInv, [Next]_vars
  PROVE  LimitInv'
<1> USE TypeParts, Limits
<1>0. IsFiniteSet(queue) /\ IsFiniteSet(asking) /\ IsFiniteSet(file.rows)
  BY DEF QueueOK, AskingOK, FileOK
<1>1. CASE UNCHANGED <<queue, asking, file, rushed>>
  BY <1>1 DEF LimitInv, Bounded, Patient, Of
<1>2. CASE DispatchDone
  <2>1. Remaining \subseteq queue
    BY DEF Remaining
  <2>2. \A u \in Patient : Cardinality(Of(Remaining, u)) + Cardinality(Of(asking, u)) <= MaxPerUser
    BY <1>0, <2>1, OfSubset DEF LimitInv
  <2>3. Bounded(Remaining)
    BY <1>0, <2>2, <2>1, OfSubset DEF Bounded
  <2>4. Bounded(file.rows)'
    BY <1>2, <2>3, PersistBounded DEF DispatchDone, history, LimitInv, Bounded, Patient, Of
  <2> QED
    BY <1>2, <2>2, <2>4 DEF DispatchDone, history, LimitInv, Patient, Of
<1>3. ASSUME NEW u \in Users, NEW d \in 1..MaxDuration, Command(u, d)
      PROVE  LimitInv'
  <2> DEFINE r == [id |-> made + 1, user |-> u, fireAt |-> now + d]
  <2>0. Patient' \subseteq Patient /\ (u \in Patient' => Of(asking, u) = {})
    BY <1>3 DEF Command, Patient
  <2>1. Bounded(file.rows)'
    BY <1>3, <2>0 DEF Command, LimitInv, Bounded, Of
  <2>2. ASSUME NEW w \in Patient'
        PROVE  Cardinality(Of(queue, w)) + Cardinality(Of(asking \cup {r}, w)) <= MaxPerUser
    <3>1. CASE w = u
      <4>1. Cardinality(Of(queue, w)) < MaxPerUser
        BY <1>3, <3>1 DEF Command, BelowLimit
      <4>2. Cardinality(Of(asking \cup {r}, w)) <= Cardinality(Of(asking, w)) + 1
        BY <1>0, OfAdd
      <4>3. Cardinality(Of(asking, w)) = 0
        BY <2>0, <3>1, EmptyOf
      <4>4. IsFiniteSet(asking \cup {r})
        BY <1>0, FS_AddElement
      <4>5. Cardinality(Of(queue, w)) \in Nat /\ Cardinality(Of(asking \cup {r}, w)) \in Nat
        BY <1>0, <4>4, OfSubset
      <4> HIDE DEF r
      <4> QED
        BY <4>1, <4>2, <4>3, <4>5
    <3>2. CASE w # u
      <4>1. Of(asking \cup {r}, w) = Of(asking, w)
        BY <3>2 DEF Of
      <4> QED
        BY <2>0, <4>1 DEF LimitInv
    <3> QED
      BY <3>1, <3>2
  <2> QED
    BY <1>3, <2>1, <2>2 DEF Command, LimitInv, Of
<1>4. ASSUME NEW r \in asking, Granted(r)
      PROVE  LimitInv'
  <2>1. ASSUME NEW w \in Patient
        PROVE  /\ Cardinality(Of(queue \cup {r}, w)) + Cardinality(Of(asking \ {r}, w)) <= MaxPerUser
               /\ Cardinality(Of(queue \cup {r}, w)) <= MaxPerUser
    <3>1. IsFiniteSet(queue \cup {r}) /\ IsFiniteSet(asking \ {r})
      BY <1>0, FS_AddElement, FS_RemoveElement
    <3>2. /\ Cardinality(Of(queue, w)) \in Nat /\ Cardinality(Of(asking, w)) \in Nat
          /\ Cardinality(Of(queue \cup {r}, w)) \in Nat /\ Cardinality(Of(asking \ {r}, w)) \in Nat
      BY <1>0, <3>1, OfSubset
    <3>3. Cardinality(Of(queue, w)) + Cardinality(Of(asking, w)) <= MaxPerUser
      BY DEF LimitInv
    <3>4. CASE r.user = w
      <4>1. Cardinality(Of(queue \cup {r}, w)) <= Cardinality(Of(queue, w)) + 1
        BY <1>0, OfAdd
      <4>2. Cardinality(Of(asking \ {r}, w)) = Cardinality(Of(asking, w)) - 1
        BY <1>0, <3>4, OfRemove
      <4> QED
        BY <3>2, <3>3, <4>1, <4>2
    <3>5. CASE r.user # w
      <4>1. Of(queue \cup {r}, w) = Of(queue, w) /\ Of(asking \ {r}, w) = Of(asking, w)
        BY <3>5 DEF Of
      <4> QED
        BY <3>2, <3>3, <4>1
    <3> QED
      BY <3>4, <3>5
  <2>2. Bounded(queue \cup {r})
    BY <2>1 DEF Bounded
  <2>3. Bounded(file.rows)'
    BY <1>4, <2>2, PersistBounded DEF Granted, LimitInv
  <2> QED
    BY <1>4, <2>1, <2>3 DEF Granted, LimitInv, Patient, Of
<1>5. ASSUME NEW r \in asking, Denied(r)
      PROVE  LimitInv'
  <2>1. \A w \in Patient : Cardinality(Of(queue, w)) + Cardinality(Of(asking \ {r}, w)) <= MaxPerUser
    <3>1. asking \ {r} \subseteq asking
      OBVIOUS
    <3> QED
      BY <1>0, <3>1, OfSubset DEF LimitInv
  <2> QED
    BY <1>5, <2>1 DEF Denied, history, LimitInv, Bounded, Patient, Of
<1>6. ASSUME NEW u \in Users, ForgetUser(u)
      PROVE  LimitInv'
  <2>1. file'.rows \subseteq file.rows
    BY <1>6 DEF ForgetUser, FileOK
  <2>2. Bounded(file'.rows)
    BY <1>0, <2>1, OfSubset DEF LimitInv, Bounded
  <2> QED
    BY <1>6, <2>2 DEF ForgetUser, LimitInv, Bounded, Patient, Of
<1>7. CASE Start
  <2>1. asking = {}
    BY <1>7 DEF Start, DownEmpty, Running
  <2>2. Load \subseteq file.rows
    BY DEF Load
  <2>3. \A u \in Patient : Cardinality(Of(Load, u)) <= MaxPerUser
    BY <1>0, <2>2, OfSubset DEF LimitInv, Bounded
  <2>4. \A u \in Patient : Cardinality(Of(Load, u)) + Cardinality(Of({}, u)) <= MaxPerUser
    BY <1>0, <2>2, <2>3, OfSubset, EmptyOf
  <2> QED
    BY <1>7, <2>1, <2>4 DEF Start, history, LimitInv, Bounded, Patient, Of
<1>8. ASSUME Ended, file'.rows \in {file.rows, {}}
      PROVE  LimitInv'
  <2>1. \A u \in Patient : Cardinality(Of({}, u)) + Cardinality(Of({}, u)) <= MaxPerUser
    BY EmptyOf
  <2>2. Bounded({}) /\ Bounded(file.rows)
    BY EmptyOf DEF LimitInv, Bounded
  <2>3. Bounded(file'.rows)
    BY <1>8, <2>2
  <2> QED
    BY <1>8, <2>1, <2>3 DEF Ended, history, LimitInv, Bounded, Patient, Of
<1>9. CASE Stop \/ CrashInWrite
  BY <1>8, <1>9 DEF Stop, CrashInWrite
<1>10. CASE Tick \/ Dispatch \/ Wake \/ UNCHANGED vars
  BY <1>1, <1>10 DEF Tick, Dispatch, SendOk, SendFails, Wake, history, vars
<1> QED
  BY <1>2, <1>3, <1>4, <1>5, <1>6, <1>7, <1>9, <1>10 DEF Next, Loop

\* A user who waits for the answer to a command before sending the next one
\* never exceeds maxPerUser, in memory or in the file.
THEOREM LimitIsKept == Spec => []LimitWhenPatient
<1>1. Init => DownEmpty /\ LimitInv
  BY EmptyOf, Limits DEF Init, DownEmpty, LimitInv, Bounded
<1>2. TypeOK /\ LimitInv => LimitWhenPatient
  <2> SUFFICES ASSUME TypeOK, LimitInv, NEW u \in Patient, NEW rows \in {queue, file.rows}
               PROVE  Cardinality(Of(rows, u)) <= MaxPerUser
    BY DEF LimitWhenPatient, Within, Patient
  <2>1. Cardinality(Of(queue, u)) \in Nat /\ Cardinality(Of(asking, u)) \in Nat
    BY TypeParts, OfSubset DEF QueueOK, AskingOK
  <2> QED
    BY <2>1, Limits DEF LimitInv, Bounded
<1> QED
  BY <1>1, <1>2, DownStep, LimitStep, TypeCorrect, PTL DEF Spec

-----------------------------------------------------------------------------
(* Registered reminders are kept.                                          *)

\* While no write has failed, the file of a running process holds only what
\* the queue holds, so that a rewrite from the queue loses nothing of it.
KeptInv ==
  /\ file.kind # "ok" => file.rows = {}
  /\ completed \subseteq delivered
  /\ faults = 0 => /\ accepted \subseteq file.rows \cup delivered \cup forgotten
                   /\ Running => file.rows \subseteq queue

\* The file of a process without a failed write stays a part of its queue,
\* and what leaves both is delivered or deleted.
LEMMA KeptStep ==
  ASSUME TypeOK, DownEmpty, KeptInv, [Next]_vars
  PROVE  KeptInv'
<1> USE TypeParts
<1>1. ASSUME NEW r \in pending, SendOk(r)
      PROVE  KeptInv'
  BY <1>1 DEF SendOk, KeptInv, Running
<1>2. ASSUME NEW r \in pending, SendFails(r)
      PROVE  KeptInv'
  <2>1. faults' = 0 => faults = 0
    BY <1>2 DEF SendFails, NumbersOK
  <2> QED
    BY <1>2, <2>1 DEF SendFails, history, KeptInv, Running
<1>3. CASE DispatchDone
  <2>1. Remaining = queue \ completed
    BY DEF Remaining
  <2>2. CASE completed = {}
    BY <1>3, <2>1, <2>2 DEF DispatchDone, history, KeptInv, Running
  <2>3. CASE completed # {} /\ file' = [kind |-> "ok", rows |-> Remaining] /\ UNCHANGED faults
    BY <1>3, <2>1, <2>3 DEF DispatchDone, history, KeptInv, Running
  <2>4. CASE completed # {} /\ Fault /\ UNCHANGED file
    <3>1. faults' # 0
      BY <2>4 DEF Fault, NumbersOK
    <3> QED
      BY <1>3, <2>4, <3>1 DEF DispatchDone, history, KeptInv
  <2> QED
    BY <1>3, <2>2, <2>3, <2>4 DEF DispatchDone, Persist
<1>4. CASE Wake
  BY <1>4 DEF Wake, BeginTick, history, KeptInv, Running
<1>5. ASSUME NEW r \in asking, Granted(r)
      PROVE  KeptInv'
  <2>1. Running
    BY DEF DownEmpty
  <2>2. CASE file' = [kind |-> "ok", rows |-> queue'] /\ UNCHANGED faults
    BY <1>5, <2>1, <2>2 DEF Granted, KeptInv, Running
  <2>3. CASE Fault /\ UNCHANGED file
    <3>1. faults' # 0
      BY <2>3 DEF Fault, NumbersOK
    <3> QED
      BY <1>5, <2>3, <3>1 DEF Granted, KeptInv
  <2> QED
    BY <1>5, <2>2, <2>3 DEF Granted, Persist
<1>6. ASSUME NEW u \in Users, ForgetUser(u)
      PROVE  KeptInv'
  <2>1. CASE /\ file' = [file EXCEPT !.rows = @ \ Of(@, u)] /\ UNCHANGED faults
             /\ file.kind = "ok"
             /\ forgotten' = forgotten \cup Of(accepted, u)
    <3>1. file'.rows = file.rows \ Of(file.rows, u) /\ file'.kind = file.kind
      BY <2>1 DEF FileOK
    <3>2. accepted \ Of(accepted, u) = {r \in accepted : r.user # u}
      BY DEF Of
    <3> QED
      BY <1>6, <2>1, <3>1, <3>2 DEF ForgetUser, loop, KeptInv, Running, Of
  <2>2. CASE UNCHANGED <<file, faults>> /\ forgotten \subseteq forgotten'
    BY <1>6, <2>2 DEF ForgetUser, loop, KeptInv, Running
  <2>3. CASE Fault /\ UNCHANGED file
    <3>1. faults' # 0
      BY <2>3 DEF Fault, NumbersOK
    <3> QED
      BY <1>6, <2>3, <3>1 DEF ForgetUser, loop, KeptInv
  <2> QED
    BY <1>6, <2>1, <2>2, <2>3 DEF ForgetUser
<1>7. CASE Start
  BY <1>7 DEF Start, BeginTick, Load, history, KeptInv
<1>8. CASE Stop
  BY <1>8 DEF Stop, Ended, history, KeptInv, Running
<1>9. CASE CrashInWrite
  <2>1. faults' # 0
    BY <1>9 DEF CrashInWrite, Fault, NumbersOK
  <2> QED
    BY <1>9, <2>1 DEF CrashInWrite, Ended, history, KeptInv
<1>10. ASSUME UNCHANGED <<file, queue, accepted, delivered, forgotten, completed, phase, faults>>
       PROVE  KeptInv'
  BY <1>10 DEF KeptInv, Running
<1>11. CASE Tick \/ UNCHANGED vars
  BY <1>10, <1>11 DEF Tick, loop, history, vars
<1>12. ASSUME NEW u \in Users, NEW d \in 1..MaxDuration, Command(u, d)
       PROVE  KeptInv'
  BY <1>10, <1>12 DEF Command, loop, history
<1>13. ASSUME NEW r \in asking, Denied(r)
       PROVE  KeptInv'
  BY <1>10, <1>13 DEF Denied, loop, history
<1> QED
  BY <1>1, <1>2, <1>3, <1>4, <1>5, <1>6, <1>7, <1>8, <1>9, <1>11, <1>12, <1>13 DEF Next, Loop, Dispatch

\* Unless a write fails or is cut short, a registered reminder is in the
\* file until it is delivered or deleted: no batch, no addition during a
\* batch and no restart loses it.
THEOREM RegisteredAreKept == Spec => []AcceptedKept
<1>1. Init => DownEmpty /\ KeptInv
  BY DEF Init, DownEmpty, KeptInv, Running
<1>2. KeptInv => AcceptedKept
  BY DEF KeptInv, AcceptedKept
<1> QED
  BY <1>1, <1>2, DownStep, KeptStep, TypeCorrect, PTL DEF Spec

-----------------------------------------------------------------------------
(* One process delivers a reminder once.                                   *)

\* Ids are fresh, and a reminder this process has delivered is out of the
\* queue once its batch is done.
OnceInv ==
  /\ \A r \in queue \cup asking \cup recent \cup file.rows : r.id <= made
  /\ asking \cap (queue \cup recent) = {}
  /\ recent \cap queue \subseteq completed
  /\ phase # "dispatch" => completed = {}

\* Rows that are all old stay old in any state with as many ids.
LEMMA PersistOld ==
  ASSUME NEW rows, \A r \in rows \cup file.rows : r.id <= made, Persist(rows)
  PROVE  \A r \in file'.rows : r.id <= made
BY DEF Persist, Fault

\* A new id is above all others, and the end of a batch empties the queue of
\* what it delivered.
LEMMA OnceStep ==
  ASSUME TypeOK, DownEmpty, OnceInv, [Next]_vars
  PROVE  OnceInv'
<1> USE TypeParts
<1>1. CASE Dispatch
  BY <1>1 DEF Dispatch, SendOk, SendFails, history, OnceInv, QueueOK
<1>2. CASE DispatchDone
  <2>1. Remaining = queue \ completed
    BY DEF Remaining
  <2>2. \A r \in file'.rows : r.id <= made
    BY <1>2, <2>1, PersistOld DEF DispatchDone, OnceInv
  <2> QED
    BY <1>2, <2>1, <2>2 DEF DispatchDone, OnceInv
<1>3. CASE Wake
  BY <1>3 DEF Wake, BeginTick, OnceInv
<1>4. ASSUME NEW u \in Users, NEW d \in 1..MaxDuration, Command(u, d)
      PROVE  OnceInv'
  <2>1. \A r \in queue \cup asking \cup recent \cup file.rows : r.id \in Nat
    BY DEF QueueOK, AskingOK, HistoryOK, FileOK, Reminders
  <2>2. made \in Nat /\ made' = made + 1
    BY <1>4 DEF Command, NumbersOK
  <2>3. \A r \in queue \cup asking \cup recent \cup file.rows : r.id <= made' /\ r.id # made + 1
    BY <2>1, <2>2 DEF OnceInv
  <2> QED
    BY <1>4, <2>2, <2>3 DEF Command, loop, OnceInv
<1>5. ASSUME NEW r \in asking, Granted(r)
      PROVE  OnceInv'
  <2>1. \A q \in file'.rows : q.id <= made
    BY <1>5, PersistOld DEF Granted, OnceInv
  <2> QED
    BY <1>5, <2>1 DEF Granted, OnceInv
<1>6. ASSUME NEW r \in asking, Denied(r)
      PROVE  OnceInv'
  BY <1>6 DEF Denied, loop, OnceInv
<1>7. ASSUME NEW u \in Users, ForgetUser(u)
      PROVE  OnceInv'
  <2>1. file'.rows \subseteq file.rows
    BY <1>7 DEF ForgetUser, FileOK
  <2> QED
    BY <1>7, <2>1 DEF ForgetUser, loop, OnceInv
<1>8. CASE Start
  BY <1>8 DEF Start, BeginTick, Load, OnceInv, DownEmpty, Running
<1>9. CASE Stop \/ CrashInWrite
  BY <1>9 DEF Stop, CrashInWrite, Ended, OnceInv
<1>10. CASE Tick \/ UNCHANGED vars
  BY <1>10 DEF Tick, loop, vars, OnceInv
<1> QED
  BY <1>1, <1>2, <1>3, <1>4, <1>5, <1>6, <1>7, <1>8, <1>9, <1>10 DEF Next, Loop

\* A delivery is of a reminder that is still to be tried.
LEMMA CompletedGrows ==
  ASSUME [Next]_vars
  PROVE  completed' \ completed \subseteq pending
<1>1. CASE Tick \/ Dispatch \/ DispatchDone \/ Wake \/ UNCHANGED vars
  BY <1>1 DEF Tick, Dispatch, SendOk, SendFails, DispatchDone, Wake, BeginTick, loop, vars
<1>2. CASE \/ \E u \in Users, d \in 1..MaxDuration : Command(u, d)
           \/ \E u \in Users : ForgetUser(u)
  BY <1>2 DEF Command, ForgetUser, loop
<1>3. CASE \E r \in asking : Granted(r) \/ Denied(r)
  BY <1>3 DEF Granted, Denied, loop
<1>4. CASE Start \/ Stop \/ CrashInWrite
  BY <1>4 DEF Start, Stop, CrashInWrite, Ended, BeginTick
<1> QED
  BY <1>1, <1>2, <1>3, <1>4 DEF Next, Loop

\* No process delivers a reminder twice, whatever is added, deleted or fails
\* to be written while it sends.
THEOREM DeliveriesHappenOnce == Spec => DeliveredOnce
<1>1. Init => DownEmpty /\ OnceInv
  BY DEF Init, DownEmpty, OnceInv, Running
<1>2. TypeOK /\ OnceInv /\ [Next]_vars => [\A r \in completed' \ completed : r \notin recent]_vars
  <2>1. ASSUME TypeOK, OnceInv
        PROVE  pending \cap recent = {}
    BY <2>1, TypeParts DEF OnceInv, QueueOK
  <2> QED
    BY <2>1, CompletedGrows
<1> QED
  BY <1>1, <1>2, DownStep, OnceStep, TypeCorrect, PTL DEF Spec, DeliveredOnce

-----------------------------------------------------------------------------
(* The loop does not spin.                                                 *)

\* Every moment the loop may wake at is still ahead: reminders that are
\* overdue, because they cannot be delivered, are not among them.
LEMMA WakeUpsAhead ==
  ASSUME TypeOK, now < MaxTime, NEW rows, NEW t \in WakeUps(rows)
  PROVE  t > now
<1>1. now \in Nat /\ MaxTime \in Nat /\ ScanInterval \in Nat /\ ScanInterval > 0
  BY TypeParts, LimitsAssumption DEF NumbersOK
<1>2. CASE t = Clock(now + ScanInterval)
  BY <1>1, <1>2 DEF Clock
<1>3. CASE \E r \in rows : r.fireAt > now /\ t = r.fireAt
  BY <1>3
<1> QED
  BY <1>2, <1>3 DEF WakeUps

\* After a batch the loop sleeps until some later moment, even if every
\* message of the batch failed.
THEOREM LoopNeverSpins == Spec => NoBusyLoop
<1>1. TypeOK /\ [Next]_vars => [phase = "dispatch" /\ phase' = "sleep" /\ now < MaxTime => wakeAt' > now]_vars
  <2> SUFFICES ASSUME TypeOK, Next, phase = "dispatch", phase' = "sleep", now < MaxTime
               PROVE  wakeAt' > now
    OBVIOUS
  <2>1. CASE DispatchDone
    <3>1. wakeAt' \in WakeUps(Remaining)
      BY <2>1 DEF DispatchDone
    <3> QED
      BY <3>1, WakeUpsAhead
  <2>2. CASE Tick \/ Dispatch \/ Wake
    BY <2>2 DEF Tick, Dispatch, SendOk, SendFails, Wake, BeginTick, loop
  <2>3. CASE \/ \E u \in Users, d \in 1..MaxDuration : Command(u, d)
             \/ \E r \in asking : Granted(r) \/ Denied(r)
             \/ \E u \in Users : ForgetUser(u)
    BY <2>3 DEF Command, Granted, Denied, ForgetUser, loop
  <2>4. CASE Start \/ Stop \/ CrashInWrite
    BY <2>4 DEF Start, Stop, CrashInWrite, Ended, BeginTick
  <2> QED
    BY <2>1, <2>2, <2>3, <2>4 DEF Next, Loop
<1> QED
  BY <1>1, TypeCorrect, PTL DEF Spec, NoBusyLoop
=============================================================================
