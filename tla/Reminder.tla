------------------------------ MODULE Reminder -------------------------------
(***************************************************************************)
(* Personal reminders: /remind asks the consent gate and then adds to a    *)
(* queue in memory, every change rewrites data/reminders.json, a loop      *)
(* sends what is due by direct message, and /privacy delete edits the file *)
(* behind the queue's back.                                                *)
(*                                                                         *)
(* The code between two awaits is one step.  The loop awaits each direct   *)
(* message and its sleep; a command awaits the consent gate.  Those are    *)
(* the places where the other actors step in.                              *)
(***************************************************************************)
EXTENDS Naturals, FiniteSets

CONSTANTS
  Users,
  Reachable,     \* the users who accept direct messages
  MaxPerUser,    \* reminderConfig.maxPerUser
  MaxDuration,   \* reminderConfig.maxDurationMs
  ScanInterval,  \* SCAN_INTERVAL_MS
  MaxTime,       \* bound: the clock stops there, its last value stands for any later time
  MaxAdds,       \* bound: commands that reach the consent gate
  MaxOverlap,    \* bound: commands waiting for the gate at once
  MaxStarts,     \* bound: starts of the process
  MaxFaults      \* bound: failed messages and writes, crashes in a write

ASSUME UsersAssumption == IsFiniteSet(Users) /\ Reachable \subseteq Users
ASSUME LimitsAssumption ==
  /\ {MaxPerUser, MaxDuration, ScanInterval, MaxOverlap} \subseteq Nat \ {0}
  /\ {MaxTime, MaxAdds, MaxStarts, MaxFaults} \subseteq Nat

VARIABLES
  now,        \* the clock
  file,       \* data/reminders.json
  queue,      \* reminders, in memory
  asking,     \* reminders whose command waits for the consent gate
  phase,      \* "down", or where the loop awaits: "dispatch" or "sleep"
  pending,    \* of the batch of this tick: not yet tried
  completed,  \* of the batch of this tick: delivered
  wakeAt,     \* when the sleep ends
  made,       \* reminders created so far: their ids
  accepted,   \* history: reminders whose user was told they are registered
  delivered,  \* history: reminders delivered
  recent,     \* history: the ones delivered by this process
  forgotten,  \* history: reminders of users told that their data is deleted
  rushed,     \* history: users who sent a command while one of theirs was waiting
  starts, faults   \* counters of the bounds

loop == <<phase, pending, completed, wakeAt, recent>>
history == <<accepted, delivered, forgotten, rushed>>
vars == <<now, file, queue, asking, phase, pending, completed, wakeAt, made,
          accepted, delivered, recent, forgotten, rushed, starts, faults>>

Reminders == [id : Nat, user : Users, fireAt : Nat]
Running == phase # "down"
Of(rows, u) == {r \in rows : r.user = u}

Init ==
  /\ now = 0 /\ file = [kind |-> "missing", rows |-> {}]
  /\ queue = {} /\ asking = {}
  /\ phase = "down" /\ pending = {} /\ completed = {} /\ wakeAt = 0
  /\ made = 0 /\ accepted = {} /\ delivered = {} /\ recent = {} /\ forgotten = {} /\ rushed = {}
  /\ starts = 0 /\ faults = 0

\* The clock stands still at MaxTime.
Clock(t) == IF t > MaxTime THEN MaxTime ELSE t

Tick == now < MaxTime /\ now' = now + 1 /\ UNCHANGED <<file, queue, asking, loop, made, history, starts, faults>>

-----------------------------------------------------------------------------
(* The store.                                                              *)

\* loadReminders: a missing or malformed file is an empty queue.
Load == IF file.kind = "ok" THEN file.rows ELSE {}

Fault == faults < MaxFaults /\ faults' = faults + 1

\* persist: the write either replaces the file or fails, and a failure is
\* logged only.
Persist(rows) ==
  \/ file' = [kind |-> "ok", rows |-> rows] /\ UNCHANGED faults
  \/ Fault /\ UNCHANGED file

-----------------------------------------------------------------------------
(* The loop.                                                               *)

\* pickOverdueReminders
Overdue(rows) == {r \in rows : r.fireAt <= now}

\* tick, up to its first await.
BeginTick(rows) ==
  /\ phase' = "dispatch" /\ pending' = Overdue(rows) /\ completed' = {}
  /\ UNCHANGED wakeAt

\* The order of dispatch: by fireAt.
Earliest(r) == r \in pending /\ \A q \in pending : r.fireAt <= q.fireAt

\* Mutants: the delivered one is tried again; the first failure ends the batch.
AfterSendKept(r) == pending
AfterFailureNothing(r) == {}

AfterSend(r) == pending \ {r}
AfterFailure(r) == pending \ {r}

SendOk(r) ==
  /\ phase = "dispatch" /\ Earliest(r) /\ r.user \in Reachable
  /\ pending' = AfterSend(r) /\ completed' = completed \cup {r}
  /\ delivered' = delivered \cup {r} /\ recent' = recent \cup {r}
  /\ UNCHANGED <<now, file, queue, asking, phase, wakeAt, made, accepted, forgotten, rushed, starts, faults>>

\* openDm yields nothing or send throws: the reminder stays in the queue.
SendFails(r) ==
  /\ phase = "dispatch" /\ Earliest(r)
  /\ r.user \in Reachable => faults < MaxFaults
  /\ faults' = IF r.user \in Reachable THEN faults + 1 ELSE faults
  /\ pending' = AfterFailure(r)
  /\ UNCHANGED <<now, file, queue, asking, phase, completed, wakeAt, made, recent, history, starts>>

\* Mutants: what was delivered stays; what was tried goes with it; overdue
\* reminders count for the next wake-up.
RemainingAll == queue
RemainingFuture == {r \in queue : r.fireAt > now}
WakeUpsOverdue(rows) == {Clock(now + ScanInterval)} \cup {IF r.fireAt > now THEN r.fireAt ELSE now : r \in rows}

Remaining == queue \ completed

\* The end of the sleep is the least of these: SCAN_INTERVAL_MS from now and
\* the reminders that are still in the future (pickNextFire).
WakeUps(rows) == {Clock(now + ScanInterval)} \cup {r.fireAt : r \in {q \in rows : q.fireAt > now}}

\* The batch is done: the delivered ones go, and the loop falls asleep.
DispatchDone ==
  /\ phase = "dispatch" /\ pending = {}
  /\ queue' = Remaining
  /\ IF completed # {} THEN Persist(Remaining) ELSE UNCHANGED <<file, faults>>
  /\ \E t \in WakeUps(Remaining) : wakeAt' = t /\ \A w \in WakeUps(Remaining) : t <= w
  /\ phase' = "sleep" /\ completed' = {}
  /\ UNCHANGED <<now, asking, pending, made, recent, history, starts>>

\* The timer fires or the sleep is aborted; the next tick begins at once.
Wake ==
  /\ phase = "sleep" /\ now >= wakeAt
  /\ BeginTick(queue)
  /\ UNCHANGED <<now, file, queue, asking, made, recent, history, starts, faults>>

-----------------------------------------------------------------------------
(* The command.                                                            *)

\* Mutants: the limit is off by one; the loop is not woken.
BelowLimitOrAt(u) == Cardinality(Of(queue, u)) <= MaxPerUser
WakeForgotten == UNCHANGED wakeAt

BelowLimit(u) == Cardinality(Of(queue, u)) < MaxPerUser

\* wakeScheduler: without a sleep to abort it does nothing.
WakeScheduler == wakeAt' = IF phase = "sleep" THEN now ELSE wakeAt

\* /remind passes its checks and asks the consent gate.  (A command that
\* fails a check is answered and changes nothing.)
Command(u, d) ==
  /\ Running /\ made < MaxAdds /\ Cardinality(asking) < MaxOverlap
  /\ d \in 1..MaxDuration /\ now + d <= MaxTime
  /\ BelowLimit(u)
  /\ made' = made + 1
  /\ asking' = asking \cup {[id |-> made + 1, user |-> u, fireAt |-> now + d]}
  /\ rushed' = IF Of(asking, u) = {} THEN rushed ELSE rushed \cup {u}
  /\ UNCHANGED <<now, file, queue, loop, accepted, delivered, forgotten, starts, faults>>

Granted(r) ==
  /\ r \in asking /\ asking' = asking \ {r}
  /\ queue' = queue \cup {r}
  /\ Persist(queue')
  /\ WakeScheduler
  /\ accepted' = accepted \cup {r}
  /\ UNCHANGED <<now, phase, pending, completed, made, delivered, recent, forgotten, rushed, starts>>

Denied(r) ==
  /\ r \in asking /\ asking' = asking \ {r}
  /\ UNCHANGED <<now, file, queue, loop, made, history, starts, faults>>

\* The reminder step of /privacy delete: the file is read, filtered and
\* replaced; the queue is not told.  A failure is reported to the user.
ForgetUser(u) ==
  /\ Running /\ Of(accepted, u) # {}
  /\ \/ /\ file.kind = "ok"
        /\ file' = [file EXCEPT !.rows = @ \ Of(@, u)] /\ UNCHANGED faults
        /\ forgotten' = forgotten \cup Of(accepted, u)
     \/ /\ file.kind = "missing" /\ UNCHANGED <<file, faults>>
        /\ forgotten' = forgotten \cup Of(accepted, u)
     \/ /\ file.kind = "torn" /\ UNCHANGED <<file, faults, forgotten>>
     \/ /\ Fault /\ UNCHANGED <<file, forgotten>>
  /\ UNCHANGED <<now, queue, asking, loop, made, accepted, delivered, rushed, starts>>

-----------------------------------------------------------------------------
(* The process.                                                            *)

Start ==
  /\ phase = "down" /\ starts < MaxStarts /\ starts' = starts + 1
  /\ queue' = Load
  /\ BeginTick(queue')
  /\ recent' = {}
  /\ UNCHANGED <<now, file, asking, made, history, faults>>

Ended ==
  /\ Running /\ phase' = "down"
  /\ queue' = {} /\ asking' = {} /\ pending' = {} /\ completed' = {} /\ wakeAt' = 0
  /\ UNCHANGED <<now, made, recent, history, starts>>

Stop == Ended /\ UNCHANGED <<file, faults>>

\* saveReminders writes in place: the process may die halfway through.
CrashInWrite ==
  /\ asking # {} \/ (phase = "dispatch" /\ completed # {})
  /\ Ended /\ Fault
  /\ file' = [kind |-> "torn", rows |-> {}]

-----------------------------------------------------------------------------
Dispatch == \E r \in pending : SendOk(r) \/ SendFails(r)
Loop == Dispatch \/ DispatchDone \/ Wake

Next ==
  \/ Tick \/ Loop
  \/ \E u \in Users, d \in 1..MaxDuration : Command(u, d)
  \/ \E r \in asking : Granted(r) \/ Denied(r)
  \/ \E u \in Users : ForgetUser(u)
  \/ Start \/ Stop \/ CrashInWrite

Spec == Init /\ [][Next]_vars

\* Time passes, timers fire, and a request to Discord ends: discord.js gives
\* up on one that is not answered.
Fairness == WF_vars(Tick) /\ WF_vars(Loop)

FairSpec == Spec /\ Fairness

-----------------------------------------------------------------------------
(* Properties.                                                             *)

\* Every variable has its type, and a batch is a part of the queue whose
\* delivered reminders are never among those still to be tried.
TypeOK ==
  /\ {now, wakeAt, made, starts, faults} \subseteq Nat
  /\ file \in [kind : {"missing", "ok", "torn"}, rows : SUBSET Reminders]
  /\ phase \in {"down", "dispatch", "sleep"}
  /\ \A rows \in {queue, asking, pending, completed, accepted, delivered, recent, forgotten} :
       rows \subseteq Reminders
  /\ \A rows \in {file.rows, queue, asking, accepted} : IsFiniteSet(rows)
  /\ rushed \subseteq Users
  /\ pending \cup completed \subseteq queue /\ pending \cap completed = {}

Within(u) == \A rows \in {queue, file.rows} : Cardinality(Of(rows, u)) <= MaxPerUser

\* Claimed at reminderConfig.maxPerUser ("Maximum number of reminders a
\* single user can have queued at the same time. Exceeding this is rejected
\* by the slash command"): in memory and on disk no user exceeds the limit.
LimitHolds == \A u \in Users : Within(u)

\* The limit holds for every user who waits for the answer to a command
\* before sending the next one, through restarts, deletions behind the
\* queue's back and writes that fail.  (It is checked before the consent gate
\* is awaited, so commands that wait together all pass it.)
LimitWhenPatient == \A u \in Users \ rushed : Within(u)

\* A registered reminder stays in the file until it is delivered or its user
\* deletes their data: not lost to the batch that is being sent meanwhile,
\* nor to a restart, as long as no write fails or is cut short.
AcceptedKept ==
  faults = 0 => accepted \subseteq file.rows \cup delivered \cup forgotten

\* The loop never sleeps past a reminder: an addition that arrives while it
\* sleeps, or while it sends, brings the wake-up forward.
NeverOversleeps ==
  phase = "sleep" => \A r \in queue : r.fireAt > now => wakeAt <= r.fireAt

\* One process delivers a reminder at most once, whatever is added, deleted
\* or fails to be written while it sends.
DeliveredOnce ==
  [][\A r \in completed' \ completed : r \notin recent]_vars

\* A reminder that cannot be delivered does not make the loop spin: after
\* every batch it sleeps until some later moment.
NoBusyLoop ==
  [][phase = "dispatch" /\ phase' = "sleep" /\ now < MaxTime => wakeAt' > now]_vars

\* A reminder in the queue of a user who accepts messages is delivered, even
\* when others of the same batch cannot be, unless the process ends first.
DueIsSent ==
  \A i \in 1..MaxAdds :
    (\E r \in queue : r.id = i /\ r.user \in Reachable)
      ~> (phase = "down" \/ \E r \in recent : r.id = i)

\* Told to the user who confirms /privacy delete ("erases all personal data
\* the bot holds for this server"): a reminder that was deleted does not
\* come back to the file.
DeletedStaysDeleted == file.rows \cap forgotten = {}
=============================================================================
