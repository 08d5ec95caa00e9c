----------------------------- MODULE Snapshots -----------------------------
(***************************************************************************)
(* The encrypted snapshots of the data directory, and /privacy delete,     *)
(* which clears the grants, runs the adapters and has the snapshots        *)
(* replaced by a fresh one.  Three jobs take snapshots: the daily timer,   *)
(* the listener of the consent service's clear event, and the adapter of   *)
(* the delete; the last two of one delete run at the same time.            *)
(*                                                                         *)
(* A job awaits the hashing of the sources; it packs, encrypts, writes and *)
(* applies the retention plan in one turn of the event loop; it awaits the *)
(* upload; a purge then deletes what it listed when it began.  A snapshot  *)
(* is named by the second in which its job began: two jobs of one second   *)
(* write to the same file.                                                 *)
(*                                                                         *)
(* The job's path of its snapshot is relative.  The purge of the event     *)
(* lists the same relative directory; the purge of the adapter lists an    *)
(* absolute one, so that it never finds its own snapshot among its files.  *)
(***************************************************************************)
EXTENDS Retention, Sequences

CONSTANTS
  Users,
  StartSecond,   \* the second of the day at which the timer fires
  LastSecond,    \* bound: the clock stops there
  MaxStores,     \* bound: users who store data
  MaxDeletes,    \* bound: deletes
  MaxStarts,     \* bound: starts of the process
  MaxFaults      \* bound: failures and stops

ASSUME SnapshotsAssumption ==
  /\ IsFiniteSet(Users)
  /\ StartSecond \in 0 .. DayLength - 1
  /\ {LastSecond, MaxStores, MaxDeletes, MaxStarts, MaxFaults} \subseteq Nat

VARIABLES
  now,       \* the clock
  up,        \* the process runs
  data,      \* users of whom the sources hold something
  archive,   \* data/snapshots: what the file of each second holds, and its state
  jobs,      \* the snapshots being taken
  timer,     \* the second at which the timer fires, or 0
  once,      \* STATE_SNAPSHOT_RUN_ON_READY: one snapshot, no timer
  turn,      \* the delete between its two parts, or 0
  owner,     \* the user of each delete
  deleted,   \* history: users told that all is deleted, who stored nothing since
  spoiled,   \* history: a snapshot that cannot be restored has been written
  relisted,  \* history: an adapter's purge has listed the file of its own second
  stores, starts, faults   \* counters of the bounds

disk == <<data, archive>>
proc == <<up, timer, once>>
ghosts == <<deleted, spoiled, relisted>>
vars == <<now, up, data, archive, jobs, timer, once, turn, owner, deleted,
          spoiled, relisted, stores, starts, faults>>

Seconds == 0 .. LastSecond
Daily == <<0, "daily">>
Events == (1 .. MaxDeletes) \X {"event"}
Adapters == (1 .. MaxDeletes) \X {"adapter"}
Jobs == {Daily} \cup Events \cup Adapters

\* A torn file is what a process that died while writing left.
Files == [holds : SUBSET Users, kind : {"good", "mixed", "torn"}]
JobRecords == [phase : {"hashing", "uploading"}, at : Seconds, listed : SUBSET Seconds,
               clean : BOOLEAN, mixed : BOOLEAN]

Empty == [x \in {} |-> 0]
Put(f, x, y) == [z \in DOMAIN f \cup {x} |-> IF z = x THEN y ELSE f[z]]
Without(f, S) == [z \in DOMAIN f \ S |-> f[z]]

\* The disk is as earlier processes left it.
Init ==
  /\ now = 0 /\ up = FALSE
  /\ data \in SUBSET Users
  /\ archive \in {Empty} \cup {f \in [{0} -> Files] : f[0].kind # "mixed"}
  /\ jobs = Empty /\ timer = 0 /\ once = FALSE
  /\ turn = 0 /\ owner = <<>>
  /\ deleted = {} /\ spoiled = FALSE /\ relisted = FALSE
  /\ stores = 0 /\ starts = 0 /\ faults = 0

Fault == faults < MaxFaults /\ faults' = faults + 1

-----------------------------------------------------------------------------
(* The life of a job.                                                      *)

\* createSnapshot begins: the time is read, and hashing starts.
\* clean: the adapters succeeded, and the user has stored nothing since.
Begun(listed, clean) ==
  [phase |-> "hashing", at |-> now, listed |-> listed, clean |-> clean, mixed |-> FALSE]

Hashing(j) == turn = 0 /\ j \in DOMAIN jobs /\ jobs[j].phase = "hashing"

\* listSnapshots leaves out what it cannot decrypt.
Listed(files) == {t \in DOMAIN files : files[t].kind # "torn"}

\* unlinkSync, once for each path: a failure leaves the file.
Unlink(files, paths) ==
  \/ archive' = Without(files, paths) /\ UNCHANGED faults
  \/ Fault /\ \E p \in paths : archive' = Without(files, paths \ {p})

\* The sources are read again here: a source that changed after it was
\* hashed makes a snapshot that restoreSnapshot refuses.
JobWrites(j) ==
  LET job == jobs[j]
      file == [holds |-> data, kind |-> IF job.mixed THEN "mixed" ELSE "good"]
      files == Put(archive, job.at, file)
  IN /\ Hashing(j)
     /\ Unlink(files, Listed(files) \ Keep(Listed(files), now))
     /\ jobs' = [jobs EXCEPT ![j].phase = "uploading", ![j].mixed = FALSE]
     /\ spoiled' = (spoiled \/ job.mixed)
     /\ UNCHANGED <<now, proc, data, turn, owner, deleted, relisted, stores, starts>>

\* The upload is over: its errors are logged, and the job goes on.
Uploaded(j) == turn = 0 /\ j \in DOMAIN jobs /\ jobs[j].phase = "uploading"

-----------------------------------------------------------------------------
(* The daily snapshot.                                                     *)

\* Mutant: the time of today, also when it has passed.
NextStartToday(t) == (t \div DayLength) * DayLength + StartSecond

NextStartAt(t) ==
  LET today == (t \div DayLength) * DayLength + StartSecond
  IN IF t < today THEN today ELSE today + DayLength

\* The timer, or the start with STATE_SNAPSHOT_RUN_ON_READY.
DailyBegins ==
  /\ up /\ turn = 0 /\ timer > 0 /\ now >= timer
  /\ jobs' = Put(jobs, Daily, Begun({}, TRUE))
  /\ timer' = 0
  /\ UNCHANGED <<now, up, disk, once, turn, owner, ghosts, stores, starts, faults>>

\* finally: the timer is set again, also after a failure.
Reschedule == timer' = IF once THEN 0 ELSE NextStartAt(now)

DailyEnds ==
  /\ Uploaded(Daily)
  /\ jobs' = Without(jobs, {Daily})
  /\ Reschedule
  /\ UNCHANGED <<now, up, data, archive, once, turn, owner, ghosts, stores, starts, faults>>

DailyFails ==
  /\ Hashing(Daily) /\ Fault
  /\ jobs' = Without(jobs, {Daily})
  /\ Reschedule
  /\ UNCHANGED <<now, up, disk, once, turn, owner, ghosts, stores, starts>>

-----------------------------------------------------------------------------
(* The delete and its two purges.                                          *)

\* purgeAllSnapshots, among the jobs js: every *.snap.enc of the directory;
\* with none of them there is nothing to do.
Purging(js, j, clean) ==
  IF DOMAIN archive = {} THEN js ELSE Put(js, j, Begun(DOMAIN archive, clean))

\* The jobs once a source is edited, but for the one of this delete: those
\* that are hashing may have hashed it already.
Blurred(own) ==
  [j \in DOMAIN jobs |-> [jobs[j] EXCEPT !.mixed = @ \/ (jobs[j].phase = "hashing" /\ j # own)]]

\* It is rare that they have, and counts with the failures.
Costs(rare) == IF rare THEN Fault ELSE UNCHANGED faults

\* clearUserData: the grants are cleared; if there was one, the file of the
\* grants is edited and the event starts the first purge.
DeleteBegin(u) ==
  /\ up /\ turn = 0 /\ Len(owner) < MaxDeletes
  /\ turn' = Len(owner) + 1
  /\ owner' = Append(owner, u)
  /\ LET event == <<turn', "event">>
     IN \/ UNCHANGED <<jobs, faults>>
        \/ \E js \in {jobs, Blurred(event)} : jobs' = Purging(js, event, TRUE) /\ Costs(js # jobs)
  /\ UNCHANGED <<now, proc, disk, ghosts, stores, starts>>

\* The adapters edit the files that hold something of the user, each of them
\* may fail; then the second purge.
DeleteRest ==
  LET u == owner[turn]
  IN /\ turn # 0 /\ turn' = 0
     /\ \E ok \in BOOLEAN, js \in {jobs} \cup {Blurred(<<turn, "event">>) : w \in data \cap {u}} :
          /\ Costs(~ok \/ js # jobs)
          /\ jobs' = Purging(js, <<turn, "adapter">>, ok)
          /\ data' = IF ok THEN data \ {u} ELSE data
          /\ deleted' = IF ok /\ DOMAIN archive = {} THEN deleted \cup {u} ELSE deleted
     /\ relisted' = (relisted \/ now \in DOMAIN archive)
     /\ UNCHANGED <<now, proc, archive, owner, spoiled, stores, starts>>

\* Mutants: the directory is listed again at the end; files that could not be
\* deleted are not looked for.
DoomedAll(j, job) == DOMAIN archive \ (IF j \in Events THEN {job.at} ELSE {})
PurgedUnchecked(job) == job.clean

\* All that was listed goes.  The purge of the event spares the fresh
\* snapshot; to that of the adapter it is a file like the others.
Doomed(j, job) == (job.listed \cap DOMAIN archive) \ (IF j \in Events THEN {job.at} ELSE {})

\* The answer is that all is deleted if every adapter succeeded and no file
\* is left: the fresh snapshot, too, counts as one that could not be deleted.
Purged(job) == job.clean /\ DOMAIN archive' = {}

PurgeEnds(j) ==
  LET job == jobs[j]
  IN /\ j \in Events \cup Adapters /\ Uploaded(j)
     /\ jobs' = Without(jobs, {j})
     /\ Unlink(archive, Doomed(j, job))
     /\ deleted' = IF j \in Adapters /\ Purged(job)
                   THEN deleted \cup {owner[j[1]]} ELSE deleted
     /\ UNCHANGED <<now, proc, data, turn, owner, spoiled, relisted, stores, starts>>

\* Without a fresh snapshot the purge declines.
PurgeFails(j) ==
  /\ j # Daily /\ Hashing(j) /\ Fault
  /\ jobs' = Without(jobs, {j})
  /\ UNCHANGED <<now, proc, disk, turn, owner, ghosts, stores, starts>>

-----------------------------------------------------------------------------
(* The users, the clock and the process.                                   *)

Deletes(j, u) == j \in Adapters /\ owner[j[1]] = u

\* A feature writes to a source, for a user who has nothing there yet or
\* while jobs hash, whose hashes may then be stale.
StoreData(u) ==
  /\ up /\ turn = 0 /\ stores < MaxStores /\ stores' = stores + 1
  /\ data' = data \cup {u}
  /\ deleted' = deleted \ {u}
  /\ \/ /\ u \notin data /\ UNCHANGED faults
        /\ jobs' = [j \in DOMAIN jobs |-> [jobs[j] EXCEPT !.clean = @ /\ ~Deletes(j, u)]]
     \/ /\ \E j \in DOMAIN jobs : Hashing(j)
        /\ Fault
        /\ jobs' = [j \in DOMAIN jobs |->
                      [jobs[j] EXCEPT !.clean = @ /\ ~Deletes(j, u), !.mixed = Hashing(j)]]
  /\ UNCHANGED <<now, proc, archive, turn, owner, spoiled, relisted, starts>>

\* A timer fires on time and a job takes less than a day.
Tick ==
  /\ now < LastSecond
  /\ timer = 0 \/ now < timer
  /\ \A j \in DOMAIN jobs : now + 1 < jobs[j].at + DayLength
  /\ now' = now + 1
  /\ UNCHANGED <<proc, disk, jobs, turn, owner, ghosts, stores, starts, faults>>

Start ==
  /\ ~up /\ starts < MaxStarts
  /\ up' = TRUE /\ starts' = starts + 1
  /\ once' \in BOOLEAN
  /\ jobs' = IF once' THEN Put(jobs, Daily, Begun({}, TRUE)) ELSE jobs
  /\ timer' = IF once' THEN 0 ELSE NextStartAt(now)
  /\ UNCHANGED <<now, disk, turn, owner, ghosts, stores, faults>>

Ended ==
  /\ up /\ Fault
  /\ up' = FALSE /\ jobs' = Empty /\ timer' = 0 /\ turn' = 0
  /\ UNCHANGED <<now, data, once, owner, deleted, relisted, stores, starts>>

Stop == Ended /\ UNCHANGED <<archive, spoiled>>

\* The process dies in writeFileSync.
CrashInWrite(j) ==
  /\ Hashing(j) /\ Ended
  /\ archive' = Put(archive, jobs[j].at, [holds |-> data, kind |-> "torn"])
  /\ spoiled' = TRUE

JobStep(j) == JobWrites(j) \/ PurgeEnds(j)

Next ==
  \/ \E j \in Jobs : JobStep(j) \/ PurgeFails(j) \/ CrashInWrite(j)
  \/ DailyBegins \/ DailyEnds \/ DailyFails
  \/ \E u \in Users : DeleteBegin(u) \/ StoreData(u)
  \/ DeleteRest \/ Tick \/ Start \/ Stop

Spec == Init /\ [][Next]_vars

-----------------------------------------------------------------------------
(* Properties.                                                             *)

(* The variables have their types.                                         *)
TypeOK ==
  /\ now \in Seconds /\ up \in BOOLEAN /\ once \in BOOLEAN
  /\ data \subseteq Users
  /\ DOMAIN archive \subseteq 0 .. now /\ \A t \in DOMAIN archive : archive[t] \in Files
  /\ DOMAIN jobs \subseteq Jobs
  /\ \A j \in DOMAIN jobs : jobs[j] \in JobRecords /\ jobs[j].at <= now
  /\ timer \in 0 .. LastSecond + DayLength
  /\ turn \in 0 .. Len(owner) /\ owner \in Seq(Users) /\ Len(owner) <= MaxDeletes
  /\ deleted \subseteq Users /\ {spoiled, relisted} \subseteq BOOLEAN
  /\ {stores, starts, faults} \subseteq Nat

(* Who was told that all is deleted, and stored nothing since, is in no    *)
(* source and in no snapshot on the disk, whichever jobs were under way:   *)
(* no restore revives them.                                                *)
NoRevival ==
  \A u \in deleted : u \notin data /\ \A t \in DOMAIN archive : u \notin archive[t].holds

HasBackup(files) == \E t \in DOMAIN files : files[t].kind = "good"

(* Once there is a snapshot that can be restored there always is one,      *)
(* however many purges run at once: a purge lists before its own snapshot  *)
(* is written, so that it cannot delete it, nor the later one of another.  *)
(* Not where a change of a source during hashing or the death of the       *)
(* process spoiled a snapshot, and not where an adapter's purge began in   *)
(* the second of a snapshot that was there already, its own by name.       *)
BackupKept ==
  [][HasBackup(archive) /\ ~spoiled' /\ ~relisted' => HasBackup(archive')]_vars

(* Claimed where purgeAllSnapshots looks for leftovers ("if anything OTHER *)
(* than the fresh snapshot we intend to keep is still on disk, that's a    *)
(* leaked file"): a delete all of whose adapters succeeded, and which left *)
(* nothing but its fresh snapshot, is reported as a success.               *)
FreshIsNoLeftover ==
  [][\A j \in (DOMAIN jobs \cap Adapters) \ DOMAIN jobs' :
       up' /\ jobs[j].phase = "uploading" /\ jobs[j].clean /\ DOMAIN archive' \subseteq {jobs[j].at}
         => owner[j[1]] \in deleted']_vars

(* A process that is to take daily snapshots always has the next one ahead *)
(* of it, or is taking one: no failure and no delete ends the schedule.    *)
DailyAhead ==
  up /\ ~once => Daily \in DOMAIN jobs \/ (timer >= now /\ timer <= now + DayLength)

=============================================================================
