--------------------------- MODULE Snapshots_proofs ---------------------------
(***************************************************************************)
(* Proofs about Snapshots, for any users, retention and bounds: the types, *)
(* that nobody who was told that all is deleted is in a snapshot, that a   *)
(* backup is never the last to go, and that the daily schedule goes on.    *)
(***************************************************************************)
EXTENDS Snapshots, FiniteSetTheorems, WellFoundedInduction, TLAPS

-----------------------------------------------------------------------------
(* Numbers.                                                                *)

\* A set of numbers has a least one.
LEMMA Least == ASSUME NEW S, S \subseteq Nat, S # {} PROVE \E x \in S : \A y \in S : x <= y
<1> DEFINE R == OpToRel(<, Nat)
<1>1. IsWellFoundedOn(R, Nat)
  BY NatLessThanWellFounded
<1>2. \A x, y \in Nat : y < x => <<y, x>> \in R
  BY DEF OpToRel
<1> HIDE DEF R
<1>3. PICK x \in S : \A y \in S : ~ (<<y, x>> \in R)
  BY <1>1, WFMin
<1>4. ASSUME NEW y \in S PROVE x <= y
  <2>1. x \in Nat /\ y \in Nat
    OBVIOUS
  <2>2. ~ (y < x)
    BY <1>2, <1>3, <2>1
  <2> QED
    BY <2>1, <2>2
<1> QED
  BY <1>4

\* A bounded set of numbers has a greatest one.
LEMMA Newest ==
  ASSUME NEW n \in Nat, NEW S, S \subseteq 0 .. n, S # {}
  PROVE  \E x \in S : \A y \in S : y <= x
<1> DEFINE ages == {n - t : t \in S}
<1>1. ages \subseteq Nat
  OBVIOUS
<1>2. ages # {}
  OBVIOUS
<1>3. PICK x \in ages : \A y \in ages : x <= y
  BY <1>1, <1>2, Least
<1>4. PICK t \in S : x = n - t
  OBVIOUS
<1>5. ASSUME NEW y \in S PROVE y <= t
  BY <1>3, <1>4
<1> QED
  BY <1>5

\* The next start is ahead, by a day at most.
LEMMA NextStartIsAhead ==
  \A t \in Nat : NextStartAt(t) \in Nat /\ t < NextStartAt(t) /\ NextStartAt(t) <= t + DayLength
<1> SUFFICES ASSUME NEW t \in Nat
             PROVE  NextStartAt(t) \in Nat /\ t < NextStartAt(t) /\ NextStartAt(t) <= t + DayLength
  OBVIOUS
<1>1. DayLength \in Nat \ {0} /\ StartSecond \in 0 .. DayLength - 1
  BY RetentionAssumption, SnapshotsAssumption
<1> DEFINE midnight == (t \div DayLength) * DayLength
<1>2. midnight \in Nat /\ midnight <= t /\ t < midnight + DayLength
  BY <1>1
<1>3. NextStartAt(t) = IF t < midnight + StartSecond THEN midnight + StartSecond
                       ELSE midnight + StartSecond + DayLength
  BY DEF NextStartAt
<1> HIDE DEF midnight
<1> QED
  BY <1>1, <1>2, <1>3

-----------------------------------------------------------------------------
(* The retention plan keeps the newest snapshot.                           *)

\* The newest snapshot is the newest of the newest group of every tier.
LEMMA NewestOfTier ==
  ASSUME NEW S, S \subseteq Nat, NEW length \in Nat \ {0}, NEW limit \in Nat \ {0},
         NEW m \in S, \A t \in S : t <= m
  PROVE  m \in PickTierKeep(S, length, limit)
<1>1. {r \in S : r \div length > m \div length} = {}
  <2> SUFFICES ASSUME NEW r \in S, r \div length > m \div length PROVE FALSE
    OBVIOUS
  <2>1. r \in Nat /\ m \in Nat /\ r <= m
    OBVIOUS
  <2> DEFINE a == r \div length
             b == m \div length
  <2>2. a \in Nat /\ a * length <= r
    BY <2>1
  <2>3. b \in Nat /\ m < b * length + length
    BY <2>1
  <2>4. a >= b + 1
    BY <2>2, <2>3
  <2> HIDE DEF a, b
  <2>5. a * length >= (b + 1) * length
    BY <2>2, <2>3, <2>4
  <2>6. (b + 1) * length = b * length + length
    BY <2>3
  <2> QED
    BY <2>1, <2>2, <2>3, <2>5, <2>6
<1>2. {s \div length : s \in {r \in S : r \div length > m \div length}} = {}
  BY <1>1
<1>3. Cardinality({s \div length : s \in {r \in S : r \div length > m \div length}}) < limit
  BY <1>2, FS_EmptySet
<1> QED
  BY <1>3 DEF PickTierKeep

\* So the plan keeps it, for any retention.
LEMMA NewestIsKept ==
  ASSUME NEW n \in Nat, NEW S, S \subseteq 0 .. n, NEW m \in S, \A t \in S : t <= m
  PROVE  m \in Keep(S, n)
<1> USE RetentionAssumption
<1>1. S \subseteq Nat /\ n - m \in Int /\ WeekLength \in Int /\ MonthLength \in Int
  OBVIOUS
<1>2. CASE n - m < WeekLength
  <2>1. m \in DailyCandidates(S, n)
    BY <1>2 DEF DailyCandidates, Age
  <2>2. DailyCandidates(S, n) \subseteq S
    BY Zenon DEF DailyCandidates
  <2>3. m \in PickTierKeep(DailyCandidates(S, n), DayLength, DailyRetention)
    BY <1>1, <2>1, <2>2, NewestOfTier
  <2> QED
    BY <2>3 DEF Keep
<1>3. CASE n - m >= WeekLength /\ n - m < MonthLength
  <2>1. m \in WeeklyCandidates(S, n)
    BY <1>3 DEF WeeklyCandidates, Age
  <2>2. WeeklyCandidates(S, n) \subseteq S
    BY Zenon DEF WeeklyCandidates
  <2>3. m \in PickTierKeep(WeeklyCandidates(S, n), WeekLength, WeeklyRetention)
    BY <1>1, <2>1, <2>2, NewestOfTier
  <2> QED
    BY <2>3 DEF Keep
<1>4. CASE n - m >= MonthLength
  <2>1. m \in MonthlyCandidates(S, n)
    BY <1>4 DEF MonthlyCandidates, Age
  <2>2. MonthlyCandidates(S, n) \subseteq S
    BY Zenon DEF MonthlyCandidates
  <2>3. m \in PickTierKeep(MonthlyCandidates(S, n), MonthLength, MonthlyRetention)
    BY <1>1, <2>1, <2>2, NewestOfTier
  <2> QED
    BY <2>3 DEF Keep
<1> QED
  BY <1>1, <1>2, <1>3, <1>4

-----------------------------------------------------------------------------
(* Functions and files.                                                    *)

\* What a function becomes by one entry.
LEMMA PutThere ==
  \A f, x, y : /\ DOMAIN Put(f, x, y) = DOMAIN f \cup {x}
               /\ Put(f, x, y)[x] = y
               /\ \A z \in DOMAIN f \ {x} : Put(f, x, y)[z] = f[z]
BY DEF Put

\* What a function is without some of its entries.
LEMMA WithoutThem ==
  \A f, S : /\ DOMAIN Without(f, S) = DOMAIN f \ S
            /\ \A z \in DOMAIN f \ S : Without(f, S)[z] = f[z]
BY DEF Without

\* The empty function has no entry.
LEMMA NothingPut == DOMAIN Empty = {}
BY DEF Empty

\* A deletion of files leaves the others as they are; one file may stay.
Left(files, paths) ==
  /\ DOMAIN archive' \subseteq DOMAIN files
  /\ DOMAIN files \ paths \subseteq DOMAIN archive'
  /\ \A t \in DOMAIN archive' : archive'[t] = files[t]

\* Deleting files removes only what was listed; one that fails may stay.
LEMMA UnlinkLeaves ==
  \A files, paths : Unlink(files, paths) => Left(files, paths) /\ (UNCHANGED faults \/ Fault)
<1> SUFFICES ASSUME NEW files, NEW paths, Unlink(files, paths)
             PROVE  Left(files, paths) /\ (UNCHANGED faults \/ Fault)
  OBVIOUS
<1>1. UNCHANGED faults \/ Fault
  BY Zenon DEF Unlink
<1>2. PICK gone \in SUBSET paths : archive' = Without(files, gone)
  <2>1. archive' = Without(files, paths) \/ \E p \in paths : archive' = Without(files, paths \ {p})
    BY Zenon DEF Unlink
  <2> QED
    BY <2>1
<1>3. /\ DOMAIN archive' = DOMAIN files \ gone
      /\ \A t \in DOMAIN files \ gone : archive'[t] = files[t]
  BY <1>2 DEF Without
<1> QED
  BY <1>1, <1>3 DEF Left

\* The fault counter stays a number.
LEMMA FaultsCount == faults \in Nat /\ (UNCHANGED faults \/ Fault) => faults' \in Nat
BY DEF Fault

\* What a job's write does to its record.
LEMMA WrittenJob ==
  \A r \in JobRecords :
    LET w == [[r EXCEPT !.phase = "uploading"] EXCEPT !.mixed = FALSE]
    IN /\ w \in JobRecords
       /\ w.phase = "uploading" /\ w.at = r.at /\ w.listed = r.listed /\ w.clean = r.clean
BY DEF JobRecords

-----------------------------------------------------------------------------
(* Types.  The jobs of a delete belong to one that has begun.              *)

Owned == \A j \in DOMAIN jobs \ {Daily} : j[1] \in 1 .. Len(owner)
TypeInv == TypeOK /\ Owned

Counters == {stores, starts, faults} \subseteq Nat
JobsOK ==
  /\ DOMAIN jobs \subseteq Jobs
  /\ \A j \in DOMAIN jobs : jobs[j] \in JobRecords /\ jobs[j].at <= now
  /\ Owned
ArchiveOK == DOMAIN archive \subseteq 0 .. now /\ \A t \in DOMAIN archive : archive[t] \in Files
DeletesOK ==
  /\ turn \in 0 .. Len(owner) /\ owner \in Seq(Users) /\ Len(owner) <= MaxDeletes
  /\ deleted \subseteq Users
PlainOK ==
  /\ now \in Seconds /\ up \in BOOLEAN /\ once \in BOOLEAN /\ data \subseteq Users
  /\ timer \in 0 .. LastSecond + DayLength /\ spoiled \in BOOLEAN /\ relisted \in BOOLEAN

\* The types in parts, each about what one group of actions changes.
LEMMA TypesInParts == TypeInv <=> PlainOK /\ ArchiveOK /\ JobsOK /\ DeletesOK /\ Counters
BY DEF TypeInv, TypeOK, PlainOK, ArchiveOK, JobsOK, DeletesOK, Counters

\* The second part of a delete: what it does to the sources and the purge.
LEMMA RestFacts ==
  ASSUME DeleteRest
  PROVE  \E ok \in BOOLEAN, js \in {jobs, Blurred(<<turn, "event">>)} :
           /\ jobs' = Purging(js, <<turn, "adapter">>, ok)
           /\ data' = (IF ok THEN data \ {owner[turn]} ELSE data) /\ data' \subseteq data
           /\ deleted' = IF ok /\ DOMAIN archive = {} THEN deleted \cup {owner[turn]} ELSE deleted
           /\ UNCHANGED faults \/ Fault
<1>1. PICK ok \in BOOLEAN, js \in {jobs} \cup {Blurred(<<turn, "event">>) : w \in data \cap {owner[turn]}} :
        /\ Costs(~ok \/ js # jobs)
        /\ jobs' = Purging(js, <<turn, "adapter">>, ok)
        /\ data' = IF ok THEN data \ {owner[turn]} ELSE data
        /\ deleted' = IF ok /\ DOMAIN archive = {} THEN deleted \cup {owner[turn]} ELSE deleted
  BY Zenon DEF DeleteRest
<1>2. js \in {jobs, Blurred(<<turn, "event">>)}
  OBVIOUS
<1>3. UNCHANGED faults \/ Fault
  BY <1>1, Zenon DEF Costs
<1>4. data' \subseteq data
  BY <1>1
<1> QED
  BY <1>1, <1>2, <1>3, <1>4, Zenon

\* The plain variables.
LEMMA PlainStep == ASSUME TypeInv, [Next]_vars PROVE PlainOK' /\ Counters'
<1> USE RetentionAssumption, SnapshotsAssumption DEF PlainOK, Counters, Seconds
<1>1. now \in Seconds /\ now \in Nat /\ LastSecond \in Nat /\ DayLength \in Nat
  BY DEF TypeInv, TypeOK
<1>2. stores \in Nat /\ starts \in Nat /\ faults \in Nat
  BY DEF TypeInv, TypeOK
<1>3. PlainOK
  BY DEF TypeInv, TypeOK
<1>4. NextStartAt(now) \in 0 .. LastSecond + DayLength
  BY <1>1, NextStartIsAhead
<1> USE DEF proc, disk, ghosts
<1>5. ASSUME NEW j \in Jobs, JobWrites(j) PROVE PlainOK' /\ Counters'
  <2>1. UNCHANGED faults \/ Fault
    BY <1>5, UnlinkLeaves DEF JobWrites
  <2>2. faults' \in Nat
    BY <1>2, <2>1, FaultsCount
  <2>3. spoiled' = (spoiled \/ jobs[j].mixed) /\ UNCHANGED <<now, proc, data, relisted, stores, starts>>
    BY <1>5 DEF JobWrites
  <2>4. spoiled' \in BOOLEAN
    BY <2>3
  <2> QED
    BY <1>2, <1>3, <2>2, <2>3, <2>4
<1>6. ASSUME NEW j \in Jobs, PurgeEnds(j) PROVE PlainOK' /\ Counters'
  <2>1. UNCHANGED faults \/ Fault
    BY <1>6, UnlinkLeaves DEF PurgeEnds
  <2>2. faults' \in Nat
    BY <1>2, <2>1, FaultsCount
  <2> QED
    BY <1>2, <1>3, <1>6, <2>2 DEF PurgeEnds
<1>7. ASSUME NEW j \in Jobs, PurgeFails(j) PROVE PlainOK' /\ Counters'
  BY <1>2, <1>3, <1>7 DEF PurgeFails, Fault
<1>8. ASSUME NEW j \in Jobs, CrashInWrite(j) PROVE PlainOK' /\ Counters'
  <2>1. up' \in BOOLEAN /\ spoiled' \in BOOLEAN
    BY <1>8 DEF CrashInWrite, Ended
  <2>2. timer' = 0 /\ faults' = faults + 1 /\ UNCHANGED <<now, data, once, relisted, stores, starts>>
    BY <1>8, Zenon DEF CrashInWrite, Ended, Fault
  <2> QED
    BY <1>1, <1>2, <1>3, <2>1, <2>2
<1>9. CASE DailyBegins
  BY <1>2, <1>3, <1>9 DEF DailyBegins
<1>10. CASE DailyEnds
  BY <1>2, <1>3, <1>4, <1>10 DEF DailyEnds, Reschedule
<1>11. CASE DailyFails
  BY <1>2, <1>3, <1>4, <1>11 DEF DailyFails, Reschedule, Fault
<1>12. ASSUME NEW u \in Users, DeleteBegin(u) PROVE PlainOK' /\ Counters'
  <2>1. UNCHANGED faults \/ Fault
    BY <1>12, Zenon DEF DeleteBegin, Costs
  <2>2. faults' \in Nat
    BY <1>2, <2>1, FaultsCount
  <2>3. UNCHANGED <<now, up, timer, once, data, spoiled, relisted, stores, starts>>
    BY <1>12, Zenon DEF DeleteBegin
  <2> QED
    BY <1>2, <1>3, <2>2, <2>3
<1>13. ASSUME NEW u \in Users, StoreData(u) PROVE PlainOK' /\ Counters'
  <2>1. UNCHANGED faults \/ Fault
    BY <1>13, Zenon DEF StoreData
  <2>2. faults' \in Nat
    BY <1>2, <2>1, FaultsCount
  <2>3. /\ stores' = stores + 1 /\ data' = data \cup {u}
        /\ UNCHANGED <<now, up, timer, once, spoiled, relisted, starts>>
    BY <1>13, Zenon DEF StoreData
  <2> QED
    BY <1>2, <1>3, <2>2, <2>3
<1>14. CASE DeleteRest
  <2>1. (UNCHANGED faults \/ Fault) /\ data' \subseteq data
    BY <1>14, RestFacts
  <2>2. faults' \in Nat
    BY <1>2, <2>1, FaultsCount
  <2>3. /\ relisted' = (relisted \/ now \in DOMAIN archive)
        /\ UNCHANGED <<now, up, timer, once, spoiled, stores, starts>>
    BY <1>14, Zenon DEF DeleteRest
  <2> QED
    BY <1>2, <1>3, <2>1, <2>2, <2>3
<1>15. CASE Tick
  BY <1>1, <1>2, <1>3, <1>15 DEF Tick
<1>16. CASE Start
  BY <1>2, <1>3, <1>4, <1>16 DEF Start
<1>17. CASE Stop
  <2>1. up' \in BOOLEAN /\ UNCHANGED spoiled
    BY <1>17 DEF Stop, Ended
  <2>2. timer' = 0 /\ faults' = faults + 1 /\ UNCHANGED <<now, data, once, relisted, stores, starts>>
    BY <1>17, Zenon DEF Stop, Ended, Fault
  <2> QED
    BY <1>1, <1>2, <1>3, <2>1, <2>2
<1>18. CASE UNCHANGED vars
  BY <1>2, <1>3, <1>18 DEF vars
<1> QED
  BY <1>5, <1>6, <1>7, <1>8, <1>9, <1>10, <1>11, <1>12, <1>13, <1>14, <1>15, <1>16, <1>17, <1>18
     DEF Next, JobStep

-----------------------------------------------------------------------------
(* What the steps do to the jobs and the files.                            *)

\* What is known of every job in hand.
LEMMA JobFacts ==
  ASSUME TypeInv
  PROVE  \A j \in DOMAIN jobs : /\ j \in Jobs /\ jobs[j] \in JobRecords
                                /\ jobs[j].at \in 0 .. now /\ jobs[j].listed \subseteq Seconds
<1>1. now \in Nat
  BY SnapshotsAssumption DEF TypeInv, TypeOK, Seconds
<1> SUFFICES ASSUME NEW j \in DOMAIN jobs
             PROVE  /\ j \in Jobs /\ jobs[j] \in JobRecords
                    /\ jobs[j].at \in 0 .. now /\ jobs[j].listed \subseteq Seconds
  OBVIOUS
<1>2. j \in Jobs /\ jobs[j] \in JobRecords /\ jobs[j].at <= now
  BY DEF TypeInv, TypeOK
<1>3. jobs[j].at \in Nat /\ jobs[j].listed \subseteq Seconds
  BY <1>2, SnapshotsAssumption DEF JobRecords, Seconds
<1> QED
  BY <1>1, <1>2, <1>3

\* A job begins by hashing, now, with what it has listed.
LEMMA BegunJob ==
  ASSUME TypeInv
  PROVE  \A listed \in SUBSET Seconds, clean \in BOOLEAN :
           /\ Begun(listed, clean) \in JobRecords
           /\ Begun(listed, clean).phase = "hashing" /\ Begun(listed, clean).at = now
           /\ Begun(listed, clean).listed = listed /\ Begun(listed, clean).clean = clean
BY DEF TypeInv, TypeOK, Begun, JobRecords

\* Snapshots are named by seconds.
LEMMA ListedSeconds == TypeInv => DOMAIN archive \in SUBSET Seconds
BY SnapshotsAssumption DEF TypeInv, TypeOK, Seconds

\* The write of a job: jobs and files.
LEMMA WriteFacts ==
  ASSUME TypeInv, NEW j \in Jobs, JobWrites(j)
  PROVE  /\ j \in DOMAIN jobs /\ DOMAIN jobs' = DOMAIN jobs
         /\ jobs'[j] \in JobRecords
         /\ jobs'[j].phase = "uploading" /\ jobs'[j].at = jobs[j].at
         /\ jobs'[j].listed = jobs[j].listed /\ jobs'[j].clean = jobs[j].clean
         /\ \A k \in DOMAIN jobs \ {j} : jobs'[k] = jobs[k]
<1>1. j \in DOMAIN jobs /\ jobs[j] \in JobRecords
  BY JobFacts DEF JobWrites, Hashing
<1>2. jobs' = [jobs EXCEPT ![j].phase = "uploading", ![j].mixed = FALSE]
  BY DEF JobWrites
<1>3. jobs'[j] = [[jobs[j] EXCEPT !.phase = "uploading"] EXCEPT !.mixed = FALSE]
  BY <1>1, <1>2
<1>4. DOMAIN jobs' = DOMAIN jobs /\ \A k \in DOMAIN jobs \ {j} : jobs'[k] = jobs[k]
  BY <1>2
<1> QED
  BY <1>1, <1>3, <1>4, WrittenJob

Written(j) == [holds |-> data, kind |-> IF jobs[j].mixed THEN "mixed" ELSE "good"]

\* A job writes one file and may delete others.
LEMMA FilesWritten ==
  ASSUME TypeInv, NEW j \in Jobs, JobWrites(j)
  PROVE  /\ Written(j) \in Files
         /\ DOMAIN archive' \subseteq DOMAIN archive \cup {jobs[j].at}
         /\ \A t \in DOMAIN archive' :
              archive'[t] = IF t = jobs[j].at THEN Written(j) ELSE archive[t]
<1> DEFINE files == Put(archive, jobs[j].at, Written(j))
<1>1. Left(files, Listed(files) \ Keep(Listed(files), now))
  BY UnlinkLeaves DEF JobWrites, Written
<1>2. /\ DOMAIN files = DOMAIN archive \cup {jobs[j].at} /\ files[jobs[j].at] = Written(j)
      /\ \A t \in DOMAIN archive \ {jobs[j].at} : files[t] = archive[t]
  BY DEF Put
<1> HIDE DEF files
<1>3. DOMAIN archive' \subseteq DOMAIN files /\ \A t \in DOMAIN archive' : archive'[t] = files[t]
  BY <1>1 DEF Left
<1>4. Written(j) \in Files
  BY DEF Written, Files, TypeInv, TypeOK
<1> QED
  BY <1>2, <1>3, <1>4

\* The end of a purge.
LEMMA PurgeFacts ==
  ASSUME TypeInv, NEW j \in Jobs, PurgeEnds(j)
  PROVE  /\ DOMAIN jobs' = DOMAIN jobs \ {j} /\ \A k \in DOMAIN jobs' : jobs'[k] = jobs[k]
         /\ DOMAIN archive' \subseteq DOMAIN archive
         /\ DOMAIN archive \ Doomed(j, jobs[j]) \subseteq DOMAIN archive'
         /\ \A t \in DOMAIN archive' : archive'[t] = archive[t]
<1>1. jobs' = Without(jobs, {j})
  BY DEF PurgeEnds
<1>2. Left(archive, Doomed(j, jobs[j]))
  BY UnlinkLeaves DEF PurgeEnds
<1>3. DOMAIN jobs' = DOMAIN jobs \ {j} /\ \A k \in DOMAIN jobs' : jobs'[k] = jobs[k]
  BY <1>1 DEF Without
<1> QED
  BY <1>2, <1>3 DEF Left

\* All that counts of a job in hand is kept, though its hashes may be stale.
Kept(new, old) ==
  new.phase = old.phase /\ new.at = old.at /\ new.listed = old.listed /\ new.clean = old.clean

\* An edit of a source may make the hashes of other jobs stale, no more.
LEMMA BlurredJobs ==
  ASSUME TypeInv, NEW own
  PROVE  /\ DOMAIN Blurred(own) = DOMAIN jobs
         /\ \A k \in DOMAIN jobs : Blurred(own)[k] \in JobRecords /\ Kept(Blurred(own)[k], jobs[k])
<1>1. DOMAIN Blurred(own) = DOMAIN jobs
  BY DEF Blurred
<1>2. ASSUME NEW k \in DOMAIN jobs PROVE Blurred(own)[k] \in JobRecords /\ Kept(Blurred(own)[k], jobs[k])
  <2>1. jobs[k] \in JobRecords
    BY JobFacts
  <2>2. PICK m \in BOOLEAN : m = (jobs[k].mixed \/ (jobs[k].phase = "hashing" /\ k # own))
    BY <2>1 DEF JobRecords
  <2>3. Blurred(own)[k] = [jobs[k] EXCEPT !.mixed = m]
    BY <2>2, Zenon DEF Blurred
  <2> QED
    BY <2>1, <2>3 DEF JobRecords, Kept
<1> QED
  BY <1>1, <1>2

\* The begin of a purge.
PurgeBegun(begun, j, clean) ==
  /\ DOMAIN jobs \subseteq DOMAIN begun /\ DOMAIN begun \subseteq DOMAIN jobs \cup {j}
  /\ \A k \in DOMAIN begun : \/ k \in DOMAIN jobs /\ begun[k] \in JobRecords /\ Kept(begun[k], jobs[k])
                             \/ k = j /\ begun[k] = Begun(DOMAIN archive, clean)

\* What begins when a purge begins.
LEMMA PurgingFacts ==
  ASSUME TypeInv, NEW j, NEW clean, NEW own, NEW js \in {jobs, Blurred(own)}
  PROVE  PurgeBegun(js, j, clean) /\ PurgeBegun(Purging(js, j, clean), j, clean)
<1>0. /\ DOMAIN js = DOMAIN jobs
      /\ \A k \in DOMAIN jobs : js[k] \in JobRecords /\ Kept(js[k], jobs[k])
  <2>1. CASE js = jobs
    BY <2>1, JobFacts DEF Kept
  <2>2. CASE js = Blurred(own)
    BY <2>2, BlurredJobs
  <2> QED
    BY <2>1, <2>2
<1>1. PurgeBegun(js, j, clean)
  BY <1>0 DEF PurgeBegun
<1>2. PurgeBegun(Put(js, j, Begun(DOMAIN archive, clean)), j, clean)
  <2> DEFINE new == Begun(DOMAIN archive, clean)
  <2> HIDE DEF new
  <2>1. PurgeBegun(Put(js, j, new), j, clean) <=> PurgeBegun(Put(js, j, Begun(DOMAIN archive, clean)), j, clean)
    BY DEF new
  <2>2. DOMAIN Put(js, j, new) = DOMAIN jobs \cup {j}
    BY <1>0 DEF Put
  <2>3. \A k \in DOMAIN jobs \cup {j} : Put(js, j, new)[k] = IF k = j THEN new ELSE js[k]
    BY <1>0 DEF Put
  <2>4. PurgeBegun(Put(js, j, new), j, clean)
    BY <1>0, <2>2, <2>3 DEF PurgeBegun, new
  <2> QED
    BY <2>1, <2>4
<1> QED
  BY <1>1, <1>2 DEF Purging

\* The first part of a delete may begin a purge.
LEMMA BeginFacts ==
  ASSUME TypeInv, NEW u \in Users, DeleteBegin(u)
  PROVE  PurgeBegun(jobs', <<turn', "event">>, TRUE)
<1>1. \/ jobs' = jobs
      \/ \E js \in {jobs, Blurred(<<turn', "event">>)} : jobs' = Purging(js, <<turn', "event">>, TRUE)
  BY Zenon DEF DeleteBegin
<1> DEFINE j == <<turn', "event">>
<1>2. jobs' = jobs \/ \E js \in {jobs, Blurred(j)} : jobs' = Purging(js, j, TRUE)
  BY <1>1
<1> HIDE DEF j
<1>3. PurgeBegun(jobs', j, TRUE)
  BY <1>2, PurgingFacts
<1> QED
  BY <1>3 DEF j

\* The second part begins the other one, if there is anything to delete.
LEMMA RestBegins ==
  ASSUME TypeInv, DeleteRest
  PROVE  \E ok \in BOOLEAN :
           /\ PurgeBegun(jobs', <<turn, "adapter">>, ok)
           /\ data' = (IF ok THEN data \ {owner[turn]} ELSE data)
           /\ deleted' = IF ok /\ DOMAIN archive = {} THEN deleted \cup {owner[turn]} ELSE deleted
<1> DEFINE j == <<turn, "adapter">>
<1>1. PICK ok \in BOOLEAN, js \in {jobs, Blurred(<<turn, "event">>)} :
        /\ jobs' = Purging(js, j, ok)
        /\ data' = (IF ok THEN data \ {owner[turn]} ELSE data)
        /\ deleted' = IF ok /\ DOMAIN archive = {} THEN deleted \cup {owner[turn]} ELSE deleted
  BY RestFacts
<1> HIDE DEF j
<1>2. PurgeBegun(jobs', j, ok)
  BY <1>1, PurgingFacts
<1> QED
  BY <1>1, <1>2 DEF j

\* A change of a source.
LEMMA StoredJobs ==
  ASSUME TypeInv, NEW u \in Users, StoreData(u)
  PROVE  /\ DOMAIN jobs' = DOMAIN jobs
         /\ \A k \in DOMAIN jobs :
              /\ jobs'[k] \in JobRecords
              /\ jobs'[k].phase = jobs[k].phase /\ jobs'[k].at = jobs[k].at /\ jobs'[k].listed = jobs[k].listed
              /\ jobs'[k].clean = (jobs[k].clean /\ ~Deletes(k, u))
<1>1. \A k \in DOMAIN jobs : jobs[k] \in JobRecords
  BY JobFacts
<1>2. \A k \in DOMAIN jobs : jobs[k].clean \in BOOLEAN /\ Deletes(k, u) \in BOOLEAN /\ Hashing(k) \in BOOLEAN
  BY JobFacts DEF JobRecords, Deletes, Hashing
<1>3. ASSUME NEW k \in DOMAIN jobs
      PROVE  /\ jobs'[k] \in JobRecords
             /\ jobs'[k].phase = jobs[k].phase /\ jobs'[k].at = jobs[k].at /\ jobs'[k].listed = jobs[k].listed
             /\ jobs'[k].clean = (jobs[k].clean /\ ~Deletes(k, u))
  <2>1. PICK c \in BOOLEAN : c = (jobs[k].clean /\ ~Deletes(k, u))
    OBVIOUS
  <2>2. PICK m \in BOOLEAN : m = Hashing(k)
    BY <1>2
  <2>3. CASE jobs' = [i \in DOMAIN jobs |-> [jobs[i] EXCEPT !.clean = @ /\ ~Deletes(i, u)]]
    <3>1. jobs'[k] = [jobs[k] EXCEPT !.clean = c]
      BY <2>1, <2>3, Zenon
    <3>2. /\ jobs'[k] \in JobRecords /\ jobs'[k].clean = c
          /\ jobs'[k].phase = jobs[k].phase /\ jobs'[k].at = jobs[k].at /\ jobs'[k].listed = jobs[k].listed
      BY <1>1, <3>1 DEF JobRecords
    <3> QED
      BY <2>1, <3>2, Zenon
  <2>4. CASE jobs' = [i \in DOMAIN jobs |->
                        [jobs[i] EXCEPT !.clean = @ /\ ~Deletes(i, u), !.mixed = Hashing(i)]]
    <3>1. jobs'[k] = [jobs[k] EXCEPT !.clean = c, !.mixed = m]
      BY <2>1, <2>2, <2>4, Zenon
    <3>2. /\ jobs'[k] \in JobRecords /\ jobs'[k].clean = c
          /\ jobs'[k].phase = jobs[k].phase /\ jobs'[k].at = jobs[k].at /\ jobs'[k].listed = jobs[k].listed
      BY <1>1, <3>1 DEF JobRecords
    <3> QED
      BY <2>1, <3>2, Zenon
  <2> QED
    BY <2>3, <2>4 DEF StoreData
<1>4. DOMAIN jobs' = DOMAIN jobs
  BY DEF StoreData
<1> QED
  BY <1>3, <1>4

-----------------------------------------------------------------------------
(* Types, continued.                                                       *)

\* The clock and the deletes are numbers.
LEMMA Clock == TypeInv => now \in Nat /\ now \in Seconds /\ Len(owner) \in Nat
BY SnapshotsAssumption DEF TypeInv, TypeOK, Seconds

\* Only a job or the death of the process touches the files.
LEMMA ArchiveStep == ASSUME TypeInv, [Next]_vars PROVE ArchiveOK'
<1> USE Clock
<1>1. ArchiveOK
  BY DEF TypeInv, TypeOK, ArchiveOK
<1>2. ASSUME NEW j \in Jobs, JobWrites(j) PROVE ArchiveOK'
  <2>1. now' = now /\ jobs[j].at \in 0 .. now
    BY <1>2, JobFacts, WriteFacts DEF JobWrites
  <2> QED
    BY <1>1, <1>2, <2>1, FilesWritten DEF ArchiveOK
<1>3. ASSUME NEW j \in Jobs, PurgeEnds(j) PROVE ArchiveOK'
  <2>1. now' = now
    BY <1>3 DEF PurgeEnds
  <2> QED
    BY <1>1, <1>3, <2>1, PurgeFacts DEF ArchiveOK
<1>4. ASSUME NEW j \in Jobs, CrashInWrite(j) PROVE ArchiveOK'
  <2> DEFINE torn == [holds |-> data, kind |-> "torn"]
  <2>1. torn \in Files
    BY DEF TypeInv, TypeOK, Files
  <2>2. now' = now /\ jobs[j].at \in 0 .. now /\ archive' = Put(archive, jobs[j].at, torn)
    BY <1>4, JobFacts DEF CrashInWrite, Ended, Hashing
  <2> HIDE DEF torn
  <2>3. /\ DOMAIN archive' = DOMAIN archive \cup {jobs[j].at}
        /\ \A t \in DOMAIN archive' : archive'[t] = IF t = jobs[j].at THEN torn ELSE archive[t]
    BY <2>2 DEF Put
  <2> QED
    BY <1>1, <2>1, <2>2, <2>3 DEF ArchiveOK
<1>5. CASE Tick
  <2>1. now' = now + 1 /\ archive' = archive
    BY <1>5, Zenon DEF Tick, disk
  <2> QED
    BY <1>1, <2>1 DEF ArchiveOK
<1>6. CASE UNCHANGED <<now, archive>>
  BY <1>1, <1>6 DEF ArchiveOK
<1>7. (\E j \in Jobs : PurgeFails(j)) => UNCHANGED <<now, archive>>
  BY DEF PurgeFails, disk
<1>8. DailyBegins \/ DailyEnds \/ DailyFails => UNCHANGED <<now, archive>>
  BY DEF DailyBegins, DailyEnds, DailyFails, disk
<1>9. (\E u \in Users : DeleteBegin(u) \/ StoreData(u)) \/ DeleteRest => UNCHANGED <<now, archive>>
  BY DEF DeleteBegin, StoreData, DeleteRest, disk
<1>10. Start \/ Stop \/ UNCHANGED vars => UNCHANGED <<now, archive>>
  BY DEF Start, Stop, Ended, disk, vars
<1> QED
  BY <1>2, <1>3, <1>4, <1>5, <1>6, <1>7, <1>8, <1>9, <1>10 DEF Next, JobStep

\* A job that begins is the daily one or belongs to the delete under way.
LEMMA NewJobOK ==
  ASSUME TypeInv, NEW j \in Jobs, NEW listed \in SUBSET Seconds, NEW clean \in BOOLEAN,
         j = Daily \/ j[1] \in 1 .. Len(owner'), Len(owner) <= Len(owner'), Len(owner') \in Nat, now' = now,
         DOMAIN jobs' \subseteq DOMAIN jobs \cup {j},
         \A k \in DOMAIN jobs' :
           \/ k \in DOMAIN jobs /\ jobs'[k] \in JobRecords /\ jobs'[k].at = jobs[k].at
           \/ k = j /\ jobs'[k] = Begun(listed, clean)
  PROVE  JobsOK'
<1> USE Clock
<1>1. /\ Begun(listed, clean) \in JobRecords /\ Begun(listed, clean).at <= now
  BY BegunJob
<1>2. JobsOK
  BY TypesInParts
<1>3. DOMAIN jobs' \subseteq Jobs
  BY <1>2 DEF JobsOK
<1>4. \A k \in DOMAIN jobs' : jobs'[k] \in JobRecords /\ jobs'[k].at <= now
  BY <1>1, <1>2 DEF JobsOK
<1>5. \A k \in DOMAIN jobs' \ {Daily} : k[1] \in 1 .. Len(owner')
  BY <1>2 DEF JobsOK, Owned
<1> QED
  BY <1>3, <1>4, <1>5 DEF JobsOK, Owned

\* Jobs that go on as they are, or end.
LEMMA OldJobsOK ==
  ASSUME TypeInv, now' = now \/ now' = now + 1, owner' = owner,
         DOMAIN jobs' \subseteq DOMAIN jobs,
         \A k \in DOMAIN jobs' : jobs'[k] \in JobRecords /\ jobs'[k].at = jobs[k].at
  PROVE  JobsOK'
<1> USE Clock
<1>1. JobsOK
  BY TypesInParts
<1>2. \A k \in DOMAIN jobs' : jobs'[k] \in JobRecords /\ jobs'[k].at <= now'
  <2>1. \A k \in DOMAIN jobs' : jobs'[k].at \in 0 .. now
    BY JobFacts
  <2> QED
    BY <2>1
<1>3. \A k \in DOMAIN jobs' \ {Daily} : k[1] \in 1 .. Len(owner')
  BY <1>1 DEF JobsOK, Owned
<1> QED
  BY <1>1, <1>2, <1>3 DEF JobsOK, Owned

\* The delete under way, and the one that begins.
LEMMA DeleteBegun ==
  ASSUME TypeInv, NEW u \in Users, DeleteBegin(u)
  PROVE  /\ owner' \in Seq(Users) /\ Len(owner') = Len(owner) + 1 /\ turn' = Len(owner')
         /\ Len(owner) < MaxDeletes
         /\ \A i \in 1 .. Len(owner) : owner'[i] = owner[i]
<1>1. owner \in Seq(Users)
  BY DEF TypeInv, TypeOK
<1>2. owner' = Append(owner, u) /\ turn' = Len(owner) + 1 /\ Len(owner) < MaxDeletes
  BY DEF DeleteBegin
<1> QED
  BY <1>1, <1>2

\* The rest of a delete belongs to the user whose delete it is.
LEMMA DeleteTurn ==
  ASSUME TypeInv, DeleteRest
  PROVE  turn \in 1 .. Len(owner) /\ owner[turn] \in Users /\ <<turn, "adapter">> \in Jobs /\ owner' = owner
<1>1. turn \in 0 .. Len(owner) /\ owner \in Seq(Users) /\ Len(owner) <= MaxDeletes /\ turn # 0
  BY DEF TypeInv, TypeOK, DeleteRest
<1>2. turn \in 1 .. Len(owner) /\ turn \in 1 .. MaxDeletes
  BY <1>1, Clock, SnapshotsAssumption
<1>3. owner[turn] \in Users
  BY <1>1, <1>2
<1>4. <<turn, "adapter">> \in Jobs
  BY <1>2 DEF Jobs, Adapters
<1> QED
  BY <1>2, <1>3, <1>4 DEF DeleteRest

\* The jobs keep their types.
LEMMA JobsStep == ASSUME TypeInv, [Next]_vars PROVE JobsOK'
<1> USE Clock
<1>1. ASSUME UNCHANGED <<now, owner, jobs>> PROVE JobsOK'
  BY <1>1, JobFacts, OldJobsOK
<1>2. ASSUME NEW j \in Jobs, JobWrites(j) PROVE JobsOK'
  <2>1. now' = now /\ owner' = owner
    BY <1>2 DEF JobWrites
  <2>2. \A k \in DOMAIN jobs' : jobs'[k] \in JobRecords /\ jobs'[k].at = jobs[k].at
    BY <1>2, WriteFacts, JobFacts
  <2>3. DOMAIN jobs' = DOMAIN jobs
    BY <1>2, WriteFacts
  <2> QED
    BY <2>1, <2>2, <2>3, OldJobsOK
<1>3. ASSUME NEW j \in Jobs, PurgeEnds(j) PROVE JobsOK'
  <2>1. now' = now /\ owner' = owner
    BY <1>3 DEF PurgeEnds
  <2>2. DOMAIN jobs' \subseteq DOMAIN jobs /\ \A k \in DOMAIN jobs' : jobs'[k] = jobs[k]
    BY <1>3, PurgeFacts
  <2> QED
    BY <2>1, <2>2, JobFacts, OldJobsOK
<1>4. ASSUME NEW ended, jobs' = Without(jobs, ended), UNCHANGED <<now, owner>> PROVE JobsOK'
  <2>1. DOMAIN jobs' \subseteq DOMAIN jobs /\ \A k \in DOMAIN jobs' : jobs'[k] = jobs[k]
    BY <1>4 DEF Without
  <2> QED
    BY <1>4, <2>1, JobFacts, OldJobsOK
<1>5. ASSUME NEW j \in Jobs, PurgeFails(j) PROVE JobsOK'
  BY <1>4, <1>5 DEF PurgeFails
<1>6. CASE DailyEnds
  BY <1>4, <1>6 DEF DailyEnds
<1>7. CASE DailyFails
  BY <1>4, <1>7 DEF DailyFails
<1>8. ASSUME jobs' = Empty, UNCHANGED <<now, owner>> PROVE JobsOK'
  BY <1>8, OldJobsOK, NothingPut
<1>9. ASSUME NEW j \in Jobs, CrashInWrite(j) PROVE JobsOK'
  BY <1>8, <1>9 DEF CrashInWrite, Ended
<1>10. CASE Stop
  BY <1>8, <1>10 DEF Stop, Ended
<1>11. Daily \in Jobs /\ {} \in SUBSET Seconds /\ TRUE \in BOOLEAN
  BY DEF Jobs
<1>12. ASSUME jobs' = Put(jobs, Daily, Begun({}, TRUE)), UNCHANGED <<now, owner>> PROVE JobsOK'
  <2> DEFINE new == Begun({}, TRUE)
  <2>1. jobs' = Put(jobs, Daily, new)
    BY <1>12
  <2> HIDE DEF new
  <2>2. DOMAIN jobs' = DOMAIN jobs \cup {Daily}
    BY <2>1 DEF Put
  <2>3. \A k \in DOMAIN jobs' : jobs'[k] = IF k = Daily THEN new ELSE jobs[k]
    BY <2>1 DEF Put
  <2>4. \A k \in DOMAIN jobs' :
          \/ k \in DOMAIN jobs /\ jobs'[k] \in JobRecords /\ jobs'[k].at = jobs[k].at
          \/ k = Daily /\ jobs'[k] = new
    BY <2>2, <2>3, JobFacts
  <2>5. new = Begun({}, TRUE)
    BY DEF new
  <2>6. now' = now /\ Len(owner) <= Len(owner') /\ Len(owner') \in Nat
    BY <1>12
  <2> QED
    BY <1>11, <2>2, <2>4, <2>5, <2>6, NewJobOK
<1>13. CASE DailyBegins
  BY <1>12, <1>13 DEF DailyBegins
<1>14. CASE Start
  BY <1>1, <1>12, <1>14 DEF Start
<1>15. ASSUME NEW u \in Users, DeleteBegin(u) PROVE JobsOK'
  <2> DEFINE j == <<turn', "event">>
  <2>1. turn' \in 1 .. Len(owner') /\ turn' \in 1 .. MaxDeletes /\ Len(owner) <= Len(owner') /\ Len(owner') \in Nat
    BY <1>15, DeleteBegun, SnapshotsAssumption
  <2>2. j \in Jobs /\ j[1] = turn' /\ now' = now
    BY <1>15, <2>1 DEF Jobs, Events, DeleteBegin
  <2> HIDE DEF j
  <2>3. PurgeBegun(jobs', j, TRUE)
    BY <1>15, BeginFacts DEF j
  <2> QED
    BY <1>11, <2>1, <2>2, <2>3, ListedSeconds, NewJobOK DEF PurgeBegun, Kept
<1>16. CASE DeleteRest
  <2> DEFINE j == <<turn, "adapter">>
  <2>1. j \in Jobs /\ j[1] \in 1 .. Len(owner') /\ Len(owner) <= Len(owner') /\ Len(owner') \in Nat /\ now' = now
    BY <1>16, DeleteTurn DEF DeleteRest
  <2>2. PICK ok \in BOOLEAN : PurgeBegun(jobs', j, ok)
    BY <1>16, RestBegins
  <2> HIDE DEF j
  <2> QED
    BY <2>1, <2>2, ListedSeconds, NewJobOK DEF PurgeBegun, Kept
<1>17. ASSUME NEW u \in Users, StoreData(u) PROVE JobsOK'
  <2>1. now' = now /\ owner' = owner
    BY <1>17 DEF StoreData
  <2> QED
    BY <1>17, <2>1, StoredJobs, OldJobsOK
<1>18. CASE Tick
  BY <1>18, JobFacts, OldJobsOK DEF Tick
<1>19. CASE UNCHANGED vars
  BY <1>1, <1>19 DEF vars
<1> QED
  BY <1>2, <1>3, <1>5, <1>6, <1>7, <1>9, <1>10, <1>13, <1>14, <1>15, <1>16, <1>17, <1>18, <1>19
     DEF Next, JobStep

\* The deletes keep their types.
LEMMA DeletesStep == ASSUME TypeInv, [Next]_vars PROVE DeletesOK'
<1> USE Clock
<1>1. DeletesOK
  BY TypesInParts
<1>2. ASSUME UNCHANGED owner, turn' = turn \/ turn' = 0, deleted' \subseteq Users PROVE DeletesOK'
  BY <1>1, <1>2 DEF DeletesOK
<1>3. deleted \subseteq Users
  BY <1>1 DEF DeletesOK
<1>4. ASSUME NEW j \in Jobs, JobWrites(j) PROVE DeletesOK'
  BY <1>2, <1>3, <1>4 DEF JobWrites
<1>5. ASSUME NEW j \in Jobs, PurgeEnds(j) PROVE DeletesOK'
  <2>1. CASE j \in Adapters
    <3>1. j \in DOMAIN jobs /\ j # Daily
      BY <1>5, <2>1, SnapshotsAssumption DEF PurgeEnds, Uploaded, Adapters, Daily
    <3>2. j[1] \in 1 .. Len(owner) /\ owner \in Seq(Users)
      BY <3>1 DEF TypeInv, TypeOK, Owned
    <3>3. owner[j[1]] \in Users
      BY <3>2
    <3> QED
      BY <1>2, <1>3, <1>5, <3>3 DEF PurgeEnds
  <2>2. CASE j \notin Adapters
    BY <1>2, <1>3, <1>5, <2>2 DEF PurgeEnds
  <2> QED
    BY <2>1, <2>2
<1>6. ASSUME NEW j \in Jobs, PurgeFails(j) \/ CrashInWrite(j) PROVE DeletesOK'
  BY <1>2, <1>3, <1>6 DEF PurgeFails, CrashInWrite, Ended, ghosts
<1>7. CASE DailyBegins \/ DailyEnds \/ DailyFails
  BY <1>2, <1>3, <1>7 DEF DailyBegins, DailyEnds, DailyFails, ghosts
<1>8. ASSUME NEW u \in Users, DeleteBegin(u) PROVE DeletesOK'
  <2>1. deleted' = deleted
    BY <1>8 DEF DeleteBegin, ghosts
  <2> QED
    BY <1>3, <1>8, <2>1, DeleteBegun, SnapshotsAssumption DEF DeletesOK
<1>9. ASSUME NEW u \in Users, StoreData(u) PROVE DeletesOK'
  BY <1>2, <1>3, <1>9 DEF StoreData
<1>10. CASE DeleteRest
  <2>1. turn' = 0 /\ owner' = owner /\ owner[turn] \in Users
    BY <1>10, DeleteTurn DEF DeleteRest
  <2>2. deleted' = deleted \/ deleted' = deleted \cup {owner[turn]}
    BY <1>10, RestFacts
  <2> QED
    BY <1>2, <1>3, <2>1, <2>2
<1>11. CASE Tick \/ Start
  BY <1>2, <1>3, <1>11 DEF Tick, Start, ghosts
<1>12. CASE Stop
  BY <1>2, <1>3, <1>12 DEF Stop, Ended
<1>13. CASE UNCHANGED vars
  BY <1>2, <1>3, <1>13 DEF vars
<1> QED
  BY <1>4, <1>5, <1>6, <1>7, <1>8, <1>9, <1>10, <1>11, <1>12, <1>13 DEF Next, JobStep

\* All types hold in every reachable state.
LEMMA TypeInvHolds == Spec => []TypeInv
<1>1. Init => TypeInv
  <2> SUFFICES ASSUME Init PROVE PlainOK /\ ArchiveOK /\ JobsOK /\ DeletesOK /\ Counters
    BY TypesInParts
  <2> USE SnapshotsAssumption, RetentionAssumption, NothingPut DEF Init
  <2>1. now \in Seconds
    BY DEF Seconds
  <2>2. up \in BOOLEAN /\ once \in BOOLEAN /\ data \subseteq Users
        /\ spoiled \in BOOLEAN /\ relisted \in BOOLEAN
    OBVIOUS
  <2>3. timer \in 0 .. LastSecond + DayLength
    OBVIOUS
  <2>4. ArchiveOK
    BY DEF ArchiveOK
  <2>5. JobsOK /\ Counters
    BY DEF JobsOK, Owned, Counters
  <2>6. DeletesOK
    BY DEF DeletesOK
  <2> QED
    BY <2>1, <2>2, <2>3, <2>4, <2>5, <2>6 DEF PlainOK
<1>2. TypeInv /\ [Next]_vars => TypeInv'
  <2> SUFFICES ASSUME TypeInv, [Next]_vars PROVE TypeInv'
    OBVIOUS
  <2>1. (PlainOK /\ ArchiveOK /\ JobsOK /\ DeletesOK /\ Counters)'
    BY PlainStep, ArchiveStep, JobsStep, DeletesStep
  <2> QED
    BY <2>1 DEF TypeInv, TypeOK, PlainOK, ArchiveOK, JobsOK, DeletesOK, Counters
<1> QED
  BY <1>1, <1>2, PTL DEF Spec

(* The variables have their types, in every reachable state.               *)
THEOREM TypeCorrect == Spec => []TypeOK
<1>1. TypeInv => TypeOK
  BY DEF TypeInv
<1> QED
  BY <1>1, TypeInvHolds, PTL

-----------------------------------------------------------------------------
(* The steps that leave the files alone: a job goes on as it was, ends, or *)
(* begins, and only the second part of a delete begins an adapter's purge. *)

Same(k) == k \in DOMAIN jobs /\ Kept(jobs'[k], jobs[k])
Fresh(k) == jobs'[k].phase = "hashing" /\ jobs'[k].at = now /\ jobs'[k].listed \subseteq DOMAIN archive

DailyFresh == \A k \in DOMAIN jobs' : Same(k) \/ (k \notin Adapters /\ Fresh(k))

\* The daily job and the purges of the event are not those of an adapter.
LEMMA NotAdapters == Daily \notin Adapters /\ \A n : <<n, "event">> \notin Adapters
BY DEF Daily, Adapters

\* The daily job begins fresh.
LEMMA FreshEmpty == ASSUME TypeInv, jobs' = Put(jobs, Daily, Begun({}, TRUE)) PROVE DailyFresh
<1> DEFINE new == Begun({}, TRUE)
<1>1. new.phase = "hashing" /\ new.at = now /\ new.listed = {}
  BY DEF Begun
<1>2. jobs' = Put(jobs, Daily, new)
  OBVIOUS
<1> HIDE DEF new
<1>3. DOMAIN jobs' = DOMAIN jobs \cup {Daily}
  BY <1>2 DEF Put
<1>4. \A k \in DOMAIN jobs' : jobs'[k] = IF k = Daily THEN new ELSE jobs[k]
  BY <1>2 DEF Put
<1> QED
  BY <1>1, <1>3, <1>4, NotAdapters DEF DailyFresh, Same, Kept, Fresh

\* A purge begins fresh and changes no other job.
LEMMA FreshPurge ==
  ASSUME TypeInv, NEW j, NEW clean, PurgeBegun(jobs', j, clean)
  PROVE  \A k \in DOMAIN jobs' : Same(k) \/ (k = j /\ Fresh(k) /\ jobs'[k].clean = clean)
<1> DEFINE new == Begun(DOMAIN archive, clean)
<1>1. new.phase = "hashing" /\ new.at = now /\ new.listed = DOMAIN archive /\ new.clean = clean
  BY DEF Begun
<1>2. \A k \in DOMAIN jobs' : (k \in DOMAIN jobs /\ Kept(jobs'[k], jobs[k])) \/ (k = j /\ jobs'[k] = new)
  BY DEF PurgeBegun
<1> HIDE DEF new
<1> QED
  BY <1>1, <1>2 DEF Same, Fresh

\* Jobs that end leave the others as they were.
LEMMA SameWithout == \A ended : jobs' = Without(jobs, ended) => DailyFresh
BY DEF Without, DailyFresh, Same, Kept

\* All but the delete's second part, the change of a source and the ends of
\* jobs and processes.
Quiet ==
  \/ \E j \in Jobs : PurgeFails(j)
  \/ DailyBegins \/ DailyEnds \/ DailyFails
  \/ \E u \in Users : DeleteBegin(u)
  \/ Tick \/ Start \/ UNCHANGED vars

\* Most steps touch no source, no snapshot and no promise.
LEMMA QuietStep ==
  ASSUME TypeInv, Quiet
  PROVE  DailyFresh /\ UNCHANGED <<data, archive, deleted, spoiled, relisted>>
           /\ \A i \in 1 .. Len(owner) : owner'[i] = owner[i]
<1> USE DEF disk, ghosts
<1>1. ASSUME jobs' = jobs PROVE DailyFresh
  BY <1>1 DEF DailyFresh, Same, Kept
<1>2. UNCHANGED <<data, archive, deleted, spoiled, relisted>>
  BY DEF Quiet, PurgeFails, DailyBegins, DailyEnds, DailyFails, DeleteBegin, Tick, Start, vars
<1>3. ASSUME NEW j \in Jobs, PurgeFails(j) PROVE DailyFresh /\ UNCHANGED owner
  BY <1>3, SameWithout DEF PurgeFails
<1>4. CASE DailyBegins
  BY <1>4, FreshEmpty DEF DailyBegins
<1>5. CASE DailyEnds \/ DailyFails
  BY <1>5, SameWithout DEF DailyEnds, DailyFails
<1>6. ASSUME NEW u \in Users, DeleteBegin(u)
      PROVE  DailyFresh /\ \A i \in 1 .. Len(owner) : owner'[i] = owner[i]
  <2> DEFINE j == <<turn', "event">>
  <2>1. j \notin Adapters
    BY NotAdapters
  <2>2. PurgeBegun(jobs', j, TRUE)
    BY <1>6, BeginFacts
  <2> HIDE DEF j
  <2>3. DailyFresh
    BY <2>1, <2>2, FreshPurge DEF DailyFresh
  <2> QED
    BY <1>6, <2>3, DeleteBegun
<1>7. CASE Start
  BY <1>1, <1>7, FreshEmpty DEF Start
<1>8. CASE Tick \/ UNCHANGED vars
  BY <1>1, <1>8 DEF Tick, vars
<1> QED
  BY <1>2, <1>3, <1>4, <1>5, <1>6, <1>7, <1>8 DEF Quiet, DailyBegins, DailyEnds, DailyFails

\* The steps are the quiet ones and these.
LEMMA Steps ==
  [Next]_vars => \/ Quiet
                 \/ \E j \in Jobs : JobWrites(j) \/ PurgeEnds(j) \/ CrashInWrite(j)
                 \/ \E u \in Users : StoreData(u)
                 \/ DeleteRest \/ Stop
BY DEF Next, JobStep, Quiet

-----------------------------------------------------------------------------
(* A purge that may still report success is of a user who is in no source. *)
CleanPurges == \A j \in DOMAIN jobs \cap Adapters : jobs[j].clean => owner[j[1]] \notin data

RevivalInv == NoRevival /\ CleanPurges

\* A purge of an adapter belongs to a delete.
LEMMA AdapterOwned == TypeInv => \A j \in DOMAIN jobs \cap Adapters : j[1] \in 1 .. Len(owner)
BY NotAdapters DEF TypeInv, Owned

\* No step brings back a user who was told that all is deleted: a snapshot
\* holds what the sources hold, and who is told so is in no file then.
LEMMA RevivalStep == ASSUME TypeInv, RevivalInv, [Next]_vars PROVE RevivalInv'
<1>1. CASE Quiet
  <2>1. DailyFresh /\ UNCHANGED <<data, archive, deleted>> /\ \A i \in 1 .. Len(owner) : owner'[i] = owner[i]
    BY <1>1, QuietStep
  <2>2. \A j \in DOMAIN jobs' \cap Adapters :
          j \in DOMAIN jobs /\ jobs'[j].clean = jobs[j].clean /\ owner'[j[1]] = owner[j[1]]
    BY <2>1, AdapterOwned DEF DailyFresh, Same, Kept
  <2> QED
    BY <2>1, <2>2 DEF RevivalInv, NoRevival, CleanPurges
<1>2. ASSUME NEW j \in Jobs, JobWrites(j) PROVE RevivalInv'
  <2>1. UNCHANGED <<data, deleted, owner>>
    BY <1>2 DEF JobWrites
  <2>2. DOMAIN jobs' = DOMAIN jobs /\ \A k \in DOMAIN jobs : jobs'[k].clean = jobs[k].clean
    BY <1>2, WriteFacts
  <2>3. \A t \in DOMAIN archive' : \/ archive'[t].holds = data
                                   \/ t # jobs[j].at /\ t \in DOMAIN archive /\ archive'[t] = archive[t]
    <3>1. Written(j).holds = data
      BY DEF Written
    <3>2. \A t \in DOMAIN archive' :
            /\ archive'[t] = IF t = jobs[j].at THEN Written(j) ELSE archive[t]
            /\ t \in DOMAIN archive \/ t = jobs[j].at
      BY <1>2, FilesWritten
    <3> QED
      BY <3>1, <3>2
  <2> QED
    BY <2>1, <2>2, <2>3 DEF RevivalInv, NoRevival, CleanPurges
<1>3. ASSUME NEW j \in Jobs, PurgeEnds(j) PROVE RevivalInv'
  <2>1. UNCHANGED <<data, owner>>
    BY <1>3 DEF PurgeEnds
  <2>2. /\ DOMAIN jobs' \subseteq DOMAIN jobs /\ \A k \in DOMAIN jobs' : jobs'[k] = jobs[k]
        /\ DOMAIN archive' \subseteq DOMAIN archive /\ \A t \in DOMAIN archive' : archive'[t] = archive[t]
    BY <1>3, PurgeFacts
  <2>3. CleanPurges'
    BY <2>1, <2>2 DEF RevivalInv, CleanPurges
  <2>4. NoRevival'
    <3>1. CASE deleted' = deleted
      BY <2>1, <2>2, <3>1 DEF RevivalInv, NoRevival
    <3>2. CASE j \in Adapters /\ Purged(jobs[j]) /\ deleted' = deleted \cup {owner[j[1]]}
      <4>1. jobs[j].clean /\ DOMAIN archive' = {} /\ j \in DOMAIN jobs
        BY <1>3, <3>2 DEF Purged, PurgeEnds, Uploaded
      <4>2. owner[j[1]] \notin data
        BY <3>2, <4>1 DEF RevivalInv, CleanPurges
      <4> QED
        BY <2>1, <3>2, <4>1, <4>2 DEF RevivalInv, NoRevival
    <3> QED
      BY <1>3, <3>1, <3>2 DEF PurgeEnds
  <2> QED
    BY <2>3, <2>4 DEF RevivalInv
<1>4. ASSUME NEW j \in Jobs, CrashInWrite(j) PROVE RevivalInv'
  <2> DEFINE torn == [holds |-> data, kind |-> "torn"]
  <2>1. UNCHANGED <<data, deleted>> /\ jobs' = Empty /\ archive' = Put(archive, jobs[j].at, torn)
    BY <1>4 DEF CrashInWrite, Ended
  <2>2. torn.holds = data
    OBVIOUS
  <2> HIDE DEF torn
  <2>3. DOMAIN archive' = DOMAIN archive \cup {jobs[j].at}
    BY <2>1 DEF Put
  <2>4. \A t \in DOMAIN archive' : archive'[t] = IF t = jobs[j].at THEN torn ELSE archive[t]
    BY <2>1 DEF Put
  <2>5. NoRevival'
    BY <2>1, <2>2, <2>3, <2>4 DEF RevivalInv, NoRevival
  <2> QED
    BY <2>1, <2>5, NothingPut DEF RevivalInv, CleanPurges
<1>5. ASSUME NEW u \in Users, StoreData(u) PROVE RevivalInv'
  <2>1. data' = data \cup {u} /\ deleted' = deleted \ {u} /\ UNCHANGED <<archive, owner>>
    BY <1>5, Zenon DEF StoreData
  <2>2. NoRevival'
    BY <2>1 DEF RevivalInv, NoRevival
  <2>3. CleanPurges'
    <3> SUFFICES ASSUME NEW k \in DOMAIN jobs \cap Adapters, jobs'[k].clean
                 PROVE  owner[k[1]] \notin data'
      BY <1>5, <2>1, StoredJobs DEF CleanPurges
    <3>1. jobs[k].clean /\ ~Deletes(k, u)
      BY <1>5, StoredJobs
    <3>2. owner[k[1]] # u
      BY <3>1 DEF Deletes
    <3> QED
      BY <2>1, <3>1, <3>2 DEF RevivalInv, CleanPurges
  <2> QED
    BY <2>2, <2>3 DEF RevivalInv
<1>6. CASE DeleteRest
  <2> DEFINE u == owner[turn]
             j == <<turn, "adapter">>
  <2>1. j[1] = turn /\ UNCHANGED <<archive, owner>>
    BY <1>6, Zenon DEF DeleteRest
  <2>2. PICK ok \in BOOLEAN : /\ PurgeBegun(jobs', j, ok)
                              /\ data' = IF ok THEN data \ {u} ELSE data
                              /\ deleted' = IF ok /\ DOMAIN archive = {} THEN deleted \cup {u} ELSE deleted
    BY <1>6, RestBegins
  <2>3. u = owner[j[1]]
    BY <2>1
  <2> HIDE DEF j, u
  <2>4. NoRevival'
    BY <2>1, <2>2 DEF RevivalInv, NoRevival
  <2>5. \A k \in DOMAIN jobs' : Same(k) \/ (k = j /\ Fresh(k) /\ jobs'[k].clean = ok)
    BY <2>2, FreshPurge
  <2>6. CleanPurges'
    <3> SUFFICES ASSUME NEW k \in DOMAIN jobs' \cap Adapters, jobs'[k].clean
                 PROVE  owner[k[1]] \notin data'
      BY <2>1 DEF CleanPurges
    <3>1. CASE Same(k)
      BY <2>2, <3>1 DEF RevivalInv, CleanPurges, Same, Kept
    <3>2. CASE k = j /\ jobs'[k].clean = ok
      BY <2>2, <2>3, <3>2
    <3> QED
      BY <2>5, <3>1, <3>2
  <2> QED
    BY <2>4, <2>6 DEF RevivalInv
<1>7. CASE Stop
  <2>1. UNCHANGED <<data, archive, deleted>> /\ jobs' = Empty
    BY <1>7 DEF Stop, Ended
  <2> QED
    BY <2>1, NothingPut DEF RevivalInv, NoRevival, CleanPurges
<1> QED
  BY <1>1, <1>2, <1>3, <1>4, <1>5, <1>6, <1>7, Steps

(* Whoever was told that all is deleted, and stored nothing since, is in   *)
(* no source and in no snapshot, whichever jobs are under way.             *)
THEOREM NobodyRevived == Spec => []NoRevival
<1>1. Init => RevivalInv
  BY NothingPut DEF Init, RevivalInv, NoRevival, CleanPurges
<1>2. RevivalInv => NoRevival
  BY DEF RevivalInv
<1> QED
  BY <1>1, <1>2, RevivalStep, TypeInvHolds, PTL DEF Spec

-----------------------------------------------------------------------------
(* As long as no snapshot was spoiled, every file is good or torn, and a   *)
(* job that has written its snapshot leaves one at least as new: of those  *)
(* the newest is kept by the plan, and no purge lists it: that of an event *)
(* but as its own, that of an adapter not at all, as long as none began in *)
(* the second of a file that was there already.                            *)
Good(t) == archive[t].kind = "good"

ListedOld ==
  \A j \in DOMAIN jobs : \A t \in jobs[j].listed :
    t \in 0 .. jobs[j].at /\ (j \in Adapters /\ ~relisted => t # jobs[j].at)

NewestKept ==
  ~spoiled /\ ~relisted =>
    /\ \A t \in DOMAIN archive : archive[t].kind \in {"good", "torn"}
    /\ \A j \in DOMAIN jobs : jobs[j].phase = "uploading" =>
         \E t \in DOMAIN archive : Good(t) /\ t >= jobs[j].at

\* What a purge listed is no newer than its own snapshot.
LEMMA ListedOldStep == ASSUME TypeInv, ListedOld, [Next]_vars PROVE ListedOld'
<1> USE Clock
<1>1. ASSUME NEW k \in DOMAIN jobs', Fresh(k) PROVE \A t \in jobs'[k].listed : t \in 0 .. jobs'[k].at
  BY <1>1 DEF Fresh, TypeInv, TypeOK
<1>2. ASSUME NEW k \in DOMAIN jobs', Same(k), relisted => relisted'
      PROVE  \A t \in jobs'[k].listed :
               t \in 0 .. jobs'[k].at /\ (k \in Adapters /\ ~relisted' => t # jobs'[k].at)
  BY <1>2 DEF ListedOld, Same, Kept
<1>3. CASE Quiet
  BY <1>1, <1>2, <1>3, QuietStep DEF DailyFresh, ListedOld
<1>4. ASSUME \A k \in DOMAIN jobs' : Same(k), relisted => relisted' PROVE ListedOld'
  BY <1>2, <1>4 DEF ListedOld
<1>5. ASSUME NEW j \in Jobs, JobWrites(j) PROVE ListedOld'
  <2>1. UNCHANGED relisted /\ DOMAIN jobs' = DOMAIN jobs
    BY <1>5, WriteFacts DEF JobWrites
  <2>2. \A k \in DOMAIN jobs : jobs'[k].at = jobs[k].at /\ jobs'[k].listed = jobs[k].listed
    BY <1>5, WriteFacts
  <2> QED
    BY <2>1, <2>2 DEF ListedOld
<1>6. ASSUME NEW j \in Jobs, PurgeEnds(j) PROVE ListedOld'
  <2>1. UNCHANGED relisted /\ DOMAIN jobs' \subseteq DOMAIN jobs /\ \A k \in DOMAIN jobs' : jobs'[k] = jobs[k]
    BY <1>6, PurgeFacts DEF PurgeEnds
  <2> QED
    BY <1>4, <2>1 DEF Same, Kept
<1>7. ASSUME jobs' = Empty PROVE ListedOld'
  BY <1>7, NothingPut DEF ListedOld
<1>8. ASSUME NEW j \in Jobs, CrashInWrite(j) PROVE ListedOld'
  BY <1>7, <1>8 DEF CrashInWrite, Ended
<1>9. CASE Stop
  BY <1>7, <1>9 DEF Stop, Ended
<1>10. ASSUME NEW u \in Users, StoreData(u) PROVE ListedOld'
  <2>1. UNCHANGED relisted
    BY <1>10, Zenon DEF StoreData
  <2> QED
    BY <1>10, <2>1, StoredJobs DEF ListedOld
<1>11. CASE DeleteRest
  <2>1. PICK ok \in BOOLEAN : PurgeBegun(jobs', <<turn, "adapter">>, ok)
    BY <1>11, RestBegins
  <2>2. \A k \in DOMAIN jobs' : Same(k) \/ Fresh(k)
    BY <2>1, FreshPurge
  <2>3. relisted' = (relisted \/ now \in DOMAIN archive)
    BY <1>11, Zenon DEF DeleteRest
  <2>4. ASSUME NEW k \in DOMAIN jobs', Fresh(k), ~relisted', NEW t \in jobs'[k].listed PROVE t # jobs'[k].at
    BY <2>3, <2>4 DEF Fresh
  <2> QED
    BY <1>1, <1>2, <2>2, <2>3, <2>4 DEF ListedOld
<1> QED
  BY <1>3, <1>5, <1>6, <1>8, <1>9, <1>10, <1>11, Steps

\* Where the files stay as they are.
LEMMA NewestKeptQuiet ==
  ASSUME NewestKept, UNCHANGED <<archive, spoiled>>, relisted => relisted',
         \A k \in DOMAIN jobs' : jobs'[k].phase = "uploading" =>
           k \in DOMAIN jobs /\ jobs[k].phase = "uploading" /\ jobs'[k].at = jobs[k].at
  PROVE  NewestKept'
BY DEF NewestKept, Good

\* The newest good file after a job's write is one that the plan keeps.
LEMMA NewestKeptWrite ==
  ASSUME TypeInv, NewestKept, NEW j \in Jobs, JobWrites(j), ~spoiled', ~relisted'
  PROVE  NewestKept' /\ HasBackup(archive')
<1> USE Clock
<1> DEFINE at == jobs[j].at
           files == Put(archive, at, Written(j))
           listed == Listed(files)
           good == {t \in DOMAIN files : files[t].kind = "good"}
<1>1. ~spoiled /\ ~relisted /\ ~jobs[j].mixed
  BY DEF JobWrites
<1>2. at \in 0 .. now /\ j \in DOMAIN jobs
  BY JobFacts, WriteFacts
<1>3. Written(j).kind = "good"
  BY <1>1 DEF Written
<1>4. /\ DOMAIN files = DOMAIN archive \cup {at} /\ files[at] = Written(j)
      /\ \A t \in DOMAIN archive \ {at} : files[t] = archive[t]
  BY DEF Put
<1>5. Left(files, listed \ Keep(listed, now))
  BY UnlinkLeaves DEF JobWrites, Written
<1>6. listed = {t \in DOMAIN files : files[t].kind # "torn"}
  BY DEF Listed
<1> HIDE DEF files, listed
<1>7. \A t \in DOMAIN files : files[t].kind \in {"good", "torn"}
  BY <1>1, <1>3, <1>4 DEF NewestKept
<1>8. listed = good /\ at \in good /\ good \subseteq DOMAIN files
  BY <1>3, <1>4, <1>6, <1>7
<1>9. DOMAIN files \subseteq 0 .. now
  BY <1>2, <1>4 DEF TypeInv, TypeOK
<1>10. PICK m \in good : \A t \in good : t <= m
  BY <1>8, <1>9, Newest
<1>11. m \in Keep(good, now)
  BY <1>8, <1>9, <1>10, NewestIsKept
<1>12. m \in DOMAIN archive' /\ archive'[m] = files[m] /\ archive'[m].kind = "good"
  BY <1>5, <1>8, <1>10, <1>11 DEF Left
<1>13. \A t \in DOMAIN archive' : archive'[t].kind \in {"good", "torn"}
  BY <1>5, <1>7 DEF Left
<1>14. ASSUME NEW k \in DOMAIN jobs', jobs'[k].phase = "uploading" PROVE jobs'[k].at <= m
  <2>1. k \in DOMAIN jobs /\ jobs'[k].at = jobs[k].at /\ jobs[k].at \in 0 .. now
    BY WriteFacts, JobFacts
  <2>2. CASE k = j
    BY <1>8, <1>10, <2>1, <2>2
  <2>3. CASE k # j
    <3>1. jobs[k].phase = "uploading"
      BY <1>14, <2>1, <2>3, WriteFacts
    <3>2. PICK t \in DOMAIN archive : Good(t) /\ t >= jobs[k].at
      BY <1>1, <2>1, <3>1 DEF NewestKept
    <3>3. t \in good
      BY <1>3, <1>4, <3>2 DEF Good
    <3>4. t <= m /\ t \in Nat /\ m \in Nat
      BY <1>8, <1>9, <1>10, <3>3
    <3> QED
      BY <2>1, <3>2, <3>4
  <2> QED
    BY <2>2, <2>3
<1>15. HasBackup(archive')
  BY <1>12 DEF HasBackup
<1>16. \A k \in DOMAIN jobs' : jobs'[k].phase = "uploading" =>
         \E t \in DOMAIN archive' : archive'[t].kind = "good" /\ t >= jobs'[k].at
  <2> SUFFICES ASSUME NEW k \in DOMAIN jobs', jobs'[k].phase = "uploading"
               PROVE  m >= jobs'[k].at
    BY <1>12
  <2>1. m \in Nat /\ jobs'[k].at \in Nat
    BY <1>8, <1>9, <1>10, WriteFacts, JobFacts
  <2> QED
    BY <1>14, <2>1
<1> QED
  BY <1>13, <1>15, <1>16 DEF NewestKept, Good

\* The newest good file is none that a purge is to delete.
LEMMA NewestKeptPurge ==
  ASSUME TypeInv, ListedOld, NewestKept, NEW j \in Jobs, PurgeEnds(j), ~spoiled', ~relisted'
  PROVE  NewestKept' /\ HasBackup(archive')
<1> USE Clock
<1> DEFINE good == {t \in DOMAIN archive : Good(t)}
<1>1. ~spoiled /\ ~relisted /\ j \in DOMAIN jobs /\ jobs[j].phase = "uploading" /\ jobs[j].at \in 0 .. now
  BY JobFacts DEF PurgeEnds, Uploaded
<1>2. PICK s \in DOMAIN archive : Good(s) /\ s >= jobs[j].at
  BY <1>1 DEF NewestKept
<1>3. good \subseteq 0 .. now /\ s \in good
  BY <1>2 DEF TypeInv, TypeOK
<1>4. PICK m \in good : \A t \in good : t <= m
  BY <1>3, Newest
<1>5. m \in Nat /\ s \in Nat /\ jobs[j].at \in Nat
  BY <1>1, <1>3
<1>6. m >= jobs[j].at
  BY <1>2, <1>3, <1>4, <1>5
<1>7. m \notin Doomed(j, jobs[j])
  <2>1. m \in jobs[j].listed => m <= jobs[j].at /\ (j \in Adapters => m # jobs[j].at)
    BY <1>1 DEF ListedOld
  <2>2. m \in jobs[j].listed => m = jobs[j].at /\ j \notin Adapters
    BY <1>5, <1>6, <2>1
  <2>3. j \in Events \cup Adapters
    BY DEF PurgeEnds
  <2> QED
    BY <2>2, <2>3 DEF Doomed
<1>8. m \in DOMAIN archive' /\ archive'[m].kind = "good"
  BY <1>4, <1>7, PurgeFacts DEF Good
<1>9. \A t \in DOMAIN archive' : archive'[t].kind \in {"good", "torn"}
  BY <1>1, PurgeFacts DEF NewestKept
<1>10. \A k \in DOMAIN jobs' : jobs'[k].phase = "uploading" =>
         \E t \in DOMAIN archive' : archive'[t].kind = "good" /\ t >= jobs'[k].at
  <2> SUFFICES ASSUME NEW k \in DOMAIN jobs', jobs'[k].phase = "uploading" PROVE m >= jobs'[k].at
    BY <1>8
  <2>1. k \in DOMAIN jobs /\ jobs'[k] = jobs[k] /\ jobs[k].at \in Nat
    <3>1. k \in DOMAIN jobs /\ jobs'[k] = jobs[k]
      BY PurgeFacts
    <3>2. jobs[k].at \in 0 .. now
      BY <3>1, JobFacts
    <3> QED
      BY <3>1, <3>2
  <2>2. PICK t \in DOMAIN archive : Good(t) /\ t >= jobs[k].at
    BY <1>1, <2>1 DEF NewestKept
  <2>3. t <= m /\ t \in Nat
    BY <1>3, <1>4, <2>2
  <2> QED
    BY <1>5, <2>1, <2>2, <2>3
<1> QED
  BY <1>8, <1>9, <1>10 DEF NewestKept, Good, HasBackup

\* Behind every job that has written there stays a snapshot as new as its own.
LEMMA NewestKeptStep ==
  ASSUME TypeInv, ListedOld, NewestKept, [Next]_vars
  PROVE  NewestKept' /\ (HasBackup(archive) /\ ~spoiled' /\ ~relisted' => HasBackup(archive'))
<1>1. CASE Quiet
  <2>1. UNCHANGED <<archive, spoiled, relisted>> /\ \A k \in DOMAIN jobs' : Same(k) \/ Fresh(k)
    BY <1>1, QuietStep DEF DailyFresh
  <2>2. NewestKept'
    BY <2>1, NewestKeptQuiet DEF Same, Kept, Fresh
  <2> QED
    BY <2>1, <2>2 DEF HasBackup
<1>2. ASSUME NEW j \in Jobs, JobWrites(j) PROVE NewestKept' /\ (~spoiled' /\ ~relisted' => HasBackup(archive'))
  BY <1>2, NewestKeptWrite DEF NewestKept
<1>3. ASSUME NEW j \in Jobs, PurgeEnds(j) PROVE NewestKept' /\ (~spoiled' /\ ~relisted' => HasBackup(archive'))
  BY <1>3, NewestKeptPurge DEF NewestKept
<1>4. ASSUME NEW j \in Jobs, CrashInWrite(j) PROVE NewestKept' /\ spoiled'
  BY <1>4 DEF CrashInWrite, NewestKept
<1>5. ASSUME NEW u \in Users, StoreData(u) PROVE NewestKept' /\ UNCHANGED archive
  <2>1. UNCHANGED <<archive, spoiled, relisted>>
    BY <1>5, Zenon DEF StoreData
  <2> QED
    BY <1>5, <2>1, StoredJobs, NewestKeptQuiet
<1>6. CASE DeleteRest
  <2>1. PICK ok \in BOOLEAN : PurgeBegun(jobs', <<turn, "adapter">>, ok)
    BY <1>6, RestBegins
  <2>2. UNCHANGED <<archive, spoiled>> /\ (relisted => relisted')
    BY <1>6, Zenon DEF DeleteRest
  <2>3. \A k \in DOMAIN jobs' : Same(k) \/ Fresh(k)
    BY <2>1, FreshPurge
  <2>4. NewestKept'
    BY <2>2, <2>3, NewestKeptQuiet DEF Same, Kept, Fresh
  <2> QED
    BY <2>2, <2>4 DEF HasBackup
<1>7. CASE Stop
  <2>1. UNCHANGED <<archive, spoiled, relisted>> /\ jobs' = Empty
    BY <1>7 DEF Stop, Ended
  <2>2. NewestKept'
    BY <2>1, NothingPut, NewestKeptQuiet
  <2> QED
    BY <2>1, <2>2 DEF HasBackup
<1> QED
  BY <1>1, <1>2, <1>3, <1>4, <1>5, <1>6, <1>7, Steps

(* Once there is a good snapshot there always is one, whatever retention   *)
(* and overlapping purges delete, as long as none was spoiled and no purge *)
(* of an adapter began in the second of a file that was there.             *)
THEOREM ABackupIsKept == Spec => BackupKept
<1> DEFINE Inv == TypeInv /\ ListedOld /\ NewestKept
<1>1. Init => ListedOld /\ NewestKept
  <2> SUFFICES ASSUME Init PROVE ListedOld /\ NewestKept
    OBVIOUS
  <2>1. DOMAIN jobs = {}
    BY NothingPut DEF Init
  <2>2. \A t \in DOMAIN archive : archive[t].kind \in {"good", "torn"}
    BY NothingPut DEF Init, Files
  <2> QED
    BY <2>1, <2>2 DEF ListedOld, NewestKept
<1>2. TypeInv /\ ListedOld /\ NewestKept /\ [Next]_vars
        => /\ ListedOld' /\ NewestKept'
           /\ (HasBackup(archive) /\ ~spoiled' /\ ~relisted' => HasBackup(archive'))
  BY ListedOldStep, NewestKeptStep
<1>3. TypeInv /\ ListedOld /\ NewestKept /\ [Next]_vars
        => [HasBackup(archive) /\ ~spoiled' /\ ~relisted' => HasBackup(archive')]_vars
  BY <1>2
<1> QED
  BY <1>1, <1>2, <1>3, TypeInvHolds, PTL DEF Spec, BackupKept

-----------------------------------------------------------------------------
(* The daily schedule.                                                     *)

Ahead == timer > 0 /\ timer >= now /\ timer <= now + DayLength
DailyInv == up /\ ~once => Daily \in DOMAIN jobs \/ Ahead

\* A step that leaves the timer and the daily job keeps the next start ahead.
LEMMA DailyKept ==
  ASSUME TypeInv, DailyInv, UNCHANGED <<now, up, once, timer>>, DOMAIN jobs \cap {Daily} \subseteq DOMAIN jobs'
  PROVE  DailyInv'
BY DEF DailyInv, Ahead

\* The next start stays ahead.
LEMMA DailyStep == ASSUME TypeInv, DailyInv, [Next]_vars PROVE DailyInv'
<1> USE Clock DEF proc
<1>1. DayLength \in Nat
  BY RetentionAssumption
<1>2. NextStartAt(now) > 0 /\ NextStartAt(now) >= now /\ NextStartAt(now) <= now + DayLength
  <2>1. now \in Nat
    BY Clock
  <2>2. NextStartAt(now) \in Nat /\ now < NextStartAt(now) /\ NextStartAt(now) <= now + DayLength
    BY <2>1, NextStartIsAhead
  <2> QED
    BY <1>1, <2>1, <2>2
<1>3. timer \in Nat
  BY <1>1, SnapshotsAssumption DEF TypeInv, TypeOK
<1>4. ASSUME NEW j \in Jobs, JobWrites(j) PROVE DailyInv'
  BY <1>4, WriteFacts, DailyKept DEF JobWrites
<1>5. ASSUME NEW j \in Jobs, PurgeEnds(j) PROVE DailyInv'
  <2>1. j # Daily
    BY <1>5 DEF PurgeEnds, Events, Adapters, Daily
  <2> QED
    BY <1>5, <2>1, PurgeFacts, DailyKept DEF PurgeEnds
<1>6. ASSUME NEW j \in Jobs, PurgeFails(j) PROVE DailyInv'
  <2>1. DOMAIN jobs \cap {Daily} \subseteq DOMAIN jobs'
    BY <1>6, WithoutThem DEF PurgeFails
  <2> QED
    BY <1>6, <2>1, DailyKept DEF PurgeFails
<1>7. ASSUME ~up' PROVE DailyInv'
  BY <1>7 DEF DailyInv
<1>8. ASSUME NEW j \in Jobs, CrashInWrite(j) PROVE DailyInv'
  BY <1>7, <1>8 DEF CrashInWrite, Ended
<1>9. CASE Stop
  BY <1>7, <1>9 DEF Stop, Ended
<1>10. ASSUME jobs' = Put(jobs, Daily, Begun({}, TRUE)) PROVE DailyInv'
  <2>1. Daily \in DOMAIN jobs'
    BY <1>10 DEF Put
  <2> QED
    BY <2>1 DEF DailyInv
<1>11. CASE DailyBegins
  BY <1>10, <1>11 DEF DailyBegins
<1>12. ASSUME Reschedule, UNCHANGED <<now, once>> PROVE DailyInv'
  <2>1. CASE once
    BY <1>12, <2>1 DEF DailyInv
  <2>2. CASE ~once
    <3>1. timer' = NextStartAt(now) /\ now' = now
      BY <1>12, <2>2 DEF Reschedule
    <3>2. Ahead'
      BY <1>2, <3>1 DEF Ahead
    <3> QED
      BY <3>2 DEF DailyInv
  <2> QED
    BY <2>1, <2>2
<1>13. CASE DailyEnds
  BY <1>12, <1>13 DEF DailyEnds
<1>14. CASE DailyFails
  BY <1>12, <1>14 DEF DailyFails
<1>15. ASSUME NEW u \in Users, DeleteBegin(u) PROVE DailyInv'
  <2>1. DOMAIN jobs \subseteq DOMAIN jobs'
    BY <1>15, BeginFacts DEF PurgeBegun
  <2>2. UNCHANGED <<now, up, once, timer>>
    BY <1>15, Zenon DEF DeleteBegin
  <2> QED
    BY <2>1, <2>2, DailyKept
<1>16. ASSUME NEW u \in Users, StoreData(u) PROVE DailyInv'
  BY <1>16, StoredJobs, DailyKept DEF StoreData
<1>17. CASE DeleteRest
  <2>1. DOMAIN jobs \subseteq DOMAIN jobs'
    BY <1>17, RestBegins DEF PurgeBegun
  <2>2. UNCHANGED <<now, up, once, timer>>
    BY <1>17, Zenon DEF DeleteRest
  <2> QED
    BY <2>1, <2>2, DailyKept
<1>18. CASE Tick
  <2>1. now' = now + 1 /\ (timer = 0 \/ now < timer) /\ UNCHANGED <<up, once, timer, jobs>>
    BY <1>18 DEF Tick
  <2>2. Ahead => Ahead'
    BY <1>1, <1>3, <2>1 DEF Ahead
  <2> QED
    BY <2>1, <2>2 DEF DailyInv
<1>19. CASE Start
  <2>1. CASE once'
    BY <2>1 DEF DailyInv
  <2>2. CASE ~once'
    <3>1. timer' = NextStartAt(now) /\ now' = now
      BY <1>19, <2>2 DEF Start
    <3>2. Ahead'
      BY <1>2, <3>1 DEF Ahead
    <3> QED
      BY <3>2 DEF DailyInv
  <2> QED
    BY <2>1, <2>2
<1>20. CASE UNCHANGED vars
  BY <1>20, DailyKept DEF vars
<1> QED
  BY <1>4, <1>5, <1>6, <1>8, <1>9, <1>11, <1>13, <1>14, <1>15, <1>16, <1>17, <1>18, <1>19, <1>20
     DEF Next, JobStep

(* A process that is to take daily snapshots always has the next one ahead *)
(* of it, or is taking one.                                                *)
THEOREM ScheduleGoesOn == Spec => []DailyAhead
<1>1. Init => DailyInv
  BY DEF Init, DailyInv
<1>2. DailyInv => DailyAhead
  BY DEF DailyInv, DailyAhead, Ahead
<1> QED
  BY <1>1, <1>2, DailyStep, TypeInvHolds, PTL DEF Spec

=============================================================================
