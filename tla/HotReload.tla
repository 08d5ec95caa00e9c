----------------------------- MODULE HotReload -----------------------------
(***************************************************************************)
(* ConfigStore: data/config.json is read at the start, then watched.  A    *)
(* change starts a debounce timer anew; when it fires the file is read and *)
(* its keys are merged into the current configuration.  The watcher is on  *)
(* the file, which it follows by inode, or on the directory while there is *)
(* no file.                                                                *)
(***************************************************************************)
EXTENDS Naturals, FiniteSets

CONSTANTS
  Keys, Values,
  MaxEdits,    \* bound: changes of the file
  MaxReads,    \* bound: reads under way at one time
  MaxStarts    \* bound: starts of the process

HotReloadAssumption == {MaxEdits, MaxReads, MaxStarts} \subseteq Nat

VARIABLES
  up,
  configFile,  \* what a read finds: "missing", "bad", or the settings it holds
  current,     \* the configuration in use
  storePhase,  \* "starting": the first read; "watching"
  watched,     \* what the watcher is on: "none", "file", "old" (an inode that is gone), "parent"
  debouncing,  \* the debounce timer is set
  reads,       \* reads under way, by number: what they found, or "reading"
  unseen,      \* history: the file was changed where nobody watched
  crossed,     \* history: two reads were under way at one time
  edits, begun, starts   \* counters of the bounds

vars == <<up, configFile, current, storePhase, watched, debouncing, reads, unseen, crossed, edits, begun, starts>>

Settings == UNION {[S -> Values] : S \in SUBSET Keys}
Empty == [k \in {} |-> 0]
Missing == [kind |-> "missing", holds |-> Empty]
Bad == [kind |-> "bad", holds |-> Empty]
Good(c) == [kind |-> "good", holds |-> c]
Unread == [kind |-> "unread", holds |-> Empty]
Files == {Missing, Bad} \cup {Good(c) : c \in Settings}

\* { ...previous, ...incoming }
Merged(old, new) == [k \in DOMAIN old \cup DOMAIN new |-> IF k \in DOMAIN new THEN new[k] ELSE old[k]]
Without(f, x) == [y \in DOMAIN f \ {x} |-> f[y]]

Init ==
  /\ up = FALSE /\ configFile \in {Missing, Bad} \cup {Good(c) : c \in [Keys -> Values]}
  /\ current = Empty /\ storePhase = "starting" /\ watched = "none" /\ debouncing = FALSE
  /\ reads = Empty /\ unseen = FALSE /\ crossed = FALSE
  /\ edits = 0 /\ begun = 0 /\ starts = 0

-----------------------------------------------------------------------------
(* The file.                                                               *)

\* Mutant: a change is left to the read that is under way.
ScheduleUnlessReading == debouncing' = (debouncing \/ reads = Empty)

\* scheduleApply
ScheduleApply == debouncing' = TRUE

\* An editor writes into the file, or makes it: both watchers notice, and the
\* one of the directory moves to the file.
Write(f) ==
  /\ edits < MaxEdits /\ edits' = edits + 1
  /\ f # Missing /\ f # configFile /\ configFile' = f
  /\ IF watched \in {"parent", "file"}
     THEN ScheduleApply /\ UNCHANGED unseen
     ELSE unseen' = TRUE /\ UNCHANGED debouncing
  /\ watched' = IF watched = "parent" THEN "file" ELSE watched
  /\ UNCHANGED <<up, current, storePhase, reads, crossed, begun, starts>>

\* Removed, or renamed over: the watcher on the file reports the loss of its
\* inode, and stays on it.
Replace(f) ==
  /\ edits < MaxEdits /\ edits' = edits + 1
  /\ configFile # Missing /\ f # configFile /\ configFile' = f
  /\ IF watched = "file" THEN ScheduleApply /\ watched' = "old" /\ UNCHANGED unseen
     ELSE unseen' = TRUE /\ UNCHANGED <<debouncing, watched>>
  /\ UNCHANGED <<up, current, storePhase, reads, crossed, begun, starts>>

-----------------------------------------------------------------------------
(* Reads.                                                                  *)

BeginRead ==
  /\ Cardinality(DOMAIN reads) < MaxReads
  /\ begun' = begun + 1
  /\ reads' = Merged(reads, [r \in {begun'} |-> Unread])
  /\ crossed' = (crossed \/ reads # Empty)

\* The timer fires: applyFromDisk begins.
Fires ==
  /\ up /\ debouncing /\ debouncing' = FALSE
  /\ BeginRead
  /\ UNCHANGED <<up, configFile, current, storePhase, watched, unseen, edits, starts>>

Read(r) ==
  /\ up /\ r \in DOMAIN reads /\ reads[r] = Unread
  /\ reads' = [reads EXCEPT ![r] = configFile]
  /\ UNCHANGED <<up, configFile, current, storePhase, watched, debouncing, unseen, crossed, edits, begun, starts>>

HasRead(r) == up /\ r \in DOMAIN reads /\ reads[r] # Unread

\* start: without a file or with a bad one the configuration is empty.  Then
\* the watcher is set up: what changed since the read was missed.
Started(r) ==
  /\ HasRead(r) /\ storePhase = "starting"
  /\ current' = IF reads[r].kind = "good" THEN reads[r].holds ELSE current
  /\ storePhase' = "watching"
  /\ watched' = IF configFile = Missing THEN "parent" ELSE "file"
  /\ reads' = Without(reads, r)
  /\ UNCHANGED <<up, configFile, debouncing, unseen, crossed, edits, begun, starts>>

\* What cannot be read or does not fit the schema is rejected as a whole.
Applied(r) ==
  /\ HasRead(r) /\ storePhase = "watching"
  /\ current' = IF reads[r].kind = "good" THEN Merged(current, reads[r].holds) ELSE current
  /\ reads' = Without(reads, r)
  /\ UNCHANGED <<up, configFile, storePhase, watched, debouncing, unseen, crossed, edits, begun, starts>>

-----------------------------------------------------------------------------
(* The process.                                                            *)

Start ==
  /\ ~up /\ starts < MaxStarts /\ starts' = starts + 1
  /\ up' = TRUE /\ current' = Empty /\ storePhase' = "starting"
  /\ BeginRead
  /\ unseen' = FALSE
  /\ UNCHANGED <<configFile, watched, debouncing, edits>>

Stop ==
  /\ up /\ up' = FALSE
  /\ watched' = "none" /\ debouncing' = FALSE /\ reads' = Empty /\ crossed' = FALSE
  /\ UNCHANGED <<configFile, current, storePhase, unseen, edits, begun, starts>>

Next ==
  \/ \E f \in Files : Write(f) \/ Replace(f)
  \/ \E r \in DOMAIN reads : Read(r) \/ Started(r) \/ Applied(r)
  \/ Fires \/ Start \/ Stop

Spec == Init /\ [][Next]_vars

-----------------------------------------------------------------------------
(* Properties.                                                             *)

(* The variables have their types.                                         *)
TypeOK ==
  /\ {up, debouncing, unseen, crossed} \subseteq BOOLEAN
  /\ configFile \in Files /\ current \in Settings
  /\ storePhase \in {"starting", "watching"} /\ watched \in {"none", "file", "old", "parent"}
  /\ \A r \in DOMAIN reads : reads[r] \in Files \cup {Unread}
  /\ {edits, begun, starts} \subseteq Nat

Quiet == up /\ storePhase = "watching" /\ ~debouncing /\ reads = Empty

(* When the last change has settled, the configuration holds every setting *)
(* of a good file, however often the file changed while the timer ran and  *)
(* a read was under way; unless a change was made where nobody watched, or *)
(* two reads overlapped.                                                   *)
SettlesOnFile ==
  Quiet /\ ~unseen /\ ~crossed /\ configFile.kind = "good" =>
    \A k \in DOMAIN configFile.holds : k \in DOMAIN current /\ current[k] = configFile.holds[k]

=============================================================================
