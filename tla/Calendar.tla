------------------------------ MODULE Calendar ------------------------------
(***************************************************************************)
(* The calendar cache: a pass fetches the sources one after the other and  *)
(* merges those that answered into the cache as it is at its end.  One     *)
(* pass starts with the process, the others with the interval, which skips *)
(* while one of its own is in flight.  What a source holds is a version.   *)
(***************************************************************************)
EXTENDS Naturals, FiniteSets

CONSTANTS
  NumSources,   \* sources, in the order of the configuration
  MaxVersion,   \* bound: versions of a source
  MaxPasses,    \* bound: passes
  MaxStarts,    \* bound: starts of the process
  MaxFaults     \* bound: failures and stops

CalendarAssumption ==
  {NumSources, MaxPasses, MaxStarts, MaxFaults} \subseteq Nat /\ MaxVersion \in Nat \ {0}

VARIABLES
  up,
  host,       \* the version each source has to offer
  cache,      \* the version of each source in memory
  cacheFile,  \* the same in the cache file
  inFlight,   \* the interval's guard
  passes,     \* passes under way: who started it, the source to come, the answers
  crossed,    \* history: the first pass overlapped another
  unsaved,    \* history: the last write of the file failed
  begun, starts, faults   \* counters of the bounds

vars == <<up, host, cache, cacheFile, inFlight, passes, crossed, unsaved, begun, starts, faults>>

Sources == 1 .. NumSources
Versions == 1 .. MaxVersion
Caches == UNION {[S -> Versions] : S \in SUBSET Sources}
Empty == [s \in {} |-> 0]
Merged(old, new) == [s \in DOMAIN old \cup DOMAIN new |-> IF s \in DOMAIN new THEN new[s] ELSE old[s]]
Without(f, x) == [y \in DOMAIN f \ {x} |-> f[y]]

Init ==
  /\ up = FALSE /\ host = [s \in Sources |-> 1]
  /\ cache = Empty /\ cacheFile = Empty
  /\ inFlight = FALSE /\ passes = Empty
  /\ crossed = FALSE /\ unsaved = FALSE
  /\ begun = 0 /\ starts = 0 /\ faults = 0

Fault == faults < MaxFaults /\ faults' = faults + 1

\* The owner of a calendar changes it.
Publish(s) ==
  /\ host[s] < MaxVersion /\ host' = [host EXCEPT ![s] = @ + 1]
  /\ UNCHANGED <<up, cache, cacheFile, inFlight, passes, crossed, unsaved, begun, starts, faults>>

Begun(by) ==
  /\ begun < MaxPasses /\ begun' = begun + 1
  /\ passes' = Merged(passes, [p \in {begun'} |-> [by |-> by, next |-> 1, got |-> Empty]])
  /\ crossed' = (crossed \/ \E p \in DOMAIN passes : "start" \in {by, passes[p].by})

\* Mutant: a pass starts while another one is in flight.
IntervalPassesAnyway ==
  /\ up /\ inFlight' = TRUE
  /\ Begun("interval")
  /\ UNCHANGED <<up, host, cache, cacheFile, unsaved, starts, faults>>

IntervalPasses ==
  /\ up /\ ~inFlight
  /\ inFlight' = TRUE
  /\ Begun("interval")
  /\ UNCHANGED <<up, host, cache, cacheFile, unsaved, starts, faults>>

Awaits(p) == up /\ p \in DOMAIN passes /\ passes[p].next <= NumSources

\* The answer is parsed and kept until the pass ends.
Fetched(p) ==
  LET s == passes[p].next
  IN /\ Awaits(p)
     /\ passes' = [passes EXCEPT ![p].next = s + 1, ![p].got = Merged(@, [x \in {s} |-> host[s]])]
     /\ UNCHANGED <<up, host, cache, cacheFile, inFlight, crossed, unsaved, begun, starts, faults>>

\* No answer, an error or no calendar: the source is skipped.
FetchFails(p) ==
  /\ Awaits(p) /\ Fault
  /\ passes' = [passes EXCEPT ![p].next = @ + 1]
  /\ UNCHANGED <<up, host, cache, cacheFile, inFlight, crossed, unsaved, begun, starts>>

\* A write that fails is logged; the new cache is used all the same.
PassEnds(p) ==
  /\ up /\ p \in DOMAIN passes /\ passes[p].next > NumSources
  /\ cache' = Merged(cache, passes[p].got)
  /\ \/ cacheFile' = cache' /\ unsaved' = FALSE /\ UNCHANGED faults
     \/ Fault /\ unsaved' = TRUE /\ UNCHANGED cacheFile
  /\ inFlight' = IF passes[p].by = "interval" THEN FALSE ELSE inFlight
  /\ passes' = Without(passes, p)
  /\ UNCHANGED <<up, host, crossed, begun, starts>>

\* A file that cannot be read is an empty cache.
Start ==
  /\ ~up /\ starts < MaxStarts /\ starts' = starts + 1
  /\ up' = TRUE
  /\ \/ cache' = cacheFile /\ UNCHANGED <<cacheFile, faults>>
     \/ Fault /\ cache' = Empty /\ cacheFile' = Empty
  /\ unsaved' = FALSE
  /\ Begun("start")
  /\ UNCHANGED <<host, inFlight>>

Stop ==
  /\ up /\ Fault /\ up' = FALSE
  /\ inFlight' = FALSE /\ passes' = Empty /\ crossed' = FALSE
  /\ UNCHANGED <<host, cache, cacheFile, unsaved, begun, starts>>

Next ==
  \/ \E s \in Sources : Publish(s)
  \/ \E p \in DOMAIN passes : Fetched(p) \/ FetchFails(p) \/ PassEnds(p)
  \/ IntervalPasses \/ Start \/ Stop

Spec == Init /\ [][Next]_vars

-----------------------------------------------------------------------------
(* Properties.                                                             *)

(* The variables have their types.                                         *)
TypeOK ==
  /\ {up, inFlight, crossed, unsaved} \subseteq BOOLEAN
  /\ host \in [Sources -> Versions] /\ cache \in Caches /\ cacheFile \in Caches
  /\ \A p \in DOMAIN passes :
       /\ passes[p].by \in {"start", "interval"}
       /\ passes[p].next \in 1 .. NumSources + 1 /\ passes[p].got \in Caches
  /\ {begun, starts, faults} \subseteq Nat

(* A pass never takes a source back to an older version and never drops    *)
(* one that failed to answer, unless the pass of the start was overtaken   *)
(* by one of the interval.  The file follows, unless its write failed.     *)
NeverOlder ==
  [][up /\ up' /\ ~crossed' =>
       /\ DOMAIN cache \subseteq DOMAIN cache' /\ \A s \in DOMAIN cache : cache[s] <= cache'[s]
       /\ unsaved' \/ cacheFile' = cache']_vars

=============================================================================
