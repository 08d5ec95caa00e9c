--------------------------- MODULE Announcements ---------------------------
(***************************************************************************)
(* Scheduled announcements: weekly entries and entries for one date, read  *)
(* from a file when the process starts, and one timer that holds the next  *)
(* of them.  An entry is posted with one retry; an entry for one date is   *)
(* then disabled in memory and in the file, also when both attempts        *)
(* failed.  Entries are named by their place in the file.                  *)
(***************************************************************************)
EXTENDS Naturals, FiniteSets

CONSTANTS
  NumEntries,
  DayLength,     \* seconds
  WeekDays,      \* days
  Recheck,       \* the wait when no entry is left: 60 seconds in the code
  MaxDelay,      \* the longest wait of one timer: a day in the code
  RetryDelay,
  LastTime,      \* bound: the clock stops there
  MaxStarts,     \* bound: starts of the process
  MaxFaults      \* bound: failures and stops

AnnouncementsAssumption ==
  /\ {DayLength, WeekDays, Recheck, MaxDelay, RetryDelay} \subseteq Nat \ {0}
  /\ {NumEntries, LastTime, MaxStarts, MaxFaults} \subseteq Nat

VARIABLES
  now, up,
  entriesFile,    \* the entries in the file; torn by a crash it cannot be read
  torn,
  entries,        \* the entries in memory
  timer,          \* when the timer fires and for which entry, 0 to choose again
  firing,         \* the entry being posted, the attempt, and when it is made
  since,          \* history: when this process started
  done,           \* history: <<entry, time>> that an announcement was attempted
  twice,          \* history: one of them was attempted once more
  busy,           \* history: moments at which an entry was being posted
  starts, faults  \* counters of the bounds

vars == <<now, up, entriesFile, torn, entries, timer, firing, since, done, twice, busy, starts, faults>>

Names == 1 .. NumEntries
Week == WeekDays * DayLength
None == [at |-> 0, entry |-> 0]
Idle == [entry |-> 0, attempt |-> 0, at |-> 0]

\* at is a second of the week, or of the calendar for a one-shot.
EntryRecords == [oneShot : BOOLEAN, at : 0 .. LastTime, enabled : BOOLEAN]
Configurations == {c \in [Names -> EntryRecords] : \A e \in Names : c[e].oneShot \/ c[e].at < Week}

Init ==
  /\ now = 0 /\ up = FALSE
  /\ entriesFile \in Configurations /\ torn = FALSE /\ entries = entriesFile
  /\ timer = None /\ firing = Idle
  /\ since = 0 /\ done = {} /\ twice = FALSE /\ busy = {}
  /\ starts = 0 /\ faults = 0

Fault == faults < MaxFaults /\ faults' = faults + 1

-----------------------------------------------------------------------------
(* The schedule.                                                           *)

\* getNextWeeklyFireTime
NextWeekly(entry, t) ==
  LET today == t \div DayLength
      daysAhead == ((entry.at \div DayLength) + WeekDays - (today % WeekDays)) % WeekDays
      candidate == (today + daysAhead) * DayLength + (entry.at % DayLength)
  IN IF daysAhead = 0 /\ candidate <= t THEN candidate + Week ELSE candidate

\* getNextFireTime: the times, at most one.
NextFireTime(entry, t) ==
  CASE ~entry.enabled -> {}
    [] entry.enabled /\ entry.oneShot -> IF entry.at <= t THEN {} ELSE {entry.at}
    [] OTHER -> {NextWeekly(entry, t)}

Fires(es, t) == UNION {{[at |-> x, entry |-> e] : x \in NextFireTime(es[e], t)} : e \in Names}

\* Mutant: the first in the file, whenever it is due.
EarliestInFile(fires) == CHOOSE f \in fires : \A g \in fires : f.entry <= g.entry

\* pickNextFires: the earliest, of the earliest the first in the file.
Earliest(fires) ==
  CHOOSE f \in fires : \A g \in fires : f.at < g.at \/ (f.at = g.at /\ f.entry <= g.entry)

ScheduleNext(es, t) ==
  LET fires == Fires(es, t)
      next == Earliest(fires)
  IN CASE fires = {} -> [at |-> t + Recheck, entry |-> 0]
       [] fires # {} /\ next.at - t > MaxDelay -> [at |-> t + MaxDelay, entry |-> 0]
       [] OTHER -> next

-----------------------------------------------------------------------------
(* The timer and what it posts.                                            *)

TimerFires == up /\ timer # None /\ now = timer.at

Rearm ==
  /\ TimerFires /\ timer.entry = 0
  /\ timer' = ScheduleNext(entries, now)
  /\ UNCHANGED <<now, up, entriesFile, torn, entries, firing, since, done, twice, busy, starts, faults>>

Fire ==
  /\ TimerFires /\ timer.entry # 0
  /\ firing' = [entry |-> timer.entry, attempt |-> 1, at |-> now]
  /\ timer' = None
  /\ done' = done \cup {<<timer.entry, now>>}
  /\ twice' = (twice \/ <<timer.entry, now>> \in done)
  /\ busy' = busy \cup {now}
  /\ UNCHANGED <<now, up, entriesFile, torn, entries, since, starts, faults>>

Sending == up /\ firing # Idle /\ firing.at <= now

\* fire ends, and the next entry is chosen: one that is due by now is not.
\* A file that cannot be written is logged.
Finish ==
  LET e == firing.entry
      left == IF entries[e].oneShot THEN [entries EXCEPT ![e].enabled = FALSE] ELSE entries
  IN /\ entries' = left
     /\ entriesFile' \in IF entries[e].oneShot THEN {left, entriesFile} ELSE {entriesFile}
     /\ timer' = ScheduleNext(left, now)
     /\ firing' = Idle
     /\ UNCHANGED <<now, up, torn, since, done, twice, busy, starts>>

Sent == Sending /\ Finish /\ (entriesFile' # entries' => Fault) /\ (entriesFile' = entries' => UNCHANGED faults)

\* No channel, or the request failed.
SendFails ==
  /\ Sending /\ Fault
  /\ \/ /\ firing.attempt = 1
        /\ firing' = [firing EXCEPT !.attempt = 2, !.at = now + RetryDelay]
        /\ UNCHANGED <<now, up, entriesFile, torn, entries, timer, since, done, twice, busy, starts>>
     \/ firing.attempt = 2 /\ Finish

-----------------------------------------------------------------------------
(* The clock and the process.                                              *)

Start ==
  /\ ~up /\ ~torn /\ starts < MaxStarts /\ starts' = starts + 1
  /\ up' = TRUE /\ entries' = entriesFile
  /\ timer' = ScheduleNext(entriesFile, now)
  /\ since' = now
  /\ UNCHANGED <<now, entriesFile, torn, firing, done, twice, busy, faults>>

Ended ==
  /\ up /\ Fault /\ up' = FALSE
  /\ timer' = None /\ firing' = Idle
  /\ UNCHANGED <<now, entriesFile, entries, since, done, twice, busy, starts>>

Stop == Ended /\ UNCHANGED torn

\* The process dies in writeFileSync: no later process gets past the load.
CrashInWrite == Sending /\ entries[firing.entry].oneShot /\ Ended /\ torn' = TRUE

\* Timers fire on time; a request takes a while.
Tick ==
  /\ now < LastTime /\ now' = now + 1
  /\ timer = None \/ now < timer.at
  /\ busy' = IF firing = Idle THEN busy ELSE busy \cup {now'}
  /\ UNCHANGED <<up, entriesFile, torn, entries, timer, firing, since, done, twice, starts, faults>>

Next == Rearm \/ Fire \/ Sent \/ SendFails \/ Start \/ Stop \/ CrashInWrite \/ Tick

Spec == Init /\ [][Next]_vars

-----------------------------------------------------------------------------
(* Properties.                                                             *)

(* The variables have their types.                                         *)
TypeOK ==
  /\ up \in BOOLEAN /\ torn \in BOOLEAN /\ twice \in BOOLEAN
  /\ entriesFile \in Configurations /\ entries \in Configurations
  /\ timer.at \in Nat /\ timer.entry \in 0 .. NumEntries
  /\ firing.entry \in 0 .. NumEntries /\ firing.attempt \in 0 .. 2 /\ firing.at \in Nat
  /\ done \subseteq Names \X (0 .. LastTime) /\ busy \subseteq 0 .. LastTime
  /\ {now, since, starts, faults} \subseteq Nat

IsTime(entry, t) == IF entry.oneShot THEN t = entry.at ELSE (t % Week) = entry.at

(* Every announcement is attempted at its times only, and once at each.    *)
(* While the process runs none of its times passes without an attempt,     *)
(* unless another entry was being posted at that moment: there is one      *)
(* timer, and what became due meanwhile is not made up for.                *)
EachInTurn ==
  /\ ~twice
  /\ \A d \in done : IsTime(entries[d[1]], d[2])
  /\ up => \A e \in Names, t \in since + 1 .. LastTime :
       t < now /\ entries[e].enabled /\ IsTime(entries[e], t) => <<e, t>> \in done \/ t \in busy

=============================================================================
