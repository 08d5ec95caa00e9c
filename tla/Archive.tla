------------------------------ MODULE Archive ------------------------------
(***************************************************************************)
(* The snapshots of the daily timer over months: each day one snapshot is  *)
(* taken, a little later or earlier in the day than before, and the plan   *)
(* is applied to what the plans of the days before have left.              *)
(***************************************************************************)
EXTENDS Retention

CONSTANTS
  Offsets,  \* seconds of the day in which the snapshot may be taken
  LastDay,   \* bound: the days end there
  MaxMissed  \* bound: days without a process

ArchiveAssumption == Offsets \subseteq 0 .. DayLength - 1 /\ {LastDay, MaxMissed} \subseteq Nat

VARIABLES
  day,        \* the day to come
  offset,     \* when the last snapshot was taken in its day
  snapshots,  \* those on the disk
  made,       \* history: all snapshots that were taken
  steady,     \* history: no snapshot was taken earlier in the day than the one before
  missedDays  \* counter of the bound

vars == <<day, offset, snapshots, made, steady, missedDays>>

Init == day = 0 /\ offset = 0 /\ snapshots = {} /\ made = {} /\ steady = TRUE /\ missedDays = 0

\* runSnapshotOnce on a day of the schedule.
TakeSnapshot(o) ==
  LET t == day * DayLength + o
  IN /\ day < LastDay /\ day' = day + 1
     /\ snapshots' = Keep(snapshots \cup {t}, t)
     /\ made' = made \cup {t}
     /\ offset' = o
     /\ steady' = (steady /\ o >= offset)
     /\ UNCHANGED missedDays

\* The process is down that day.
MissDay ==
  /\ day < LastDay /\ day' = day + 1
  /\ missedDays < MaxMissed /\ missedDays' = missedDays + 1
  /\ UNCHANGED <<offset, snapshots, made, steady>>

Next == MissDay \/ \E o \in Offsets : TakeSnapshot(o)

Spec == Init /\ [][Next]_vars

-----------------------------------------------------------------------------
(* Properties.                                                             *)

(* The variables have their types.                                         *)
TypeOK ==
  /\ day \in 0 .. LastDay /\ offset \in 0 .. DayLength - 1
  /\ snapshots \subseteq made /\ made \subseteq 0 .. LastDay * DayLength
  /\ steady \in BOOLEAN /\ missedDays \in 0 .. MaxMissed

Latest == CHOOSE t \in made : \A s \in made : s <= t

(* Plan after plan, no snapshot is deleted that the plan would keep had    *)
(* none been deleted: the newest days are all there, and, when the daily   *)
(* snapshots reach back for a week, the newest weeks before them.  Where a *)
(* snapshot comes earlier in the day than the one of a week ago, that one  *)
(* is still a daily snapshot, one too many.                                *)
RecentKept ==
  steady /\ made # {} =>
    LET now == Latest
    IN /\ PickTierKeep(DailyCandidates(made, now), DayLength, DailyRetention) \subseteq snapshots
       /\ WeekLength <= DailyRetention * DayLength =>
            PickTierKeep(WeeklyCandidates(made, now), WeekLength, WeeklyRetention) \subseteq snapshots

(* The comment: "7 daily / 4 weekly / 12 monthly" means 12 distinct months. *)
(* Of each of the newest months before the weeks a snapshot is left.       *)
MonthsKept ==
  steady /\ made # {} =>
    LET now == Latest
    IN \A t \in PickTierKeep(MonthlyCandidates(made, now), MonthLength, MonthlyRetention) :
         \E s \in snapshots : s \div MonthLength = t \div MonthLength

=============================================================================
