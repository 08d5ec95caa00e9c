----------------------------- MODULE Retention -----------------------------
(***************************************************************************)
(* Which snapshots planRetention keeps.  A snapshot is the second it was   *)
(* made.  A week and a month are used both as ages, which put a snapshot   *)
(* in a tier, and as groups, of which a tier keeps the newest ones with    *)
(* the newest snapshot each.                                               *)
(***************************************************************************)
EXTENDS Naturals, FiniteSets

CONSTANTS
  DayLength, WeekLength, MonthLength,               \* seconds
  DailyRetention, WeeklyRetention, MonthlyRetention \* groups that a tier keeps

ASSUME RetentionAssumption ==
  /\ {DayLength, WeekLength, MonthLength} \subseteq Nat \ {0}
  /\ DayLength <= WeekLength /\ WeekLength <= MonthLength
  /\ {DailyRetention, WeeklyRetention, MonthlyRetention} \subseteq Nat \ {0}

Age(t, now) == now - t
DailyCandidates(snapshots, now) == {t \in snapshots : Age(t, now) < WeekLength}

\* Mutant: a snapshot of exactly a week is in no tier.
WeeklyCandidatesOlder(snapshots, now) ==
  {t \in snapshots : Age(t, now) > WeekLength /\ Age(t, now) < MonthLength}

WeeklyCandidates(snapshots, now) == {t \in snapshots : Age(t, now) >= WeekLength /\ Age(t, now) < MonthLength}
MonthlyCandidates(snapshots, now) == {t \in snapshots : Age(t, now) >= MonthLength}

\* The newest snapshot of each of the newest groups, a group being as many
\* seconds as length.
PickTierKeep(eligible, length, limit) ==
  {t \in eligible :
     /\ \A s \in eligible : s \div length = t \div length => s <= t
     /\ Cardinality({s \div length : s \in {r \in eligible : r \div length > t \div length}}) < limit}

Keep(snapshots, now) ==
  PickTierKeep(DailyCandidates(snapshots, now), DayLength, DailyRetention)
    \cup PickTierKeep(WeeklyCandidates(snapshots, now), WeekLength, WeeklyRetention)
    \cup PickTierKeep(MonthlyCandidates(snapshots, now), MonthLength, MonthlyRetention)

=============================================================================
