SPECIFICATION Spec
CONSTANTS
  DayLength = 1
  WeekLength = 7
  MonthLength = 30
  DailyRetention = 7
  WeeklyRetention = 4
  MonthlyRetention = 12
  Offsets = {0}
  LastDay = 80
  MaxMissed = 0
INVARIANT MonthsKept
CHECK_DEADLOCK FALSE
