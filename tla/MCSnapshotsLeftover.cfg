SPECIFICATION Spec
CONSTANTS
  u1 = u1
  Users = {u1}
  DayLength = 3
  WeekLength = 6
  MonthLength = 9
  DailyRetention = 2
  WeeklyRetention = 1
  MonthlyRetention = 1
  StartSecond = 1
  LastSecond = 2
  MaxStores = 1
  MaxDeletes = 2
  MaxStarts = 1
  MaxFaults = 0
PROPERTY FreshIsNoLeftover
CHECK_DEADLOCK FALSE
