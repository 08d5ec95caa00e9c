SPECIFICATION Spec
CONSTANTS
  Users <- Nobody
  Phases <- ShortPhases
  DayLength = 10
  DailyStart = 4
  NoSession = NoSession
  MaxTime = 11
  MaxStarts = 1
  MaxSkips = 1
  MaxConsents = 0
  MaxFaults = 1
INVARIANT ActiveOnlyWhileRunning
CHECK_DEADLOCK FALSE
