SPECIFICATION FairSpec
CONSTANTS
  Users <- Nobody
  Phases <- ShortPhases
  DayLength = 10
  DailyStart = 4
  NoSession = NoSession
  MaxTime = 11
  MaxStarts = 2
  MaxSkips = 1
  MaxConsents = 2
  MaxFaults = 1
INVARIANT TypeOK
INVARIANT EarlyOnlyBySkip
PROPERTY StartsClean
PROPERTY OncePerDay
PROPERTY EachDay
CHECK_DEADLOCK FALSE
