SPECIFICATION FairSpec
CONSTANTS
  u1 = u1
  u2 = u2
  Members <- Pair
  YearLength = 3
  LastDay = 4
  MaxCommands = 3
  NumEntries = 2
  DayLength = 2
  WeekDays = 2
  Recheck = 1
  MaxDelay = 2
  RetryDelay = 1
  Stacks <- Pair
  ErrorWindow = 2
  MaxPerWindow = 2
  Deadline = 2
  MaxErrors = 4
  Repos <- Pair
  RequestWindow = 2
  MaxRequests = 4
  Messages <- Pair
  Threshold = 2
  MaxStars = 3
  GameStaleAfter = 2
  GameInterval = 2
  Tracks <- Pair
  TrackStaleAfter = 2
  TrackInterval = 2
  NumSources = 2
  MaxVersion = 2
  MaxPasses = 3
  Keys <- Pair
  Values <- Pair
  MaxEdits = 2
  MaxReads = 2
  WeekLength = 6
  MonthLength = 14
  DailyRetention = 3
  WeeklyRetention = 2
  MonthlyRetention = 2
  Offsets <- Early
  LastArchiveDay = 9
  MaxMissed = 2
  MaxStarts <- Starts
  MaxFaults <- Faults
  LastTime <- Ends
  MaxPresences <- Presences
  MaxUpdates <- Twice
INVARIANT TypesOK
INVARIANT RegisteredIsSaved
INVARIANT RoleEndsWithTheDay
PROPERTY Celebrated
INVARIANT EachInTurn
PROPERTY LimitsHold
INVARIANT RepostedOnce
INVARIANT NoGhosts
INVARIANT EmbedIsCurrent
PROPERTY NeverOlder
INVARIANT SettlesOnFile
INVARIANT RecentKept
CHECK_DEADLOCK FALSE
