SPECIFICATION DataSpec
CONSTANTS
  u1 = u1
  u2 = u2
  e1 = e1
  e2 = e2
  p1 = p1
  p2 = p2
  Users = {u1, u2}
  Emojis = {e1, e2}
  EmojiOrder <- MCOrder
  EmojiScope <- TwoScopes
  NoCache = NoCache
  NoAnswer = NoAnswer
  MaxQueue = 2
  MaxMessages = 2
  MaxPolicy = 1
  MaxToggles = 3
  MaxStarts = 2
  MaxFaults = 1
  Polls = {p1, p2}
  Options = {1, 2}
  MaxEdits = 2
  MaxActs = 4
  MaxRevokes = 1
  MaxPollStarts = 2
  MaxPollFaults = 1
  SessionPhases <- ShortestPhases
  DayLength = 6
  DailyStart = 1
  NoSession = NoSession
  MaxTime = 7
  MaxSkips = 0
  MaxConsents = 2
  MaxSessionStarts = 1
  MaxSessionFaults = 0
SYMMETRY UserSymmetry
INVARIANT TypeOK
INVARIANT CacheCoherent
INVARIANT GrantProvenance
INVARIANT InSync
PROPERTY UnrecognisedPreserved
PROPERTY OthersUntouched
PROPERTY GrantsDurable
INVARIANT PollTypeOK
INVARIANT ToldIsSaved
INVARIANT ShownOnceQuiet
PROPERTY NamedByConsent
INVARIANT AttendanceProvenance
INVARIANT AttendanceKept
CHECK_DEADLOCK FALSE
