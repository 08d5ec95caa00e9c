SPECIFICATION Spec
CONSTANTS
  u1 = u1
  u2 = u2
  e1 = e1
  e2 = e2
  Emojis = {e1, e2}
  EmojiOrder <- MCOrder
  NoCache = NoCache
  NoAnswer = NoAnswer
  MaxQueue = 2
  Users = {u1}
  EmojiScope <- TwoScopes
  MaxMessages = 1
  MaxPolicy = 1
  MaxToggles = 2
  MaxStarts = 1
  MaxFaults = 0
INVARIANT RemovalStops
CHECK_DEADLOCK FALSE
