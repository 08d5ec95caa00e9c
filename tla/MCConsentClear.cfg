SPECIFICATION Spec
CONSTANTS
  u1 = u1
  u2 = u2
  e1 = e1
  e2 = e2
  Emojis = {e1, e2}
  EmojiOrder <- MCOrder
  NoCache = NoCache
  NoAnswer = NoAnswer
  MaxQueue = 2
  Users = {u1}
  EmojiScope <- TwoScopes
  MaxMessages = 2
  MaxPolicy = 1
  MaxToggles = 3
  MaxStarts = 3
  MaxFaults = 0
PROPERTY ClearComplete
CHECK_DEADLOCK FALSE
