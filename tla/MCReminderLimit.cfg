SPECIFICATION Spec
CONSTANTS
  open = open
  closed = closed
  Users = {open, closed}
  Reachable = {open}
  MaxPerUser = 1
  MaxDuration = 2
  ScanInterval = 2
  MaxTime = 2
  MaxAdds = 3
  MaxOverlap = 2
  MaxStarts = 1
  MaxFaults = 0
INVARIANT LimitHolds
CHECK_DEADLOCK FALSE
