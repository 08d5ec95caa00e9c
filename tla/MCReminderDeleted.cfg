SPECIFICATION Spec
CONSTANTS
  open = open
  closed = closed
  Users = {open, closed}
  Reachable = {open}
  MaxPerUser = 1
  MaxDuration = 2
  ScanInterval = 2
  MaxTime = 2
  MaxAdds = 2
  MaxOverlap = 1
  MaxStarts = 1
  MaxFaults = 0
INVARIANT DeletedStaysDeleted
CHECK_DEADLOCK FALSE
