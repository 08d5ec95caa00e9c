SPECIFICATION FairSpec
CONSTANTS
  open = open
  closed = closed
  Users = {open, closed}
  Reachable = {open}
  MaxPerUser = 1
  MaxDuration = 2
  ScanInterval = 2
  MaxTime = 2
  MaxAdds = 3
  MaxOverlap = 2
  MaxStarts = 2
  MaxFaults = 1
INVARIANT TypeOK
INVARIANT LimitWhenPatient
INVARIANT AcceptedKept
INVARIANT NeverOversleeps
PROPERTY DeliveredOnce
PROPERTY NoBusyLoop
PROPERTY DueIsSent
CHECK_DEADLOCK FALSE
