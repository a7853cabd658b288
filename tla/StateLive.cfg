CONSTANTS
  IPs = {a, b}
  MaxFd = 2
  MaxChanges = 0
  MaxFaults = 1
SPECIFICATION FairSpec
CHECK_DEADLOCK FALSE
PROPERTY
  DeadNodeShown
