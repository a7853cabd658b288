CONSTANTS
  IPs = {a, b, c}
  MaxFd = 2
  MaxChanges = 2
  MaxFaults = 1
SPECIFICATION Spec
SYMMETRY Symmetry
CONSTRAINT FewerFaults
CHECK_DEADLOCK FALSE
INVARIANTS
  IpsDistinct
  OwnSocket
PROPERTY
  RemovesDeleted
