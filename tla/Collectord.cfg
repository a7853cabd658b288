CONSTANTS
  a = a
  b = b
  IPs = {a, b, d}
  FirstFile <- TwoNodes
  Conns = {c1, c2}
  MaxNodes = 2
  q_size = 3
  MaxItems = 3
  MaxChanges = 2
SPECIFICATION Spec
SYMMETRY Symmetry
CHECK_DEADLOCK FALSE
INVARIANTS
  TypeOK
  OneSlotPerNode
  ThreadRuns
  NamedBySender
  ItemsOnceInOrder
PROPERTY
  RingIsFifo
