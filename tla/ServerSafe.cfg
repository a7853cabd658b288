CONSTANTS
  N = 2
  Collectors = {c1, c2}
  Queriers = {q1, q2}
  MAX_NODE_DATA_COUNT = 1
  MAX_RTD_REQUEST = 1
  RERECV_TIMES = 0
  NETWORK_RECOVERY_RETRY_TIMES = 2
  INTERVAL = 1
  MaxPackets = 3
  MaxTicks = 2
  MaxNames = 2
SPECIFICATION Spec
SYMMETRY Symmetry
CONSTRAINT FewerPeers
INVARIANTS
  TypeOK
  BufferBound
  RecentIsNewest
  ActiveHasReceiver
  RowsInOrder
  RowTimesGrow
  RtdLimit
  MutexOwners
