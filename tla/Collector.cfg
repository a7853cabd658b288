CONSTANTS
  N = 2
  Collectors = {c1, c2, c3}
  Queriers = {}
  MAX_NODE_DATA_COUNT = 0
  MAX_RTD_REQUEST = 1
  RERECV_TIMES = 0
  NETWORK_RECOVERY_RETRY_TIMES = 3
  INTERVAL = 1
  MaxPackets = 2
  MaxTicks = 0
  MaxNames = 0
  MaxSamples = 3
  MaxFaults = 1
SPECIFICATION SysSpec
SYMMETRY Symmetry
CONSTRAINT SplitsAlone
CHECK_DEADLOCK FALSE
INVARIANTS
  SysTypeOK
  FiledUnderOwner
  OneUsableReceiver
  AheadBySplits
PROPERTIES
  RefusedForAbandoned
  AbortsTolerated
