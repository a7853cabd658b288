CONSTANTS
  N = 2
  Collectors = {c1}
  Queriers = {q1}
  MAX_NODE_DATA_COUNT = 1
  MAX_RTD_REQUEST = 1
  RERECV_TIMES = 1
  NETWORK_RECOVERY_RETRY_TIMES = 2
  INTERVAL = 1
  MaxPackets = 1
  MaxTicks = 1
  MaxNames = 1
SPECIFICATION FairSpec
PROPERTIES
  DbRoundEnds
  SilentReceiverLeaves
  QueryEnds
