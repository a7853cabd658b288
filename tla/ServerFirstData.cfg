CONSTANTS
  N = 2
  Collectors = {c1, c2}
  Queriers = {}
  MAX_NODE_DATA_COUNT = 1
  MAX_RTD_REQUEST = 1
  RERECV_TIMES = 0
  NETWORK_RECOVERY_RETRY_TIMES = 2
  INTERVAL = 1
  MaxPackets = 2
  MaxTicks = 1
  MaxNames = 0
SPECIFICATION Spec
INVARIANTS
  FirstDataExists
