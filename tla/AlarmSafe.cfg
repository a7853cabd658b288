CONSTANTS
  Nodes = {n1}
  Watches <- OneItem
  Samples <- TwoLevels
  Secs <- OneSec
  Times = 2
  SleepSecs = 1
  Methods = {"email"}
  EmailTimes = 1
  DbTimes = 0
  Threads = {t1, t2}
  MaxRows = 1
  MaxBuf = 2
CHECK_DEADLOCK FALSE
SPECIFICATION Spec
SYMMETRY Symmetry
INVARIANTS
  TypeOK
  OneAlarming
  SeriousStopsTimers
  LengthCoversBuffer
