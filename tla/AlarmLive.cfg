CONSTANTS
  Nodes = {n1}
  Watches <- OneItem
  Samples <- OffOn
  Secs <- TwoSecs
  Times = 2
  SleepSecs = 1
  Methods = {}
  EmailTimes = 1
  DbTimes = 0
  Threads = {t1, t2}
  MaxRows = 1
  MaxBuf = 1
CHECK_DEADLOCK FALSE
SPECIFICATION FairSpec
PROPERTIES
  SeriousAlarmSticks
  ThreadEnds
