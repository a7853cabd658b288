CONSTANTS
  Intervals = {300}
  MaxScripts = 2
  MaxMade = 1
  MaxFile = 2
  MaxFaults = 2
  MaxReconfigs = 1
SPECIFICATION FairSpec
INVARIANTS
  AnswerForThis
  Accounted
PROPERTIES
  FileDrains
  IntervalAskedAgain
