CONSTANTS
  BaseFiles <- Files
  MonitorLists <- AnyOrder
  Installs <- Nodes2
  ScriptLines <- PrintedLines
  MaxRounds = 2
SPECIFICATION FairSpec
CHECK_DEADLOCK FALSE
INVARIANTS
  RowColumnsAgree
  QueryColumnsAgree
PROPERTY
  StartUpEnds
