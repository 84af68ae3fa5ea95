SPECIFICATION FairSpec
CONSTANTS
  Clients = {c1}
  DBs = {0, 1}
  MaxWrites = 2
  MaxForks = 2
  MaxSaves = 1
  MaxSwitches = 2
  MaxCrashes = 0
INVARIANTS ChildrenKnown StaleFdNeverWritten
CHECK_DEADLOCK FALSE
PROPERTIES RewriteReaped
