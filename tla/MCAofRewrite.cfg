SPECIFICATION Spec
CONSTANTS
  Clients = {c1}
  DBs = {0, 1}
  MaxWrites = 3
  MaxForks = 1
  MaxSaves = 0
  MaxSwitches = 0
  MaxCrashes = 1
INVARIANTS AofExactUnlessDoubled CrashLosesOneTurn
CHECK_DEADLOCK FALSE
