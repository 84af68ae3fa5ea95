SPECIFICATION Spec
CONSTANTS
  NoDump = NoDump
  Blocks = 2
  MaxWrites = 2
  MaxLocal = 1
  MaxChildren = 1
  MaxSwitches = 1
  MaxFaults = 1
  MaxCrashes = 1
INVARIANTS CopiesAgreeUnlessInDoubt
PROPERTIES SlaveSettles
CHECK_DEADLOCK FALSE
