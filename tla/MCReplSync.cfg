SPECIFICATION FairSpec
CONSTANTS
  s1 = s1
  s2 = s2
  NoDump = NoDump
  Slaves <- TwoSlaves
  DBs <- TwoDBs
  MaxWrites = 2
  MaxSaves = 1
  MaxSyncs = 2
  MaxFaults = 2
INVARIANTS ExactUnlessInDoubt WaitersAgree WaitersHaveABgsave
PROPERTIES SyncEnds
CHECK_DEADLOCK FALSE
