SPECIFICATION FairSpec
CONSTANTS
  InitsA = {"a"}
  InitsB = {"b"}
  Targets = {"t", "u"}
  Trans = {1, 2, 3}
  SelfNotify = FALSE
  Wirings <- MCWirings
  Loads <- MCLoads
CHECK_DEADLOCK FALSE
INVARIANTS TypeOK Silent Exclusion HeldAlive QueuesWatched
PROPERTY AllServed
