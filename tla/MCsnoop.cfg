SPECIFICATION FairSpec
CONSTANTS
  Size = 3
  SnoopLast = 1
  Accesses = 6
  MaxCount = 5
  Quantum = 2
  First = {"initiator1"}
CHECK_DEADLOCK FALSE
INVARIANTS TypeOK SnoopArmed NoWriteRegion CacheFresh
PROPERTIES CopyRefreshed
