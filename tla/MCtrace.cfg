SPECIFICATION FairSpec
CONSTANTS
  Files <- MCFiles
  CpuNums = {1, 2, 3}
  Garbage = {0, 1, 3}
  Modulus = 4
INVARIANTS TypeOK FinishedCount StopMeansDone LaneRead AllCounted
PROPERTY Ends
