CONSTANTS
  MaxTasks = 4
  Waits <- MCWaits
  SapUndoWait = 1
  LookMax = 1
  Period = 2
  Second = 3
  Jumps <- MCJumps
  BackMax = 2
  BehindMax = 2
  PutOff = TRUE
SPECIFICATION FramesSpec
INVARIANT RunningTogether
 
INVARIANT StopsInTime
INVARIANT OnGrid
INVARIANT SilenceIsBounded
PROPERTY RestartWorks
PROPERTY FramesGoOn
