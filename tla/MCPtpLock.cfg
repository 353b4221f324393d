CONSTANTS
  Gms = {g}
  Own = own
  None = none
  LockedStableCount = 4
  MonitorInterval = 5
  StopWait = 6
  StatusTimeout = 10
  AnswerMax = 5
  Monitors = {1, 2}
SPECIFICATION FairSpec
INVARIANT AnswersAreAwaited
INVARIANT ReportedIsCurrent
INVARIANT StoppedIsUnlocked
PROPERTY LockIsEarned
PROPERTY LockFollowsClock
