CONSTANTS
  n1 = n1
  n2 = n2
  Nodes = {n1, n2}
  Keys <- MCKeys
  None = None
  MaxRemote = 2
  TxInterval = 1
  SelectTimeout = 2
  Timeout = 4
  MaxMissed = 3
  InboxMax = 2
SPECIFICATION DiscoverySpec
INVARIANT EventsMatchTable
INVARIANT SilenceIsNoticed
INVARIANT NoneIsMissed
 
PROPERTY NoFalseLoss
