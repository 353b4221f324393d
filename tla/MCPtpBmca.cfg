CONSTANTS
  a = a
  b = b
  c = c
  Nodes = {a, b, c}
  None = None
  Fields = {1, 2, 3}
  Identity <- SameFirmware
  Me = c
  Scale <- OneScale
  Astray = "astray"
  Copies = 2
SPECIFICATION ClientFairSpec
INVARIANT NoMutualSlaves
INVARIANT DelayIsOfOneMaster
INVARIANT StaysWithSource
PROPERTY OneGrandmaster
PROPERTY ComesBackInStep
