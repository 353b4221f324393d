CONSTANTS
  MaxSources = 2
  MaxSinks = 1
  NodeSpp = 1
  Spps = {1, 2}
  Mult = 2
  Behind = 1
SPECIFICATION FairSpec
INVARIANT TablesAgree
INVARIANT EveryBlockFits
INVARIANT NotAhead
PROPERTY SourcesKeepSending
