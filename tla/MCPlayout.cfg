CONSTANTS
  BufferSize = 20
  Channels = 2
  Desc = 2
  Spps = {1, 3}
  Jitter = 2
  Half = 64
  Amps <- AllAmps
  MaxLost = 3
  MaxSinks = 3
  MaxRead = 12
SPECIFICATION PlaybackSpec
INVARIANT StaysStereo
INVARIANT StretchIsBounded
PROPERTY EndsInSilence
PROPERTY AppIsFed
