CONSTANTS
  BufferSize = 20
  Channels = 2
  Desc = 2
  Spps = {1, 3}
  Jitter = 2
  Half = 64
  Amps <- AllAmps
  MaxLost = 3
  MaxSinks = 2
  MaxRead = 12
SPECIFICATION PlaybackSpec
PROPERTY SmoothDecay
