SPECIFICATION ReceptionSpec
CONSTANTS
  PacketBits = 4
  PulseHigh = 5
  LowZero = 10
  LowOne = 20
  SyncGap = 40
  Tolerance = 3
  MaxSince = 45
  Jitters <- SmallJitters
  SpikeAt <- SpikeTimes
  SpikeWidth = 1
  Deltas <- Windows
INVARIANTS
  DecoderTypeOK
  NoStaleBits
PROPERTIES
  OnlySentFrames
  SeenFrameIsStored
