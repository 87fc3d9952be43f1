SPECIFICATION HSpec
CONSTANTS
  Senders = {s1, s2}
  Readings = {r1, r2}
  Blank = blank
  Garbage = {blank}
  ZeroSender = s0
  FrameCap = 3
  ReadingMaxAge = 2
  SilentTimeout = 3
  AgeModulus = 64
  MaxAge = 5
  MaxLag = 1
  MaxSteps = 0
  ClockSteps <- NoClockSteps
INVARIANTS
  TypeOK
  KeyMatchesPacket
  CountsConsecutiveFrames
PROPERTIES
  ReportsFinishedBurst
  BurstIsReported
  SilentOrOvertaken
