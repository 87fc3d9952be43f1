SPECIFICATION HFairSpec
CONSTANTS
  Senders = {s1, s2}
  Readings = {r1}
  Blank = blank
  Garbage = {blank}
  ZeroSender = s0
  FrameCap = 2
  ReadingMaxAge = 1
  SilentTimeout = 2
  AgeModulus = 64
  MaxAge = 4
  MaxLag = 1
  MaxSteps = 2
  ClockSteps <- ClockJumps
PROPERTIES
  ImplementsRegistry
  SilenceIsNoticed
