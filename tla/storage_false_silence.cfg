SPECIFICATION HSpec
CONSTANTS
  Senders = {s1}
  Readings = {r1}
  Blank = blank
  Garbage = {blank}
  ZeroSender = s0
  FrameCap = 2
  ReadingMaxAge = 2
  SilentTimeout = 3
  AgeModulus = 64
  MaxAge = 5
  MaxLag = 1
  MaxSteps = 0
  ClockSteps <- NoClockSteps
PROPERTIES
  RemovedOnlyIfSilent
