SPECIFICATION HSpec
CONSTANTS
  Senders = {s1}
  Readings = {r1}
  Blank = blank
  Garbage = {blank}
  ZeroSender = s0
  FrameCap = 1
  ReadingMaxAge = 1
  SilentTimeout = 1
  AgeModulus = 64
  MaxAge = 2
  MaxLag = 0
  ClockSteps <- NoClockSteps
  Substitutes <- NoSubstitutes
  Ignored = {}
  MinimumFrames = 1
  Discovery = TRUE
  NoReading = none
  FirstLinks = {"connecting"}
  FaultBounds <- NoFault
CONSTANTS
  s1 = s1
  s2 = s2
  shared = shared
INVARIANTS
  GoneIsOffline
