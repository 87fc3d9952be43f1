SPECIFICATION HSpec
CONSTANTS
  Senders = {s1, s2}
  Readings = {r1}
  Blank = blank
  Garbage = {blank}
  ZeroSender = s0
  FrameCap = 1
  ReadingMaxAge = 1
  SilentTimeout = 2
  AgeModulus = 64
  MaxAge = 3
  MaxLag = 0
  ClockSteps <- NoClockSteps
  Substitutes <- MergeIds
  Ignored = {s1}
  MinimumFrames = 1
  Discovery = TRUE
  NoReading = none
  FirstLinks = {"connecting"}
  FaultBounds <- RestartOrCrash
CONSTANTS
  s1 = s1
  s2 = s2
  shared = shared
INVARIANTS
  OnlineMeansListed
PROPERTIES
  ImplementsAvailability
  CountIsHeard
  PublishedWasReceived
