SPECIFICATION HSpec
CONSTANTS
  Senders = {s1}
  Readings = {r1, r2}
  Blank = blank
  Garbage = {blank}
  ZeroSender = s0
  FrameCap = 2
  ReadingMaxAge = 1
  SilentTimeout = 2
  AgeModulus = 64
  MaxAge = 3
  MaxLag = 0
  ClockSteps <- NoClockSteps
  Substitutes <- NoSubstitutes
  Ignored = {}
  MinimumFrames = 2
  Discovery = TRUE
  NoReading = none
  FirstLinks = {"connecting"}
  FaultBounds <- TwoFaults
CONSTANTS
  s1 = s1
  s2 = s2
  shared = shared
INVARIANTS
  GatewayTypeOK
  NobodyForgotten
  OfflineAtExit
  GatewayCreatedFirst
  ListedIsCreated
PROPERTIES
  CreatedBeforeReading
  PublishedWasReceived
