SPECIFICATION PacketSpec
CONSTANTS
  Measurements <- Edges
  Consts = {14, 15}
  FrameCap = 40
INVARIANTS
  MeasurementIsRead
  SendersAreApart
  PlausibleIsValid
  QualityIsShare
