SPECIFICATION FairSpec
CONSTANTS
  MaxSignals = 1
  Lower <- ToLower
  Decimal <- Numbers
  Hex <- HexWords
  Spelled <- NameOrder
  Lines <- LedLines
  MaxLines = 2
  OptionSets <- NoOption
PROPERTIES
  SignalEndsProgram
CHECK_DEADLOCK FALSE
