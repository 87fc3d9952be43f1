SPECIFICATION FairSpec
CONSTANTS
  MaxSignals = 2
  Lower <- ToLower
  Decimal <- Numbers
  Hex <- HexWords
  Spelled <- NameOrder
  Lines <- WrittenLines
  MaxLines = 3
  OptionSets <- Options
INVARIANTS
  LineIsGivenBack
  FileOverridesOptions
  IgnoredAsWritten
  FirstSpellingCounts
  AloneAtTheEnd
  AbortTakesTwoSignals
PROPERTIES
  FlagEndsProgram
  LedGoesOut
CHECK_DEADLOCK FALSE
