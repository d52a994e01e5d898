SPECIFICATION SendingSpec
CONSTANTS
  Header = 24
  Cases <- Sound
  DestCounts = {1, 2, 5}
  Copies = 2
  Starts <- SomeStarts
  MaxSent = 20
  MaxLag = 3
  MaxGap = 20
  MayRestart = TRUE
INVARIANTS EveryoneHears
PROPERTIES PlayedSoon
CHECK_DEADLOCK FALSE
