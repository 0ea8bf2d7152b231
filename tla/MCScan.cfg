SPECIFICATION TickSpec
CONSTANTS
  Counts = {1, 2, 3, 4, 5, 6, 7}
  MaxDepth = 20
  Size <- MCSize
  MaxSteps = 5500
INVARIANTS
  Lexicographic
  ScanSucceeds
  EveryGraph
PROPERTIES
  SeedSpec
  ScanEnds
