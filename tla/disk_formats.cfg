SPECIFICATION FormatsSpec
CONSTANTS
  FatSizeBytes = 7
  BufferBytes = 8
  MaxCluster = 4
  Values = {0, 1450, 6826}
  Letters = {"a"}
  Upper <- UpperOf
  Bad = {}
  BaseLen = 2
  ExtLen = 1
  TempLen = 5
  MaxTyped = 6
  SeedNames <- Seeds
INVARIANTS TakesExactly83 ShownNameResolves SameOnlyByCase
PROPERTIES WritesOneEntry
