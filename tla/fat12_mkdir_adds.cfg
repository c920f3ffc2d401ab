SPECIFICATION Spec
CONSTANTS
  TotalClusters = 3
  NumFats = 2
  FatPerSector = 3
  RootEntries = 2
  RootPerSector = 1
  ClusterEntries = 3
  ClusterSize = 2
  BufferSize = 2
  Sizes = {0, 1, 3}
  Names = {docs, info}
  Payloads = {p}
  NoPayload = none
  SeedDir = docs
  SeedFile = info
  SeedPayload = p
  MayFail = {"dir"}
  RestartFrom = {}
CHECK_DEADLOCK FALSE
PROPERTIES MkdirOnlyAdds
