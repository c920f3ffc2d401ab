SPECIFICATION Spec
CONSTANTS
  TotalClusters = 3
  NumFats = 2
  FatPerSector = 4
  RootEntries = 2
  RootPerSector = 1
  ClusterEntries = 3
  ClusterSize = 2
  BufferSize = 2
  Sizes = {3}
  Names = {docs, info}
  Payloads = {p}
  NoPayload = none
  SeedDir = docs
  SeedFile = info
  SeedPayload = p
  MayFail = {"mount", "dir", "flush"}
  RestartFrom = {"idle", "alloc", "fill", "entry", "root", "fats", "returned", "halted"}
CONSTRAINT Consistent
INVARIANTS Durable FlushProgress
PROPERTIES FlushMirrors
