SPECIFICATION FairSpec
CONSTANTS
  TotalClusters = 3
  NumFats = 1
  FatPerSector = 3
  RootEntries = 2
  RootPerSector = 1
  ClusterEntries = 3
  ClusterSize = 2
  BufferSize = 2
  Sizes = {0, 3}
  Names = {docs, info}
  Payloads = {p, q}
  NoPayload = none
  SeedDir = docs
  SeedFile = info
  SeedPayload = p
  MayFail = {"mount", "data"}
  RestartFrom = {"idle", "alloc", "fill", "entry", "returned", "halted"}
CHECK_DEADLOCK FALSE
INVARIANTS TypeOK NoCrossLink DirectoriesSound AllocatedIffHeld DiskSound BystandersOnDisk OkMeansFlushed
PROPERTIES CallsReturn ImplementsFileStore
