SPECIFICATION FairSpec
CONSTANTS
  SectorCount = 3
  Values = {0, 1}
  Blank = 0
  CountLimit = 2
  MaxCount = 3
  MaxCalls = 2
  DriveMay = {"error", "fault", "late", "not_ready"}
CHECK_DEADLOCK FALSE
INVARIANTS TypeOK DriveFree OkMeansTransferred
PROPERTIES WritesInside CountedOnce CallsReturn
