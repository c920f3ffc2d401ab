SPECIFICATION FairSpec
CONSTANTS
  Buses <- Machines
  PciMaxDevices = 3
  MaxDevices = 3
  Width = 3
  Height = 8
  ThemeCount = 3
  HelpRows = {2, 3, 5}
  BufferSize = 5
  MaxListed = 3
  Contents <- Texts
  LogsAtPowerOn <- Memories
CHECK_DEADLOCK FALSE
INVARIANTS PromptShown
