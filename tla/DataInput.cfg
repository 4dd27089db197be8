CONSTANTS
  Columns = {"geo"}
  None = None
  Full = 2
  MaxDrops = 2
  MaxOpens = 2
SPECIFICATION FairSpec
INVARIANTS LeftAsFound AddedHasGeometry
PROPERTIES WaitingFileKept IntervalsStop
CHECK_DEADLOCK FALSE
