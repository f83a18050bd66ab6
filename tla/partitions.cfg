CONSTANTS
  Half = 8
  SectorSize = 2
  Headers <- MCHeaders
  Arrays <- MCArrays
  Mbrs <- MCMbrs
  Types = {"linux", "efi", "protective"}
  Unused = "unused"
  Garbage <- MCGarbage
  Requests <- MCRequests
  Builds = {TRUE, FALSE}
SPECIFICATION DeviceSpec
INVARIANTS
  PartitionsTypeOK
  ViewConfined
  DetectionAgrees
  DetectionLists
PROPERTIES
  ViewServesAll
  ValidGptIsListed
CHECK_DEADLOCK FALSE
