CONSTANTS
  Half = 8
  SectorSize = 2
  Headers <- MCHeaders
  Arrays <- MCArrays
  Mbrs <- MCMbrs
  Types = {"linux", "efi", "protective"}
  Unused = "unused"
  Garbage <- MCGarbage
  Requests <- MCRequests
  Builds = {FALSE}
SPECIFICATION DeviceSpec
INVARIANT ViewRestricted
CHECK_DEADLOCK FALSE
