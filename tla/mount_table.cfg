CONSTANTS
  Names = {"m", "mx", "M", "f"}
  SegPrefix <- MCSegPrefix
  Lower <- MCLower
  ByteLen <- MCByteLen
  Filesystems = {fs1, fs2}
  MountArgs <- MCMountArgs
  Options <- MCOptions
  AbsPaths <- MCAbsPaths
SYMMETRY FilesystemSymmetry
SPECIFICATION TableSpec
INVARIANTS
  TableTypeOK
  UniquePaths
  SortedByLength
  LongestMatch
  MatchersAgree
  RelativeIsRest
  ResolvesAsMap
PROPERTY ImplementsMap
