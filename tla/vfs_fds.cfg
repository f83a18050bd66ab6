CONSTANTS
  Names = {"m", "mx", "f"}
  SegPrefix <- MCSegPrefix
  Lower <- MCLower
  ByteLen <- MCByteLen
  Filesystems = {fs1, fs2}
  MountArgs <- NestedArgs
  Options <- JustRW
  AbsPaths <- NestedPaths
  Half = 4
  Bytes = {a}
  Zero = zero
  OpenArgs <- FdArgs
  Args <- CdArgs
  FlagSets <- CreateFlags
  Writes = {}
  ReadLens = {}
  Seeks = {}
  CopyPairs = {}
  InitTrees <- RoomyTrees
  MaxOpenFiles = 2
  MaxFileSize = 0
  ShortWrites = FALSE
  None = None
SYMMETRY FilesystemSymmetry
SPECIFICATION VfsSpec
INVARIANT NoDanglingFd
PROPERTIES
  OnlyMountRedirects
  ImplementsFdTable
CHECK_DEADLOCK FALSE
