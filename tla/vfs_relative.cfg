CONSTANTS
  Names = {"m", "mx", "f"}
  SegPrefix <- MCSegPrefix
  Lower <- MCLower
  ByteLen <- MCByteLen
  Filesystems = {fs1, fs2}
  MountArgs <- NestedArgs
  Options <- JustRW
  AbsPaths <- NestedPaths
  Half = 4
  Bytes = {"a"}
  Zero = zero
  OpenArgs <- FdArgs
  Args = {}
  FlagSets <- CreateFlags
  Writes = {}
  ReadLens = {}
  Seeks = {}
  CopyPairs = {}
  InitTrees <- RoomyTrees
  MaxOpenFiles = 2
  MaxFileSize = 2
  ShortWrites = FALSE
  None = None
SPECIFICATION VfsSpec
INVARIANT RelativeToMount
CHECK_DEADLOCK FALSE
