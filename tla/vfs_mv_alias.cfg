CONSTANTS
  Names = {"m", "mx", "f", "g"}
  SegPrefix <- MCSegPrefix
  Lower <- MCLower
  ByteLen <- MCByteLen
  Filesystems = {fs1, fs2}
  MountArgs <- PairArgs
  Options <- JustRW
  AbsPaths <- MovePaths
  Half = 4
  Bytes = {"a", "b"}
  Zero = zero
  OpenArgs = {}
  Args = {}
  FlagSets = {}
  Writes = {}
  ReadLens = {}
  Seeks = {}
  CopyPairs <- MovePairs
  InitTrees <- MoveTrees
  MaxOpenFiles = 0
  MaxFileSize = 2
  ShortWrites = FALSE
  None = None
SPECIFICATION VfsSpec
PROPERTY MvArrives
CHECK_DEADLOCK FALSE
