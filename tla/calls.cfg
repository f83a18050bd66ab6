CONSTANTS
  Names = {"m", "mx", "f", "g"}
  SegPrefix <- MCSegPrefix
  Lower <- MCLower
  ByteLen <- MCByteLen
  Filesystems = {fs1, fs2}
  MountArgs <- PairArgs
  Options <- WritableOrNot
  AbsPaths <- CallPaths
  Half = 4
  Bytes = {"a", "b"}
  Zero = "0"
  OpenArgs = {}
  Args = {}
  FlagSets = {}
  Writes = {}
  ReadLens = {}
  Seeks = {}
  CopyPairs <- CallPairs
  InitTrees <- CallTrees
  MaxOpenFiles = 0
  MaxFileSize = 1
  ShortWrites = FALSE
  None = None
  OtherFiles <- CallOthers
  OtherData <- OtherContents
SPECIFICATION SharedSpec
PROPERTIES
  AtomicWhenAlone
  MvKeepsData
  SyncReachesAll
  CallsReturn
CHECK_DEADLOCK FALSE
