CONSTANTS
  Names = {"m", "mx", "f"}
  SegPrefix <- MCSegPrefix
  Lower <- MCLower
  ByteLen <- MCByteLen
  Filesystems = {fs1}
  MountArgs <- OneMount
  Options <- JustRW
  AbsPaths <- FlatPaths
  Half = 4
  Bytes = {"a", "b"}
  Zero = zero
  OpenArgs <- OneFile
  Args = {}
  FlagSets <- AppendFlags
  Writes <- TwoWrites
  ReadLens = {}
  Seeks = {}
  CopyPairs = {}
  InitTrees <- FlatTrees
  MaxOpenFiles = 2
  MaxFileSize = 2
  ShortWrites = FALSE
  None = None
SPECIFICATION VfsSpec
PROPERTY AppendsAtEnd
CHECK_DEADLOCK FALSE
