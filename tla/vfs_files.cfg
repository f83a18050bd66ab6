CONSTANTS
  Names = {"m", "mx", "f"}
  SegPrefix <- MCSegPrefix
  Lower <- MCLower
  ByteLen <- MCByteLen
  Filesystems = {fs1, fs2}
  MountArgs <- FlatArgs
  Options <- WritableOrNot
  AbsPaths <- FlatPaths
  Half = 4
  Bytes = {"a"}
  Zero = zero
  OpenArgs <- FlatOpens
  Args <- FileArgs
  FlagSets <- FileFlags
  Writes <- OneWrite
  ReadLens = {1}
  Seeks <- FileSeeks
  CopyPairs <- FilePairs
  InitTrees <- FlatTrees
  MaxOpenFiles = 1
  MaxFileSize = 1
  ShortWrites = TRUE
  None = None
SYMMETRY FilesystemSymmetry
SPECIFICATION VfsSpec
INVARIANTS
  VfsTypeOK
  FlatKeepsRelative
PROPERTIES
  ReadOnlyHonoured
  SeekIsExact
CHECK_DEADLOCK FALSE
