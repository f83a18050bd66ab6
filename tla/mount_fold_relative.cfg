CONSTANTS
  Names = {"m", "mx", "M", "f"}
  SegPrefix <- MCSegPrefix
  Lower <- MCLower
  ByteLen <- MCByteLen
  Filesystems = {fs1, fs2}
  MountArgs <- MCFoldMountArgs
  Options <- MCOptions
  AbsPaths <- MCAbsPaths
SPECIFICATION TableSpec
INVARIANTS
  RelativeToItsMount
