CONSTANTS
  Names = {"f", "m"}
  SegPrefix <- MCSegPrefix
  Lower <- MCLower
  Inputs <- MCInputs
  MaxDepth = 3
  MaxSegments = 3
SPECIFICATION PathSpec
INVARIANTS
  NormalizeKeepsSurvivors
  DirStaysNormal
  WalkComposes
  ParentAndFilename
