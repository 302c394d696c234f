SPECIFICATION FairSpec
CONSTANTS
  f1 = f1
  f2 = f2
  c1 = c1
  c2 = c2
  NoConn = NoConn
  Files = {f1, f2}
  Conns = {c1}
  DirOf <- MCDirOf
  Chars = {"a", "b", "c"}
  Texts <- TextsAppend
  RegionMax <- OneRegion
  SharedMax = 2
  Budget = 100
  EntryCost = 1
  MetaCost = 1
  MaxFiles = 1
  MaxSubs = 1
  MaxWrites <- WritesThree
  MaxAsks = 2
  SameTick = FALSE
PROPERTIES
  LiveRegionsConverge
  AttachAnswered
