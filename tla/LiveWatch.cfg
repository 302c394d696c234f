SPECIFICATION Spec
CONSTANTS
  f1 = f1
  f2 = f2
  c1 = c1
  c2 = c2
  NoConn = NoConn
  Files = {f1}
  Conns = {c1, c2}
  DirOf <- MCDirOf
  Chars = {"a", "b", "c"}
  Texts <- TextsMixed
  RegionMax <- OneRegion
  SharedMax = 2
  Budget = 9
  EntryCost = 1
  MetaCost = 1
  MaxFiles = 1
  MaxSubs = 1
  MaxWrites <- WritesTwo
  MaxAsks = 2
  SameTick = TRUE
SYMMETRY ConnSymmetry
INVARIANTS
  BudgetRespected
  NoLostWake
  SubscribedIsWatched
  BaselineIsShown
