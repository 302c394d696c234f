SPECIFICATION FairSpec
CONSTANTS
  t1 = t1
  t2 = t2
  t3 = t3
  i1 = i1
  i2 = i2
  Tasks = {t1, t2, t3}
  Ips = {i1, i2}
  ConfGlobal = 2
  ConfPerIp = 0
  HandshakeTicks = 2
  WriteTicks = 2
  DrainTicks = 1
  Hooks = TRUE
INVARIANTS
  BooksBalance
  LimitsEnforced
PROPERTIES
  ShutdownCompletes
CHECK_DEADLOCK FALSE
