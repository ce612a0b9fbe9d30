SPECIFICATION Spec
CONSTANTS
  Slots = {1, 2}
  LLAddrs = {a, b, c}
  LLNull = llnull
  Free = free
  Tables <- MCTables
  host = host
  narrow = narrow
  beside = beside
  wide = wide
  Dests <- MCDests
  Covering <- MCCovering
  Length <- MCLength
  RouteMem = {1, 2}
  DaoLifetime = 1
  NoPathDelay = 1
  Infinite = 2
  Null = null
SYMMETRY Symmetry
INVARIANTS
  RouteTablesAgree
  LookupsUnambiguous
  RouteFollowsDao
PROPERTIES
  DaoCostsOneMatch
