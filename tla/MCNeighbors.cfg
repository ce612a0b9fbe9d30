SPECIFICATION FairSpec
CONSTANTS
  a = a
  a2 = a2
  b = b
  la = la
  lb = lb
  Addrs = {a, a2, b}
  LLOf <- MCLLOf
  Slots = {1, 2}
  LLAddrs = {la, lb}
  LLNull = llnull
  Free = free
  Tables <- MCTables
  Packets = {1, 2}
  MaxSolicit = 2
  ForeignTargets = FALSE
  Null = null
INVARIANTS
  AddressesResolved
  PacketsWait
PROPERTIES
  SendsOwn
  SolicitationEnds
  PoolRefills
