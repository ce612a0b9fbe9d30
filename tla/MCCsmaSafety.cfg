SPECIFICATION Spec
CONSTANTS
  p1 = p1
  p2 = p2
  p3 = p3
  i0 = i0
  i1 = i1
  Packets = {p1, p2, p3}
  Dests = {a, b}
  NoDest = none
  NoReq = noreq
  Ifs = {i0, i1}
  Seqnos = {0}
  Slots <- MCSlots
  MaxPerNeighbor = 2
  MaxPackets = 3
  MaxBufs = 2
  MaxTxs <- MCMaxTxs
  MaxBackoff = 1
  MinBE = 0
  Handles <- MCHandles
  NumTxs <- MCNumTxs
SYMMETRY Symmetry
INVARIANTS
  TypeOK
  QueueServed
  AnswerFindsHead
  PoolsMatchQueues
  WithinBudget
  HandleFree
PROPERTIES
  FreshCounters
