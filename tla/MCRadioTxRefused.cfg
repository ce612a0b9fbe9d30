SPECIFICATION FaultySpec
CONSTANTS
  Packets = {p1, p2}
  Dests = {a, b}
  NoDest = none
  Ifs = {i0}
  Radios = {i0}
  Seqnos = {0}
  Slots <- MCSlots
  MaxPerNeighbor = 2
  MaxPackets = 3
  MaxBufs = 2
  MaxTxs <- MCTwoTxs
  MaxBackoff = 1
  MinBE = 0
  MaxCallbacks = 2
  Retransmits = {0}
  Unused = unused
  LineBound = 2
  Lossy = FALSE
  UnknownIf = unknown
  TxCounts <- MCOneTx
  Statuses <- MCOkOnly
  Crossing = FALSE
PROPERTIES
  ReportFindsPacket
