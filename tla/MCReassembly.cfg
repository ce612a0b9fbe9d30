SPECIFICATION ReassSpec
CONSTANTS
  Motes = {a, b}
  MaxSeqnos = 2
  Aged = aged
  NumTags = 2
  Sizes = {3}
  Unknown = {1}
  BufSize = 3
  Contexts = {0, 1}
  NumBuffers = 2
  Stale = stale
  NoFragment = none
  Interleaved = FALSE
SYMMETRY Symmetry
INVARIANTS
  FragmentsAccounted
  DeliveredWhole
  CountedOnce
