SPECIFICATION Spec
CONSTANTS
  MaxCallbacks = 3
  Retransmits = {0, 1}
  Unused = unused
  Radios = {0}
  LineBound = 3
  Lossy = TRUE
  Frames = {f1, f2, f3, f4}
SYMMETRY Symmetry
INVARIANTS
  TableConsistent
  ReportsFindTheirFrame
