SPECIFICATION FairSpec
CONSTANTS
  m1 = m1
  m2 = m2
  m3 = m3
  Slots = {1, 2, 3, 4}
  Root = root
  Motes = {m1, m2, m3}
  Tree <- MCTree
  Lifetime = 1
  NoPathDelay = 1
  Infinite = 2
  Null = null
INVARIANTS
  HopsAnnouncedUnlessOrphaned
PROPERTIES
  PathsKept
  Converges
