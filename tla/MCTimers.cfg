SPECIFICATION FairSpec
CONSTANTS
  Timers = {t1, t2}
  Intervals <- MCIntervals
  MaxLate = 1
  NumEvents = 3
  MaxOthers = 2
  Other = other
INVARIANTS
  ListsSound
  ArmedIsPending
  NeverEarly
PROPERTIES
  EveryTimerFires
