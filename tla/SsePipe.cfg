\* Every fault at once: a snapshot or none at the start, a producer ahead by
\* more than the queue holds, a stall; a queue of two is read in parts, and
\* after a queue of one has overflowed another version still comes.
SPECIFICATION FairSpec
CONSTANTS
  Snapshots = {TRUE, FALSE}
  InOrder = TRUE
  MaxEvents = 2
  Capacities = {1, 2}
  MaxVersion = 3
  MaxStalls = 1
  None = None
  Error = Error
CHECK_DEADLOCK FALSE
INVARIANTS
  VersionsIncrease
  GapsAreAnnounced
PROPERTIES
  QuietAfterClose
  EveryEventArrives
