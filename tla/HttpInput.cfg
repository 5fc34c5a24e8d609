CONSTANTS
  MaxChunks = 3
  MaxListeners = 2
SPECIFICATION FairSpec
INVARIANTS PiecesKeptInOrder LifecycleOrdered NoTailIsParsed
PROPERTIES NoDataAfterOutcome BodyEnds
