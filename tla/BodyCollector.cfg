SPECIFICATION FairSpec
CONSTANTS
  Limit = 3
  Sizes = {1, 2}
  MaxChunks = 3
  MaxCalls = 2
  Rooms = {2, 5, 6}
  Done = Done
  None = None
CHECK_DEADLOCK FALSE
INVARIANTS
  ParsedIsWhole
  AnsweredOnce
  ReferencesCleared
PROPERTIES
  NoAnswerOnTerminal
  CollectionsEnd
