CONSTANTS
  MaxChunks = 1
  MaxListeners = 1
SPECIFICATION Spec
INVARIANT CloseEventsFired
CHECK_DEADLOCK FALSE
