SPECIFICATION Spec
CONSTANTS
  length = length
  other = other
  FinalStatuses <- MCFinalStatuses
  BodilessStatuses <- MCBodilessStatuses
  OtherStatuses <- MCOtherStatuses
  Uncommitted = 0
  Names <- MCNames
  FramingNames <- MCFramingNames
  MaxSequence = 6
CHECK_DEADLOCK FALSE
INVARIANTS
  OneHead
  NoForbiddenBytes
  NumbersUsedOnce
PROPERTIES
  ImplementsWire
