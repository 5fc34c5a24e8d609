SPECIFICATION SmallSpec
\* The listener table: two names, one of them an array index, two callbacks,
\* three entries and two levels of emission.
CONSTANTS
  indexName = indexName
  otherName = otherName
  Events = {indexName, otherName}
  Listeners = {l1, l2}
  IntegerValue <- MCIntegerValue
  MaxListeners = 2
  MaxEntries = 3
  MaxDepth = 2
  plain = plain
  changed = changed
  Heads <- MCHeads
  DefaultHead = plain
  MaxSequence = 7
  Names <- MCNames
  Values <- MCValues
  Texts <- MCTexts
  MaxPairs = 3
  WordMax = 999
  MaxDelay = 600
  Units = {1, 7, 60}
  Paths = {"p", "q"}
  Contents = {"text", "bytes"}
  FirstFile = "p"
  MaxCalls = 2
  Requests = {first, second}
  Clients = {alice}
  Weight = 2
  Limit = 3
  Windows = 2
CHECK_DEADLOCK FALSE
INVARIANTS
  HeadCommitted
  LocationsKeepTheirPlace
  ParametersAgree
  RoutesAgree
  ConversionsAreExact
  OneFileSystem
  WithinLimit
PROPERTIES
  ImplementsEmitter
  ImplementsWire
  ImplementsParts
