SPECIFICATION FairSpec
CONSTANTS
  Layers <- AllLayers
  App = "app"
  Containers = {"app", "router"}
  Accepts = {TRUE, FALSE}
  NextArgs = {"none", "error", "route"}
  Promises = TRUE
CHECK_DEADLOCK FALSE
INVARIANTS
  HandlersInOrder
  OneWalk
  ErrorsAreHandled
PROPERTIES
  DefaultIsLast
  AnsweredOrAwaited
