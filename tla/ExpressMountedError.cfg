SPECIFICATION Spec
CONSTANTS
  Layers <- MountedLayers
  App = "app"
  Containers = {"app", "router"}
  Accepts = {TRUE}
  NextArgs = {"none", "error"}
  Promises = FALSE
CHECK_DEADLOCK FALSE
INVARIANTS
  ErrorsReachErrorHandlers
