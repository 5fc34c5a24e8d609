SPECIFICATION ResolvingSpec
CONSTANTS
  Layers <- FlatLayers
  App = "app"
  Containers = {"app"}
  Accepts = {TRUE}
  NextArgs = {"none"}
  Promises = TRUE
CHECK_DEADLOCK FALSE
PROPERTIES
  RequestIsAnswered
