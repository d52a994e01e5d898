SPECIFICATION Spec
CONSTANTS
  h1 = h1
  h2 = h2
  Hosts <- TwoHosts
  Blocks = 1
  FaceTimeout = 2
  FaceMaxRetries = 0
  HostTimeout = 4
  FetchStep = 1
  SlowSteps <- Slow
  Delay = "tick"
  MayBye = TRUE
  MayFail = TRUE
  MaxDrift = 1
INVARIANTS FetchPace OneViewer 
PROPERTIES  Settles
