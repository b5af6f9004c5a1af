\* A job, a client that cancels it, users that edit the live scene.
SPECIFICATION Spec
CONSTANTS
  j1 = j1 j2 = j2 c1 = c1 None = None
  Order <- OneJob
  Stills <- FirstIsStill
  Frames = 1
  QueueDepth = 1
  Clients <- OneClient
  MaxEdits = 1
  MaxRestarts = 1
  MaxFaults = 1
PROPERTY NoStaleRestore
CHECK_DEADLOCK FALSE
