\* Cancellations against a queue of two: can the queue itself be exhausted?
SPECIFICATION Spec
CONSTANTS
  j1 = j1 j2 = j2 j3 = j3 j4 = j4 c1 = c1 None = None
  Jobs <- FourJobs
  Clients <- OneClient
  Stills = {}
  Frames = 1
  QueueDepth = 2
  MaxHistory = 4
  MaxRestarts = 0
  MaxFaults = 0
SYMMETRY JobSymmetry
INVARIANT QueueHasRoom
CHECK_DEADLOCK FALSE
