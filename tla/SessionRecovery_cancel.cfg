\* Two jobs and a client that cancels them; one fault, one restart.
SPECIFICATION Spec
CONSTANTS
  j1 = j1 j2 = j2 c1 = c1 None = None
  Order <- TwoJobs
  Stills <- FirstIsStill
  Frames = 1
  QueueDepth = 2
  Clients <- OneClient
  MaxEdits = 0
  MaxRestarts = 1
  MaxFaults = 1
INVARIANTS RecoveryIsScheduled RecordsReadable WorksOnce
PROPERTY OutcomeIsKept
CHECK_DEADLOCK FALSE
