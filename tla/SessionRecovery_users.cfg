\* Two jobs and users that edit the live scene; faults, one restart.
SPECIFICATION FairSpec
CONSTANTS
  j1 = j1 j2 = j2 c1 = c1 None = None
  Order <- TwoJobs
  Stills <- FirstIsStill
  Frames = 1
  QueueDepth = 2
  Clients = {}
  MaxEdits = 2
  MaxRestarts = 1
  MaxFaults = 2
INVARIANTS UserFindsOwnScene SessionIsRecoverable
PROPERTY FenceIsLifted
CHECK_DEADLOCK FALSE
