\* A still and a video job, a queue of one and a client that may cancel for
\* ever: every job ends and every submission is answered;
\* the history is full with the first job, so that the second one evicts it.
SPECIFICATION FairSpec
CONSTANTS
  j1 = j1 j2 = j2 j3 = j3 j4 = j4 c1 = c1 None = None
  Jobs <- TwoJobs
  Clients <- OneClient
  Stills <- OneStill
  Frames = 1
  QueueDepth = 1
  MaxHistory = 1
  MaxRestarts = 0
  MaxFaults = 1
PROPERTIES EveryJobEnds EverySubmissionEnds
CHECK_DEADLOCK FALSE
