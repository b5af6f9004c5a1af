\* Two jobs, a queue of two and a client that cancels: the worker, the stager
\* and the client interleave, one write fails and the server restarts once
\* and reads the history.
SPECIFICATION Spec
CONSTANTS
  j1 = j1 j2 = j2 j3 = j3 j4 = j4 c1 = c1 None = None
  Jobs <- TwoJobs
  Clients <- OneClient
  Stills = {}
  Frames = 1
  QueueDepth = 2
  MaxHistory = 2
  MaxRestarts = 1
  MaxFaults = 1
SYMMETRY JobSymmetry
INVARIANTS NoStaleWrite QueuedIsScheduled RendersFirstUnrecorded SuccessIsEarned CancellationHolds
  HistoryReadable
PROPERTIES LedgerSpec NoJobForgotten
CHECK_DEADLOCK FALSE
