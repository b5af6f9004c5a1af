\* A Pixal3D job and a TRELLIS.2 job with room for one or both; a failure, a restart.
SPECIFICATION FairSpec
CONSTANTS
  p1 = p1 t1 = t1 Direct = Direct None = None
  Jobs <- TwoJobs
  Trellis = {t1}
  Depths = {1, 2}
  MaxFaults = 1
  MaxRestarts = 1
INVARIANTS TypeOK OutcomesAreTrue CancellationIsKept HistoryIsKept OneOnTheGpu
PROPERTIES LastWordStays EveryJobEnds
CHECK_DEADLOCK FALSE
