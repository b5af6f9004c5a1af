\* Storage fails for a moment while a job is admitted: three operations in a row.
SPECIFICATION Spec
CONSTANTS
  p1 = p1 t1 = t1 Direct = Direct None = None
  Jobs <- TwoJobs
  Trellis = {t1}
  Depths = {2}
  MaxFaults = 3
  MaxRestarts = 0
INVARIANT IndexedIsRecorded
CHECK_DEADLOCK FALSE
