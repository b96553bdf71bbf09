\* A query for metadata after a run that was dropped.
SPECIFICATION Spec
CONSTANTS
  Tasks = {t1, t2}
  None = None
  MaxRuns = 2
  MaxOutput = 1
  MaxFaults = 1
SYMMETRY TaskSymmetry
CHECK_DEADLOCK FALSE
INVARIANTS
  QueryResultIsOwn
