\* Handles closed at the same time.
SPECIFICATION Spec
CONSTANTS
  Tasks = {t1, t2}
  None = None
  MaxRuns = 1
  MaxOutput = 0
  MaxFaults = 0
CHECK_DEADLOCK FALSE
INVARIANTS
  LastHandleCloses
