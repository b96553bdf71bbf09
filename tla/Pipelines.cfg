\* Two tasks that run scripts, handles and queries, two pipelines, a value of output, and
\* one dropped run, failed send or odd message.  All may be closed in the end.
SPECIFICATION FairSpec
CONSTANTS
  Tasks = {t1, t2}
  None = None
  MaxRuns = 2
  MaxOutput = 1
  MaxFaults = 1
CHECK_DEADLOCK FALSE
INVARIANTS
  ResultIsOwn
  EndedOnServer
  StopIsOwn
  ClosedWhenUnused
PROPERTIES
  CancelledRunEnds
