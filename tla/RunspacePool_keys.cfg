\* One host call, keys set by the application, disconnection and reconnection; no
\* fault, and a fair executor, host and server.
SPECIFICATION FairSpec
CONSTANTS
  Calls = {c1}
  None = None
  ServerStates <- MCServerStates
  MaxOps = 4
  MaxNoise = 2
  MaxFaults = 0
  OutOfBand = TRUE
CHECK_DEADLOCK FALSE
PROPERTIES
  OutOfBandKeyStays
  ParkedAnswered
  KeyCallEnds
