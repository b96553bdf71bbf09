\* A pipeline cancelled while the errors of an unusable key are sent.
SPECIFICATION Spec
CONSTANTS
  Calls = {c1, c2}
  None = None
  ServerStates <- MCServerStates
  MaxOps = 3
  MaxNoise = 1
  MaxFaults = 1
  OutOfBand = FALSE
SYMMETRY CallSymmetry
CHECK_DEADLOCK FALSE
INVARIANTS
  ParkedAlwaysAnswered
