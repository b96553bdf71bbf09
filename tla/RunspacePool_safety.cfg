\* Two host calls, three calls of the pool, two messages the server sends on its
\* own, one fault.  The pool may end, or wait for a server that says nothing.
SPECIFICATION Spec
CONSTANTS
  Calls = {c1, c2}
  None = None
  ServerStates <- MCServerStates
  MaxOps = 3
  MaxNoise = 2
  MaxFaults = 1
  OutOfBand = FALSE
SYMMETRY CallSymmetry
CHECK_DEADLOCK FALSE
INVARIANTS
  TypeOK
  ParkedHasExchange
  SecretsEncrypted
  AnsweredOnce
  HostCallsAccounted
  ObjectIdsUnique
PROPERTIES
  KeepsLifecycle
