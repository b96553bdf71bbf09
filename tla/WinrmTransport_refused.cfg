\* A server that refuses to disconnect.
SPECIFICATION Spec
CONSTANTS
  Commands <- MCCommands
  MaxOutput = 1
  MaxFaults = 0
  MaxTimeouts = 3
  None = None
CHECK_DEADLOCK FALSE
INVARIANTS
  RefusedShellTornDown
