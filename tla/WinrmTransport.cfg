\* Two commands, a chunk of output, two faults, and a server that may never be
\* reached.  The transport may end closed.
SPECIFICATION FairSpec
CONSTANTS
  Commands <- MCCommands
  MaxOutput = 1
  MaxFaults = 2
  MaxTimeouts = 3
  None = None
CHECK_DEADLOCK FALSE
INVARIANTS
  OutputReachesReaders
  ReceiveIsCurrent
  StoppedWasAsked
  ShellAccountedFor
PROPERTIES
  RecvNotStuck
