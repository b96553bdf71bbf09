\* Two keys, five hosts on two ports, a thousand files; four bytes of output in lines
\* of up to three.  A connection may fail, or be closed.
SPECIFICATION Spec
CONSTANTS
  None = None
  Chars <- MCChars
  Keys <- MCKeys
  Hosts <- MCHosts
  Ports <- MCPorts
  Files <- MCFiles
  Writes <- MCWrites
  MaxLine = 3
  MaxBytes = 4
  MaxOther = 1
CHECK_DEADLOCK FALSE
INVARIANTS
  CredentialsOnlyToTrusted
  StreamIsSplit
