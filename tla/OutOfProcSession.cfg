\* Two pipelines, three operations, payloads of up to two lines, two lines of output
\* and a queue that holds one.
SPECIFICATION FairSpec
CONSTANTS
  Pids = {p1, p2}
  Nil = Nil
  None = None
  MaxOps = 3
  MaxChunks = 2
  MaxEmitted = 2
  QueueLimit = 1
INVARIANTS
  TypeOK
  ServerNeverMisled
  CommandStateMatches
  SentIsReceived
  NoByteLost
  QueueDrainsFirst
PROPERTIES
  FailsClosed
  EveryRequestEnds
