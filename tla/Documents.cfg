\* Every state code, a handshake and two closes; documents of up to nine events,
\* three levels deep, with copies of up to eight nodes.
SPECIFICATION DocSpec
CONSTANTS
  Codes <- MCCodes
  MaxSent = 4
  MaxDepth = 10
  RefBudget = 100
  DocDepth = 3
  DocBudget = 8
  MaxEvents = 9
  Starts <- MCStarts
  Empties <- MCEmpties
  Texts <- MCTexts
  Bytes <- MCBytes
  Secrets <- MCSecrets
  PublicKeys <- MCPublicKeys
  SharedKeys <- MCSharedKeys
  SampleValues <- MCValues
  SamplePipelines <- MCPipelines
  Reasons <- MCReasons
  OtherTypes <- MCOtherTypes
  Said <- MCSaid
  MaxSaid = 3
  RunCodes <- MCRunCodes
  Calls <- MCCalls
  Returns <- MCReturns
  Keys <- MCKeys
INVARIANTS
  TypeOK
  NeverResurrected
  ReferencesBounded
  NestingBounded
  TextReadsBack
  WrittenReadsBack
  ReadAsMeant
PROPERTIES
  KeepsLifecycle
