----------------------------- MODULE PsrpMessages -----------------------------
(***************************************************************************)
(* The message layer (src/message.rs): a header of forty bytes, then a     *)
(* CLIXML document.  The header is written byte by byte; the document is   *)
(* taken whole, with the byte order mark it may start with and whether its *)
(* bytes are UTF-8.  A Guid is a sequence of sixteen bytes.                *)
(***************************************************************************)
EXTENDS Integers, SequencesExt

\* MessageType::to_u32
ToU32 ==
  [SessionCapability |-> \h10002, InitRunspacePool |-> \h10004, PublicKey |-> \h10005,
   EncryptedSessionKey |-> \h10006, PublicKeyRequest |-> \h10007,
   ConnectRunspacePool |-> \h2100B, SetMaxRunspaces |-> \h21002, SetMinRunspaces |-> \h21003,
   RunspaceAvailability |-> \h21004, RunspacePoolState |-> \h21005, CreatePipeline |-> \h21006,
   GetAvailableRunspaces |-> \h21007, UserEvent |-> \h21008, ApplicationPrivateData |-> \h21009,
   GetCommandMetadata |-> \h2100A, RunspacePoolInitData |-> \h2100C, ResetRunspaceState |-> \h2100D,
   RunspacePoolHostCall |-> \h21100, RunspacePoolHostResponse |-> \h21101,
   PipelineInput |-> \h41002, EndOfPipelineInput |-> \h41003, PipelineOutput |-> \h41004,
   ErrorRecord |-> \h41005, PipelineState |-> \h41006, DebugRecord |-> \h41007,
   VerboseRecord |-> \h41008, WarningRecord |-> \h41009, ProgressRecord |-> \h41010,
   InformationRecord |-> \h41011, PipelineHostCall |-> \h41100, PipelineHostResponse |-> \h41101,
   CloseRunspacePool |-> \h2100E]

KnownTypes == DOMAIN ToU32

\* The consecutive codes of from_u32, and those apart.
FromU32Runs ==
  [first \in {\h10002, \h10004, \h21002, \h21100, \h41002, \h41010, \h41100} |->
     CASE first = \h10002 -> <<"SessionCapability">>
       [] first = \h10004 -> <<"InitRunspacePool", "PublicKey", "EncryptedSessionKey", "PublicKeyRequest">>
       [] first = \h21002 -> <<"SetMaxRunspaces", "SetMinRunspaces", "RunspaceAvailability",
                               "RunspacePoolState", "CreatePipeline", "GetAvailableRunspaces",
                               "UserEvent", "ApplicationPrivateData", "GetCommandMetadata",
                               "ConnectRunspacePool", "RunspacePoolInitData", "ResetRunspaceState",
                               "CloseRunspacePool">>
       [] first = \h21100 -> <<"RunspacePoolHostCall", "RunspacePoolHostResponse">>
       [] first = \h41002 -> <<"PipelineInput", "EndOfPipelineInput", "PipelineOutput", "ErrorRecord",
                               "PipelineState", "DebugRecord", "VerboseRecord", "WarningRecord">>
       [] first = \h41010 -> <<"ProgressRecord", "InformationRecord">>
       [] first = \h41100 -> <<"PipelineHostCall", "PipelineHostResponse">>]

\* MessageType::from_u32: any other code is Unknown.
FromU32(code) ==
  LET runs == {first \in DOMAIN FromU32Runs : code - first + 1 \in DOMAIN FromU32Runs[first]}
  IN  IF runs = {} THEN "Unknown"
      ELSE LET first == CHOOSE f \in runs : TRUE IN FromU32Runs[first][code - first + 1]

-----------------------------------------------------------------------------
(* Encoding.                                                               *)

HeaderBytes == 40
Destination == [Client |-> 1, Server |-> 2]

\* to_le_bytes and from_le_bytes of four bytes
Le(n)         == [k \in 1..4 |-> (n \div 256 ^ (k - 1)) % 256]
FromLe(bytes) == FoldRight(LAMBDA byte, n : n * 256 + byte, bytes, 0)

\* to_bytes_le, which is its own inverse: three groups are reversed.
GuidOrder      == <<4, 3, 2, 1, 6, 5, 8, 7>> \o [k \in 1..8 |-> k + 8]
GuidLe(guid)   == [k \in 1..16 |-> guid[GuidOrder[k]]]

\* PsrpMessage: a code stands for its type, so that an unknown one is kept.
Psrp(destination, code, rpid, pid, data) ==
  [destination |-> destination, code |-> code, rpid |-> rpid, pid |-> pid, data |-> data]

\* PsrpMessage::encode
EncodeMessage(m) ==
  [header |-> Le(Destination[m.destination]) \o Le(m.code) \o GuidLe(m.rpid) \o GuidLe(m.pid),
   mark |-> FALSE, utf8 |-> TRUE, data |-> m.data]

\* PsrpMessage::decode: a set of at most one message.
DecodeMessage(bytes) ==
  LET field(first, length) == SubSeq(bytes.header, first, first + length - 1)
      destination == {d \in DOMAIN Destination : Destination[d] = FromLe(field(1, 4))}
  IN  IF Len(bytes.header) < HeaderBytes \/ ~bytes.utf8 THEN {}
      ELSE {Psrp(d, FromLe(field(5, 4)), GuidLe(field(9, 16)), GuidLe(field(25, 16)), bytes.data)
              : d \in destination}
=============================================================================
