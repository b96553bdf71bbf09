-------------------------------- MODULE Records --------------------------------
(***************************************************************************)
(* What the client reads in a decoded document: the states and reasons of  *)
(* pools and pipelines (src/runspace/state.rs, src/pipeline.rs), the       *)
(* records of the streams (src/records.rs), commands (src/metadata.rs).    *)
(*                                                                         *)
(* A member that is not there, or of another kind, is None.                *)
(***************************************************************************)
EXTENDS ClixmlDecoder, PoolStates

\* property_str, property_i32
PropertyStr(v, name) == Then(Get(v, name), AsStr)
PropertyI32(v, name) == Then(Get(v, name), AsI32)

\* The first of some Options that is one.
FirstOf(options) ==
  LET some == SelectSeq(options, LAMBDA o : o # None)
  IN  IF some = <<>> THEN None ELSE Head(some)

IsObject(v) == v.t = "Object"

-----------------------------------------------------------------------------
(* records.rs.                                                             *)

RECURSIVE ExceptionInfo(_)
ExceptionInfo(v) ==
  IF ~IsObject(v) THEN None
  ELSE Some([message |-> PropertyStr(v, "Message"), source |-> PropertyStr(v, "Source"),
             stack_trace |-> PropertyStr(v, "StackTrace"),
             inner_exception |-> Then(Get(v, "InnerException"), ExceptionInfo),
             type_name |-> IF v.types = <<>> THEN None ELSE Some(v.types[1])])

\* The exception of a record that has only its message.
MessageOnly(message) ==
  [message |-> Some(message), source |-> None, stack_trace |-> None,
   inner_exception |-> None, type_name |-> None]

ErrorCategoryInfo(v) ==
  IF ~IsObject(v) THEN None
  ELSE Some([category |-> PropertyI32(v, "Category"), activity |-> PropertyStr(v, "Activity"),
             reason |-> PropertyStr(v, "Reason"), target_name |-> PropertyStr(v, "TargetName"),
             target_type |-> PropertyStr(v, "TargetType")])

InvocationInfo(v) ==
  IF ~IsObject(v) THEN None
  ELSE Some([command_name |-> PropertyStr(v, "MyCommand"), script_name |-> PropertyStr(v, "ScriptName"),
             line_number |-> PropertyI32(v, "ScriptLineNumber"),
             offset_in_line |-> PropertyI32(v, "OffsetInLine"),
             position_message |-> PropertyStr(v, "PositionMessage")])

ErrorRecord(v) ==
  IF ~IsObject(v) THEN None
  ELSE Some([exception |-> FirstOf(<<Then(Get(v, "Exception"), ExceptionInfo),
                                     {MessageOnly(m) : m \in PropertyStr(v, "Exception")}>>),
             fully_qualified_error_id |-> PropertyStr(v, "FullyQualifiedErrorId"),
             category |-> Then(Get(v, "CategoryInfo"), ErrorCategoryInfo),
             script_stack_trace |-> FirstOf(<<PropertyStr(v, "ErrorDetails_ScriptStackTrace"),
                                              PropertyStr(v, "ScriptStackTrace")>>),
             target_object |-> Get(v, "TargetObject"),
             invocation_info |-> Then(Get(v, "InvocationInfo"), InvocationInfo)])

\* WarningRecord, and TraceRecord of the verbose and debug streams: a bare text, or
\* an object with a message.
MessageRecord(v) ==
  CASE v.t = "S"   -> Some([message |-> v.s, invocation_info |-> None])
    [] IsObject(v) -> Some([message |-> UnwrapOr(PropertyStr(v, "Message"), ""),
                            invocation_info |-> Then(Get(v, "InvocationInfo"), InvocationInfo)])
    [] OTHER       -> None
TraceRecord(v) == MessageRecord(v)

\* The members of an information record that are texts, and numbers.
InformationTexts   == <<"Source", "TimeGenerated", "User", "Computer">>
InformationNumbers == <<"ProcessId", "NativeThreadId", "ManagedThreadId">>

\* The elements of a list; a list decoded from a document is inside an object,
\* and is read as no list.
Items(option) ==
  LET v == UnwrapOr(option, Null) IN IF v.t = "List" THEN v.items ELSE <<>>

\* filter_map
ReadEach(values, View(_)) == FlattenSeq([i \in DOMAIN values |-> SetToSeq(View(values[i]))])

InformationRecord(v) ==
  LET members(texts, numbers, data, tags) ==
        Some([message_data |-> data, tags |-> tags, texts |-> texts, numbers |-> numbers])
  IN  CASE v.t = "S"   -> members([i \in 1..4 |-> None], [i \in 1..3 |-> None], Some(v), <<>>)
        [] IsObject(v) -> members([i \in 1..4 |-> PropertyStr(v, InformationTexts[i])],
                                  [i \in 1..3 |-> PropertyI32(v, InformationNumbers[i])],
                                  Get(v, "MessageData"), ReadEach(Items(Get(v, "Tags")), AsStr))
        [] OTHER       -> None

ProgressTexts   == <<"Activity", "StatusDescription", "CurrentOperation">>
ProgressNumbers == <<"ActivityId", "ParentActivityId", "PercentComplete", "SecondsRemaining", "Type">>

ProgressRecord(v) ==
  IF ~IsObject(v) THEN None
  ELSE Some([texts   |-> [i \in 1..3 |-> PropertyStr(v, ProgressTexts[i])],
             numbers |-> [i \in 1..5 |-> PropertyI32(v, ProgressNumbers[i])]])
-----------------------------------------------------------------------------
(* metadata.rs.                                                            *)

ParameterMetadata(v) ==
  IF ~IsObject(v) THEN None
  ELSE Some([name |-> UnwrapOr(PropertyStr(v, "Name"), ""),
             parameter_type |-> PropertyStr(v, "ParameterType"),
             is_mandatory |-> Then(Get(v, "IsMandatory"), AsBool),
             position |-> PropertyI32(v, "Position")])

CommandMetadata(v) ==
  IF ~IsObject(v) THEN None
  ELSE Some([name |-> UnwrapOr(PropertyStr(v, "Name"), ""),
             namespace |-> PropertyStr(v, "Namespace"),
             has_common_parameters |-> Then(Get(v, "HasCommonParameters"), AsBool),
             command_type |-> PropertyI32(v, "CommandType"),
             parameters |-> ReadEach(Items(Get(v, "Parameters")), ParameterMetadata)])

-----------------------------------------------------------------------------
(* States, and why a pool or a pipeline ended.                             *)

\* The values of a document; none when it cannot be read.
Values(document) == UnwrapOr(ParseClixml(document), <<>>)

\* What View sees in the first value in which it sees anything.
FirstSeen(values, View(_)) == FirstOf([i \in DOMAIN values |-> View(values[i])])

\* The first number called `name`, of those that View sees.
FirstNumber(document, name, View(_)) ==
  FirstSeen(Values(document), LAMBDA v : Then(Get(v, name), View))

\* The match on PsValue::I32, which sees no other width.
OnlyI32(v) == IF v.t = "I32" THEN Some(v.n) ELSE None

\* extract_runspace_state, before from_i32
ExtractRunspaceState(document) == FirstNumber(document, "RunspaceState", OnlyI32)

PipelineStates == <<"NotStarted", "Running", "Stopping", "Stopped", "Completed", "Failed", "Disconnected">>
PipelineStateOf(code) == IF code \in 0..6 THEN PipelineStates[code + 1] ELSE "Unknown"

\* extract_pipeline_state, and state_from_xml of metadata.rs
ExtractPipelineState(document) ==
  {PipelineStateOf(code) : code \in FirstNumber(document, "PipelineState", OnlyI32)}
StateFromXml(document) ==
  {PipelineStateOf(code) : code \in FirstNumber(document, "PipelineState", AsI32)}

\* trim; a text that could rewrite the output is escaped, one that is too long cut.
Trim(text) == IF text = " " THEN "" ELSE text
EscapeRemoteText(text) ==
  CASE text = "control" -> "escaped"
    [] text = "long"    -> "cut..."
    [] OTHER            -> text
Quoted(text) == EscapeRemoteText(Trim(text))

\* The message of the exception of an error record.
MessageOf(v) == Then(Then(ErrorRecord(v), LAMBDA record : record.exception), LAMBDA x : x.message)

\* terminal_state_reason: the first value that has one; a blank one is none.
TerminalStateReason(document) ==
  LET reason(v) == Then(Get(v, "ExceptionAsErrorRecord"),
                        LAMBDA record : FirstOf(<<AsStr(record), MessageOf(record)>>))
  IN  {Quoted(text) : text \in {t \in FirstSeen(Values(document), reason) : Trim(t) # ""}}
=============================================================================
