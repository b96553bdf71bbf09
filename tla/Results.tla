-------------------------------- MODULE Results --------------------------------
(***************************************************************************)
(* What a pipeline is made of and what it comes to (src/pipeline.rs): the  *)
(* builders of Command and Pipeline, the streams of a PipelineResult and   *)
(* the text of a failure.  Which messages a run reads, and when, is the    *)
(* part of Pipelines.                                                      *)
(***************************************************************************)
EXTENDS HostCalls

-----------------------------------------------------------------------------
(* Commands and pipelines, as build_create_pipeline_xml takes them.        *)

Command(name)          == [name |-> name, is_script |-> FALSE, merge |-> FALSE, args |-> <<>>]
Script(text)           == [Command(text) EXCEPT !.is_script = TRUE]
WithArgument(c, arg)   == [c EXCEPT !.args = Append(@, arg)]
MergingErrors(c)       == [c EXCEPT !.merge = TRUE]
Named(name, v)         == [kind |-> "named", name |-> name, value |-> v]
Positional(v)          == [kind |-> "positional", name |-> "", value |-> v]
Switch(name)           == [kind |-> "switch", name |-> name, value |-> Null]

EmptyPipeline          == [no_input |-> TRUE, add_invocation_info |-> TRUE, add_to_history |-> FALSE,
                           commands |-> <<>>]
AddCommand(p, c)       == [p EXCEPT !.commands = Append(@, c)]
NewPipeline(script)    == AddCommand(EmptyPipeline, Script(script))
WithInput(p, input)    == [p EXCEPT !.no_input = ~input]
WithHistory(p, add)    == [p EXCEPT !.add_to_history = add]

\* create_pipeline_xml, once start has refused an empty pipeline.
CreatePipelineXml(p) == IF p.commands = <<>> THEN None ELSE Some(BuildCreatePipelineXml(p))

\* build_get_command_metadata_body
GetCommandMetadataBody(patterns, type) ==
  ToClixml(Object(<< <<"Name", List([i \in DOMAIN patterns |-> Str(patterns[i])])>>,
                     <<"CommandType", I32(type)>>, <<"Namespace", List(<<>>)>>,
                     <<"ArgumentList", List(<<>>)>> >>))

\* session_capability_xml, init_runspace_pool_xml
SessionCapabilityXml ==
  ToClixml(Object(<< <<"PSVersion", Text("Version", "2.0")>>, <<"protocolversion", Text("Version", "2.3")>>,
                     <<"SerializationVersion", Text("Version", "1.1.0.1")>> >>))
InitRunspacePoolXml(min, max) ==
  ToClixml(Object(<< <<"MinRunspaces", I32(min)>>, <<"MaxRunspaces", I32(max)>>,
                     <<"PSThreadOptions",
                       PsEnum("System.Management.Automation.Runspaces.PSThreadOptions", "Default", 0)>>,
                     <<"ApartmentState", ApartmentState>>, <<"HostInfo", PsHostInfoNull>>,
                     <<"ApplicationArguments", Null>> >>))

-----------------------------------------------------------------------------
(* failure_message.                                                        *)

MaxDescribedErrors == 2   \* eight in the code

\* The text of one error of the error stream.
ErrorText(v) ==
  LET message == {m \in MessageOf(v) : Trim(m) # ""}
      legacy  == FirstOf(<<PropertyStr(v, "Exception"), PropertyStr(v, "ErrorRecord_Exception"),
                           PropertyStr(v, "Exception_Message")>>)
      id      == {i \in Then(ErrorRecord(v), LAMBDA r : r.fully_qualified_error_id) : Trim(i) # ""}
  IN  IF v.t = "S" THEN v.s ELSE UnwrapOr(FirstOf(<<message, legacy, id>>), "debug")

\* describe_parts, and how many errors it leaves out
Described(errors) ==
  [i \in {j \in DOMAIN errors : j <= MaxDescribedErrors} |-> Quoted(ErrorText(errors[i]))]
LeftOut(errors) ==
  IF Len(errors) > MaxDescribedErrors THEN Len(errors) - MaxDescribedErrors ELSE 0

\* The reason, unless one of the errors is the same.
ReasonParts(document, parts) ==
  SetToSeq({reason \in TerminalStateReason(document) : reason \notin ToSet(parts)})

\* failure_message and join_parts: the parts, before they are joined.
FailureMessage(document, errors) ==
  LET parts == Described(errors)
      more  == IF LeftOut(errors) = 0 THEN <<>> ELSE <<ToString(LeftOut(errors)) \o " more">>
      all   == ReasonParts(document, parts) \o parts \o more
  IN  IF all = <<>> THEN <<"unknown error">> ELSE all

-----------------------------------------------------------------------------
(* The loop of run_all_streams_with_cancel and drain_loop.                 *)

StreamOf ==
  [PipelineOutput |-> "output", ErrorRecord |-> "errors", WarningRecord |-> "warnings",
   VerboseRecord |-> "verbose", DebugRecord |-> "debug", InformationRecord |-> "information",
   ProgressRecord |-> "progress"]
Streams == {StreamOf[type] : type \in DOMAIN StreamOf}

\* is_terminal of PipelineState
EndStates == {"Completed", "Failed", "Stopped", "Disconnected"}

\* A PipelineResult, and how the run ended.
Running == [streams |-> [s \in Streams |-> <<>>], state |-> "Running", end |-> "", failure |-> <<>>]

\* One message of the run's own.
Take(result, type, document) ==
  LET values == ParseClixml(document)
      state  == ExtractPipelineState(document)
  IN  CASE type \in DOMAIN StreamOf /\ values # None ->
             [result EXCEPT !.streams[StreamOf[type]] = @ \o UnwrapOr(values, <<>>)]
        [] type = "PipelineState" /\ state # None ->
             LET s == UnwrapOr(state, "")
             IN  [result EXCEPT !.state = s, !.end = IF s \in EndStates THEN s ELSE "",
                                !.failure = IF s = "Failed" THEN FailureMessage(document, result.streams.errors)
                                            ELSE <<>>]
        [] type \notin DOMAIN StreamOf \cup {"PipelineState"} -> result
        [] OTHER -> [result EXCEPT !.end = "error"]

\* typed_errors and the like: what is not of the shape is dropped.
TypedRecords(result) ==
  [errors      |-> ReadEach(result.streams.errors, ErrorRecord),
   warnings    |-> ReadEach(result.streams.warnings, MessageRecord),
   verbose     |-> ReadEach(result.streams.verbose, TraceRecord),
   debug       |-> ReadEach(result.streams.debug, TraceRecord),
   information |-> ReadEach(result.streams.information, InformationRecord),
   progress    |-> ReadEach(result.streams.progress, ProgressRecord)]
=============================================================================
