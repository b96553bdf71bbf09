------------------------------ MODULE MCDocuments ------------------------------
(* A small instance of Documents: every state code the machine tells apart and     *)
(* codes on both sides; documents of a few tags; samples of what is written.       *)
EXTENDS Documents

MCCodes    == -1..11
MCRunCodes == {1, 3, 4, 5, 7}

MCStarts  == {Start("Obj", Absent, "0"), Start("Obj", Absent, Absent), Start("MS", Absent, Absent),
              Start("LST", Absent, Absent), Start("I32", "RunspaceState", Absent),
              Start("Ref", Absent, "0")}
MCEmpties == {Empty("Ref", "Value", "0"), Empty("Nil", "Key", Absent)}

Strings(chars, lengths) == UNION {[1..n -> chars] : n \in lengths}
LooksEscaped == <<"_", "x", Hex.HI, "_", "_", "x", Hex.LO, "_">>
MCTexts == Strings({"_", "x", "<", "CR", "LF", "CTRL", Hex.A, Hex.HI, "EMOJI"}, 0..3)
           \cup Strings({"_", "x", Hex.A, "CTRL", "<"}, {4})
           \cup {LooksEscaped, <<"_">> \o LooksEscaped, LooksEscaped \o <<"EMOJI", "CR">>}
MCBytes == UNION {[1..n -> {0, 62, 255}] : n \in 0..5}

\* Letters whose bytes look like padding, one of two units, and one in each half.
MCSecrets    == UNION {[1..n -> {\h0041, \h0101, \h0202, \h0404, \h1F600, \hFFFD}] : n \in 0..4}
MCPublicKeys == {[exponent |-> <<1, 0, 1>>, modulus |-> m] : m \in {<<3, 0, 5, 9>>, <<9, 5, 0, 3>>, <<0, 0, 0, 255>>}}
MCSharedKeys == {<<>>, <<1>>, <<1, 2>>, <<2, 1>>, <<1, 2, 3>>}

-----------------------------------------------------------------------------
Leaves == {Null, Bool(TRUE), I32(-3), Char(7), Char(20), Str(""), Str("text"), Text("SBK", "text"),
           Number("U64", 300)}
Wraps(vs) ==
  {List(<<>>), Dict(<<>>), Object(<<>>)}
  \cup {List(<<v, w>>) : v \in vs, w \in {Null, Str("text")}}
  \cup {Dict(<< <<Str("k"), v>> >>) : v \in vs}
  \cup {Labelled(types, label, << <<name, v>> >>) :
          types \in {<<>>, <<"T", "U">>}, label \in {"", "label"}, name \in {"m", "_value"}, v \in vs}
  \cup {Object(<< <<"_value", v>>, <<"m", w>>, <<"n", v>> >>) : v \in vs, w \in {Str("text")}}
MCValues == Leaves \cup Wraps(Leaves) \cup Wraps(Wraps({Null, Str("text")}))

MCArgs == {Named("Path", Str("a")), Positional(Object(<< <<"m", List(<<I32(1)>>)>> >>)), Switch("Force")}
MCCommands ==
  {Script("text")} \cup {WithArgument(Command("c"), a) : a \in MCArgs}
  \cup {MergingErrors(WithArgument(WithArgument(Command("d"), a), Switch("Force"))) : a \in MCArgs}
MCPipelines ==
  {EmptyPipeline, NewPipeline("text"), WithHistory(WithInput(NewPipeline("text"), TRUE), TRUE)}
  \cup {AddCommand(AddCommand(EmptyPipeline, c), d) : c \in MCCommands, d \in MCCommands}
  \cup {AddCommand(AddCommand(NewPipeline("text"), c), Command("e")) : c \in MCCommands}

-----------------------------------------------------------------------------
Exception(message) ==
  Typed(<<"System.Exception">>, << <<"Message", Str(message)>>, <<"Source", Str("src")>>,
                                   <<"InnerException", Object(<< <<"StackTrace", Str("st")>> >>)>> >>)
RecordOf(message) == Object(<< <<"Exception", Exception(message)>> >>)
Member(v) == << <<"ExceptionAsErrorRecord", v>> >>

MCReasons ==
  {[member |-> <<>>, text |-> None], [member |-> Member(Str("why")), text |-> Some("why")],
   [member |-> Member(Str(" ")), text |-> None], [member |-> Member(RecordOf("why")), text |-> Some("why")],
   [member |-> Member(RecordOf("control")), text |-> Some("escaped")],
   [member |-> Member(Object(<< <<"Exception", Str("long")>> >>)), text |-> Some("cut...")],
   [member |-> Member(Object(<< <<"Message", Str("why")>> >>)), text |-> None]}

MCOtherTypes ==
  {<<type, ToU32[type]>> : type \in KnownTypes \ {"RunspacePoolState"}}
  \cup {<<"Unknown", code>> : code \in {0, \h10003, \h10007 + 1, \h21001, \h2100E + 1, \h41012}}

-----------------------------------------------------------------------------
Says(type, v, typed, text) == [type |-> type, value |-> v, typed |-> typed, text |-> text]

Inner == [message |-> None, source |-> None, stack_trace |-> Some("st"), inner_exception |-> None,
          type_name |-> None]
Invocation == Object(<< <<"MyCommand", Str("cmd")>>, <<"ScriptName", Str("file")>>,
                        <<"ScriptLineNumber", I32(2)>>, <<"OffsetInLine", I32(3)>>,
                        <<"PositionMessage", Str("pos")>> >>)
InvocationRead == [command_name |-> Some("cmd"), script_name |-> Some("file"), line_number |-> Some(2),
                   offset_in_line |-> Some(3), position_message |-> Some("pos")]

FullError ==
  Says("ErrorRecord",
       Typed(<<"System.Management.Automation.ErrorRecord">>,
         << <<"Exception", Exception("why")>>, <<"FullyQualifiedErrorId", Str("id")>>,
            <<"CategoryInfo", Object(<< <<"Category", I32(4)>>, <<"Activity", Str("act")>>,
                                        <<"Reason", Str("rea")>>, <<"TargetName", Str("nam")>>,
                                        <<"TargetType", Str("typ")>> >>)>>,
            <<"ScriptStackTrace", Str("sst")>>, <<"TargetObject", I32(5)>>, <<"InvocationInfo", Invocation>> >>),
       Some([exception |-> Some([message |-> Some("why"), source |-> Some("src"), stack_trace |-> None,
                                 inner_exception |-> Some(Inner), type_name |-> Some("System.Exception")]),
             fully_qualified_error_id |-> Some("id"),
             category |-> Some([category |-> Some(4), activity |-> Some("act"), reason |-> Some("rea"),
                                target_name |-> Some("nam"), target_type |-> Some("typ")]),
             script_stack_trace |-> Some("sst"), target_object |-> Some(I32(5)),
             invocation_info |-> Some(InvocationRead)]), "why")

Message(v, text, invocation) == Some([message |-> text, invocation_info |-> invocation])

Information ==
  Says("InformationRecord",
       Object(<< <<"MessageData", Str("text")>>, <<"Source", Str("src")>>, <<"TimeGenerated", Text("DT", "now")>>,
                 <<"Tags", List(<<Str("tag")>>)>>, <<"User", Str("usr")>>, <<"Computer", Str("com")>>,
                 <<"ProcessId", I32(1)>>, <<"NativeThreadId", I32(2)>>, <<"ManagedThreadId", I32(3)>> >>),
       Some([message_data |-> Some(Str("text")), tags |-> <<>>,
             texts |-> <<Some("src"), Some("now"), Some("usr"), Some("com")>>,
             numbers |-> <<Some(1), Some(2), Some(3)>>]), "")

Progress ==
  Says("ProgressRecord",
       Object(<< <<"Activity", Str("act")>>, <<"ActivityId", I32(1)>>, <<"ParentActivityId", I32(-1)>>,
                 <<"PercentComplete", I32(50)>>, <<"StatusDescription", Str("sta")>> >>),
       Some([texts |-> <<Some("act"), Some("sta"), None>>,
             numbers |-> <<Some(1), Some(-1), Some(50), None, None>>]), "")

MCSaid ==
  {FullError, Information, Progress,
   Says("ErrorRecord", Str("e1"), None, "e1"), Says("ErrorRecord", Object(<<>>),
        Some([exception |-> None, fully_qualified_error_id |-> None, category |-> None,
              script_stack_trace |-> None, target_object |-> None, invocation_info |-> None]), "debug"),
   Says("PipelineOutput", List(<<Str("text"), Null>>), None, ""),
   Says("WarningRecord", Str("text"), Message("w", "text", None), ""),
   Says("VerboseRecord", Object(<< <<"InvocationInfo", Invocation>> >>), Message("v", "", Some(InvocationRead)), ""),
   Says("DebugRecord", I32(1), None, ""),
   Says("GetCommandMetadata",
        Object(<< <<"Name", Str("Get-Date")>>, <<"Namespace", Str("ns")>>, <<"CommandType", I32(8)>>,
                  <<"HasCommonParameters", Bool(TRUE)>>,
                  <<"Parameters", List(<<Object(<< <<"Name", Str("Format")>> >>)>>)>> >>),
        <<[name |-> "Get-Date", namespace |-> Some("ns"), has_common_parameters |-> Some(TRUE),
           command_type |-> Some(8), parameters |-> <<>>]>>, "")}

-----------------------------------------------------------------------------
CallOf(mi, boxed, args, meant) == [ci |-> 5, mi |-> mi, boxed |-> boxed, args |-> args, meant |-> meant]
Three == <<Str("cap"), Str("msg"), Str("usr")>>

MCCalls ==
  {CallOf(mi, boxed, <<Str("a"), I32(1), Str("b")>>, <<StreamOfMethod[MethodOf[mi]], <<"a", "b">> >>) :
     mi \in {11, 12, 13, 14, 15, 17, 18}, boxed \in BOOLEAN}
  \cup {CallOf(16, TRUE, <<I64(7), Progress.value>>, <<"progress", <<7, Progress.value>> >>)}
  \cup {CallOf(mi, boxed, <<>>, <<>>) : mi \in {51, 52, 19, 55}, boxed \in BOOLEAN}
  \cup {CallOf(53, TRUE, Three, <<"cap", "msg", <<>> >>), CallOf(54, TRUE, Three, <<"cap", "msg", "usr">>)}
  \cup {CallOf(56, TRUE, <<Str("cap"), Str("msg"), List(<<Object(<< <<"Label", Str("yes")>> >>)>>), I32(1)>>,
               <<"cap", "msg", <<>>, 1>>)}

MCReturns == {None, Some([line |-> "secret", choice |-> 1, user |-> "usr", fields |-> <<Str("f"), Text("SS", "pw")>>])}
MCKeys    == {None, Some("key")}
=============================================================================
