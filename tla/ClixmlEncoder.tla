---------------------------- MODULE ClixmlEncoder ----------------------------
(***************************************************************************)
(* to_clixml and build_create_pipeline_xml (src/clixml/encode.rs): the     *)
(* document written for a value, as the events a reader makes of it.       *)
(*                                                                         *)
(* What is written so far is the document, and the next RefId.             *)
(***************************************************************************)
EXTENDS ClixmlDecoder

\* RefIdAllocator::new
Blank == [doc |-> <<>>, next |-> 0]

\* RefIdAllocator::next
Id(out)           == ToString(out.next)
Allocated(out)    == [out EXCEPT !.next = @ + 1]
Emit(out, events) == [out EXCEPT !.doc = @ \o events]

\* write_simple
Element(tag, name, text) ==
  <<Start(tag, name, Absent)>> \o (IF text = "" THEN <<>> ELSE <<Chars(text)>>) \o <<End(tag)>>

\* open_obj
OpenObj(out, name) == Allocated(Emit(out, <<Start("Obj", name, Id(out))>>))

\* The TN of an object, with its own RefId.
WriteTypes(out, types) ==
  IF types = <<>> THEN out
  ELSE Allocated(Emit(out, <<Start("TN", Absent, Id(out))>>
                           \o FlattenSeq([i \in DOMAIN types |-> Element("T", Absent, types[i])])
                           \o <<End("TN")>>))

WriteLabel(out, label) == IF label = "" THEN out ELSE Emit(out, Element("ToString", Absent, label))

\* A character beyond the plane is no UTF-16 unit.
Unit(code) == IF code < 16 THEN code ELSE Replacement

\* write_value_with, of a scalar.
WriteScalar(out, v, name) ==
  Emit(out, CASE v.t = "Null"         -> <<Empty("Nil", name, Absent)>>
              [] v.t = "B"            -> Element("B", name, IF v.b THEN "true" ELSE "false")
              [] v.t = "C"            -> Element("C", name, ToString(Unit(v.n)))
              [] v.t \in IntegerTags  -> Element(v.t, name, ToString(v.n))
              [] OTHER                -> Element(v.t, name, v.s))

\* Whether the value of an object is written as a bare LST or DCT.
IsBare(v) == v.t \in {"List", "Dict"}

RECURSIVE WriteValue(_, _, _)

\* write_container_body
WriteBody(out, v) ==
  IF v.t = "List"
  THEN Emit(FoldLeft(LAMBDA o, item : WriteValue(o, item, Absent),
                     Emit(out, <<Start("LST", Absent, Absent)>>), v.items),
            <<End("LST")>>)
  ELSE Emit(FoldLeft(LAMBDA o, entry :
                       Emit(WriteValue(WriteValue(Emit(o, <<Start("En", Absent, Absent)>>),
                                                  entry[1], "Key"), entry[2], "Value"),
                            <<End("En")>>),
                     Emit(out, <<Start("DCT", Absent, Absent)>>), v.entries),
            <<End("DCT")>>)

\* The members of an object, its value excepted.
WriteMembers(out, props) ==
  LET others == SelectSeq(props, LAMBDA p : p[1] # "_value")
  IN  IF others = <<>> THEN out
      ELSE Emit(FoldLeft(LAMBDA o, p : WriteValue(o, p[2], p[1]),
                         Emit(out, <<Start("MS", Absent, Absent)>>), others),
                <<End("MS")>>)

\* write_object
WriteObject(out, v, name) ==
  LET head  == WriteLabel(WriteTypes(OpenObj(out, name), v.types), v.label)
      value == Get(v, "_value")
      body  == FoldSet(LAMBDA x, o : IF IsBare(x) THEN WriteBody(o, x) ELSE WriteValue(o, x, Absent),
                       head, value)
  IN  Emit(WriteMembers(body, v.props), <<End("Obj")>>)

\* write_value_with
WriteValue(out, v, name) ==
  CASE v.t \in {"List", "Dict"} -> Emit(WriteBody(OpenObj(out, name), v), <<End("Obj")>>)
    [] v.t = "Object"           -> WriteObject(out, v, name)
    [] OTHER                    -> WriteScalar(out, v, name)

ToClixml(v) == WriteValue(Blank, v, Absent).doc

-----------------------------------------------------------------------------
(* ps_enum, ps_host_info_null.                                             *)

EnumTypes(type) == <<type, "System.Enum", "System.ValueType", "System.Object">>
PsEnum(type, label, n) == Labelled(EnumTypes(type), label, << <<"_value", I32(n)>> >>)

PsHostInfoNull ==
  Object([i \in 1..4 |-> <<(<<"_isHostNull", "_isHostUINull", "_isHostRawUINull", "_useRunspaceHost">>)[i],
                           Bool(TRUE)>>])

-----------------------------------------------------------------------------
(* build_create_pipeline_xml.                                              *)

ResultTypes == "System.Management.Automation.Runspaces.PipelineResultTypes"
CmdsTypes   == <<"System.Collections.Generic.List<PSObject>", "System.Object">>

\* Members written in turn: pairs of a name and a value.
WriteEach(out, members) == FoldLeft(LAMBDA o, m : WriteValue(o, m[2], m[1]), out, members)

\* write_enum_first_in_group: the enum that gives the group its TN.
WriteEnumFirst(out, name, type, label, n) ==
  Emit(WriteTypes(OpenObj(out, name), EnumTypes(type)),
       Element("ToString", Absent, label) \o Element("I32", Absent, ToString(n)) \o <<End("Obj")>>)

\* write_enum_with_tnref: a later one of the group, whose TN has the id tn.
WriteEnumRef(out, name, tn, label, n) ==
  Emit(OpenObj(out, name),
       <<Empty("TNRef", Absent, tn)>> \o Element("ToString", Absent, label)
         \o Element("I32", Absent, ToString(n)) \o <<End("Obj")>>)

MergeFields(merge) ==
  << <<"MergeMyResult", IF merge THEN 2 ELSE 0>>, <<"MergeToResult", IF merge THEN 1 ELSE 0>>,
     <<"MergePreviousResults", 0>> >>
MergeRest == <<"MergeError", "MergeWarning", "MergeVerbose", "MergeDebug", "MergeInformation">>
LabelOf(n) == CASE n = 0 -> "None" [] n = 1 -> "Output" [] n = 2 -> "Error"

\* Variant: the TN's id is that of the object before it.
FirstTnStale(out) == ToString(out.next)

\* The id of the TN that WriteEnumFirst gives an object written next.
FirstTn(out) == ToString(out.next + 1)

\* The merge fields of a command; tn is None before the first command.
WriteMerge(out, merge, tn) ==
  FoldLeft(LAMBDA o, i : LET field == MergeFields(merge)[i]
                         IN  IF i = 1 /\ tn = None
                             THEN WriteEnumFirst(o, field[1], ResultTypes, LabelOf(field[2]), field[2])
                             ELSE WriteEnumRef(o, field[1], UnwrapOr(tn, FirstTn(out)),
                                               LabelOf(field[2]), field[2]),
           out, <<1, 2, 3>>)

\* An argument: its name and its value (PipelineArgSpec).
ArgMembers(arg) ==
  CASE arg.kind = "named"      -> << <<"N", Str(arg.name)>>, <<"V", arg.value>> >>
    [] arg.kind = "positional" -> << <<"N", Null>>, <<"V", arg.value>> >>
    [] arg.kind = "switch"     -> << <<"N", Str(arg.name)>>, <<"V", Bool(TRUE)>> >>

\* The Args of a command, which share the types of Cmds.
WriteArgs(out, args, cmds_tn) ==
  LET open == Emit(OpenObj(out, "Args"), <<Empty("TNRef", Absent, cmds_tn), Start("LST", Absent, Absent)>>)
      each == FoldLeft(LAMBDA o, arg : WriteObject(o, Object(ArgMembers(arg)), Absent), open, args)
  IN  Emit(each, <<End("LST"), End("Obj")>>)

\* A command; the group's TN is remembered beside what is written.
WriteCommand(state, c, cmds_tn) ==
  LET open == WriteEach(Emit(OpenObj(state.out, Absent), <<Start("MS", Absent, Absent)>>),
                        << <<"Cmd", Str(c.name)>>, <<"IsScript", Bool(c.is_script)>>, <<"UseLocalScope", Null>> >>)
      tn   == UnwrapOr(state.tn, FirstTn(open))
      args == WriteArgs(WriteMerge(open, c.merge, state.tn), c.args, cmds_tn)
      rest == FoldLeft(LAMBDA o, name : WriteEnumRef(o, name, tn, "None", 0), args, MergeRest)
  IN  [out |-> Emit(rest, <<End("MS"), End("Obj")>>), tn |-> Some(tn)]

\* The PowerShell member, with its list of commands.
WriteCmds(out, commands) ==
  LET cmds_tn == Id(out)
      obj     == Allocated(out)
      open    == Emit(Allocated(Emit(obj, <<Start("Obj", "Cmds", Id(obj)), Start("TN", Absent, cmds_tn)>>)),
                      FlattenSeq([i \in 1..2 |-> Element("T", Absent, CmdsTypes[i])])
                        \o <<End("TN"), Start("LST", Absent, Absent)>>)
      each    == FoldLeft(LAMBDA state, c : WriteCommand(state, c, cmds_tn),
                          [out |-> open, tn |-> None], commands)
  IN  Emit(each.out, <<End("LST"), End("Obj")>>)

RemoteStreamOptions(add) ==
  PsEnum("System.Management.Automation.Runspaces.RemoteStreamOptions",
         IF add THEN "AddInvocationInfo" ELSE "None", IF add THEN 15 ELSE 0)
ApartmentState ==
  PsEnum("System.Management.Automation.Runspaces.ApartmentState", "UNKNOWN", 2)

\* An object that has only members: Write adds those beside the ones of `first` and
\* `last`.
WriteAround(out, name, first, Write(_), last) ==
  Emit(WriteEach(Write(WriteEach(Emit(OpenObj(out, name), <<Start("MS", Absent, Absent)>>), first)), last),
       <<End("MS"), End("Obj")>>)

WritePowerShell(out, commands) ==
  WriteAround(out, "PowerShell", << <<"IsNested", Bool(FALSE)>>, <<"ExtraCmds", Null>> >>,
              LAMBDA o : WriteCmds(o, commands),
              << <<"History", Null>>, <<"RedirectShellErrorOutputPipe", Bool(FALSE)>> >>)

BuildCreatePipelineXml(p) ==
  WriteAround(Blank, Absent,
              << <<"NoInput", Bool(p.no_input)>>, <<"ApartmentState", ApartmentState>>,
                 <<"RemoteStreamOptions", RemoteStreamOptions(p.add_invocation_info)>>,
                 <<"AddToHistory", Bool(p.add_to_history)>>, <<"HostInfo", PsHostInfoNull>> >>,
              LAMBDA o : WritePowerShell(o, p.commands),
              << <<"IsNested", Bool(FALSE)>> >>).doc
=============================================================================
