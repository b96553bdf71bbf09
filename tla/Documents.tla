------------------------------- MODULE Documents -------------------------------
(***************************************************************************)
(* A pool's state machine with the documents it and its server exchange:   *)
(* RunspacePoolState, fed through the message layer and the CLIXML         *)
(* decoder, and what an open pool writes and reads.                        *)
(*                                                                         *)
(* One document is in hand at a time.  While the pool waits for its        *)
(* negotiation the server may send any well-formed one, or one that is cut *)
(* short, event by event; the decoder reads each event as it comes, with   *)
(* limits of its own (Small) that such documents reach.                    *)
(***************************************************************************)
EXTENDS RunspacePoolState, Results, SessionKeys, ClixmlText

CONSTANTS
  DocDepth, DocBudget,   \* the limits of the decoder for a document of any form
  MaxEvents,             \* bound on its events
  Starts, Empties,       \* the tags it is made of
  Texts,                 \* texts written, as sequences of characters
  Bytes,                 \* sequences of bytes written in base64
  Secrets,               \* texts encrypted, as sequences of code points
  PublicKeys, SharedKeys,\* keys of clients, and what servers wrap for them
  SampleValues,          \* values written
  SamplePipelines,       \* pipelines started
  Reasons,               \* why a pool or a pipeline ended: [member, text]
  OtherTypes,            \* types of messages, and codes nobody defined
  Said,                  \* what a pipeline says: [type, value, typed, text]
  MaxSaid,               \* bound on what one says
  RunCodes,              \* state codes of a pipeline
  Calls,                 \* calls of the host: [ci, mi, boxed, args, meant]
  Returns, Keys          \* what the host returns, the key held: Options

ASSUME DocumentsAssumption == {DocDepth, DocBudget, MaxEvents, MaxSaid} \subseteq Nat

VARIABLE exchange   \* the document in hand

allVars == <<vars, exchange>>

Small == INSTANCE ClixmlDecoder WITH MaxDepth <- DocDepth, RefBudget <- DocBudget

Nothing == [kind |-> "none"]
Idle    == exchange = Nothing

\* The pool after its handshake, in the state s.
After(s) == Idle /\ state = s /\ Len(sent) = 2 /\ outcome = "ok" /\ UNCHANGED vars

DocInit == Init /\ exchange = Nothing

\* open, with the documents of its two messages.
Handshake ==
  /\ Idle
  /\ Open
  /\ exchange' = [kind |-> "handshake", documents |-> <<SessionCapabilityXml, InitRunspacePoolXml(1, 2)>>]

\* The owner's other calls.
Owner == Idle /\ (Connect \/ Close \/ MarkClosed) /\ UNCHANGED exchange

\* The exchange is over.
Done ==
  /\ exchange.kind \in {"handshake", "text", "bytes", "secret", "exchange", "value", "pipeline",
                          "message", "call", "query"}
        \/ (exchange.kind = "run" /\ exchange.result.end # "")
  /\ exchange' = Nothing
  /\ UNCHANGED vars

-----------------------------------------------------------------------------
(* A document of any form.                                                 *)

\* The ids its references will name are chosen first; `own` reads the same
\* document, its references as Null.
BeginDocument ==
  /\ After("NegotiationSent")
  /\ \E ids \in SUBSET {e.id : e \in {s \in Starts \cup Empties : s.tag = "Ref"}} :
       exchange' = [kind |-> "document", tags |-> <<>>, left |-> MaxEvents, unused |-> ids,
                    read |-> Small!Reading(ids), own |-> Small!Reading({})]

Writing == exchange.kind = "document" /\ exchange.read.status = "reading"

\* The next event, which leaves these tags open.
Put(e, tags) ==
  /\ Len(tags) < exchange.left
  /\ e.tag = "Ref" => e.id \in exchange.read.referenced
  /\ exchange' = [exchange EXCEPT !.tags = tags, !.left = @ - 1,
                                  !.unused = IF e.tag = "Ref" THEN @ \ {e.id} ELSE @,
                                  !.read = Small!Read(@, e), !.own = Small!Read(@, e)]
  /\ UNCHANGED vars

PutStart == Writing /\ \E e \in Starts : Put(e, Append(exchange.tags, e.tag))
PutEmpty == Writing /\ \E e \in Empties : Put(e, exchange.tags)
PutText  == Writing /\ exchange.tags # <<>> /\ Put(Chars("2"), exchange.tags)
PutEnd   == /\ Writing
            /\ exchange.tags # <<>>
            /\ Put(End(exchange.tags[Len(exchange.tags)]), SubSeq(exchange.tags, 1, Len(exchange.tags) - 1))

\* The document ends, or is malformed, and the machine is told what it says.
EndDocument ==
  /\ exchange.kind = "document"
  /\ \E e \in {Eof, Malformed} :
       LET d    == Small!Read(exchange.read, e)
           code == FirstSeen(d.out, LAMBDA v : Then(Get(v, "RunspaceState"), OnlyI32))
       IN  /\ e = Eof /\ Writing => exchange.unused = {}
           /\ IF d.status = "done" /\ code # None THEN OnState(UnwrapOr(code, 0)) ELSE OnMalformed
  /\ exchange' = Nothing

-----------------------------------------------------------------------------
(* Messages.                                                               *)

Rpid == [k \in 1..16 |-> k]
Pid  == [k \in 1..16 |-> 17 * k % 256]

\* A state message: the number, and the reason if there is one.
StateDocument(name, code, reason) ==
  ToClixml(Object(<< <<name, I32(code)>> >> \o reason.member))

\* What the client makes of a message: its type, its state and its reason.
Heard(bytes) ==
  {[type |-> FromU32(m.code), wire |-> m.code, to |-> m.destination, rpid |-> m.rpid, pid |-> m.pid,
    code |-> ExtractRunspaceState(m.data), reason |-> TerminalStateReason(m.data)]
     : m \in DecodeMessage(bytes)}

\* The whole of on_message, for a message of this code and document.
Receive(wire, document, meant) ==
  \E h \in Heard(EncodeMessage(Psrp("Client", wire, Rpid, Pid, document))) :
    /\ CASE h.type # "RunspacePoolState"                      -> OnOther
         [] h.type = "RunspacePoolState" /\ h.code = None     -> OnMalformed
         [] h.type = "RunspacePoolState" /\ h.code # None     -> OnState(UnwrapOr(h.code, 0))
    /\ exchange' = [kind |-> "message", meant |-> meant, heard |-> h]

ReceiveState ==
  /\ Idle
  /\ \E code \in Codes, reason \in Reasons :
       Receive(ToU32.RunspacePoolState, StateDocument("RunspaceState", code, reason),
               [wire |-> ToU32.RunspacePoolState, type |-> "RunspacePoolState", code |-> Some(code),
                reason |-> reason.text])

\* Any other message; its document is of no interest, and may be none.
ReceiveOther ==
  /\ Idle
  /\ \E type \in OtherTypes :
       Receive(type[2], <<>>, [wire |-> type[2], type |-> type[1], code |-> None, reason |-> None])

-----------------------------------------------------------------------------
(* What an open pool writes and reads.                                     *)

\* A text of an element, of an attribute, and as the server writes it.
WriteText ==
  /\ After("Opened")
  /\ \E s \in Texts : exchange' = [kind |-> "text", text |-> s, element |-> EscapeInner(s, FALSE),
                                   attribute |-> EscapeInner(s, TRUE), server |-> PwshEncodeString(s)]

\* Bytes, of an encrypted text or a public key.
WriteBytes ==
  /\ After("Opened")
  /\ \E b \in Bytes : exchange' = [kind |-> "bytes", bytes |-> b, text |-> Base64Encode(b)]

\* encrypt_secure_string
EncryptSecret ==
  /\ After("Opened")
  /\ \E s \in Secrets : exchange' = [kind |-> "secret", text |-> s, blocks |-> EncryptSecureString("key", s)]

\* The client sends its public key as text, the server wraps a key for it.
ExchangeKey ==
  /\ After("Opened")
  /\ \E public \in PublicKeys, key \in SharedKeys :
       LET blob == Base64Decode(Base64Encode(PublicBlob(public)))
       IN  exchange' = [kind |-> "exchange", public |-> public, key |-> key,
                        wrapped |-> {ServerWrap(b, key) : b \in blob}]

\* write_input
WriteInput ==
  /\ After("Opened")
  /\ \E v \in SampleValues : exchange' = [kind |-> "value", value |-> v, document |-> ToClixml(v)]

\* start; a pipeline of no command is refused, and sends nothing.
StartPipeline ==
  /\ After("Opened")
  /\ \E p \in SamplePipelines :
       exchange' = [kind |-> "pipeline", pipeline |-> p, documents |-> CreatePipelineXml(p)]

\* get_command_metadata, and what the server answers with.
QueryCommands ==
  /\ After("Opened")
  /\ \E answer \in {s \in Said : s.type = "GetCommandMetadata"} :
       exchange' = [kind |-> "query", document |-> GetCommandMetadataBody(<<"Get-*", "Set-*">>, 8),
                    commands |-> ReadEach(Values(ToClixml(answer.value)), CommandMetadata),
                    meant |-> answer.typed]

\* The document of a call, its method as a number or as an enum.
CallDocument(call) ==
  ToClixml(Object(<< <<"ci", I64(call.ci)>>,
                     <<"mi", IF call.boxed THEN PsEnum("RemoteHostMethodId", "", call.mi) ELSE I32(call.mi)>>,
                     <<"mp", List(call.args)>> >>))

\* A call of the host, and the reply made.
HostCall ==
  /\ After("Opened")
  /\ \E call \in Calls, returned \in Returns, key \in Keys :
       exchange' = [kind |-> "call", call |-> call, returned |-> returned, key |-> key,
                    reply |-> HandleHostCall(CallDocument(call), returned, key)]

BeginRun ==
  /\ After("Opened")
  /\ exchange' = [kind |-> "run", said |-> <<>>, code |-> 1, reason |-> None, result |-> Running]

\* The pipeline says something on one of its streams.
RunSays ==
  /\ exchange.kind = "run" /\ exchange.result.end = "" /\ Len(exchange.said) < MaxSaid
  /\ \E s \in {t \in Said : t.type \in DOMAIN StreamOf} :
       exchange' = [exchange EXCEPT !.said = Append(@, s),
                                    !.result = Take(@, s.type, ToClixml(s.value))]
  /\ UNCHANGED vars

\* The pipeline changes its state.
RunState ==
  /\ exchange.kind = "run" /\ exchange.result.end = ""
  /\ \E code \in RunCodes, reason \in Reasons :
       exchange' = [exchange EXCEPT !.code = code, !.reason = reason.text,
                                    !.result = Take(@, "PipelineState", StateDocument("PipelineState", code, reason))]
  /\ UNCHANGED vars

DocNext ==
  \/ Handshake \/ Owner \/ Done
  \/ BeginDocument \/ PutStart \/ PutEmpty \/ PutText \/ PutEnd \/ EndDocument
  \/ ReceiveState \/ ReceiveOther
  \/ WriteText \/ WriteBytes \/ EncryptSecret \/ ExchangeKey \/ WriteInput \/ StartPipeline \/ QueryCommands \/ HostCall
  \/ BeginRun \/ RunSays \/ RunState

DocSpec == DocInit /\ [][DocNext]_allVars

-----------------------------------------------------------------------------
(* Properties.                                                             *)

\* The values a call in progress holds.
Held(f) ==
  CASE f.f = "Obj"     -> SetToSeq(f.value) \o [i \in DOMAIN f.props |-> f.props[i][2]]
    [] f.f = "Members" -> [i \in DOMAIN f.props |-> f.props[i][2]]
    [] f.f = "List"    -> f.items
    [] f.f = "Dict"    -> FlattenSeq(f.entries)
    [] f.f = "Entry"   -> <<f.key, f.val>>
    [] f.f = "Skip"    -> SetToSeq(f.value)
    [] OTHER           -> <<>>

\* What a decoder holds: values read, in progress, and kept for references.
Weigh(values) == Total([i \in DOMAIN values |-> values[i].w])
Weight(d) ==
  Weigh(d.out) + Total([i \in DOMAIN d.stack |-> Weigh(Held(d.stack[i]))])
    + FoldSet(LAMBDA id, sum : sum + d.refs[id].w, 0, DOMAIN d.refs)

\* How deep the values read and in progress are.
Height(d) ==
  LET above(i) == Cardinality({j \in 1..i : d.stack[j].f \in {"Obj", "List", "Dict"}})
      top(values) == Tallest([k \in DOMAIN values |-> values[k].h])
  IN  Tallest(<<top(d.out)>> \o [i \in DOMAIN d.stack |-> above(i) + top(Held(d.stack[i]))])

\* Whatever a document is made of, and however its references are chained, the
\* decoder holds no more than the same document without references does, and the
\* budget beside it, copies kept for references included (resolve_ref, charge).
ReferencesBounded ==
  Writing => Weight(exchange.read) <= Weight(exchange.own) + DocBudget

\* No value is nested deeper than two containers for each level allowed (an object
\* and the list in it).  References nest values no deeper than the document
\* itself does, or than what a reference can reach: it is in a level at least,
\* plants a level at least, and only those around it count twice.  The depth is
\* that of the elements in progress, so that none is refused for those before it
\* (parse_element, resolve_ref).
NestingBounded ==
  Writing =>
    /\ Height(exchange.own) <= 2 * DocDepth
    /\ Height(exchange.read) <= Max({Height(exchange.own), 2 * DocDepth - 3})
    /\ exchange.read.depth <= DocDepth
    /\ exchange.read.depth =
         Len(SelectSeq(exchange.read.stack,
                       LAMBDA f : f.f \in {"Text", "Obj"} \/ (f.f = "Skip" /\ f.element)))

\* Every text comes back from an element and from an attribute as it was written,
\* texts that look like escapes included; so does one the server wrote,
\* bytes from their base64, and a secret from its blocks, texts that look like padding
\* included: with its key only, and no more than its beginning of blocks cut short.
\* A key of the right length is unwrapped by the client it was wrapped for, and by no
\* other (escape_inner, decode_pwsh_escapes, base64_decode, decrypt_secure_string,
\* decrypt_session_key).
TextReadsBack ==
  /\ exchange.kind = "text" =>
       \A written \in {<<exchange.element, FALSE>>, <<exchange.attribute, TRUE>>, <<exchange.server, FALSE>>} :
         DecodePwshEscapes(Normalize(written[1], written[2])) = exchange.text
  /\ exchange.kind = "bytes" => Base64Decode(exchange.text) = {exchange.bytes}
  /\ exchange.kind = "secret" =>
       /\ DecryptSecureString("key", exchange.blocks, 0) = {exchange.text}
       /\ DecryptSecureString("another", exchange.blocks, 0) = {}
       /\ DecryptSecureString("key", exchange.blocks, 1) = {}
       /\ \A n \in 0..Len(exchange.blocks) :
            \A read \in DecryptSecureString("key", SubSeq(exchange.blocks, 1, n), 0) :
              IsPrefix(Utf16Units(read), Utf16Units(exchange.text))
  /\ exchange.kind = "exchange" =>
       /\ exchange.wrapped # {}
       /\ \A wrapped \in exchange.wrapped, private \in PublicKeys :
            DecryptSessionKey(private, wrapped)
              = IF private = exchange.public /\ Len(exchange.key) = KeyBytes THEN {exchange.key} ELSE {}

\* What is read of a written value: a container comes back inside an object, a
\* label and what an object holds beside members do not come back.
RECURSIVE ReadsAs(_)
ReadsAs(v) ==
  LET items(x)   == List([i \in DOMAIN x.items |-> ReadsAs(x.items[i])])
      entries(x) == Dict([i \in DOMAIN x.entries |-> [k \in {1, 2} |-> ReadsAs(x.entries[i][k])]])
      bare(x)    == CASE x.t = "List" -> items(x) [] x.t = "Dict" -> entries(x) [] OTHER -> ReadsAs(x)
      others     == SelectSeq(v.props, LAMBDA p : p[1] # "_value")
      held       == {<<"_value", bare(x)>> : x \in {y \in Get(v, "_value") : y.t # "Null"}}
  IN  CASE v.t = "C"                 -> Char(Unit(v.n))
        [] v.t \in {"List", "Dict"}  -> Object(<< <<"_value", bare(v)>> >>)
        [] v.t = "Object"            ->
             Typed(v.types, IF others = <<>> THEN SetToSeq(held)
                            ELSE [i \in DOMAIN others |-> <<others[i][1], ReadsAs(others[i][2])>>])
        [] OTHER                     -> v

\* Each object and each TN has a RefId of its own.
IdsUnique(document) ==
  LET ids == SelectSeq(document, LAMBDA e : e.k = "Start" /\ e.tag \in {"Obj", "TN"} /\ e.id # Absent)
  IN  Cardinality({ids[i].id : i \in DOMAIN ids}) = Len(ids)

\* The command a server reads in an element of Cmds, and the one it stands for.
Merges == [MergeMyResult |-> 2, MergeToResult |-> 1]
ReadCommand(v) ==
  [name |-> PropertyStr(v, "Cmd"), is_script |-> Then(Get(v, "IsScript"), AsBool),
   merges |-> [field \in DOMAIN Merges |-> Then(Then(Get(v, field), Plain), AsI32)],
   typed  |-> \A name \in DOMAIN Merges \cup ToSet(MergeRest) :
                \A x \in Get(v, name) : x.types = EnumTypes(ResultTypes),
   args   |-> ReadEach(Items(Then(Get(v, "Args"), Plain)), LAMBDA a : Some(<<Get(a, "N"), Get(a, "V")>>))]
MeantCommand(c) ==
  [name |-> Some(c.name), is_script |-> Some(c.is_script),
   merges |-> [field \in DOMAIN Merges |-> Some(IF c.merge THEN Merges[field] ELSE 0)],
   typed  |-> TRUE,
   args   |-> [i \in DOMAIN c.args |-> [k \in {1, 2} |-> {ReadsAs(ArgMembers(c.args[i])[k][2])}]]]

\* A value written is read as what it was but for what CLIXML does not tell, and a
\* pipeline is the commands it was built of, each with its merges and
\* arguments, although the types of all of them are written once and referred to
\* (write_value_with, build_create_pipeline_xml).
WrittenReadsBack ==
  /\ exchange.kind = "handshake" =>
       \A name \in {"MinRunspaces", "MaxRunspaces", "PSThreadOptions", "ApartmentState"} :
         LET pool == Values(exchange.documents[2])[1]
         IN  /\ Then(Then(Get(pool, name), Plain), AsI32)
                  = Some([MinRunspaces |-> 1, MaxRunspaces |-> 2, PSThreadOptions |-> 0, ApartmentState |-> 2][name])
             /\ \A i \in {1, 2} : IdsUnique(exchange.documents[i])
  /\ exchange.kind = "value" =>
       /\ ParseClixml(exchange.document) = Some(<<ReadsAs(exchange.value)>>)
       /\ IdsUnique(exchange.document)
  /\ exchange.kind = "pipeline" =>
       \A document \in exchange.documents :
         LET root  == Values(document)[1]
             shell == UnwrapOr(Get(root, "PowerShell"), Null)
             cmds  == Items(Then(Get(shell, "Cmds"), Plain))
         IN  /\ IdsUnique(document)
             /\ Then(Get(root, "NoInput"), AsBool) = Some(exchange.pipeline.no_input)
             /\ Then(Get(root, "AddToHistory"), AsBool) = Some(exchange.pipeline.add_to_history)
             /\ [i \in DOMAIN cmds |-> ReadCommand(cmds[i])]
                  = [i \in DOMAIN exchange.pipeline.commands |-> MeantCommand(exchange.pipeline.commands[i])]

\* What a run of the pipeline comes to, of what it said.
RunAsSaid(result, said) ==
  LET on(type) == SelectSeq(said, LAMBDA x : x.type = type)
      typed    == TypedRecords(result)
  IN  \A type \in DOMAIN StreamOf :
        /\ result.streams[StreamOf[type]] = [i \in DOMAIN on(type) |-> ReadsAs(on(type)[i].value)]
        /\ StreamOf[type] \in DOMAIN typed =>
             typed[StreamOf[type]] = ReadEach(on(type), LAMBDA x : x.typed)

\* The failure names its reason, once, then the first errors, and counts the others.
FailureExplained(failure, reason, said) ==
  LET errors == SelectSeq(said, LAMBDA x : x.type = "ErrorRecord")
      quoted == [i \in {j \in DOMAIN errors : j <= MaxDescribedErrors} |-> errors[i].text]
      others == Len(errors) - Len(quoted)
      lead   == IF reason = None \/ reason \subseteq ToSet(quoted) THEN <<>> ELSE SetToSeq(reason)
  IN  IF lead \o quoted = <<>> THEN failure = <<"unknown error">>
      ELSE failure = lead \o quoted \o (IF others > 0 THEN <<ToString(others) \o " more">> ELSE <<>>)

\* The answer a server should read for what the host returned.
Sealed(key, text) == Text("SS", Encrypted(UnwrapOr(key, ""), text))
MeantAnswer(method, r, key) ==
  CASE method = "ReadLine"               -> Str(r.line)
    [] method = "ReadLineAsSecureString" -> Sealed(key, r.line)
    [] method = "PromptForChoice"        -> I32(r.choice)
    [] method = "Prompt"                 ->
         ReadsAs(List([i \in DOMAIN r.fields |->
                         IF r.fields[i].t = "SS" THEN Sealed(key, r.fields[i].s) ELSE r.fields[i]]))
    [] method = "PromptForCredential"    ->
         Object(<< <<"UserName", Str(r.user)>>, <<"Password", Sealed(key, r.line)>> >>)

\* A write is answered with nothing and goes to its stream; another call is
\* answered with what the host returned, under the numbers of that call; an
\* answer with a secret waits for a key, and carries no secret as it was typed.
CallAnswered(call, returned, key, reply) ==
  LET method == FromI64(call.mi)
      answer == IF reply.body = <<>> THEN Null ELSE Values(reply.body)[1]
      mr     == {MeantAnswer(method, r, key) : r \in returned}
      secret == method \in {"Prompt", "ReadLineAsSecureString", "PromptForCredential"}
      own    == Get(answer, "ci") = Some(I64(call.ci)) /\ Get(answer, "mi") = Some(I64(call.mi))
  IN  CASE IsVoid(method) -> reply.kind = "none" /\ reply.host = call.meant
        [] method = "Other" \/ (~IsVoid(method) /\ returned = None) ->
             /\ reply.kind = "error" /\ own
             /\ Get(answer, "mr") = None /\ Then(Get(answer, "me"), ExceptionInfo) # None
        [] ~IsVoid(method) /\ method # "Other" /\ returned # None /\ secret /\ key = None ->
             reply.kind = "parked" /\ reply.body = <<>> /\ reply.host = call.meant
        [] OTHER ->
             /\ reply.kind = "answer" /\ own /\ reply.host = call.meant
             /\ Get(answer, "mr") = mr /\ Get(answer, "me") = None

\* What one side writes the other reads as it was meant: the type, the ids, the
\* state and the reason of a message, what a pipeline says and why it failed, the
\* commands of a query, the calls of the host and their answers.  Members
\* that are lists are excepted: a decoded list is inside an object, and is read as none
\* (records.rs:203, metadata.rs:98, host.rs:362 and 392).
ReadAsMeant ==
  /\ exchange.kind = "message" =>
       /\ \A field \in DOMAIN exchange.meant : exchange.heard[field] = exchange.meant[field]
       /\ exchange.heard.to = "Client" /\ exchange.heard.rpid = Rpid /\ exchange.heard.pid = Pid
  /\ exchange.kind = "query" => exchange.commands = exchange.meant
  /\ exchange.kind = "run" =>
       /\ RunAsSaid(exchange.result, exchange.said)
       /\ exchange.result.state = (IF exchange.result.end = "" THEN exchange.result.state
                                   ELSE PipelineStates[exchange.code + 1])
       /\ exchange.result.end = "Failed" =>
            FailureExplained(exchange.result.failure, exchange.reason, exchange.said)
  /\ exchange.kind = "call" =>
       CallAnswered(exchange.call, exchange.returned, exchange.key, exchange.reply)
=============================================================================
