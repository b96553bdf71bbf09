------------------------------ MODULE HostCalls ------------------------------
(***************************************************************************)
(* A call of the server to the host of the client: its document read       *)
(* (handle_host_call, src/runspace/pool.rs), the method called             *)
(* (dispatch_host_call, src/host.rs), and the document of the answer.      *)
(* When the answer is sent or parked is RunspacePool's part.               *)
(***************************************************************************)
EXTENDS ClixmlEncoder, Records

\* HostMethodId::from_i64, and to_i64 its inverse; other numbers are Other.
MethodOf ==
  (11 :> "WriteLine1") @@ (12 :> "WriteLine2") @@ (13 :> "WriteLine3") @@ (14 :> "WriteErrorLine")
  @@ (15 :> "WriteDebugLine") @@ (16 :> "WriteProgress") @@ (17 :> "WriteVerboseLine")
  @@ (18 :> "WriteWarningLine") @@ (51 :> "ReadLine") @@ (52 :> "ReadLineAsSecureString")
  @@ (53 :> "Prompt") @@ (54 :> "PromptForCredential") @@ (56 :> "PromptForChoice")
FromI64(mi) == IF mi \in DOMAIN MethodOf THEN MethodOf[mi] ELSE "Other"

\* The stream of the host each void method writes to (is_void, BufferedHost).
StreamOfMethod ==
  [WriteLine1 |-> "lines", WriteLine2 |-> "lines", WriteLine3 |-> "lines",
   WriteErrorLine |-> "errors", WriteWarningLine |-> "warnings", WriteVerboseLine |-> "verbose",
   WriteDebugLine |-> "debug", WriteProgress |-> "progress"]
IsVoid(method) == method \in DOMAIN StreamOfMethod

-----------------------------------------------------------------------------
(* dispatch_host_call.                                                     *)

\* What a call comes to: written to a stream, asked of the host, answered, refused.
Written(stream, what) == [outcome |-> "void", host |-> <<stream, what>>, value |-> Null]
Answered(asked, v)    == [outcome |-> "value", host |-> asked, value |-> v]
Rejected(asked)       == [outcome |-> "error", host |-> asked, value |-> Null]

Arg(mp, i)     == IF i \in DOMAIN mp THEN Some(mp[i]) ELSE None
TextArg(mp, i) == UnwrapOr(Then(Arg(mp, i), AsStr), "")

\* The label and the help of a choice that is an object.
Choice(v) ==
  IF IsObject(v)
  THEN Some(<<UnwrapOr(PropertyStr(v, "Label"), ""), UnwrapOr(PropertyStr(v, "HelpMessage"), "")>>)
  ELSE None

\* What a method asks of the host.
Asked(method, mp) ==
  CASE method = "PromptForChoice" ->
         <<TextArg(mp, 1), TextArg(mp, 2), ReadEach(Items(Arg(mp, 3)), Choice),
           UnwrapOr(Then(Arg(mp, 4), AsI32), 0)>>
    [] method = "Prompt" -> <<TextArg(mp, 1), TextArg(mp, 2), ReadEach(Items(Arg(mp, 3)), AsStr)>>
    [] method = "PromptForCredential" -> <<TextArg(mp, 1), TextArg(mp, 2), TextArg(mp, 3)>>
    [] OTHER -> <<>>

\* The value made of what the host returns for a method.
ValueOf(method, returned) ==
  CASE method = "ReadLine"               -> Str(returned.line)
    [] method = "ReadLineAsSecureString" -> Text("SS", returned.line)
    [] method = "PromptForChoice"        -> I32(returned.choice)
    [] method = "Prompt"                 -> List(returned.fields)
    [] method = "PromptForCredential"    ->
         Object(<< <<"UserName", Str(returned.user)>>, <<"Password", Text("SS", returned.line)>> >>)

\* NoInteractionHost and BufferedHost return None, and reject what asks for an answer.
Dispatch(returned, mi, mp) ==
  LET method == FromI64(mi)
  IN  CASE method = "WriteProgress" ->
             Written("progress", <<UnwrapOr(Then(Arg(mp, 1), AsI64), 0), UnwrapOr(Arg(mp, 2), Null)>>)
        [] IsVoid(method) /\ method # "WriteProgress" ->
             Written(StreamOfMethod[method], ReadEach(mp, AsStr))
        [] method = "Other" \/ (~IsVoid(method) /\ returned = None) -> Rejected(Asked(method, mp))
        [] OTHER -> Answered(Asked(method, mp), ValueOf(method, UnwrapOr(returned, [line |-> ""])))

-----------------------------------------------------------------------------
(* SecureStrings.  A text encrypted with a key is named after both.        *)

Encrypted(key, text) == key \o ":" \o text

RECURSIVE ContainsSecureString(_)
ContainsSecureString(v) ==
  CASE v.t = "SS"     -> TRUE
    [] v.t = "List"   -> \E i \in DOMAIN v.items : ContainsSecureString(v.items[i])
    [] v.t = "Dict"   -> \E i \in DOMAIN v.entries, k \in {1, 2} : ContainsSecureString(v.entries[i][k])
    [] v.t = "Object" -> \E i \in DOMAIN v.props : ContainsSecureString(v.props[i][2])
    [] OTHER          -> FALSE

\* Variant: only what the answer itself is.
EncryptTop(v, key) == IF v.t = "SS" THEN Text("SS", Encrypted(key, v.s)) ELSE v

RECURSIVE EncryptSecureStrings(_, _)
EncryptSecureStrings(v, key) ==
  CASE v.t = "SS"     -> Text("SS", Encrypted(key, v.s))
    [] v.t = "List"   -> List([i \in DOMAIN v.items |-> EncryptSecureStrings(v.items[i], key)])
    [] v.t = "Dict"   -> Dict([i \in DOMAIN v.entries |->
                                 [k \in {1, 2} |-> EncryptSecureStrings(v.entries[i][k], key)]])
    [] v.t = "Object" -> Labelled(v.types, v.label,
                           [i \in DOMAIN v.props |-> <<v.props[i][1], EncryptSecureStrings(v.props[i][2], key)>>])
    [] OTHER          -> v

-----------------------------------------------------------------------------
(* handle_host_call.                                                       *)

\* build_host_response_body, build_host_response_error_body
HostResponse(ci, mi, v) ==
  ToClixml(Object(<< <<"ci", I64(ci)>>, <<"mi", I64(mi)>>, <<"mr", v>> >>))
HostError(ci, mi, message) ==
  ToClixml(Object(<< <<"ci", I64(ci)>>, <<"mi", I64(mi)>>,
                     <<"me", Typed(<<"System.Exception">>, << <<"Message", Str(message)>> >>)>> >>))

\* What a number of the call is, or the value inside the enum it is sent as.
Plain(v) == IF IsObject(v) THEN Get(v, "_value") ELSE Some(v)

\* mp, the arguments: a list, or one inside an object.
Arguments(root) ==
  LET mp == Get(root, "mp")
      inner == Then(mp, LAMBDA v : IF IsObject(v) THEN Get(v, "_value") ELSE None)
  IN  Items(mp) \o Items(inner)

Reply(kind, ci, mi, host, value, body) ==
  [kind |-> kind, ci |-> ci, mi |-> mi, host |-> host, value |-> value, body |-> body]
Unreadable == Reply("unreadable", 0, 0, <<>>, Null, <<>>)

\* The reply to a call, of what it came to.
ReplyTo(ci, mi, result, key) ==
  LET secret     == ContainsSecureString(result.value)
      answer(v)  == Reply("answer", ci, mi, result.host, v, HostResponse(ci, mi, v))
  IN  CASE result.outcome = "void"  -> Reply("none", ci, mi, result.host, Null, <<>>)
        [] result.outcome = "error" -> Reply("error", ci, mi, result.host, Null, HostError(ci, mi, "rejected"))
        [] result.outcome = "value" /\ secret /\ key = None -> Reply("parked", ci, mi, result.host, result.value, <<>>)
        [] OTHER -> answer(IF secret THEN EncryptSecureStrings(result.value, UnwrapOr(key, "")) ELSE result.value)

\* The whole handler, but for the sending; key is an Option.
HandleHostCall(document, returned, key) ==
  LET root == Head(Append(Values(document), Null))
  IN  UnwrapOr({ReplyTo(ci, mi, Dispatch(returned, mi, Arguments(root)), key) :
                  ci \in Then(Get(root, "ci"), AsI64), mi \in Then(Then(Get(root, "mi"), Plain), AsI64)},
               Unreadable)
=============================================================================
