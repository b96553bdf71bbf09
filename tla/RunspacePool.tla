----------------------------- MODULE RunspacePool -----------------------------
(***************************************************************************)
(* The async driver of a runspace pool (src/runspace/pool.rs): it opens    *)
(* the pool, exchanges a session key, answers the server's host calls and  *)
(* feeds the state machine of PoolStates, all from one read loop           *)
(* (next_message) that whichever call is reading runs.                     *)
(*                                                                         *)
(* A call runs to its next await; `pc` names it: the transport's receive,  *)
(* the host being asked, a message being sent, the shell being closed or   *)
(* disconnected.  There the call can be dropped, and a running pipeline    *)
(* cancelled.  `after` is what the sender does once the send returned.     *)
(*                                                                         *)
(* The server is external.  It may send anything the readers distinguish,  *)
(* and answers the public key it was last sent.                            *)
(***************************************************************************)
EXTENDS PoolStates, FiniteSets

CONSTANTS
  Calls,      \* the host calls of the server, by their ci
  None,
  ServerStates, \* the pool states the server reports
  MaxOps,     \* bound on the calls started
  MaxNoise,   \* bound on the server's other messages
  MaxFaults,  \* bound on dropped calls, failed sends and cancelled reads
  OutOfBand   \* whether set_session_key and reconnect are used

ASSUME ConstantsAssumption ==
  /\ None \notin Int /\ None \notin Calls
  /\ ServerStates \subseteq States
  /\ {MaxOps, MaxNoise, MaxFaults} \subseteq Nat
  /\ OutOfBand \in BOOLEAN

VARIABLES
  machine,             \* the state machine's state
  next_object_id,
  session_key,         \* the exchange that gave the key; negative: set_session_key
  pending_client_key,  \* the exchange whose reply is awaited
  deferred,            \* deferred_host_responses, by their call
  pending_messages,    \* in the order they are popped
  conn,                \* "none", "live", "away" once disconnected, "gone"
  caller, pc,          \* the call in progress and its await point
  cur, out, after,     \* the message being handled, the one being sent, what follows
  failing,             \* the list fail_deferred_host_responses took
  cancelled,           \* cancel_signalled
  s2c,                 \* messages the transport has yet to hand out
  to_reply,            \* public keys the server has to reply to
  called,              \* the host calls sent
  keys,                \* the RSA key pairs generated
  ops, noise, faults,  \* what the bounds count
  answers,             \* the answers that reached the server, by call
  ids,                 \* the object ids that reached the server
  silent, unreadable,  \* calls that need no answer; calls that could not be read
  lost                 \* how a call may have been lost

key    == <<session_key, pending_client_key>>
store  == <<deferred, pending_messages>>
call   == <<conn, caller, pc, cur, cancelled>>
send   == <<next_object_id, out, after, failing, keys>>
server == <<s2c, to_reply, called, noise>>
seen   == <<answers, ids>>
history == <<silent, unreadable, lost, ops, faults>>
outside == <<server, seen, history>>
vars   == <<machine, key, store, call, send, outside>>

Kinds == {"HostCall", "PublicKeyRequest", "EncryptedSessionKey", "State", "Done", "Bad"}
Msg(kind, arg) == [kind |-> kind, arg |-> arg]
\* No message in hand, or one that every reader ignores: the message made up
\* for an empty chunk.
Nothing == Msg("Empty", None)

-----------------------------------------------------------------------------
(* Sending.                                                                *)

Plain(kind)    == [kind |-> kind, call |-> None, secret |-> FALSE, key |-> None]
Public(n)      == [Plain("PublicKey") EXCEPT !.key = n]
Answer(c)      == [Plain("Answer") EXCEPT !.call = c]
Secret(c, k)   == [Answer(c) EXCEPT !.secret = TRUE, !.key = k]
Error(c)       == [Answer(c) EXCEPT !.kind = "Error"]

\* Variant: the counter of the ids wraps.
SendWrapping(m, then) ==
  /\ next_object_id' = (next_object_id + 1) % 4
  /\ out' = m
  /\ after' = then
  /\ pc' = "send"

\* send_psrp_message, send_pipeline_message: take an object id, then wait for
\* the transport.
Send(m, then) ==
  /\ next_object_id' = next_object_id + 1
  /\ out' = m
  /\ after' = then
  /\ pc' = "send"

\* start_exchange, with the pair just generated.
Exchange(then) ==
  /\ keys' = keys + 1
  /\ Send(Public(keys + 1), then)

\* What reaches the server.
Deliver ==
  /\ ids' = Append(ids, next_object_id - 1)
  /\ to_reply' = IF out.kind = "PublicKey" THEN Append(to_reply, out.key) ELSE to_reply
  /\ answers' = IF out.call = None THEN answers
                ELSE [answers EXCEPT ![out.call] =
                        Append(@, [secret |-> out.secret, key |-> out.key])]
  /\ UNCHANGED <<s2c, called, noise>>

-----------------------------------------------------------------------------
(* The end of a call, and what its reader does with a message.             *)

\* The call ends; `open` that fails and `close` leave no pool behind.
Return(r) ==
  /\ caller' = "none" /\ pc' = "idle" /\ cur' = Nothing /\ cancelled' = FALSE
  /\ conn' = IF caller = "close" \/ (caller = "open" /\ r # "ok") THEN "gone" ELSE conn

Goto(at) == pc' = at /\ UNCHANGED <<conn, caller, cancelled>>

\* drain_until_opened and await_session_key feed the state machine; the
\* pipelines' loops drop what is not theirs.
Fed(m) == m.kind = "State" /\ caller \in {"open", "key"}

\* next_message returns m to its reader, k being the session key by then.
HandOn(m, k) ==
  /\ machine' = IF Fed(m) THEN AfterServer(machine, m.arg) ELSE machine
  /\ CASE Fed(m) /\ ServerError(machine, m.arg)       -> Return("err")
       [] caller = "open" /\ machine' = "Opened"      -> Return("ok")
       [] caller = "key" /\ k # None                  -> Return("ok")
       [] caller = "run" /\ m.kind = "Done"           -> Return("ok")
       [] OTHER                                       -> Goto("top") /\ cur' = Nothing

-----------------------------------------------------------------------------
(* The calls of the pool.                                                  *)

Idle  == conn = "live" /\ pc = "idle"
Begin == ops < MaxOps /\ ops' = ops + 1

\* open_with_options_and_host: the handshake is sent message by message.
OpenWithOptions ==
  /\ Begin /\ conn = "none" /\ MayOpen(machine)
  /\ conn' = "live" /\ caller' = "open" /\ machine' = "NegotiationSent"
  /\ Send(Plain("SessionCapability"), "capability")
  /\ UNCHANGED <<key, store, cur, cancelled, failing, keys, server, seen,
                 silent, unreadable, lost, faults>>

\* Variant: the ids of the creation fragments are used again.
OpenFromTransportAtOne ==
  /\ Begin /\ conn = "none" /\ MayOpen(machine)
  /\ conn' = "live" /\ caller' = "open" /\ machine' = "NegotiationSent"
  /\ next_object_id' = 1 /\ ids' = <<1, 2>> /\ pc' = "top"
  /\ UNCHANGED <<key, store, cur, cancelled, out, after, failing, keys, server, answers,
                 silent, unreadable, lost, faults>>

\* open_from_transport_with_host: ids 1 and 2 went with the shell's creation.
OpenFromTransport ==
  /\ Begin /\ conn = "none" /\ MayOpen(machine)
  /\ conn' = "live" /\ caller' = "open" /\ machine' = "NegotiationSent"
  /\ next_object_id' = 3 /\ ids' = <<1, 2>> /\ pc' = "top"
  /\ UNCHANGED <<key, store, cur, cancelled, out, after, failing, keys, server, answers,
                 silent, unreadable, lost, faults>>

\* request_session_key; it returns at once when there is a key.
RequestSessionKey ==
  /\ Idle /\ Begin /\ session_key = None
  /\ caller' = "key"
  /\ IF pending_client_key = None
     THEN Exchange("ask")
     ELSE pc' = "top" /\ UNCHANGED <<next_object_id, out, after, keys>>
  /\ UNCHANGED <<machine, key, store, conn, cur, cancelled, failing, server, seen,
                 silent, unreadable, lost, faults>>

\* Pipeline::start, then its drain loop.
RunPipeline ==
  /\ Idle /\ Begin
  /\ caller' = "run"
  /\ Send(Plain("CreatePipeline"), "run")
  /\ UNCHANGED <<machine, key, store, conn, cur, cancelled, failing, keys, server, seen,
                 silent, unreadable, lost, faults>>

\* A key given out of band, numbered by the exchanges started before it.
OutOfBandKey == -1 - keys

\* Variant: the reply to an exchange under way can still come.
SetSessionKeyOnly ==
  /\ Idle /\ Begin /\ OutOfBand
  /\ session_key' = OutOfBandKey
  /\ UNCHANGED <<pending_client_key, machine, store, call, send, server, seen, silent, unreadable,
                 lost, faults>>

\* set_session_key: an exchange under way is abandoned.
SetSessionKey ==
  /\ Idle /\ Begin /\ OutOfBand
  /\ session_key' = OutOfBandKey
  /\ pending_client_key' = None
  /\ UNCHANGED <<machine, store, call, send, server, seen,
                 silent, unreadable, lost, faults>>

\* close: a pool that already ended sends nothing.
Close ==
  /\ Idle /\ Begin
  /\ caller' = "close"
  /\ IF MayClose(machine)
     THEN machine' = "Closing" /\ Send(Plain("CloseRunspacePool"), "close")
     ELSE pc' = "closing" /\ UNCHANGED <<machine, next_object_id, out, after>>
  /\ UNCHANGED <<key, store, conn, cur, cancelled, failing, keys, server, seen,
                 silent, unreadable, lost, faults>>

\* close, once the transport tore the shell down, or failed to.
Closed(ok) ==
  /\ pc = "closing"
  /\ machine' = IF ok THEN "Closed" ELSE machine
  /\ Return("ok")
  /\ UNCHANGED <<key, store, send, outside>>

\* disconnect: only the key outlives the pool; a failure ends it.
Disconnect(ok) ==
  /\ Idle /\ Begin /\ OutOfBand
  /\ conn' = IF ok THEN "away" ELSE "gone"
  /\ deferred' = <<>> /\ pending_messages' = <<>> /\ pending_client_key' = None
  /\ lost' = lost \cup {"disconnected"}
  /\ UNCHANGED <<machine, session_key, caller, pc, cur, cancelled, send, server, seen, silent,
                 unreadable, faults>>

\* DisconnectedPool::reconnect: a fresh machine, connected at once.
Reconnect ==
  /\ Begin /\ conn = "away"
  /\ conn' = "live" /\ machine' = "Opened" /\ next_object_id' = 1
  /\ UNCHANGED <<key, store, caller, pc, cur, cancelled, out, after, failing, keys, server, seen,
                 silent, unreadable, lost, faults>>

-----------------------------------------------------------------------------
(* next_message: the parked answers, then the buffered messages, then the  *)
(* transport.                                                              *)

Popped(kind) ==
  /\ pc = "top" /\ (deferred = <<>> \/ session_key = None)
  /\ pending_messages # <<>>
  /\ Head(pending_messages).kind = kind
  /\ pending_messages' = Tail(pending_messages)

\* Answers parked for a key that has come since.
FlushFirst ==
  /\ pc = "top" /\ deferred # <<>> /\ session_key # None
  /\ Send(Secret(Head(deferred), session_key), "flush")
  /\ UNCHANGED <<machine, key, store, conn, caller, cur, cancelled, failing, keys, outside>>

\* handle_host_call reads the call and asks the host.
PopHostCall ==
  /\ Popped("HostCall")
  /\ Goto("host") /\ cur' = Head(pending_messages)
  /\ UNCHANGED <<machine, key, deferred, send, outside>>

\* ... or cannot read it: bad CLIXML, no object, no `ci` or no `mi`.  The call
\* is popped by then, and the read ends with the error.
PopUnreadableCall ==
  /\ Popped("HostCall")
  /\ unreadable' = unreadable \cup {Head(pending_messages).arg}
  /\ Return("err")
  /\ UNCHANGED <<machine, key, deferred, send, server, seen, silent, lost, ops, faults>>

\* A state, the end of a pipeline: handed on as it is.
PopOther(kind) ==
  /\ Popped(kind)
  /\ HandOn(Head(pending_messages), session_key)
  /\ UNCHANGED <<key, deferred, send, outside>>

\* start_exchange_unless_pending: even when a key is held.
PopPublicKeyRequest ==
  /\ Popped("PublicKeyRequest")
  /\ IF pending_client_key # None
     THEN HandOn(Head(pending_messages), session_key) /\ UNCHANGED send
     ELSE /\ Exchange("requested")
          /\ cur' = Head(pending_messages)
          /\ UNCHANGED <<machine, conn, caller, cancelled, failing>>
  /\ UNCHANGED <<key, deferred, outside>>

\* accept_encrypted_session_key, without an exchange: ignored.
PopUnexpectedKey ==
  /\ Popped("EncryptedSessionKey")
  /\ pending_client_key = None
  /\ HandOn(Head(pending_messages), session_key)
  /\ UNCHANGED <<key, deferred, send, outside>>

\* ... the reply to the exchange: the parked answers go out, encrypted.
PopSessionKey ==
  /\ Popped("EncryptedSessionKey")
  /\ pending_client_key # None /\ Head(pending_messages).arg = pending_client_key
  /\ session_key' = pending_client_key /\ pending_client_key' = None
  /\ IF deferred = <<>>
     THEN HandOn(Head(pending_messages), pending_client_key) /\ UNCHANGED send
     ELSE /\ Send(Secret(Head(deferred), pending_client_key), "flush")
          /\ cur' = Head(pending_messages)
          /\ UNCHANGED <<machine, conn, caller, cancelled, failing, keys>>
  /\ UNCHANGED <<deferred, outside>>

\* Variant: an unusable reply leaves the parked answers where they are.
PopUnusableKeyKeepingParked ==
  /\ Popped("EncryptedSessionKey")
  /\ pending_client_key # None /\ Head(pending_messages).arg # pending_client_key
  /\ pending_client_key' = None
  /\ Return("err")
  /\ UNCHANGED <<machine, session_key, deferred, send, outside>>

\* ... a reply that cannot be decrypted, such as the reply to an earlier
\* exchange: the pair is spent, and the parked calls get an error each.
PopUnusableKey ==
  /\ Popped("EncryptedSessionKey")
  /\ pending_client_key # None /\ Head(pending_messages).arg # pending_client_key
  /\ pending_client_key' = None
  /\ deferred' = <<>>
  /\ IF deferred = <<>>
     THEN Return("err") /\ UNCHANGED send
     ELSE /\ failing' = deferred
          /\ Send(Error(Head(deferred)), "fail")
          /\ UNCHANGED <<conn, caller, cur, cancelled, keys>>
  /\ UNCHANGED <<machine, session_key, outside>>

WaitForChunk ==
  /\ pc = "top" /\ (deferred = <<>> \/ session_key = None)
  /\ pending_messages = <<>>
  /\ Goto("recv")
  /\ UNCHANGED <<machine, key, store, cur, send, outside>>

\* recv_chunk returns the first n messages, or fails; one message that cannot
\* be decoded loses the whole chunk.
ReceiveChunk(n) ==
  /\ pc = "recv" /\ n \in 1..Len(s2c)
  /\ s2c' = SubSeq(s2c, n + 1, Len(s2c))
  /\ LET chunk == SubSeq(s2c, 1, n)
         bad   == (\E i \in 1..n : chunk[i].kind = "Bad")
     IN  /\ pending_messages' = IF bad THEN pending_messages ELSE chunk
         /\ IF bad THEN Return("err") ELSE Goto("top") /\ UNCHANGED cur
         /\ lost' = IF bad THEN lost \cup {"chunk"} ELSE lost
  /\ UNCHANGED <<machine, key, deferred, send, to_reply, called, noise, seen,
                 silent, unreadable, ops, faults>>

\* An empty chunk stands for a message no reader acts on.
ReceiveEmpty ==
  /\ pc = "recv" /\ noise < MaxNoise
  /\ noise' = noise + 1
  /\ HandOn(Nothing, session_key)
  /\ UNCHANGED <<key, store, send, s2c, to_reply, called, seen, history>>

-----------------------------------------------------------------------------
(* handle_host_call, once the host gave its answer.                        *)

\* dispatch_host_call, of a method that is not void: its value, or the error
\* of the host.
Replies(c) == {Answer(c), Error(c)}

\* A void method: nothing to send.
HostVoid ==
  /\ pc = "host"
  /\ Goto("top") /\ cur' = Nothing
  /\ silent' = silent \cup {cur.arg}
  /\ UNCHANGED <<machine, key, store, send, server, seen, unreadable, lost, ops, faults>>

\* A value without a SecureString, or an error.
HostPlain(m) ==
  /\ pc = "host" /\ m \in Replies(cur.arg)
  /\ Send(m, "answer")
  /\ UNCHANGED <<machine, key, store, conn, caller, cur, cancelled, failing, keys, outside>>

\* A SecureString with a key: sent encrypted.
HostSecret ==
  /\ pc = "host" /\ session_key # None
  /\ Send(Secret(cur.arg, session_key), "answer")
  /\ UNCHANGED <<machine, key, store, conn, caller, cur, cancelled, failing, keys, outside>>

\* Variant: one slot for the parked answers.
ParkLatest == deferred' = <<cur.arg>>

\* The answer of cur waits for the key.
Park == deferred' = Append(deferred, cur.arg)

\* Variant: the answer is sent without a key.
HostSecretInClear ==
  /\ pc = "host" /\ session_key = None
  /\ Send(Secret(cur.arg, None), "answer")
  /\ UNCHANGED <<machine, key, store, conn, caller, cur, cancelled, failing, keys, outside>>

\* Variant: the answer is parked and no exchange is started.
HostSecretWithoutExchange ==
  /\ pc = "host" /\ session_key = None
  /\ Park /\ Goto("top") /\ cur' = Nothing
  /\ UNCHANGED <<machine, key, pending_messages, send, outside>>

\* A SecureString without a key: the exchange is started first, unless one is
\* in flight.
HostSecretParks ==
  /\ pc = "host" /\ session_key = None
  /\ IF pending_client_key # None
     THEN Park /\ Goto("top") /\ cur' = Nothing /\ UNCHANGED send
     ELSE Exchange("park") /\ UNCHANGED <<conn, caller, cur, cancelled, failing, deferred>>
  /\ UNCHANGED <<machine, key, pending_messages, outside>>

-----------------------------------------------------------------------------
(* The transport accepted `out`: what its sender does next.                *)

Sent(then) == pc = "send" /\ after = then /\ Deliver

SentCapability ==
  /\ Sent("capability")
  /\ Send(Plain("InitRunspacePool"), "init")
  /\ UNCHANGED <<machine, key, store, conn, caller, cur, cancelled, failing, keys, history>>

\* The handshake, CreatePipeline or an answer is out: read on.
SentAndReadOn(then) ==
  /\ then \in {"init", "run", "answer"}
  /\ Sent(then)
  /\ Goto("top") /\ cur' = Nothing
  /\ UNCHANGED <<machine, key, store, send, history>>

\* Variant: only the exchanges the pool starts itself are remembered.
SentPublicKeyUnlessAsked(then) ==
  /\ then \in {"ask", "park", "requested"}
  /\ Sent(then)
  /\ pending_client_key' = IF then = "ask" THEN pending_client_key ELSE out.key
  /\ IF then = "requested" THEN HandOn(cur, session_key)
     ELSE Goto("top") /\ cur' = Nothing /\ UNCHANGED machine
  /\ IF then = "park" THEN Park ELSE UNCHANGED deferred
  /\ UNCHANGED <<session_key, pending_messages, send, history>>

\* start_exchange ends: the pair is remembered.
SentPublicKey(then) ==
  /\ then \in {"ask", "park", "requested"}
  /\ Sent(then)
  /\ pending_client_key' = out.key
  /\ IF then = "requested" THEN HandOn(cur, session_key)
     ELSE Goto("top") /\ cur' = Nothing /\ UNCHANGED machine
  /\ IF then = "park" THEN Park ELSE UNCHANGED deferred
  /\ UNCHANGED <<session_key, pending_messages, send, history>>

\* Variant: the first parked answer is never removed from the list.
SentFlushedOnce ==
  /\ Sent("flush")
  /\ Goto("top") /\ cur' = Nothing
  /\ UNCHANGED <<machine, key, store, send, history>>

\* flush_deferred_host_responses: removed once sent, then the next one.
SentFlushed ==
  /\ Sent("flush")
  /\ deferred' = Tail(deferred)
  /\ CASE Tail(deferred) # <<>> ->
            /\ Send(Secret(Head(Tail(deferred)), session_key), "flush")
            /\ UNCHANGED <<machine, conn, caller, cur, cancelled, failing, keys>>
       [] Tail(deferred) = <<>> /\ cur # Nothing ->
            HandOn(cur, session_key) /\ UNCHANGED send
       [] OTHER -> Goto("top") /\ UNCHANGED <<machine, cur, send>>
  /\ UNCHANGED <<key, pending_messages, history>>

\* fail_deferred_host_responses: the next one, whether or not this one was
\* accepted, then the error.
FailNext ==
  /\ failing' = Tail(failing)
  /\ IF Tail(failing) = <<>>
     THEN Return("err") /\ UNCHANGED <<next_object_id, out, after, keys>>
     ELSE Send(Error(Head(Tail(failing))), "fail") /\ UNCHANGED <<conn, caller, cur, cancelled, keys>>
  /\ UNCHANGED <<machine, key, store>>

SentError == Sent("fail") /\ FailNext /\ UNCHANGED history

SentClose ==
  /\ Sent("close")
  /\ Goto("closing")
  /\ UNCHANGED <<machine, key, store, cur, send, history>>

-----------------------------------------------------------------------------
(* What can go wrong at an await.                                          *)

Fault == faults < MaxFaults /\ faults' = faults + 1

\* How the answer in hand is lost with its call; a parked one stays parked,
\* unless the errors of an unusable key are being sent.
Loses ==
  CASE pc = "host"                                      -> {"answer"}
    [] pc = "send" /\ after \in {"answer", "park"}       -> {"answer"}
    [] pc = "send" /\ after = "fail"                     -> {"parked"}
    [] OTHER                                            -> {}

\* send_fragment fails, or there is no id or no key pair to be had: every sender
\* gives up, except close and the error answers.
SendFails ==
  /\ Fault /\ pc = "send"
  /\ CASE after = "close" -> Goto("closing") /\ UNCHANGED <<machine, key, store, cur, send>>
       [] after = "fail"  -> FailNext
       [] OTHER           -> Return("err") /\ UNCHANGED <<machine, key, store, send>>
  /\ lost' = IF Loses = {} THEN lost ELSE lost \cup {"refused"}
  /\ UNCHANGED <<server, seen, silent, unreadable, ops>>

\* recv_chunk fails.
ReceiveFails ==
  /\ Fault /\ pc = "recv"
  /\ Return("err")
  /\ UNCHANGED <<machine, key, store, send, server, seen, silent, unreadable, lost, ops>>

\* A message is dropped in the middle of its sending; it may be out.
Interrupted(is_out) ==
  /\ Fault
  /\ IF pc = "send" /\ is_out THEN Deliver ELSE UNCHANGED <<server, seen>>
  /\ failing' = <<>>
  /\ lost' = lost \cup Loses
  /\ UNCHANGED <<machine, key, store, next_object_id, out, after, keys, silent, unreadable,
                 ops>>

\* The caller drops the call.
Drop(is_out) ==
  /\ pc \in {"recv", "host", "send", "closing"}
  /\ Interrupted(is_out)
  /\ Return("dropped")

\* The pipeline's token fires: next_message is dropped, the stop is
\* signalled, and the loop reads on.
Cancel(is_out) ==
  /\ caller = "run" /\ ~cancelled
  /\ pc \in {"recv", "host"} \/ (pc = "send" /\ after # "run")
  /\ Interrupted(is_out)
  /\ cancelled' = TRUE
  /\ pc' = "top" /\ cur' = Nothing
  /\ UNCHANGED <<conn, caller>>

-----------------------------------------------------------------------------
(* The server.                                                             *)

ServerSays(m) == s2c' = Append(s2c, m)

CallHost(c) ==
  /\ conn = "live" /\ c \notin called
  /\ called' = called \cup {c}
  /\ ServerSays(Msg("HostCall", c))
  /\ UNCHANGED <<machine, key, store, call, send, to_reply, noise, seen, history>>

\* It asks for a key because it has none.
AskForKey ==
  /\ conn = "live" /\ noise < MaxNoise
  /\ noise' = noise + 1
  /\ ServerSays(Msg("PublicKeyRequest", None))
  /\ UNCHANGED <<machine, key, store, call, send, to_reply, called, seen, history>>

\* It replies to the next public key; exchange number None stands for a
\* reply nobody can decrypt.
ReplyKey(good) ==
  /\ to_reply # <<>>
  /\ to_reply' = Tail(to_reply)
  /\ good \/ noise < MaxNoise
  /\ noise' = IF good THEN noise ELSE noise + 1
  /\ ServerSays(Msg("EncryptedSessionKey", IF good THEN Head(to_reply) ELSE None))
  /\ UNCHANGED <<machine, key, store, call, send, called, seen, history>>

SayOther(m) ==
  /\ conn = "live" /\ noise < MaxNoise
  /\ noise' = noise + 1
  /\ ServerSays(m)
  /\ UNCHANGED <<machine, key, store, call, send, to_reply, called, seen, history>>

\* The handshake's answer is never refused by the bound.
SayOpened ==
  /\ caller = "open" /\ s2c = <<>> /\ pc = "recv"
  /\ ServerSays(Msg("State", "Opened"))
  /\ UNCHANGED <<machine, key, store, call, send, to_reply, called, noise, seen, history>>

-----------------------------------------------------------------------------
Init ==
  /\ machine = "BeforeOpen" /\ next_object_id = 1
  /\ session_key = None /\ pending_client_key = None
  /\ deferred = <<>> /\ pending_messages = <<>> /\ failing = <<>>
  /\ conn = "none" /\ caller = "none" /\ pc = "idle" /\ cur = Nothing
  /\ out = Plain("Nothing") /\ after = "none" /\ cancelled = FALSE
  /\ s2c = <<>> /\ to_reply = <<>>
  /\ called = {} /\ keys = 0 /\ ops = 0 /\ noise = 0 /\ faults = 0
  /\ answers = [c \in Calls |-> <<>>] /\ ids = <<>>
  /\ silent = {} /\ unreadable = {} /\ lost = {}

Operation ==
  \/ OpenWithOptions \/ OpenFromTransport \/ RequestSessionKey \/ RunPipeline
  \/ SetSessionKey \/ Close \/ (\E ok \in BOOLEAN : Disconnect(ok)) \/ Reconnect

\* Everything the executor does by itself once a call is polled.
ReadLoop ==
  \/ FlushFirst \/ PopHostCall \/ PopUnreadableCall \/ PopPublicKeyRequest
  \/ (\E kind \in {"State", "Done"} : PopOther(kind))
  \/ PopUnexpectedKey \/ PopSessionKey \/ PopUnusableKey \/ WaitForChunk
  \/ (\E n \in 1..Len(s2c) : ReceiveChunk(n))

HostAnswers ==
  \/ HostVoid \/ HostPlain(Answer(cur.arg)) \/ HostPlain(Error(cur.arg))
  \/ HostSecret \/ HostSecretParks

SendReturns ==
  \/ SentCapability \/ SentFlushed \/ SentError \/ SentClose
  \/ (\E then \in {"init", "run", "answer"} : SentAndReadOn(then))
  \/ (\E then \in {"ask", "park", "requested"} : SentPublicKey(then))
  \/ (\E ok \in BOOLEAN : Closed(ok))

Faults ==
  \/ SendFails \/ ReceiveFails
  \/ (\E is_out \in BOOLEAN : Drop(is_out)) \/ (\E is_out \in BOOLEAN : Cancel(is_out))

ServerSpeaks ==
  \/ (\E c \in Calls : CallHost(c))
  \/ AskForKey \/ (\E good \in BOOLEAN : ReplyKey(good))
  \/ (\E s \in ServerStates : SayOther(Msg("State", s)))
  \/ SayOther(Msg("Done", None)) \/ SayOther(Msg("Bad", None)) \/ SayOpened

Next == Operation \/ ReadLoop \/ ReceiveEmpty \/ HostAnswers \/ SendReturns \/ Faults
        \/ ServerSpeaks

Spec == Init /\ [][Next]_vars

\* The executor polls a call until it ends, the transport accepts what it is
\* given, the host answers, and a server that is sent a public key replies.
\* Nothing else is assumed of the server, nor of the caller.
Fairness ==
  /\ WF_vars(ReadLoop) /\ WF_vars(HostAnswers) /\ WF_vars(SendReturns)
  /\ WF_vars(\E good \in BOOLEAN : ReplyKey(good))

FairSpec == Spec /\ Fairness

-----------------------------------------------------------------------------
(* Properties.                                                             *)

Exchanges == (-1 - keys)..keys
SentSet ==
  [kind : {"Nothing", "SessionCapability", "InitRunspacePool", "CreatePipeline",
           "CloseRunspacePool", "PublicKey", "Answer", "Error"},
   call : Calls \cup {None}, secret : BOOLEAN, key : Exchanges \cup {None}]
MsgSet ==
  [kind : {"HostCall"}, arg : Calls] \cup [kind : {"State"}, arg : ServerStates \cup {"Opened"}]
  \cup [kind : {"EncryptedSessionKey"}, arg : Exchanges \cup {None}]
  \cup [kind : {"PublicKeyRequest", "Done", "Bad", "Empty"}, arg : {None}]

\* Every variable has its type.
TypeOK ==
  /\ machine \in States /\ next_object_id \in Nat \ {0}
  /\ session_key \in Exchanges \cup {None}
  /\ pending_client_key \in Exchanges \cup {None}
  /\ deferred \in Seq(Calls) /\ failing \in Seq(Calls)
  /\ pending_messages \in Seq(MsgSet) /\ s2c \in Seq(MsgSet) /\ cur \in MsgSet
  /\ conn \in {"none", "live", "away", "gone"}
  /\ caller \in {"none", "open", "key", "run", "close"}
  /\ pc \in {"idle", "top", "recv", "host", "send", "closing"}
  /\ out \in SentSet
  /\ after \in {"none", "capability", "init", "run", "answer", "ask", "park", "requested",
               "flush", "fail", "close"}
  /\ cancelled \in BOOLEAN
  /\ to_reply \in Seq(Exchanges)
  /\ called \subseteq Calls /\ silent \subseteq Calls /\ unreadable \subseteq Calls
  /\ keys \in Nat /\ ops \in 0..MaxOps /\ noise \in 0..MaxNoise /\ faults \in 0..MaxFaults
  /\ lost \subseteq {"answer", "parked", "refused", "chunk", "disconnected"}
  /\ ids \in Seq(Nat)

\* An answer is parked only while something will send it: a key the next read
\* flushes it with, or an exchange whose reply settles it, whatever was
\* dropped, refused or unusable in between (pool.rs, deferred_host_responses).
ParkedHasExchange ==
  deferred # <<>> => session_key # None \/ pending_client_key # None

\* A SecureString reaches the server encrypted, or not at all.
SecretsEncrypted ==
  \A c \in Calls : \A i \in DOMAIN answers[c] :
    answers[c][i].secret => answers[c][i].key \in Exchanges

\* A host call is answered once, and once more at most for each call of the pool
\* that was dropped or cancelled: the parked answer it was sending may be out, and
\* stays parked (flush_deferred_host_responses).
AnsweredOnce == \A c \in Calls : Len(answers[c]) <= 1 + faults

\* Where a host call is: on its way, in hand, parked, answered, or one that gets
\* no answer because it is void or could not be read.
In(c, s) == \E i \in DOMAIN s : s[i] = c
Accounted(c) ==
  \/ In(Msg("HostCall", c), s2c \o pending_messages) \/ cur = Msg("HostCall", c)
  \/ In(c, deferred \o failing)
  \/ answers[c] # <<>> \/ c \in silent \cup unreadable

\* No host call that can be read is lost: across calls that end, fail or are
\* dropped, each one is somewhere, unless its own answer was being made or sent,
\* or it came in a chunk that could not be decoded.  One that handle_host_call
\* cannot read ends the read with an error, and nobody answers it.
HostCallsAccounted ==
  (lost = {} /\ conn = "live") => \A c \in called : Accounted(c)

\* What accept_encrypted_session_key says of an unusable reply: each parked
\* call gets an error, and none waits for ever.
ParkedAlwaysAnswered ==
  (lost \subseteq {"parked"} /\ conn = "live") => \A c \in called : Accounted(c)

\* What take_object_id says: ids are unique per pool.
ObjectIdsUnique == \A i, j \in DOMAIN ids : i < j => ids[i] # ids[j]

\* The pool keeps the promise of PoolLifecycle, from its constructor to the
\* end of close.
PoolPhase ==
  CASE conn = "none" -> "new"
    [] conn = "live" -> Phase(machine)
    [] conn = "away" -> "away"
    [] conn = "gone" -> "over"
Lifecycle == INSTANCE PoolLifecycle WITH phase <- PoolPhase
KeepsLifecycle == Lifecycle!Spec

\* A key set out of band is only ever replaced by an exchange started after it
\* was set (set_session_key).
HeldOutOfBand == session_key # None /\ session_key < 0
OutOfBandKeyStays ==
  [][(HeldOutOfBand /\ session_key' > 0) => session_key' > -1 - session_key]_vars

\* A parked answer leaves, or its reader stops reading, unless the reply was
\* lost with an undecodable chunk, or a parked call with a dropped read.
ParkedAnswered ==
  \A c \in Calls :
    In(c, deferred) ~> (answers[c] # <<>> \/ pc = "idle" \/ lost \cap {"chunk", "parked"} # {})

\* request_session_key ends once the server replied to its public key, whoever
\* started the exchange, unless the reply was lost with an undecodable chunk,
\* or a parked call with a dropped read.
KeyCallEnds == caller = "key" ~> (caller # "key" \/ lost \cap {"chunk", "parked"} # {})
=============================================================================
