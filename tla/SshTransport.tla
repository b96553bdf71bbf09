----------------------------- MODULE SshTransport -----------------------------
(***************************************************************************)
(* The SSH transport (src/ssh.rs): connect judges the server's host key,   *)
(* authenticates, opens a channel and asks for the PowerShell subsystem,   *)
(* whose reply may come after the first bytes of its output; read hands    *)
(* the output to the line splitter; close_shell ends the session, then the *)
(* channel, then the connection.                                           *)
(*                                                                         *)
(* `pc` names the await of the call in progress.  A connect that fails, or *)
(* is dropped, leaves nothing.  russh and the server are external.         *)
(***************************************************************************)
EXTENDS KnownHosts, LineSplitter

CONSTANTS
  Keys,     \* host keys
  Hosts, Ports, \* what the application connects to
  Files,    \* known_hosts files, each a sequence of entries
  Writes,   \* what the process writes at once
  MaxBytes, \* bound on the output of the process
  MaxOther  \* bound on the messages of the channel that say nothing

\* A line of a known_hosts file; "bad" marks one that cannot be parsed.
FileEntry ==
  [marker   : {"none", "revoked", "cert-authority", "bad"},
   patterns : Seq([glob : Seq(Chars), negated : BOOLEAN]),
   hashed   : {None} \cup Seq(Chars),
   key      : Keys]

ASSUME ConstantsAssumption ==
  /\ None \notin Keys /\ None \notin Files
  /\ {"a", "[", "]", ":"} \subseteq Chars
  /\ Hosts \subseteq Seq(Chars) /\ Ports \subseteq Chars \ {"A"} /\ Files \subseteq Seq(FileEntry)
  /\ \A host \in Hosts, port \in Ports : LookupName(host, port) # None
  /\ Writes \subseteq Seq(Bytes)
  /\ {MaxLine, MaxBytes, MaxOther} \subseteq Nat

VARIABLES
  pc,       \* the await of the call in progress
  trusted,  \* whether the policy, as documented, vouches for the host key
  sent_credentials,
  channel,  \* messages of the server on their way
  pending,  \* stdout received before the subsystem reply
  splitter, \* the session's line splitter
  read_failed, \* whether a read failed: the session is broken
  closed,   \* close_shell was called
  up,       \* what is up: the "channel", the "connection"
  replied,  \* whether the server answered the request for a subsystem
  written,  \* its output
  other     \* what the bound counts

client == <<pc, trusted, sent_credentials, closed, up>>
input  == <<pending, splitter, read_failed>>
remote == <<channel, replied, written, other>>
vars   == <<client, input, remote>>

Data(bytes)   == [kind |-> "data", bytes |-> bytes]
Message(kind) == [kind |-> kind, bytes |-> <<>>]

-----------------------------------------------------------------------------
(* The host key.                                                           *)

\* check_server_key, verify_host_key: a certificate has no key to judge, a
\* file may be unreadable.
Accepts(policy, host, port, cert, key) ==
  CASE policy.kind = "AcceptAny"  -> TRUE
    [] policy.kind = "Pinned"     -> ~cert /\ policy.pin = key
    [] policy.kind = "KnownHosts" ->
         /\ ~cert /\ policy.file # None
         /\ Verdict(policy.file, LookupName(host, port), key) = "Trusted"

Policies ==
  [kind : {"AcceptAny"}, pin : {None}, file : {None}]
  \cup [kind : {"Pinned"}, pin : Keys, file : {None}]
  \cup [kind : {"KnownHosts"}, pin : {None}, file : Files \cup {None}]

\* What the documentation of HostKeyPolicy says.
VouchedFor(policy, host, port, cert, key) ==
  \/ policy.kind = "AcceptAny"
  \/ ~cert /\ policy.pin = key
  \/ ~cert /\ policy.file # None /\ IsTrusted(policy.file, LookupName(host, port), key)

-----------------------------------------------------------------------------
(* connect.                                                                *)

Fail == pc' = "failed" /\ up' = {}

\* An invalid host name or a zero timeout; a name that is no host.
ConnectRefused ==
  /\ pc = "new" /\ Fail
  /\ UNCHANGED <<trusted, sent_credentials, closed, input, remote>>

Connect ==
  /\ pc = "new" /\ pc' = "connecting"
  /\ UNCHANGED <<trusted, sent_credentials, closed, up, input, remote>>

CheckServerKey ==
  /\ pc = "connecting"
  /\ \E policy \in Policies, host \in Hosts, port \in Ports, cert \in BOOLEAN, key \in Keys :
       /\ trusted' = VouchedFor(policy, host, port, cert, key)
       /\ IF Accepts(policy, host, port, cert, key)
          THEN pc' = "authenticating" /\ up' = {"connection"}
          ELSE pc' = "rejected" /\ up' = {}
  /\ UNCHANGED <<sent_credentials, closed, input, remote>>

\* A password, or a signature of the key file.
SendCredentials ==
  /\ pc = "authenticating" /\ ~sent_credentials
  /\ sent_credentials' = TRUE
  /\ UNCHANGED <<pc, trusted, closed, up, input, remote>>

Authenticated ==
  /\ pc = "authenticating" /\ sent_credentials
  /\ pc' = "opening"
  /\ UNCHANGED <<trusted, sent_credentials, closed, up, input, remote>>

ChannelOpened ==
  /\ pc = "opening"
  /\ pc' = "requesting" /\ up' = {"connection", "channel"}
  /\ UNCHANGED <<trusted, sent_credentials, closed, input, remote>>

Requested ==
  /\ pc = "requesting"
  /\ pc' = "replying"
  /\ UNCHANGED <<trusted, sent_credentials, closed, up, input, remote>>

\* A timeout, an error, a key file that cannot be read, an agent, a refused
\* authentication or channel; or connect is dropped.
ConnectFails ==
  /\ pc \in {"connecting", "authenticating", "opening", "requesting", "replying"}
  /\ Fail
  /\ UNCHANGED <<trusted, sent_credentials, closed, input, remote>>

Received == channel # <<>> /\ channel' = Tail(channel)

\* The loop that waits for the subsystem reply: success, or an end.
ReplyArrives(kind) ==
  /\ pc = "replying" /\ Received /\ Head(channel).kind = kind
  /\ IF kind = "success" THEN pc' = "open" /\ UNCHANGED up ELSE Fail
  /\ UNCHANGED <<trusted, sent_credentials, closed, input, replied, written, other>>

\* append_pre_reply_output
DataBeforeReply ==
  /\ pc = "replying" /\ Received /\ Head(channel).kind = "data"
  /\ IF Len(pending) + Len(Head(channel).bytes) > MaxLine
     THEN Fail /\ UNCHANGED pending
     ELSE pending' = pending \o Head(channel).bytes /\ UNCHANGED <<pc, up>>
  /\ UNCHANGED <<trusted, sent_credentials, closed, splitter, read_failed, replied, written, other>>

\* Extended data, a window, an exit status.
Skip ==
  /\ pc \in {"replying", "open", "session"} /\ ~read_failed /\ (pc # "replying" => pending = <<>>)
  /\ Received /\ Head(channel).kind = "other"
  /\ UNCHANGED <<client, input, replied, written, other>>

-----------------------------------------------------------------------------
(* read, and the lines the session makes of it.                            *)

Reading == pc \in {"open", "session"} /\ ~read_failed

Process(bytes) ==
  /\ splitter' = Push(splitter, bytes)
  /\ read_failed' = splitter'.failed

ReadPending ==
  /\ Reading /\ pending # <<>>
  /\ pending' = <<>> /\ Process(pending)
  /\ UNCHANGED <<client, remote>>

ReadData ==
  /\ Reading /\ pending = <<>>
  /\ Received /\ Head(channel).kind = "data"
  /\ Process(Head(channel).bytes)
  /\ UNCHANGED <<client, pending, replied, written, other>>

\* The end of the channel, or a channel a dropped close_shell ended.
ReadEnd ==
  /\ Reading /\ pending = <<>>
  /\ \/ Received /\ Head(channel).kind = "eof"
     \/ "channel" \notin up /\ UNCHANGED channel
  /\ read_failed' = TRUE
  /\ UNCHANGED <<client, pending, splitter, replied, written, other>>

-----------------------------------------------------------------------------
(* close_shell.                                                            *)

\* A second call does nothing.
CloseShell ==
  /\ pc = "open" /\ ~closed
  /\ closed' = TRUE /\ pc' = "session"
  /\ UNCHANGED <<trusted, sent_credentials, up, input, remote>>

\* close_session returned, whatever it returned.
SessionClosed(ok) ==
  /\ pc = "session"
  /\ pc' = "shutdown"
  /\ UNCHANGED <<trusted, sent_credentials, closed, up, input, remote>>

\* RusshPipe::shutdown, then the disconnection; errors are ignored.
Shutdown ==
  /\ pc = "shutdown"
  /\ pc' = "disconnecting" /\ up' = up \ {"channel"}
  /\ UNCHANGED <<trusted, sent_credentials, closed, input, remote>>

Disconnected ==
  /\ pc = "disconnecting"
  /\ pc' = "closed" /\ up' = up \ {"connection"}
  /\ UNCHANGED <<trusted, sent_credentials, closed, input, remote>>

\* close_shell is dropped.
DropClose ==
  /\ pc \in {"session", "shutdown", "disconnecting"}
  /\ pc' = "open"
  /\ UNCHANGED <<trusted, sent_credentials, closed, up, input, remote>>

-----------------------------------------------------------------------------
(* The server.                                                             *)

Serving == pc \in {"replying", "open", "session"} /\ "channel" \in up
Ended   == \E i \in DOMAIN channel : channel[i].kind \in {"eof", "failure"}

\* The process writes, also before the reply to the request.
ServerWrites(bytes) ==
  /\ Serving /\ ~Ended /\ Len(written) + Len(bytes) <= MaxBytes
  /\ written' = written \o bytes
  /\ channel' = Append(channel, Data(bytes))
  /\ UNCHANGED <<client, input, replied, other>>

ServerReplies(kind) ==
  /\ pc = "replying" /\ ~replied /\ ~Ended
  /\ replied' = TRUE
  /\ channel' = Append(channel, Message(kind))
  /\ UNCHANGED <<client, input, written, other>>

ServerSaysOther(kind) ==
  /\ Serving /\ ~Ended /\ other < MaxOther
  /\ other' = other + 1
  /\ channel' = Append(channel, Message(kind))
  /\ UNCHANGED <<client, input, replied, written>>

-----------------------------------------------------------------------------
Init ==
  /\ pc = "new" /\ trusted = FALSE /\ sent_credentials = FALSE
  /\ closed = FALSE /\ up = {}
  /\ pending = <<>> /\ splitter = NewSplitter /\ read_failed = FALSE
  /\ channel = <<>> /\ replied = FALSE /\ written = <<>> /\ other = 0

ConnectSteps ==
  \/ ConnectRefused \/ Connect \/ CheckServerKey
  \/ SendCredentials \/ Authenticated \/ ChannelOpened \/ Requested
  \/ ConnectFails \/ DataBeforeReply
  \/ (\E kind \in {"success", "failure", "eof"} : ReplyArrives(kind))

Server ==
  \/ (\E bytes \in Writes : ServerWrites(bytes))
  \/ (\E kind \in {"success", "failure"} : ServerReplies(kind))
  \/ (\E kind \in {"other", "eof"} : ServerSaysOther(kind))

Next ==
  \/ ConnectSteps \/ Skip \/ ReadPending \/ ReadData \/ ReadEnd
  \/ CloseShell \/ (\E ok \in BOOLEAN : SessionClosed(ok)) \/ Shutdown \/ Disconnected \/ DropClose
  \/ Server

Spec == Init /\ [][Next]_vars

-----------------------------------------------------------------------------
(* Properties.                                                             *)

\* Credentials reach, and a connection stays up with, only a server whose host
\* key the policy vouches for, as
\* its documentation and ssh(1) have it, and only such a key is rejected that
\* it does not vouch for: no order of entries, no pattern, revocation or
\* certificate lets another key through (HostKeyPolicy, known_hosts_verdict).
CredentialsOnlyToTrusted ==
  /\ sent_credentials \/ up # {} => trusted
  /\ pc = "rejected" => ~trusted

\* Whatever the cuts of the channel's messages, and wherever the reply stands
\* among them, the session's lines are those of the output read so far, up to
\* the first line it has to refuse, which it does refuse; and what is kept
\* meanwhile, before the reply or of a line, has its limit.
BytesOf(messages) ==
  LET bytes[n \in 0..Len(messages)] == IF n = 0 THEN <<>> ELSE bytes[n - 1] \o messages[n].bytes
  IN  bytes[Len(messages)]
OnTheWay == Len(pending) + Len(BytesOf(channel))
StreamIsSplit ==
  /\ Len(pending) <= MaxLine /\ (Len(splitter.buf) <= MaxLine \/ splitter.failed)
  /\ (pc \in {"open", "session", "shutdown", "disconnecting", "closed"}) =>
       LET seen == SubSeq(written, 1, Len(written) - OnTheWay)
       IN  /\ splitter.lines = LinesOf(seen)
           /\ splitter.failed = IsRefused(seen)
=============================================================================
