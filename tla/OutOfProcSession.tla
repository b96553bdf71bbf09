-------------------------- MODULE OutOfProcSession --------------------------
(***************************************************************************)
(* The client side of one OutOfProc session (src/out_of_proc/session.rs)   *)
(* talking to a `pwsh -sshs` process over a pipe, one runspace pool per    *)
(* session.                                                                *)
(*                                                                         *)
(* An operation (send, recv, signal, close) is an async function: it runs  *)
(* to its next await, and at every await it can be dropped by its caller,  *)
(* reach the acknowledgement timeout, or go on.  `pc` names the await, and *)
(* `plan` the requests the operation has still to make, the head being the *)
(* one in flight.  The program works on lines and the model on packets: a  *)
(* line is one packet, and the bytes of a payload are its chunk numbers.   *)
(*                                                                         *)
(* The server is external: it follows the rules the repository's own fake  *)
(* `pwsh` enforces (src/out_of_proc/fake.rs), and `srv_fault` records that *)
(* the client broke one of them.                                           *)
(***************************************************************************)
EXTENDS Naturals, Sequences, FiniteSets

CONSTANTS
  Pids,        \* pipeline ids the pool may use
  Nil,         \* Uuid::nil(), the guid of the pool itself
  None,        \* Option::None
  MaxOps,      \* bound on the operations started
  MaxChunks,   \* bound on the <Data> lines one payload is cut into
  MaxEmitted,  \* bound on the <Data> lines the server sends
  QueueLimit   \* max_queued_bytes, counted in payloads

ASSUME ConstantsAssumption ==
  /\ Nil \notin Pids /\ None \notin Pids /\ None # Nil
  /\ MaxOps \in Nat /\ MaxChunks \in Nat \ {0}
  /\ MaxEmitted \in Nat /\ QueueLimit \in Nat

VARIABLES
  awaiting,      \* the acknowledgement the request in flight waits for
  writing,       \* write_in_progress
  partial,       \* payload_in_progress
  open_command,  \* the pipeline whose Command was acknowledged
  broken,        \* why the session is unusable, once it is
  inbound,       \* payloads received and not handed out
  lines,         \* lines of the chunk being processed
  pc, plan,      \* the await point of the operation, and the requests it has left
  kind, ops,     \* its kind and its number
  result,        \* how the last operation ended
  c2s, s2c,      \* the lines on their way to the server and to the client
  wire,          \* how much of the line being written is out
  srv_up, srv_open, srv_partial,  \* the server: its commands, and its half payloads
  srv_fault, got,                 \* a broken rule; the payloads received whole
  emitted, taken, acked           \* lines sent, handed out by recv; sends that succeeded

session  == <<awaiting, writing, partial, open_command, broken>>
received == <<inbound, lines>>
call     == <<pc, plan, kind, ops, result>>
pipe     == <<c2s, s2c, wire>>
server   == <<srv_up, srv_open, srv_partial, srv_fault, got>>
history  == <<emitted, taken, acked>>
vars     == <<session, received, call, pipe, server, history>>

Guids == Pids \cup {Nil}

-----------------------------------------------------------------------------
(* Packets.  A <Data> request knows whether it starts and ends its         *)
(* payload.  An acknowledgement is named by the element it acknowledges.   *)

Elements == {"Command", "Data", "Signal", "Close"}

Request(el, g)     == [el |-> el, guid |-> g, first |-> TRUE, last |-> TRUE]
DataChunk(g, i, n) == [el |-> "Data", guid |-> g, first |-> i = 1, last |-> i = n]
Payload(g, n)      == [i \in 1..n |-> DataChunk(g, i, n)]

Ack(el, g)  == [tag |-> "ack", el |-> el, guid |-> g, n |-> 0]
AckOf(r)    == Ack(r.el, r.guid)
DataLine(n) == [tag |-> "data", el |-> "Data", guid |-> Nil, n |-> n]
\* A __NamedPipeError__ line, a malformed line, a packet only a client sends.
BadLine     == [tag |-> "bad", el |-> "Data", guid |-> Nil, n |-> 0]
\* What the server reads when a line follows the abandoned prefix of another.
Garbled     == Request("Garbled", Nil)
\* A request on the wire, with the number of the operation that wrote it.
Line(r)     == [req |-> r, id |-> ops]

-----------------------------------------------------------------------------
(* The guards at the top of every operation and of every request.          *)

\* fail: the first reason sticks.
Fail(reason) == broken' = IF broken = None THEN reason ELSE broken

\* Variant: an abandoned write goes unnoticed.
UsableAfterAbandonedWrite == broken = None

Usable == broken = None /\ ~writing

\* Variant: an abandoned payload goes unnoticed.
ReadyAfterAbandonedPayload == Usable

Ready == Usable /\ ~partial

\* Why `ready` refuses, when the session is not already broken.
Refusal == IF writing THEN "abandoned write" ELSE "abandoned payload"

\* Nothing more to process, nothing more to read: the operation can go on.
Settled == lines = <<>> /\ awaiting = None

\* The operation returns to its caller, or is dropped by it.
Return(r) == pc' = "idle" /\ plan' = <<>> /\ result' = r /\ UNCHANGED <<kind, ops>>

\* The operation goes on to the await point `at` with the requests p.
Continue(at, p) == pc' = at /\ plan' = p /\ UNCHANGED <<kind, ops, result>>

\* A new operation; the transport starts none after close (SshPsrpTransport
\* `closed`, and RunspacePool::close consumes the pool).
Begin(k, at, p, r) ==
  /\ pc = "idle" /\ kind # "close" /\ ops < MaxOps
  /\ ops' = ops + 1 /\ kind' = k
  /\ pc' = at /\ plan' = p /\ result' = r

\* payload_in_progress is set from just before the first <Data> line of a
\* payload of several lines until the last one is acknowledged.
InPayload(p) == p # <<>> /\ Head(p).el = "Data" /\ ~(Head(p).first /\ Head(p).last)

-----------------------------------------------------------------------------
(* send, signal and close, up to their first request.                      *)

\* `ready()?` fails.
Refused(k) ==
  /\ Begin(k, "idle", <<>>, "err")
  /\ ~Ready
  /\ Fail(Refusal)
  /\ UNCHANGED <<awaiting, writing, partial, open_command, received, pipe, server, history>>

\* send to the pool: no command to settle, the payload is next.
SendToPool(n) ==
  /\ Begin("send", "settle", Payload(Nil, n), "none")
  /\ Ready
  /\ partial' = InPayload(Payload(Nil, n))
  /\ UNCHANGED <<awaiting, writing, open_command, broken, received, pipe, server, history>>

\* The others start by settle_bounded: what they ask for depends on the
\* command state, read once nothing is awaited.
BeginSettling(k, p) ==
  /\ Begin(k, "look", p, "none")
  /\ Ready
  /\ UNCHANGED <<session, received, pipe, server, history>>

SendToPipeline(g, n) == BeginSettling("send", Payload(g, n))
Signal               == BeginSettling("signal", <<>>)
Close                == BeginSettling("close", <<>>)

\* The requests each operation makes, from the command state: a send closes
\* another open command and opens its own, a signal needs an open command,
\* a close closes it before the session.
OnOpenCommand(el) == IF open_command = None THEN <<>> ELSE <<Request(el, open_command)>>

Requests ==
  CASE kind = "send" /\ open_command = Head(plan).guid -> plan
    [] kind = "send" /\ open_command # Head(plan).guid ->
         OnOpenCommand("Close") \o <<Request("Command", Head(plan).guid)>> \o plan
    [] kind = "signal" -> OnOpenCommand("Signal")
    [] kind = "close"  -> OnOpenCommand("Close") \o <<Request("Close", Nil)>>

Look ==
  /\ pc = "look" /\ Settled
  /\ partial' = InPayload(Requests)
  /\ IF Requests = <<>> THEN Return("ok") ELSE Continue("settle", Requests)
  /\ UNCHANGED <<awaiting, writing, open_command, broken, received, pipe, server, history>>

-----------------------------------------------------------------------------
(* request and exchange: settle, write the line, settle again.             *)

\* Variant: the line is written without reading the acknowledgement an
\* abandoned request left awaited.
StartWriteUnsettled ==
  /\ pc = "settle" /\ Usable
  /\ awaiting' = AckOf(Head(plan))
  /\ writing' = TRUE
  /\ Continue("write", plan)
  /\ UNCHANGED <<partial, open_command, broken, received, pipe, server, history>>

StartWrite ==
  /\ pc = "settle" /\ Settled /\ Usable
  /\ awaiting' = AckOf(Head(plan))
  /\ writing' = TRUE
  /\ Continue("write", plan)
  /\ UNCHANGED <<partial, open_command, broken, received, pipe, server, history>>

\* The pipe takes a part of the line, then the rest of it.  A line that
\* follows an abandoned part is unreadable.
WirePart ==
  /\ pc = "write" /\ wire = "clean"
  /\ wire' = "part"
  /\ UNCHANGED <<session, received, call, c2s, s2c, server, history>>

WireWhole ==
  /\ pc = "write" /\ wire # "whole"
  /\ wire' = "whole"
  /\ c2s' = IF srv_up THEN Append(c2s, Line(IF wire = "torn" THEN Garbled ELSE Head(plan)))
            ELSE c2s
  /\ UNCHANGED <<session, received, call, s2c, server, history>>

\* Pipe::write returned.
Written ==
  /\ pc = "write" /\ wire = "whole"
  /\ writing' = FALSE
  /\ wire' = "clean"
  /\ Continue("ack", plan)
  /\ UNCHANGED <<awaiting, partial, open_command, broken, received, c2s, s2c, server, history>>

\* What is on the wire once the write is given up.
GiveUpWrite ==
  wire' = CASE pc = "write" /\ wire = "part"  -> "torn"
            [] pc = "write" /\ wire = "whole" -> "clean"
            [] OTHER                          -> wire

\* Pipe::write failed: the process is gone.
WriteFails ==
  /\ pc = "write" /\ ~srv_up
  /\ writing' = FALSE
  /\ Fail("write failed")
  /\ GiveUpWrite
  /\ Return("err")
  /\ UNCHANGED <<awaiting, partial, open_command, received, c2s, s2c, server, history>>

\* The acknowledgement was read: the next request, or the end of the
\* operation.
RequestDone ==
  /\ pc = "ack" /\ Settled
  /\ partial' = InPayload(Tail(plan))
  /\ IF Tail(plan) = <<>> THEN Return("ok") ELSE Continue("settle", Tail(plan))
  /\ acked' = IF kind = "send" /\ Tail(plan) = <<>> THEN acked \cup {ops} ELSE acked
  /\ UNCHANGED <<awaiting, writing, open_command, broken, received, pipe, server,
                 emitted, taken>>

-----------------------------------------------------------------------------
(* pump: read a chunk, then process its lines without any await.           *)

\* The operation is blocked in Pipe::read: in settle, or in recv.
Settling == pc \in {"look", "settle", "ack"} /\ lines = <<>> /\ awaiting # None
Reading  == Settling \/ (pc = "recv" /\ received = <<<<>>, <<>>>> /\ Ready)

\* The next n lines arrive; a chunk that completes no line changes nothing.
Read(n) ==
  /\ Reading
  /\ n \in 1..Len(s2c)
  /\ lines' = SubSeq(s2c, 1, n)
  /\ s2c' = SubSeq(s2c, n + 1, Len(s2c))
  /\ UNCHANGED <<session, inbound, call, c2s, wire, server, history>>

\* Variant: recv reports the error without looking at the queue again.
ReadFailsAtOnce(reason) == Fail(reason) /\ lines' = <<>> /\ Return("err")

\* An error while reading ends the operation and loses the rest of the chunk;
\* recv looks at the queue once more (RecvTakes, RecvFails).
ReadFails(reason) ==
  /\ Fail(reason)
  /\ lines' = <<>>
  /\ IF pc = "recv" THEN UNCHANGED call ELSE Return("err")

\* End of stream: every line was read and the process is gone.
Eof ==
  /\ Reading /\ s2c = <<>> /\ ~srv_up
  /\ ReadFails("end of stream")
  /\ UNCHANGED <<awaiting, writing, partial, open_command, inbound, pipe, server, history>>

\* The next line of the chunk is of kind t.
NextLine(t) == lines # <<>> /\ Head(lines).tag = t

\* Variant: the queue has no limit.
OnDataUnbounded ==
  /\ NextLine("data")
  /\ inbound' = Append(inbound, Head(lines).n)
  /\ lines' = Tail(lines)
  /\ UNCHANGED <<session, call, pipe, server, history>>

\* on_line, <Data>: queued, unless the queue is full.
OnData ==
  /\ NextLine("data")
  /\ IF Len(inbound) < QueueLimit
     THEN /\ inbound' = Append(inbound, Head(lines).n)
          /\ lines' = Tail(lines)
          /\ UNCHANGED <<broken, call>>
     ELSE ReadFails("queue full") /\ UNCHANGED inbound
  /\ UNCHANGED <<awaiting, writing, partial, open_command, pipe, server, history>>

\* Variant: a closed command is still taken for open.
CommandAfterNeverCleared(ack) == IF ack.el = "Command" THEN ack.guid ELSE open_command

\* acknowledged: what the acknowledged request changed on the server.
CommandAfter(ack) ==
  CASE ack.el = "Command"                          -> ack.guid
    [] ack.el = "Close" /\ ack.guid = open_command -> None
    [] OTHER                                       -> open_command

\* on_line, an acknowledgement: the awaited one counts, any other is ignored.
OnAck ==
  /\ NextLine("ack")
  /\ lines' = Tail(lines)
  /\ IF awaiting = Head(lines)
     THEN awaiting' = None /\ open_command' = CommandAfter(Head(lines))
     ELSE UNCHANGED <<awaiting, open_command>>
  /\ UNCHANGED <<writing, partial, broken, inbound, call, pipe, server, history>>

\* A line that breaks the session.
OnBadLine ==
  /\ NextLine("bad")
  /\ ReadFails("bad line")
  /\ UNCHANGED <<awaiting, writing, partial, open_command, inbound, pipe, server, history>>

-----------------------------------------------------------------------------
(* recv.                                                                   *)

Recv ==
  /\ Begin("recv", "recv", <<>>, "none")
  /\ UNCHANGED <<session, received, pipe, server, history>>

\* dequeue: what is queued is handed out whatever the state of the session.
RecvTakes ==
  /\ pc = "recv" /\ lines = <<>> /\ inbound # <<>>
  /\ taken' = Append(taken, Head(inbound))
  /\ inbound' = Tail(inbound)
  /\ Return("ok")
  /\ UNCHANGED <<session, lines, pipe, server, emitted, acked>>

RecvFails ==
  /\ pc = "recv" /\ received = <<<<>>, <<>>>> /\ ~Ready
  /\ Fail(Refusal)
  /\ Return("err")
  /\ UNCHANGED <<awaiting, writing, partial, open_command, received, pipe, server, history>>

-----------------------------------------------------------------------------
(* What can happen at an await instead of going on.                        *)

\* Variant: the future can be dropped between two lines of a chunk.
DropMidChunk ==
  /\ Reading \/ pc = "write" \/ lines # <<>>
  /\ GiveUpWrite
  /\ lines' = <<>>
  /\ Return("dropped")
  /\ UNCHANGED <<session, inbound, c2s, s2c, server, history>>

\* The caller drops the future: the session keeps whatever it had recorded.
Drop ==
  /\ Reading \/ pc = "write"
  /\ GiveUpWrite
  /\ Return("dropped")
  /\ UNCHANGED <<session, received, c2s, s2c, server, history>>

\* Variant: reading the acknowledgement of an abandoned request is not bounded.
TimeoutInRequestsOnly ==
  /\ (Settling /\ pc # "look") \/ pc = "write"
  /\ Fail("timed out")
  /\ GiveUpWrite
  /\ Return("err")
  /\ UNCHANGED <<awaiting, writing, partial, open_command, received, c2s, s2c, server, history>>

\* The acknowledgement timeout: bounds writing the line and every wait for
\* an acknowledgement, never recv.
Timeout ==
  /\ Settling \/ pc = "write"
  /\ Fail("timed out")
  /\ GiveUpWrite
  /\ Return("err")
  /\ UNCHANGED <<awaiting, writing, partial, open_command, received, c2s, s2c, server, history>>

-----------------------------------------------------------------------------
(* The server: `pwsh -sshs`, one request at a time.                        *)

\* The rules a client must keep, as the fake pwsh enforces them.  A payload
\* cut short would shift every later byte of the same guid.
Legal(r) ==
  CASE r.el = "Command" -> r.guid \notin srv_open
    [] r.el = "Data"    -> /\ r.guid = Nil \/ r.guid \in srv_open
                           /\ r.first <=> r.guid \notin srv_partial
    [] r.el = "Signal"  -> r.guid # Nil
    [] r.el = "Close"   -> r.guid # Nil \/ srv_open = {}
    [] OTHER            -> FALSE

\* No acknowledgement the client has yet to read.
NoUnreadAck == \A i \in 1..Len(s2c) : s2c[i].tag # "ack"

\* A legal request is carried out and acknowledged; the session's Close ends
\* the process.
Obey(r, id) ==
  /\ srv_open' = CASE r.el = "Command" -> srv_open \cup {r.guid}
                   [] r.el = "Close"   -> srv_open \ {r.guid}
                   [] OTHER            -> srv_open
  /\ srv_partial' = IF r.el = "Data" /\ ~r.last THEN srv_partial \cup {r.guid}
                    ELSE IF r.el \in {"Data", "Close"} THEN srv_partial \ {r.guid}
                    ELSE srv_partial
  /\ got' = IF r.el = "Data" /\ r.last THEN got \cup {id} ELSE got
  /\ s2c' = Append(s2c, AckOf(r))
  /\ srv_up' = ~(r.el = "Close" /\ r.guid = Nil)
  /\ UNCHANGED srv_fault

\* A rule is broken: the process dies, but for a Close of the session with
\* commands open, which it never answers.
Complain(r) ==
  /\ srv_fault' = TRUE
  /\ IF r = Request("Close", Nil) /\ NoUnreadAck
     THEN UNCHANGED <<srv_up, s2c>>
     ELSE srv_up' = FALSE /\ s2c' = Append(s2c, BadLine)
  /\ UNCHANGED <<srv_open, srv_partial, got>>

Serve ==
  /\ srv_up /\ c2s # <<>>
  /\ c2s' = Tail(c2s)
  /\ LET head == Head(c2s)
     IN  IF Legal(head.req) /\ NoUnreadAck THEN Obey(head.req, head.id) ELSE Complain(head.req)
  /\ UNCHANGED <<session, received, call, wire, history>>

\* Output, a host call, a state: any <Data> the server sends on its own or
\* around an acknowledgement.
Emit ==
  /\ srv_up /\ emitted < MaxEmitted
  /\ emitted' = emitted + 1
  /\ s2c' = Append(s2c, DataLine(emitted + 1))
  /\ UNCHANGED <<session, received, call, c2s, wire, server, taken, acked>>

\* The process dies, with or without a last error line.
Die(lastWords) ==
  /\ srv_up
  /\ srv_up' = FALSE
  /\ s2c' = s2c \o lastWords
  /\ UNCHANGED <<session, received, call, c2s, wire, srv_open, srv_partial, srv_fault,
                 got, history>>

-----------------------------------------------------------------------------
Init ==
  /\ awaiting = None /\ writing = FALSE /\ partial = FALSE
  /\ open_command = None /\ broken = None /\ inbound = <<>>
  /\ pc = "idle" /\ plan = <<>> /\ kind = "none" /\ ops = 0
  /\ lines = <<>> /\ result = "none"
  /\ c2s = <<>> /\ s2c = <<>> /\ wire = "clean"
  /\ srv_up = TRUE /\ srv_open = {} /\ srv_partial = {} /\ srv_fault = FALSE
  /\ emitted = 0 /\ taken = <<>> /\ got = {} /\ acked = {}

Operation ==
  \/ \E k \in {"send", "signal", "close"} : Refused(k)
  \/ \E n \in 1..MaxChunks : SendToPool(n)
  \/ \E g \in Pids, n \in 1..MaxChunks : SendToPipeline(g, n)
  \/ Signal \/ Close \/ Recv

\* The steps the executor takes on its own once an operation is polled.
Progress ==
  \/ Look \/ StartWrite \/ Written \/ WriteFails \/ RequestDone
  \/ (\E n \in 1..Len(s2c) : Read(n)) \/ Eof \/ OnData \/ OnAck \/ OnBadLine
  \/ RecvTakes \/ RecvFails

Server == Serve \/ Emit \/ Die(<<>>) \/ Die(<<BadLine>>)

\* Nothing is left to do within the bounds: the only state without a step.
Rest ==
  /\ pc = "idle"
  /\ kind = "close" \/ ops = MaxOps
  /\ ~srv_up
  /\ UNCHANGED vars

Next == Operation \/ Progress \/ WirePart \/ WireWhole \/ Drop \/ Timeout \/ Server
        \/ Rest

Spec == Init /\ [][Next]_vars

\* The executor polls an operation it started until it ends, and timers
\* fire.  Nothing is assumed of the server, of the pipe, or of the caller.
Fairness == WF_vars(Progress) /\ WF_vars(Timeout)

FairSpec == Spec /\ Fairness

-----------------------------------------------------------------------------
(* Properties.                                                             *)

Reasons == {"abandoned write", "abandoned payload", "write failed", "end of stream",
            "queue full", "bad line", "timed out"}
RequestSet == [el : Elements \cup {"Garbled"}, guid : Guids, first : BOOLEAN, last : BOOLEAN]
AckSet     == [tag : {"ack"}, el : Elements, guid : Guids, n : {0}]
LineSet    == [tag : {"ack", "data", "bad"}, el : Elements, guid : Guids, n : Nat]

\* An Option is either None or a value, never both.
ASSUME NoneAssumption == None \notin AckSet /\ None \notin Reasons

\* Every variable has its type.
TypeOK ==
  /\ awaiting \in AckSet \cup {None}
  /\ writing \in BOOLEAN /\ partial \in BOOLEAN
  /\ open_command \in Pids \cup {None}
  /\ broken \in Reasons \cup {None}
  /\ inbound \in Seq(Nat) /\ Len(inbound) <= QueueLimit
  /\ pc \in {"idle", "look", "settle", "write", "ack", "recv"}
  /\ plan \in Seq(RequestSet)
  /\ kind \in {"none", "send", "recv", "signal", "close"}
  /\ ops \in 0..MaxOps
  /\ lines \in Seq(LineSet) /\ s2c \in Seq(LineSet)
  /\ result \in {"none", "ok", "err", "dropped"}
  /\ c2s \in Seq([req : RequestSet, id : 0..MaxOps])
  /\ wire \in {"clean", "part", "whole", "torn"}
  /\ srv_up \in BOOLEAN /\ srv_open \subseteq Pids /\ srv_partial \subseteq Guids
  /\ srv_fault \in BOOLEAN
  /\ emitted \in 0..MaxEmitted /\ taken \in Seq(Nat)
  /\ got \subseteq 0..MaxOps /\ acked \subseteq 0..MaxOps

\* Whatever is dropped or times out, the client never breaks a rule of the
\* server: no request before the previous acknowledgement was read, no
\* second Command, no Data without its Command, no session Close over an open
\* command, no line after half a line, no payload after half a payload
\* (session.rs, module comment).
ServerNeverMisled == ~srv_fault

\* The command state always matches what the server confirmed: with nothing
\* awaited, `open_command` is the one command the server has open.
OpenSet == IF open_command = None THEN {} ELSE {open_command}
CommandStateMatches == (awaiting = None /\ broken = None) => srv_open = OpenSet

\* A send that reports success was received whole by the server: no stale
\* acknowledgement of an abandoned request is credited to it.
SentIsReceived == acked \subseteq got

\* No received byte is lost, duplicated or reordered, across drops, timeouts
\* and a session that broke: what recv handed out, what is queued and what is
\* still to be read is everything the server sent, and once the session is
\* broken what is left of it is a prefix.
NoByteLost ==
  LET kept == taken \o inbound
      left == lines \o s2c
      data == {i \in 1..Len(left) : left[i].tag = "data"}
  IN  /\ Len(kept) <= emitted
      /\ \A i \in 1..Len(kept) : kept[i] = i
      /\ broken = None =>
           /\ {left[i].n : i \in data} = (Len(kept) + 1)..emitted
           /\ \A i, j \in data : i < j => left[i].n < left[j].n

\* recv reports the error of a broken session only once the queue is empty.
QueueDrainsFirst ==
  (pc = "idle" /\ kind = "recv" /\ result = "err") => inbound = <<>>

\* The session fails closed: once broken, or once a write or a payload was
\* abandoned, no byte of a line goes out and no line is even begun.
Silenced == \/ broken # None
            \/ writing /\ pc # "write"
            \/ partial /\ pc \in {"idle", "recv"}
FailsClosed == [][Silenced => pc' # "write" /\ Len(c2s') <= Len(c2s)]_vars

\* Every operation that waits for an acknowledgement ends, whatever the
\* server does: only recv may wait for ever.
EveryRequestEnds == pc \in {"look", "settle", "write", "ack"} ~> pc = "idle"
=============================================================================
