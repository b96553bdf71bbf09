---------------------------- MODULE WinrmTransport ----------------------------
(***************************************************************************)
(* The WinRM transport (src/transport.rs): one server-side shell, at most  *)
(* one command at a time, and the long poll (Receive) that brings the      *)
(* output of the command.  The transport is called by one task, so a call  *)
(* is a program counter; it can be dropped at its await, and the Receive   *)
(* it was polling then stays parked for the next recv_chunk.               *)
(*                                                                         *)
(* Streams: 0 is the shell's own, used before a command is started.        *)
(* winrm-rs and the server are external.                                   *)
(***************************************************************************)
EXTENDS Integers, Sequences, Functions

CONSTANTS
  Commands,    \* commands that may be started, 1..n
  MaxOutput,   \* bound on the chunks produced
  MaxFaults,   \* bound on dropped calls, errors and a shell that is reaped
  MaxTimeouts, \* MAX_CONSECUTIVE_TIMEOUTS
  None

ASSUME ConstantsAssumption ==
  /\ Commands \subseteq Nat \ {0}
  /\ {MaxOutput, MaxFaults} \subseteq Nat
  /\ MaxTimeouts \in Nat \ {0}
  /\ None \notin Int

Streams == {0} \cup Commands

VARIABLES
  shell,          \* whether the transport holds the shell
  receive,        \* the Receive in flight, or None
  command_id, stop_signalled, done,
  pc,             \* the call in progress
  timeouts, heard, \* recv_chunk: its streak, and whether the server answered it
  requested, target, \* a request: whether the server acted on it; its command
  server,         \* the shell on the server: "alive", "away", "gone"
  command,        \* state of each stream on the server
  output,         \* output not handed to a Receive yet
  produced, delivered, \* chunks made, and handed to a caller of recv_chunk
  result,         \* what the last recv_chunk returned, of which stream
  forsaken,       \* streams whose output the transport gave up
  stopped,        \* streams whose stop signal was accepted
  mishaps,        \* requests "refused" by the server, or "failed"
  faults          \* what the bound counts

conn    == <<command_id, stop_signalled, done>>
call    == <<pc, timeouts, heard, requested, target>>
remote  == <<server, command, output, produced>>
history == <<delivered, result, forsaken, stopped, mishaps>>
vars    == <<shell, receive, conn, call, remote, history, faults>>

\* A Receive: "connecting" until it reaches the server, "polling" there, and
\* then the answer.
Waiting(s, at)    == [stream |-> s, at |-> at, fault |-> "none", out |-> <<>>, end |-> FALSE]
Answered(s, o, e) == [Waiting(s, "answered") EXCEPT !.out = o, !.end = e]
Faulted(s, f)     == [Waiting(s, "answered") EXCEPT !.fault = f]

\* Every Receive.
Receives ==
  [stream : Streams, at : {"connecting", "polling", "answered"},
   fault : {"none", "TimedOut", "InvalidSelectors"}, out : Seq(Nat), end : BOOLEAN]

ASSUME NoneAssumption == None \notin Receives

-----------------------------------------------------------------------------
(* recv_chunk.                                                             *)

Idle  == pc = "idle" /\ shell = "held"
Fault == faults < MaxFaults /\ faults' = faults + 1

\* The call ends, with what it kept for itself.
CallEnds ==
  /\ pc' = "idle" /\ timeouts' = 0 /\ heard' = FALSE
  /\ requested' = FALSE /\ target' = 0

\* Parked::drive starts a Receive when none is parked.
Drive == receive' = Waiting(command_id, "connecting")

RecvChunk ==
  /\ Idle /\ pc' = "recv"
  /\ IF receive = None THEN Drive ELSE UNCHANGED receive
  /\ UNCHANGED <<shell, conn, timeouts, heard, requested, target, remote, history, faults>>

\* recv_chunk is polled, and its Receive is at the server or not.
Polled(at) == pc = "recv" /\ receive # None /\ receive.at = at

\* The Receive gets its connection and reaches the server.
ReachServer ==
  /\ Polled("connecting")
  /\ receive' = [receive EXCEPT !.at = "polling"]
  /\ UNCHANGED <<shell, conn, call, remote, history, faults>>

Return(kind) ==
  /\ CallEnds /\ receive' = None
  /\ result' = [kind |-> kind, stream |-> command_id]

\* classify_receive and receive_step on an answer of the server: an empty one
\* is asked for again, unless the command is done.
Classify ==
  LET empty == receive.fault = "none" /\ receive.out = <<>>
      ended == done \/ receive.end
  IN CASE receive.fault = "TimedOut" \/ (empty /\ ~ended) ->
            /\ Drive /\ timeouts' = 0 /\ heard' = TRUE
            /\ UNCHANGED <<pc, requested, target, result, delivered>>
       [] receive.fault = "none" /\ ~(empty /\ ~ended) ->
            /\ Return(IF empty THEN "empty" ELSE "chunk")
            /\ delivered' = [delivered EXCEPT ![receive.stream] = @ \o receive.out]
       [] OTHER ->   \* "InvalidSelectors"
            /\ Return(IF stop_signalled THEN "stopped" ELSE "error")
            /\ UNCHANGED delivered

ReceiveEnds ==
  /\ Polled("answered")
  /\ done' = (done \/ receive.end)
  /\ Classify
  /\ UNCHANGED <<shell, command_id, stop_signalled, remote, forsaken, stopped, mishaps, faults>>

\* TimeoutStreak::record fails.
Record(n) == n >= MaxTimeouts

\* Variant: the streak starts over at a timeout.
ReceiveTimesOutResetting ==
  /\ Polled("connecting")
  /\ Drive /\ timeouts' = 0
  /\ UNCHANGED <<shell, conn, pc, heard, requested, target, remote, history, faults>>

\* The client gives up waiting for a connection.
ReceiveTimesOut ==
  /\ Polled("connecting")
  /\ IF Record(timeouts + 1)
     THEN Return("error")
     ELSE Drive /\ timeouts' = timeouts + 1 /\ UNCHANGED <<pc, heard, requested, target, result>>
  /\ UNCHANGED <<shell, conn, remote, delivered, forsaken, stopped, mishaps, faults>>

\* The connection breaks: the answer, if any, is lost.
ReceiveBreaks ==
  /\ Fault /\ pc = "recv"
  /\ Return("error")
  /\ forsaken' = forsaken \cup {receive.stream}
  /\ UNCHANGED <<shell, conn, remote, delivered, stopped, mishaps>>

\* Variant: the Receive is dropped with the call.
DropRecvDiscarding ==
  /\ Fault /\ pc = "recv"
  /\ CallEnds /\ receive' = None
  /\ UNCHANGED <<shell, conn, remote, history>>

\* recv_chunk is dropped: the Receive stays parked.
DropRecv ==
  /\ Fault /\ pc = "recv"
  /\ CallEnds
  /\ UNCHANGED <<shell, receive, conn, remote, history>>

-----------------------------------------------------------------------------
(* The requests: execute_pipeline (start_pipeline_command does the same),  *)
(* signal_stop, close_shell, disconnect_shell.  The server acts, then the  *)
(* client hears of it.                                                     *)

\* The Receive in flight is given up, with the answer it may hold.
Discard ==
  /\ receive' = None
  /\ forsaken' = IF receive = None THEN forsaken ELSE forsaken \cup {receive.stream}

Ask(request, c) == pc' = request /\ target' = c /\ UNCHANGED <<timeouts, heard, requested>>

\* The next command, numbered in the order they are started.
ExecutePipeline ==
  /\ Idle
  /\ \E c \in Commands :
       /\ {b \in Commands : command[b] = "none"} = {b \in Commands : b >= c}
       /\ Ask("execute", c)
  /\ UNCHANGED <<shell, receive, conn, remote, history, faults>>

SignalStop ==
  /\ Idle /\ command_id # 0
  /\ Ask("signal", command_id)
  /\ UNCHANGED <<shell, receive, conn, remote, history, faults>>

\* Variant: the parked Receive keeps its handle while the shell is taken.
TakeShellKeepingReceive(request) ==
  /\ shell' = "taken"
  /\ UNCHANGED <<receive, forsaken>>
  /\ IF receive = None THEN Ask(request, 0) ELSE CallEnds

\* take_shell: a parked Receive holds a second handle on the shell, which
\* cannot be consumed while it is shared.
TakeShell(request) ==
  /\ shell' = "taken"
  /\ Discard
  /\ IF receive' = None THEN Ask(request, 0) ELSE CallEnds

ReleaseShell(request) ==
  /\ request \in {"close", "disconnect"}
  /\ Idle /\ TakeShell(request)
  /\ UNCHANGED <<conn, remote, delivered, result, stopped, mishaps, faults>>

\* Variant: the parked Receive of the previous command is kept.
ExecutedKeepingReceive ==
  /\ pc = "execute" /\ requested
  /\ command_id' = target /\ stop_signalled' = FALSE /\ CallEnds
  /\ UNCHANGED <<shell, receive, done, remote, history, faults>>

\* Variant: the stop of the previous command is remembered.
ExecutedStillStopped ==
  /\ pc = "execute" /\ requested
  /\ Discard /\ command_id' = target /\ CallEnds
  /\ UNCHANGED <<shell, stop_signalled, done, remote, delivered, result, stopped, mishaps, faults>>

\* execute_pipeline returns: the Receive of the previous command is given up.
Executed ==
  /\ pc = "execute" /\ requested
  /\ Discard /\ command_id' = target /\ stop_signalled' = FALSE /\ CallEnds
  /\ UNCHANGED <<shell, done, remote, delivered, result, stopped, mishaps, faults>>

Signalled ==
  /\ pc = "signal" /\ requested
  /\ stop_signalled' = TRUE /\ CallEnds
  /\ UNCHANGED <<shell, receive, command_id, done, remote, history, faults>>

\* close_shell returns, or disconnect_shell with the shell's id.
Released ==
  /\ pc \in {"close", "disconnect"} /\ requested
  /\ CallEnds
  /\ UNCHANGED <<shell, receive, conn, remote, history, faults>>

\* The server refuses to disconnect.  RunspacePool::disconnect closes the
\* shell next: close_shell finds that it was already taken, and does nothing.
DisconnectRefused ==
  /\ pc = "disconnect" /\ ~requested
  /\ mishaps' = mishaps \cup {"refused"}
  /\ IF shell = "held" THEN TakeShell("close")
     ELSE CallEnds /\ UNCHANGED <<shell, receive, forsaken>>
  /\ UNCHANGED <<conn, remote, delivered, result, stopped, faults>>

\* A request fails, or its call is dropped, whether or not the server acted.
RequestEnds ==
  /\ Fault /\ pc \notin {"idle", "recv"}
  /\ CallEnds /\ mishaps' = mishaps \cup {"failed"}
  /\ UNCHANGED <<shell, receive, conn, remote, delivered, result, forsaken, stopped>>

\* WinrmPsrpTransport::reconnect: a new transport on the shell.
Reconnect ==
  /\ pc = "idle" /\ shell = "taken" /\ server = "away"
  /\ shell' = "held" /\ receive' = None
  /\ command_id' = 0 /\ stop_signalled' = FALSE /\ done' = FALSE
  /\ server' = "alive"
  /\ UNCHANGED <<call, command, output, produced, history, faults>>

-----------------------------------------------------------------------------
(* The server.                                                             *)

\* It answers a Receive with what there is, with nothing when the poll ends,
\* or says that there is no such command or shell any more.
ServerAnswers ==
  /\ receive # None /\ receive.at = "polling"
  /\ LET s == receive.stream IN
     \/ /\ server # "gone" /\ command[s] \in {"running", "done"}
        /\ receive' = Answered(s, output[s], command[s] = "done")
        /\ output' = [output EXCEPT ![s] = <<>>]
     \/ /\ server # "gone" /\ command[s] = "running" /\ output[s] = <<>>
        /\ receive' = Faulted(s, "TimedOut") /\ UNCHANGED output
     \/ /\ server = "gone" \/ command[s] = "deleted"
        /\ receive' = Faulted(s, "InvalidSelectors") /\ UNCHANGED output
  /\ UNCHANGED <<shell, conn, call, server, command, produced, history, faults>>

AllProduced == FoldFunction(LAMBDA a, b : a + b, 0, produced)

Produce(s) ==
  /\ server = "alive" /\ command[s] = "running"
  /\ AllProduced < MaxOutput
  /\ produced' = [produced EXCEPT ![s] = @ + 1]
  /\ output' = [output EXCEPT ![s] = Append(@, produced[s] + 1)]
  /\ UNCHANGED <<shell, receive, conn, call, server, command, history, faults>>

Finish(c) ==
  /\ server = "alive" /\ command[c] = "running"
  /\ command' = [command EXCEPT ![c] = "done"]
  /\ UNCHANGED <<shell, receive, conn, call, server, output, produced, history, faults>>

\* The server acts on a request; a stopped command is deleted.
Act ==
  /\ pc \notin {"idle", "recv"} /\ ~requested /\ server = "alive"
  /\ requested' = TRUE
  /\ command' = CASE pc = "execute" -> [command EXCEPT ![target] = "running"]
                  [] pc = "signal" /\ command[target] = "running" ->
                       [command EXCEPT ![target] = "deleted"]
                  [] OTHER -> command
  /\ stopped' = IF pc = "signal" THEN stopped \cup {target} ELSE stopped
  /\ server' = CASE pc = "close" -> "gone" [] pc = "disconnect" -> "away" [] OTHER -> server
  /\ UNCHANGED <<shell, receive, conn, pc, timeouts, heard, target, output, produced,
                 delivered, result, forsaken, mishaps, faults>>

\* The shell is reaped, or dies.
Reap ==
  /\ Fault /\ server # "gone" /\ server' = "gone"
  /\ UNCHANGED <<shell, receive, conn, call, command, output, produced, history>>

-----------------------------------------------------------------------------
Init ==
  /\ shell = "held" /\ receive = None /\ command_id = 0
  /\ stop_signalled = FALSE /\ done = FALSE
  /\ pc = "idle" /\ timeouts = 0 /\ heard = FALSE /\ requested = FALSE /\ target = 0
  /\ server = "alive" /\ command = [s \in Streams |-> IF s = 0 THEN "running" ELSE "none"]
  /\ output = [s \in Streams |-> <<>>] /\ produced = [s \in Streams |-> 0]
  /\ delivered = [s \in Streams |-> <<>>] /\ result = [kind |-> "none", stream |-> 0]
  /\ forsaken = {} /\ stopped = {} /\ mishaps = {} /\ faults = 0

\* What the executor and winrm-rs do by themselves in a recv_chunk.
Receiving == ReceiveEnds \/ ReceiveTimesOut

Next ==
  \/ RecvChunk \/ ReachServer \/ Receiving \/ ReceiveBreaks \/ DropRecv
  \/ ExecutePipeline \/ Executed \/ SignalStop \/ Signalled
  \/ (\E request \in {"close", "disconnect"} : ReleaseShell(request))
  \/ Released \/ DisconnectRefused \/ RequestEnds \/ Reconnect
  \/ ServerAnswers \/ (\E s \in Streams : Produce(s)) \/ (\E c \in Commands : Finish(c))
  \/ Act \/ Reap

Spec == Init /\ [][Next]_vars

\* The executor polls a recv_chunk, and a Receive that does not reach the
\* server times out: winrm-rs bounds every request.  Of the server, once
\* reached, only that a long poll ends.
FairSpec == Spec /\ WF_vars(Receiving) /\ WF_vars(ServerAnswers)

-----------------------------------------------------------------------------
(* Properties.                                                             *)

InFlight(s) == IF receive # None /\ receive.stream = s THEN receive.out ELSE <<>>

\* Whatever recv_chunk is dropped, the output of a stream reaches its readers
\* once and in order, unless the stream was given up for the next command or
\* for good, or its connection broke (Parked).
OutputReachesReaders ==
  \A s \in Streams \ forsaken :
    delivered[s] \o InFlight(s) \o output[s] = [i \in 1..produced[s] |-> i]

\* A Receive is polled for the current command only: a parked one never
\* outlives its command or its shell (discard in execute_pipeline, take_shell).
ReceiveIsCurrent ==
  receive # None => shell = "held" /\ receive.stream = command_id

\* A pipeline ends as stopped only if its own stop was accepted by the server,
\* never because an earlier one's was (stop_signalled).
StoppedWasAsked == result.kind = "stopped" => result.stream \in stopped

\* The transport gives its shell up only by having the server close it or
\* keep it: a shell nobody holds is not left alive, unless a request failed or
\* was dropped, or the server refused to disconnect (close_shell,
\* disconnect_shell).
ShellAccountedFor ==
  (pc = "idle" /\ shell = "taken" /\ mishaps = {}) => server # "alive"

\* What RunspacePool::disconnect says of a refused disconnection: the shell is
\* torn down before the error is returned.
RefusedShellTornDown ==
  (pc = "idle" /\ shell = "taken" /\ "failed" \notin mishaps) => server # "alive"

\* recv_chunk does not wait for ever for a server that cannot be reached
\* (MAX_CONSECUTIVE_TIMEOUTS): it ends, or the server answered.
RecvNotStuck == pc = "recv" ~> (pc # "recv" \/ heard)
=============================================================================
