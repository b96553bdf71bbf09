------------------------- MODULE WinrmTransportProofs -------------------------
(***************************************************************************)
(* The parked Receive, the stop signal, the shell and the output of        *)
(* WinrmTransport, for every number of commands, chunks, faults and        *)
(* timeouts.                                                               *)
(***************************************************************************)
EXTENDS WinrmTransport, SequenceTheorems, TLAPS

Fields == {"stream", "at", "fault", "out", "end"}

\* A Receive keeps its stream when it reaches the server, because it is a
\* record; and one is only started while the shell is held.
ReceiveInv ==
  /\ receive # None => DOMAIN receive = Fields
  /\ pc = "recv" => shell = "held"

\* A stop is on its way for the current command, and is remembered only if the
\* server accepted it.
StopInv ==
  /\ stop_signalled => command_id \in stopped
  /\ pc = "signal" => target = command_id
  /\ pc = "signal" /\ requested => target \in stopped
  /\ pc \in {"idle", "recv"} => ~requested

\* The shell is given up by a request that the server acted on before it returns.
ShellInv ==
  /\ pc \in {"recv", "execute", "signal"} => shell = "held"
  /\ pc \in {"idle", "recv"} => ~requested
  /\ pc \in {"close", "disconnect"} /\ requested => server # "alive"
  /\ shell = "taken" /\ mishaps = {} /\ server = "alive" => pc \in {"close", "disconnect"}

-----------------------------------------------------------------------------
(* What the records of a Receive are.                                      *)

\* A Receive started, answered or faulted is one of its stream.
LEMMA NewReceive ==
  ASSUME NEW s, NEW at, NEW o, NEW e, NEW f
  PROVE  /\ DOMAIN Waiting(s, at) = Fields   /\ Waiting(s, at).stream = s
         /\ DOMAIN Answered(s, o, e) = Fields /\ Answered(s, o, e).stream = s
         /\ DOMAIN Faulted(s, f) = Fields    /\ Faulted(s, f).stream = s
  BY DEF Waiting, Answered, Faulted, Fields

\* One that reaches the server keeps its stream.
LEMMA MovedReceive ==
  ASSUME NEW r, DOMAIN r = Fields
  PROVE  LET moved == [r EXCEPT !.at = "polling"]
         IN  DOMAIN moved = Fields /\ moved.stream = r.stream
  BY DEF Fields

-----------------------------------------------------------------------------
(* The Receive.                                                            *)

\* A Receive is polled for the current command only: a parked one never outlives
\* its command or its shell (discard in execute_pipeline, take_shell).
THEOREM ParkedIsCurrent == Spec => []ReceiveIsCurrent
<1> DEFINE Inv == ReceiveInv /\ ReceiveIsCurrent
<1>1. Init => Inv
  BY DEF Init, ReceiveInv, ReceiveIsCurrent
<1>2. Inv /\ [Next]_vars => Inv'
  <2> SUFFICES ASSUME Inv, [Next]_vars PROVE Inv'
    OBVIOUS
  <2> USE DEF ReceiveInv, ReceiveIsCurrent
  <2>1. CASE RecvChunk
    BY <2>1, NewReceive DEF RecvChunk, Idle, Drive, conn
  <2>2. CASE ReachServer
    BY <2>2, MovedReceive DEF ReachServer, Polled, conn, call
  <2>3. CASE ReceiveEnds
    <3>1. \/ receive' = Waiting(command_id, "connecting")
          \/ receive' = None /\ pc' = "idle"
      BY <2>3 DEF ReceiveEnds, Classify, Drive, Return, CallEnds, Polled
    <3> QED
      BY <2>3, <3>1, NewReceive DEF ReceiveEnds, Polled, conn
  <2>4. CASE ReceiveTimesOut
    <3>1. \/ receive' = Waiting(command_id, "connecting")
          \/ receive' = None /\ pc' = "idle"
      BY <2>4 DEF ReceiveTimesOut, Drive, Return, CallEnds
    <3> QED
      BY <2>4, <3>1, NewReceive DEF ReceiveTimesOut, Polled, conn
  <2>5. CASE ReceiveBreaks \/ DropRecv
    BY <2>5 DEF ReceiveBreaks, DropRecv, Return, CallEnds, conn
  <2>6. CASE ExecutePipeline \/ SignalStop
    BY <2>6 DEF ExecutePipeline, SignalStop, Ask, Idle, conn
  <2>7. CASE Executed \/ Signalled
    BY <2>7 DEF Executed, Signalled, Discard, CallEnds
  <2>8. ASSUME NEW request \in {"close", "disconnect"}, ReleaseShell(request) PROVE Inv'
    BY <2>8 DEF ReleaseShell, TakeShell, Discard, Ask, CallEnds
  <2>9. CASE Released \/ RequestEnds
    BY <2>9 DEF Released, RequestEnds, CallEnds, conn
  <2>10. CASE DisconnectRefused
    BY <2>10 DEF DisconnectRefused, TakeShell, Discard, Ask, CallEnds, conn
  <2>11. CASE Reconnect
    BY <2>11 DEF Reconnect, call
  <2>12. CASE ServerAnswers
    <3>1. \/ \E o, e : receive' = Answered(receive.stream, o, e)
          \/ \E f : receive' = Faulted(receive.stream, f)
      BY <2>12 DEF ServerAnswers
    <3> QED
      BY <2>12, <3>1, NewReceive DEF ServerAnswers, conn, call
  <2>13. CASE (\E s \in Streams : Produce(s)) \/ (\E c \in Commands : Finish(c))
    BY <2>13 DEF Produce, Finish, conn, call
  <2>14. CASE Act \/ Reap
    BY <2>14 DEF Act, Reap, conn, call
  <2>15. CASE UNCHANGED vars
    BY <2>15 DEF vars, conn, call
  <2> QED
    BY <2>1, <2>2, <2>3, <2>4, <2>5, <2>6, <2>7, <2>8, <2>9, <2>10, <2>11, <2>12, <2>13, <2>14,
       <2>15 DEF Next, Receiving
<1>3. Inv => ReceiveIsCurrent
  OBVIOUS
<1> QED
  BY <1>1, <1>2, <1>3, PTL DEF Spec

-----------------------------------------------------------------------------
(* The stop signal.                                                        *)

\* A pipeline ends as stopped only if its own stop was accepted by the server:
\* the signal of an earlier command is forgotten when the next one starts.
THEOREM OwnStopOnly == Spec => []StoppedWasAsked
<1> DEFINE Inv == StopInv /\ StoppedWasAsked
<1>1. Init => Inv
  BY DEF Init, StopInv, StoppedWasAsked
<1>2. Inv /\ [Next]_vars => Inv'
  <2> SUFFICES ASSUME Inv, [Next]_vars PROVE Inv'
    OBVIOUS
  <2> USE DEF StopInv, StoppedWasAsked
  <2>1. CASE RecvChunk \/ ReachServer \/ DropRecv
    BY <2>1 DEF RecvChunk, ReachServer, DropRecv, Idle, Polled, CallEnds, conn, call, history
  \* What a Receive comes to is said of the current command.
  <2>2. CASE Receiving \/ ReceiveBreaks
    <3>1. /\ UNCHANGED <<command_id, stop_signalled, stopped>>
          /\ pc' \in {"idle", "recv"} /\ ~requested'
      BY <2>2 DEF Receiving, ReceiveEnds, ReceiveTimesOut, ReceiveBreaks, Classify, Return,
                  CallEnds, Drive, Polled, conn
    <3>2. \/ result' = result
          \/ \E kind \in {"empty", "chunk", "error"} : result' = [kind |-> kind, stream |-> command_id]
          \/ result' = [kind |-> "stopped", stream |-> command_id] /\ stop_signalled
      BY <2>2 DEF Receiving, ReceiveEnds, ReceiveTimesOut, ReceiveBreaks, Classify, Return
    <3> QED
      BY <3>1, <3>2
  <2>3. CASE ExecutePipeline \/ SignalStop
    BY <2>3 DEF ExecutePipeline, SignalStop, Ask, Idle, conn, history
  <2>4. CASE Executed \/ Signalled
    BY <2>4 DEF Executed, Signalled, CallEnds, Discard, history
  <2>5. ASSUME NEW request \in {"close", "disconnect"}, ReleaseShell(request) PROVE Inv'
    BY <2>5 DEF ReleaseShell, TakeShell, Discard, Ask, CallEnds, Idle, conn
  <2>6. CASE Released \/ RequestEnds
    BY <2>6 DEF Released, RequestEnds, CallEnds, conn, history
  <2>7. CASE DisconnectRefused
    BY <2>7 DEF DisconnectRefused, TakeShell, Discard, Ask, CallEnds, conn
  <2>8. CASE Reconnect
    BY <2>8 DEF Reconnect, call, history
  <2>9. CASE ServerAnswers
    BY <2>9 DEF ServerAnswers, conn, call, history
  <2>10. CASE (\E s \in Streams : Produce(s)) \/ (\E c \in Commands : Finish(c))
    BY <2>10 DEF Produce, Finish, conn, call, history
  <2>12. CASE Act
    BY <2>12 DEF Act, conn
  <2>11. CASE Reap \/ UNCHANGED vars
    BY <2>11 DEF Reap, vars, conn, call, history
  <2> QED
    BY <2>1, <2>2, <2>3, <2>4, <2>5, <2>6, <2>7, <2>8, <2>9, <2>10, <2>11, <2>12 DEF Next
<1>3. Inv => StoppedWasAsked
  OBVIOUS
<1> QED
  BY <1>1, <1>2, <1>3, PTL DEF Spec

-----------------------------------------------------------------------------
(* The shell.                                                              *)

\* A shell nobody holds is not left alive on the server, unless a request failed
\* or was dropped, or the server refused to disconnect (take_shell, close_shell).
THEOREM ShellNeverLeaked == Spec => []ShellAccountedFor
<1>1. Init => ShellInv
  BY DEF Init, ShellInv
<1>2. ShellInv /\ [Next]_vars => ShellInv'
  <2> SUFFICES ASSUME ShellInv, [Next]_vars PROVE ShellInv'
    OBVIOUS
  <2> USE DEF ShellInv
  <2>1. CASE RecvChunk \/ ReachServer \/ DropRecv
    BY <2>1 DEF RecvChunk, ReachServer, DropRecv, Idle, Polled, CallEnds, conn, call, remote, history
  <2>2. CASE Receiving \/ ReceiveBreaks
    <3>1. /\ UNCHANGED <<shell, server, mishaps>>
          /\ pc = "recv" /\ pc' \in {"idle", "recv"} /\ ~requested'
      BY <2>2 DEF Receiving, ReceiveEnds, ReceiveTimesOut, ReceiveBreaks, Classify, Return,
                  CallEnds, Drive, Polled, remote
    <3> QED
      BY <3>1
  <2>3. CASE ExecutePipeline \/ SignalStop
    BY <2>3 DEF ExecutePipeline, SignalStop, Ask, Idle, remote, history
  <2>4. CASE Executed \/ Signalled
    BY <2>4 DEF Executed, Signalled, CallEnds, remote, history
  \* Nothing shares the shell once the Receive is given up: the request is made.
  <2>5. ASSUME NEW request \in {"close", "disconnect"}, ReleaseShell(request) PROVE ShellInv'
    BY <2>5 DEF ReleaseShell, TakeShell, Discard, Ask, Idle, remote
  <2>6. CASE Released
    BY <2>6 DEF Released, CallEnds, remote, history
  <2>7. CASE DisconnectRefused \/ RequestEnds
    <3>1. mishaps' # {}
      BY <2>7 DEF DisconnectRefused, RequestEnds
    <3> QED
      BY <2>7, <3>1 DEF DisconnectRefused, RequestEnds, TakeShell, Discard, Ask, CallEnds, remote
  <2>8. CASE Reconnect
    BY <2>8 DEF Reconnect, call, history
  <2>9. CASE ServerAnswers
    BY <2>9 DEF ServerAnswers, call, history
  <2>10. CASE (\E s \in Streams : Produce(s)) \/ (\E c \in Commands : Finish(c))
    BY <2>10 DEF Produce, Finish, call, history
  <2>12. CASE Act
    BY <2>12 DEF Act
  <2>11. CASE Reap \/ UNCHANGED vars
    BY <2>11 DEF Reap, vars, call, remote, history
  <2> QED
    BY <2>1, <2>2, <2>3, <2>4, <2>5, <2>6, <2>7, <2>8, <2>9, <2>10, <2>11, <2>12 DEF Next
<1>3. ShellInv => ShellAccountedFor
  BY DEF ShellInv, ShellAccountedFor
<1> QED
  BY <1>1, <1>2, <1>3, PTL DEF Spec

-----------------------------------------------------------------------------
(* The output.                                                             *)

\* What each stream holds of its output, and which stream a Receive is of.
FlowTyped ==
  /\ delivered \in [Streams -> Seq(Nat)] /\ output \in [Streams -> Seq(Nat)]
  /\ produced \in [Streams -> Nat]
  /\ receive \in Receives \cup {None}
  /\ command_id \in Streams /\ target \in Streams

\* A Receive carries output only once it is answered, and never beside a fault.
Unfilled ==
  receive # None /\ (receive.at # "answered" \/ receive.fault # "none") => receive.out = <<>>

\* Whatever a stream produced, and no discard gave up, is handed out, in a Receive, or
\* still at the server; in this order and once.
FlowInv == FlowTyped /\ Unfilled /\ OutputReachesReaders

\* A Receive that is only started holds nothing.
LEMMA WaitingIs ==
  ASSUME NEW s \in Streams, NEW at \in {"connecting", "polling", "answered"}
  PROVE  /\ Waiting(s, at) \in Receives /\ Waiting(s, at).stream = s
         /\ Waiting(s, at).out = <<>> /\ Waiting(s, at).at = at /\ Waiting(s, at).fault = "none"
  BY DEF Waiting, Receives

\* One that is answered holds what the server gave it.
LEMMA AnsweredIs ==
  ASSUME NEW s \in Streams, NEW o \in Seq(Nat), NEW e \in BOOLEAN
  PROVE  /\ Answered(s, o, e) \in Receives /\ Answered(s, o, e).stream = s
         /\ Answered(s, o, e).out = o /\ Answered(s, o, e).fault = "none"
         /\ Answered(s, o, e).at = "answered"
<1> DEFINE w == Waiting(s, "answered")
           u == [w EXCEPT !.out = o]
<1>1. Answered(s, o, e) = [u EXCEPT !.end = e]
  BY DEF Answered
<1>2. w \in Receives /\ w.stream = s /\ w.at = "answered" /\ w.fault = "none"
  BY WaitingIs
<1> HIDE DEF w
<1>3. u \in Receives /\ u.out = o /\ u.stream = s /\ u.fault = "none" /\ u.at = "answered"
  BY <1>2 DEF Receives
<1> HIDE DEF u
<1> QED
  BY <1>1, <1>3 DEF Receives

\* One that faulted holds nothing.
LEMMA FaultedIs ==
  ASSUME NEW s \in Streams, NEW f \in {"TimedOut", "InvalidSelectors"}
  PROVE  /\ Faulted(s, f) \in Receives /\ Faulted(s, f).stream = s
         /\ Faulted(s, f).out = <<>> /\ Faulted(s, f).fault = f
<1> DEFINE w == Waiting(s, "answered")
<1>1. Faulted(s, f) = [w EXCEPT !.fault = f]
  BY DEF Faulted
<1>2. w \in Receives /\ w.stream = s /\ w.out = <<>>
  BY WaitingIs
<1> HIDE DEF w
<1> QED
  BY <1>1, <1>2 DEF Receives

\* A Receive with nothing in it is as good as none.
Blank(r) == r = None \/ (r \in Receives /\ r.out = <<>>)

\* A Receive that holds nothing may go, and another come: no output moves.
LEMMA StillFlows ==
  ASSUME FlowTyped, OutputReachesReaders, Blank(receive), Blank(receive'),
         UNCHANGED <<delivered, output, produced>>, forsaken \subseteq forsaken'
  PROVE  OutputReachesReaders'
<1>1. \A s \in Streams : InFlight(s)' = <<>> /\ InFlight(s) = <<>>
  BY DEF InFlight, Blank
<1> QED
  BY <1>1 DEF OutputReachesReaders

\* Neither moves where the Receive stays.
LEMMA SameFlow ==
  ASSUME OutputReachesReaders, UNCHANGED <<delivered, output, produced, receive>>,
         forsaken \subseteq forsaken'
  PROVE  OutputReachesReaders'
  BY DEF OutputReachesReaders, InFlight

\* A Receive that is given up with its stream takes nobody else's output with it.
LEMMA GivenUpFlow ==
  ASSUME FlowTyped, OutputReachesReaders, receive' = None, UNCHANGED <<delivered, output, produced>>,
         forsaken \subseteq forsaken', receive = None \/ receive.stream \in forsaken'
  PROVE  OutputReachesReaders'
<1>1. \A s \in Streams \ forsaken' : InFlight(s)' = <<>> /\ InFlight(s) = <<>>
  BY DEF InFlight
<1> QED
  BY <1>1 DEF OutputReachesReaders

\* How the three places of the output are put together.
LEMMA Regroup ==
  ASSUME NEW a \in Seq(Nat), NEW b \in Seq(Nat), NEW c \in Seq(Nat), NEW m \in Nat
  PROVE  /\ (a \o b) \o <<>> \o c = a \o b \o c /\ a \o <<>> \o b = a \o b \o <<>>
         /\ a \o b \in Seq(Nat) /\ a \o Append(b, m) = Append(a \o b, m)
<1>1. /\ (a \o b) \o <<>> \o c = a \o b \o c /\ a \o <<>> \o b = a \o b \o <<>>
      /\ a \o b \in Seq(Nat)
  OBVIOUS
<1>2. a \o Append(b, m) = Append(a \o b, m)
  OBVIOUS
<1> QED
  BY <1>1, <1>2

\* The server fills a Receive with the output of its stream: what waited is in flight.
LEMMA FilledFlow ==
  ASSUME FlowTyped, OutputReachesReaders, receive # None, receive.out = <<>>, NEW e \in BOOLEAN,
         receive' = Answered(receive.stream, output[receive.stream], e),
         output' = [output EXCEPT ![receive.stream] = <<>>],
         UNCHANGED <<delivered, produced, forsaken>>
  PROVE  OutputReachesReaders'
<1> DEFINE r == receive.stream
<1>1. r \in Streams /\ receive \in Receives
  BY DEF FlowTyped, Receives
<1>2. output[r] \in Seq(Nat)
  BY <1>1 DEF FlowTyped
<1>3. receive' # None /\ receive'.stream = r /\ receive'.out = output[r]
  BY <1>1, <1>2, AnsweredIs, NoneAssumption
<1> SUFFICES ASSUME NEW s \in Streams \ forsaken
             PROVE  delivered[s] \o InFlight(s)' \o output'[s] = [i \in 1..produced[s] |-> i]
  BY DEF OutputReachesReaders
<1>4. delivered[s] \o InFlight(s) \o output[s] = [i \in 1..produced[s] |-> i]
  BY DEF OutputReachesReaders
<1>5. CASE s = r
  <2>1. InFlight(s) = <<>> /\ InFlight(s)' = output[s] /\ output'[s] = <<>>
    BY <1>1, <1>3, <1>5 DEF InFlight, FlowTyped
  <2>2. delivered[s] \in Seq(Nat) /\ output[s] \in Seq(Nat)
    BY DEF FlowTyped
  <2>3. delivered[s] \o <<>> \o output[s] = delivered[s] \o output[s] \o <<>>
    BY <2>2, Regroup
  <2> QED
    BY <1>4, <1>5, <2>1, <2>3
<1>6. CASE s # r
  BY <1>1, <1>3, <1>4, <1>6 DEF InFlight, FlowTyped
<1> QED
  BY <1>5, <1>6

\* recv_chunk hands the Receive's output out: what was in flight is delivered.
LEMMA HandedFlow ==
  ASSUME FlowTyped, OutputReachesReaders, receive # None, receive' = None,
         delivered' = [delivered EXCEPT ![receive.stream] = @ \o receive.out],
         UNCHANGED <<output, produced, forsaken>>
  PROVE  OutputReachesReaders' /\ delivered' \in [Streams -> Seq(Nat)]
<1> DEFINE r == receive.stream
<1>1. r \in Streams /\ receive.out \in Seq(Nat)
  BY DEF FlowTyped, Receives
<1>2. delivered[r] \o receive.out \in Seq(Nat)
  BY <1>1, Regroup DEF FlowTyped
<1>3. delivered' \in [Streams -> Seq(Nat)]
  BY <1>1, <1>2 DEF FlowTyped
<1> SUFFICES ASSUME NEW s \in Streams \ forsaken
             PROVE  delivered'[s] \o InFlight(s)' \o output[s] = [i \in 1..produced[s] |-> i]
  BY <1>3 DEF OutputReachesReaders
<1>4. delivered[s] \o InFlight(s) \o output[s] = [i \in 1..produced[s] |-> i]
  BY DEF OutputReachesReaders
<1>5. InFlight(s)' = <<>>
  BY DEF InFlight
<1>6. CASE s = r
  <2>1. InFlight(s) = receive.out /\ delivered'[s] = delivered[s] \o receive.out
    BY <1>1, <1>6 DEF InFlight, FlowTyped
  <2>2. delivered[s] \in Seq(Nat) /\ output[s] \in Seq(Nat)
    BY DEF FlowTyped
  <2>3. (delivered[s] \o receive.out) \o <<>> \o output[s] = delivered[s] \o receive.out \o output[s]
    BY <1>1, <2>2, Regroup
  <2> QED
    BY <1>4, <1>5, <2>1, <2>3
<1>7. CASE s # r
  <2>1. InFlight(s) = <<>> /\ delivered'[s] = delivered[s]
    BY <1>1, <1>7 DEF InFlight, FlowTyped
  <2> QED
    BY <1>4, <1>5, <2>1
<1> QED
  BY <1>6, <1>7

\* One more chunk of output waits at the server.
LEMMA ProducedFlow ==
  ASSUME FlowTyped, OutputReachesReaders, NEW r \in Streams,
         produced' = [produced EXCEPT ![r] = @ + 1],
         output' = [output EXCEPT ![r] = Append(@, produced[r] + 1)],
         UNCHANGED <<delivered, receive, forsaken>>
  PROVE  /\ OutputReachesReaders' /\ output' \in [Streams -> Seq(Nat)]
         /\ produced' \in [Streams -> Nat]
<1>1. /\ produced[r] \in Nat /\ output[r] \in Seq(Nat)
      /\ Append(output[r], produced[r] + 1) \in Seq(Nat)
  BY DEF FlowTyped
<1>2. output' \in [Streams -> Seq(Nat)] /\ produced' \in [Streams -> Nat]
  BY <1>1 DEF FlowTyped
<1> SUFFICES ASSUME NEW s \in Streams \ forsaken
             PROVE  delivered[s] \o InFlight(s)' \o output'[s] = [i \in 1..produced'[s] |-> i]
  BY <1>2 DEF OutputReachesReaders
<1>3. delivered[s] \o InFlight(s) \o output[s] = [i \in 1..produced[s] |-> i]
  BY DEF OutputReachesReaders
<1>4. InFlight(s)' = InFlight(s) /\ InFlight(s) \in Seq(Nat) /\ delivered[s] \in Seq(Nat)
  BY DEF InFlight, FlowTyped, Receives
<1>5. CASE s = r
  <2> DEFINE n == produced[r]
             d == delivered[s] \o InFlight(s)
  <2>1. n \in Nat /\ d \in Seq(Nat) /\ output[r] \in Seq(Nat) /\ output'[s] = Append(output[r], n + 1)
        /\ produced'[s] = n + 1 /\ d \o output[r] = [i \in 1..n |-> i]
    BY <1>1, <1>3, <1>4, <1>5, Regroup DEF FlowTyped
  <2> HIDE DEF n, d
  <2>2. d \o Append(output[r], n + 1) = Append(d \o output[r], n + 1)
    <3>1. \A x \in Seq(Nat), y \in Seq(Nat), m \in Nat : x \o Append(y, m) = Append(x \o y, m)
      BY Regroup
    <3>2. n + 1 \in Nat
      BY <2>1
    <3> QED
      BY <2>1, <3>1, <3>2, Zenon
  <2>3. Append([i \in 1..n |-> i], n + 1) = [i \in 1..(n + 1) |-> i]
    BY <2>1
  <2>4. d \o output'[s] = [i \in 1..produced'[s] |-> i]
    BY <2>1, <2>2, <2>3
  <2> QED
    BY <1>4, <2>4 DEF d
<1>6. CASE s # r
  BY <1>3, <1>4, <1>6 DEF FlowTyped
<1> QED
  BY <1>5, <1>6

\* No Receive holds nothing, and neither does one that is only started.
LEMMA BlanksAre == Blank(None) /\ (\A s \in Streams : Blank(Waiting(s, "connecting")))
  BY WaitingIs DEF Blank

\* The chunks recv_chunk hands out of a stream, with what is parked and what waits at the
\* server, are the stream's output in order: a read that is dropped, timed out or polled
\* again loses, repeats and reorders nothing (the parked Receive of recv_chunk, classify).
THEOREM OutputArrives == Spec => []OutputReachesReaders
<1>1. Init => FlowInv
  <2> SUFFICES ASSUME Init PROVE FlowInv
    OBVIOUS
  <2>1. <<>> \in Seq(Nat) /\ 0 \in Streams
    BY DEF Streams
  <2>2. FlowTyped /\ Unfilled
    BY <2>1 DEF Init, FlowTyped, Unfilled
  <2>3. OutputReachesReaders
    BY <2>1 DEF Init, OutputReachesReaders, InFlight
  <2> QED
    BY <2>2, <2>3 DEF FlowInv
<1>2. FlowInv /\ ReceiveIsCurrent /\ ReceiveIsCurrent' /\ [Next]_vars => FlowInv'
  <2> SUFFICES ASSUME FlowInv, ReceiveIsCurrent, ReceiveIsCurrent', [Next]_vars PROVE FlowInv'
    OBVIOUS
  <2>0. FlowTyped /\ Unfilled /\ OutputReachesReaders
    BY DEF FlowInv
  <2> USE DEF conn, call, remote, history
  <2>a. ASSUME UNCHANGED <<delivered, output, produced, receive, command_id>>,
               forsaken \subseteq forsaken', target' \in Streams
        PROVE  FlowInv'
    BY <2>0, <2>a, SameFlow DEF FlowInv, FlowTyped, Unfilled
  <2>b. ASSUME UNCHANGED <<delivered, output, produced>>, forsaken \subseteq forsaken',
               Blank(receive), Blank(receive'), command_id' \in Streams, target' \in Streams
        PROVE  FlowInv'
    <3>1. OutputReachesReaders'
      BY <2>0, <2>b, StillFlows
    <3> QED
      BY <2>0, <2>b, <3>1 DEF FlowInv, FlowTyped, Unfilled, Blank
  <2>c. ASSUME UNCHANGED <<delivered, output, produced>>, forsaken \subseteq forsaken',
               receive' = None, receive = None \/ receive.stream \in forsaken',
               command_id' \in Streams, target' \in Streams
        PROVE  FlowInv'
    <3>1. OutputReachesReaders'
      BY <2>0, <2>c, GivenUpFlow
    <3> QED
      BY <2>0, <2>c, <3>1 DEF FlowInv, FlowTyped, Unfilled
  <2>d. 0 \in Streams /\ command_id \in Streams /\ target \in Streams /\ Commands \subseteq Streams
    BY <2>0 DEF Streams, FlowTyped
  <2>1. CASE RecvChunk
    <3>1. CASE receive = None
      BY <2>1, <2>b, <2>d, <3>1, BlanksAre DEF RecvChunk, Drive
    <3>2. CASE receive # None
      BY <2>1, <2>a, <2>d, <3>2 DEF RecvChunk
    <3> QED
      BY <3>1, <3>2
  <2>2. CASE ReachServer
    <3>1. receive \in Receives /\ receive.out = <<>>
      BY <2>0, <2>2 DEF ReachServer, Polled, FlowTyped, Unfilled
    <3>2. receive' \in Receives /\ receive'.out = <<>>
      BY <2>2, <3>1 DEF ReachServer, Receives
    <3> QED
      BY <2>2, <2>b, <2>d, <3>1, <3>2 DEF ReachServer, Blank
  <2>3. CASE ReceiveEnds
    <3>1. receive # None /\ receive \in Receives /\ receive.at = "answered"
      BY <2>0, <2>3 DEF ReceiveEnds, Polled, FlowTyped
    <3>2. CASE \/ receive.fault # "none"
               \/ receive.out = <<>> /\ ~(done \/ receive.end)
      <4>1. Blank(receive)
        BY <2>0, <3>1, <3>2 DEF Unfilled, Blank
      <4>2. UNCHANGED <<delivered, output, produced, forsaken, command_id>> /\ target' \in Streams
            /\ receive' \in {None, Waiting(command_id, "connecting")}
        BY <2>3, <2>d, <3>2 DEF ReceiveEnds, Classify, Drive, Return, CallEnds
      <4> QED
        BY <2>b, <2>d, <4>1, <4>2, BlanksAre
    <3>3. CASE receive.fault = "none" /\ ~(receive.out = <<>> /\ ~(done \/ receive.end))
      <4>1. /\ receive' = None /\ delivered' = [delivered EXCEPT ![receive.stream] = @ \o receive.out]
            /\ UNCHANGED <<output, produced, forsaken, command_id>> /\ target' = 0
        BY <2>3, <3>3 DEF ReceiveEnds, Classify, Return, CallEnds
      <4>2. OutputReachesReaders' /\ delivered' \in [Streams -> Seq(Nat)]
        BY <2>0, <3>1, <4>1, HandedFlow
      <4> QED
        BY <2>0, <2>d, <4>1, <4>2 DEF FlowInv, FlowTyped, Unfilled
    <3> QED
      BY <3>2, <3>3
  <2>4. CASE ReceiveTimesOut
    <3>1. Blank(receive)
      BY <2>0, <2>4 DEF ReceiveTimesOut, Polled, Unfilled, FlowTyped, Blank
    <3>2. UNCHANGED <<delivered, output, produced, forsaken, command_id>> /\ target' \in Streams
          /\ receive' \in {None, Waiting(command_id, "connecting")}
      BY <2>4, <2>d DEF ReceiveTimesOut, Drive, Return, CallEnds
    <3> QED
      BY <2>b, <2>d, <3>1, <3>2, BlanksAre
  <2>5. CASE ReceiveBreaks
    BY <2>5, <2>c, <2>d DEF ReceiveBreaks, Return, CallEnds
  <2>6. CASE DropRecv \/ Released \/ RequestEnds \/ Signalled
    BY <2>6, <2>a, <2>d DEF DropRecv, Released, RequestEnds, Signalled, CallEnds
  <2>7. CASE ExecutePipeline \/ SignalStop
    BY <2>7, <2>a, <2>d DEF ExecutePipeline, SignalStop, Ask
  <2>8. CASE Executed
    BY <2>8, <2>c, <2>d DEF Executed, Discard, CallEnds
  <2>9. ASSUME NEW request \in {"close", "disconnect"}, ReleaseShell(request) PROVE FlowInv'
    BY <2>9, <2>c, <2>d DEF ReleaseShell, TakeShell, Discard, Ask, CallEnds
  <2>10. CASE DisconnectRefused
    <3>1. CASE shell = "held"
      BY <2>10, <3>1, <2>c, <2>d DEF DisconnectRefused, TakeShell, Discard, Ask, CallEnds
    <3>2. CASE shell # "held"
      BY <2>10, <3>2, <2>a, <2>d DEF DisconnectRefused, CallEnds
    <3> QED
      BY <3>1, <3>2
  <2>11. CASE Reconnect
    BY <2>11, <2>c, <2>d DEF Reconnect, ReceiveIsCurrent
  <2>12. CASE ServerAnswers
    <3> DEFINE s == receive.stream
    <3>1. receive # None /\ receive \in Receives /\ receive.out = <<>> /\ s \in Streams
          /\ output[s] \in Seq(Nat)
      BY <2>0, <2>12 DEF ServerAnswers, FlowTyped, Unfilled, Receives
    <3>2. UNCHANGED <<command_id, target, delivered, produced, forsaken>>
      BY <2>12 DEF ServerAnswers
    <3> HIDE DEF s
    <3>3. CASE \E e \in BOOLEAN : receive' = Answered(s, output[s], e)
                                 /\ output' = [output EXCEPT ![s] = <<>>]
      <4>1. PICK e \in BOOLEAN : receive' = Answered(s, output[s], e)
        BY <3>3
      <4>2. OutputReachesReaders'
        BY <2>0, <3>1, <3>2, <3>3, <4>1, FilledFlow DEF s
      <4>3. receive' \in Receives /\ receive'.at = "answered" /\ receive'.fault = "none"
        BY <3>1, <4>1, AnsweredIs
      <4>4. output' \in [Streams -> Seq(Nat)]
        BY <2>0, <3>1, <3>3 DEF FlowTyped
      <4> QED
        BY <2>0, <3>2, <4>2, <4>3, <4>4 DEF FlowInv, FlowTyped, Unfilled
    <3>4. CASE \E f \in {"TimedOut", "InvalidSelectors"} : receive' = Faulted(s, f) /\ UNCHANGED output
      <4>1. Blank(receive) /\ Blank(receive')
        BY <3>1, <3>4, FaultedIs DEF Blank
      <4> QED
        BY <2>b, <2>d, <3>2, <3>4, <4>1
    <3>5. (command[s] = "done") \in BOOLEAN
      OBVIOUS
    <3> QED
      BY <2>12, <3>3, <3>4, <3>5 DEF ServerAnswers, s
  <2>13. ASSUME NEW s \in Streams, Produce(s) PROVE FlowInv'
    <3>1. OutputReachesReaders' /\ output' \in [Streams -> Seq(Nat)] /\ produced' \in [Streams -> Nat]
      BY <2>0, <2>13, ProducedFlow DEF Produce
    <3> QED
      BY <2>0, <2>13, <3>1 DEF Produce, FlowInv, FlowTyped, Unfilled
  <2>14. CASE (\E c \in Commands : Finish(c)) \/ Act \/ Reap \/ UNCHANGED vars
    BY <2>14, <2>a, <2>d DEF Finish, Act, Reap, vars
  <2> QED
    BY <2>1, <2>2, <2>3, <2>4, <2>5, <2>6, <2>7, <2>8, <2>9, <2>10, <2>11, <2>12, <2>13, <2>14
       DEF Next, Receiving
<1>3. FlowInv => OutputReachesReaders
  BY DEF FlowInv
<1> QED
  BY <1>1, <1>2, <1>3, ParkedIsCurrent, PTL DEF Spec
=============================================================================
