------------------------------ MODULE Pipelines ------------------------------
(***************************************************************************)
(* Tasks that run pipelines on one pool through SharedRunspacePool         *)
(* (src/shared.rs): a fair mutex held for a whole run, and in it the read  *)
(* loop of a pipeline (src/pipeline.rs), which takes its own messages out  *)
(* of the pool's, watches the caller's cancellation token, and ends with   *)
(* the state the server reports.  A run can be dropped at any await; its   *)
(* pipeline then stays on the server, and its messages meet later runs.    *)
(*                                                                         *)
(* A query for command metadata (src/metadata.rs) is a run of its own.     *)
(*                                                                         *)
(* next_message is the head of `messages` (RunspacePool has its details);  *)
(* "Bad" is one that cannot be decoded.                                    *)
(* A pipeline's identifier is its number; 0 is the pool.                   *)
(***************************************************************************)
EXTENDS Integers, Sequences, FiniteSets

CONSTANTS
  Tasks, None,
  MaxRuns,    \* bound on the pipelines
  MaxOutput,  \* bound on the values all pipelines output
  MaxFaults   \* bound on dropped runs, failed sends, and messages that say
              \* nothing, or nothing readable

ASSUME ConstantsAssumption ==
  /\ None \notin Tasks
  /\ {MaxRuns, MaxOutput, MaxFaults} \subseteq Nat

Pids == 1..MaxRuns

VARIABLES
  pool,      \* "open", "closed", or "leaked" when dropped without a close
  handles,   \* tasks that still own a handle
  lock,      \* who holds the mutex, then who waits, in order
  pc,        \* what each task awaits
  kind,      \* what it runs: "script", "handle" (a PipelineHandle), "query"
  pid,       \* the pipeline of its run
  input_closed, cancel, cancel_signalled,
  output,    \* result.output
  outcome,   \* how its last run ended
  messages,  \* what next_message has yet to return
  current,   \* the pipeline started last: a stop signal is about it
  server,    \* state of each pipeline on the server
  made,      \* values it output
  input,     \* whether the server waits for its input
  misdirected, \* whether a stop signal was about another's pipeline
  faults

shared == <<pool, handles, lock>>
locals == <<input_closed, cancel, cancel_signalled>>
run    == <<kind, pid, locals, output>>
remote == <<messages, current, server, made, input, misdirected>>
vars   == <<shared, pc, run, outcome, remote, faults>>

Msg(p, what, arg) == [pid |-> p, kind |-> what, arg |-> arg]
Kinds == {"script", "handle", "query"}
Awaiting == {"starting", "held", "ending", "reading", "signalling"}

-----------------------------------------------------------------------------
(* SharedRunspacePool.                                                     *)

\* run_script, run_pipeline, with_pool: wait for the mutex,
\* with the token of this run.
Lock(t, what) ==
  /\ pc[t] = "idle" /\ t \in handles
  /\ lock' = Append(lock, t)
  /\ kind' = [kind EXCEPT ![t] = what]
  /\ pc' = [pc EXCEPT ![t] = "locking"]
  /\ outcome' = [outcome EXCEPT ![t] = "none"]
  /\ output' = [output EXCEPT ![t] = <<>>]
  /\ UNCHANGED <<pool, handles, pid, locals, remote, faults>>

\* Variant: the pool is used without the mutex.
AcquiresAtOnce(t) == pc[t] = "locking"

\* The mutex is fair.
Acquires(t) == pc[t] = "locking" /\ lock[1] = t

\* t leaves it; the others keep their order.
Others(t) ==
  LET i == CHOOSE j \in DOMAIN lock : lock[j] = t
  IN  [j \in 1..(Len(lock) - 1) |-> IF j < i THEN lock[j] ELSE lock[j + 1]]

\* The run of t ends: its guard is dropped, and what was its own.
Ends(t, how) ==
  /\ pc' = [pc EXCEPT ![t] = "idle"]
  /\ outcome' = [outcome EXCEPT ![t] = how]
  /\ lock' = Others(t)
  /\ input_closed' = [input_closed EXCEPT ![t] = TRUE]
  /\ cancel' = [cancel EXCEPT ![t] = FALSE]
  /\ cancel_signalled' = [cancel_signalled EXCEPT ![t] = FALSE]

Step(t, at) == pc' = [pc EXCEPT ![t] = at] /\ UNCHANGED <<outcome, lock>>

\* Variant: the pool is closed whoever uses it.
LastHandleUnchecked(t) == TRUE

\* Arc::try_unwrap succeeds.
LastHandle(t) == handles = {t}

\* close: the last handle closes the pool.
CloseLast(t) ==
  /\ pc[t] = "idle" /\ t \in handles /\ LastHandle(t)
  /\ pool' = "closed" /\ handles' = handles \ {t}
  /\ pc' = [pc EXCEPT ![t] = "gone"]
  /\ UNCHANGED <<lock, run, outcome, remote, faults>>

\* ... any other gets an error, which holds the handle until it was written.
CloseRefused(t) ==
  /\ pc[t] = "idle" /\ t \in handles /\ ~LastHandle(t)
  /\ pc' = [pc EXCEPT ![t] = "refused"]
  /\ UNCHANGED <<shared, run, outcome, remote, faults>>

RefusedHandleDrops(t) ==
  /\ pc[t] = "refused"
  /\ handles' = handles \ {t}
  /\ pool' = IF handles' = {} THEN "leaked" ELSE pool
  /\ pc' = [pc EXCEPT ![t] = "gone"]
  /\ UNCHANGED <<lock, run, outcome, remote, faults>>

-----------------------------------------------------------------------------
(* Pipeline.                                                               *)

\* Pipeline::start, run_all_streams_with_cancel: a new pid; CreatePipeline is
\* being sent.
Start(t) ==
  /\ Acquires(t) /\ current < MaxRuns
  /\ pid' = [pid EXCEPT ![t] = current + 1]
  /\ current' = current + 1
  /\ input_closed' = [input_closed EXCEPT ![t] = kind[t] # "handle"]
  /\ Step(t, "starting")
  /\ UNCHANGED <<pool, handles, kind, cancel, cancel_signalled, output, messages, server, made, input, misdirected, faults>>

\* CreatePipeline is out: the script runs, or its handle is returned.
Started(t) ==
  /\ pc[t] = "starting"
  /\ server' = [server EXCEPT ![pid[t]] = "Running"]
  /\ input' = IF input_closed[t] THEN input ELSE input \cup {pid[t]}
  /\ Step(t, IF input_closed[t] THEN "reading" ELSE "held")
  /\ UNCHANGED <<pool, handles, run, messages, current, made, misdirected, faults>>

\* collect: end_input first.
Collect(t) ==
  /\ pc[t] = "held"
  /\ IF input_closed[t] THEN Step(t, "reading") ELSE Step(t, "ending")
  /\ input_closed' = [input_closed EXCEPT ![t] = TRUE]
  /\ UNCHANGED <<pool, handles, kind, pid, cancel, cancel_signalled, output, remote, faults>>

EndedInput(t) ==
  /\ pc[t] = "ending"
  /\ input' = input \ {pid[t]}
  /\ Step(t, "reading")
  /\ UNCHANGED <<pool, handles, run, messages, current, server, made, misdirected, faults>>

Stops(t) ==
  /\ misdirected' = (misdirected \/ pid[t] # current)
  /\ server' = [server EXCEPT ![current] = IF @ = "Running" THEN "Stopping" ELSE @]

\* PipelineHandle::stop.
Stop(t) ==
  /\ pc[t] = "held" /\ Stops(t)
  /\ UNCHANGED <<shared, pc, run, outcome, messages, current, made, input, faults>>

\* Variant: the token is looked at between two messages only.
CancelBetweenMessages(t) ==
  /\ pc[t] = "reading" /\ cancel[t] /\ ~cancel_signalled[t]
  /\ messages # <<>>
  /\ Step(t, "signalling")
  /\ UNCHANGED <<pool, handles, run, remote, faults>>

\* The token fires, seen first by the select: next_message is dropped.
Cancel(t) ==
  /\ pc[t] = "reading" /\ cancel[t] /\ ~cancel_signalled[t]
  /\ Step(t, "signalling")
  /\ UNCHANGED <<pool, handles, run, remote, faults>>

\* signal_transport_stop returns.
CancelSignalled(t) ==
  /\ pc[t] = "signalling"
  /\ Stops(t)
  /\ cancel_signalled' = [cancel_signalled EXCEPT ![t] = TRUE]
  /\ Step(t, "reading")
  /\ UNCHANGED <<pool, handles, kind, pid, input_closed, cancel, output, messages, current, made,
                 input, faults>>

\* Variant: every message is taken for the run's own.
AnyMessage(t, m) == TRUE

\* The messages of other pipelines, and of the pool, are dropped.
Own(t, m) == m.pid = pid[t]

\* Variant: a pipeline that is being stopped is taken for stopped.
TerminalStopping == {"Stopping", "Completed", "Failed", "Stopped", "Disconnected"}

\* PipelineState::is_terminal.
Terminal == {"Completed", "Failed", "Stopped", "Disconnected"}

\* The error of a stop.
WhoStopped(t) == IF cancel_signalled[t] THEN "cancelled" ELSE "stopped"

ReadsOn == UNCHANGED <<pc, outcome, lock, locals>>

\* The read loop takes a message.
ReadMessage(t) ==
  /\ pc[t] = "reading" /\ kind[t] # "query" /\ (cancel[t] => cancel_signalled[t])
  /\ messages # <<>>
  /\ messages' = Tail(messages)
  /\ LET m == Head(messages) IN
     CASE Own(t, m) /\ m.kind = "Bad" -> Ends(t, "error") /\ UNCHANGED output
       [] Own(t, m) /\ m.kind = "Output" ->
            /\ output' = [output EXCEPT ![t] = Append(@, m.arg)]
            /\ ReadsOn
       [] Own(t, m) /\ m.kind = "State" /\ m.arg \in Terminal ->
            /\ Ends(t, CASE m.arg = "Failed"  -> "failed"
                         [] m.arg = "Stopped" -> WhoStopped(t)
                         [] OTHER             -> m.arg)
            /\ UNCHANGED output
       [] OTHER -> ReadsOn /\ UNCHANGED output
  /\ UNCHANGED <<pool, handles, kind, pid, current, server,
                 made, input, misdirected, faults>>

\* get_command_metadata's own loop: whatever is output is taken for commands,
\* and the first terminal state for the query's.
ReadForQuery(t) ==
  /\ pc[t] = "reading" /\ kind[t] = "query"
  /\ messages # <<>>
  /\ messages' = Tail(messages)
  /\ LET m == Head(messages) IN
     CASE m.kind = "Bad" -> Ends(t, "error") /\ UNCHANGED output
       [] m.kind = "Output" ->
            /\ output' = [output EXCEPT ![t] = Append(@, m.arg)]
            /\ ReadsOn
       [] m.kind = "State" /\ m.arg \in Terminal ->
            /\ Ends(t, IF m.arg = "Failed" THEN "failed" ELSE "Completed")
            /\ UNCHANGED output
       [] OTHER -> ReadsOn /\ UNCHANGED output
  /\ UNCHANGED <<pool, handles, kind, pid, current,
                 server, made, input, misdirected, faults>>

\* On WinRM a stopped command may be gone: next_message fails with Stopped.
CommandGone(t) ==
  /\ pc[t] = "reading" /\ kind[t] # "query" /\ (cancel[t] => cancel_signalled[t])
  /\ messages = <<>> /\ server[pid[t]] = "Stopping"
  /\ server' = [server EXCEPT ![pid[t]] = "Stopped"]
  /\ Ends(t, WhoStopped(t))
  /\ UNCHANGED <<pool, handles, kind, pid, output, messages, current, made, input, misdirected, faults>>

Fault == faults < MaxFaults /\ faults' = faults + 1

\* A send or a receive fails.
Fails(t) ==
  /\ Fault /\ pc[t] \in {"starting", "ending", "signalling", "reading"}
  /\ Ends(t, "error")
  /\ UNCHANGED <<pool, handles, kind, pid, output, remote>>

\* The caller drops the run, its handle, or its place in the queue; what was
\* being sent may be out.
Dropped(t, is_out) ==
  /\ Fault /\ pc[t] \in Awaiting \cup {"locking"}
  /\ IF is_out /\ pc[t] = "starting"
     THEN server' = [server EXCEPT ![pid[t]] = "Running"] ELSE UNCHANGED server
  /\ Ends(t, "dropped")
  /\ UNCHANGED <<pool, handles, kind, pid, output, messages, current, made, input, misdirected>>

\* The token of the run fires, wherever it is; a query has none.
Token(t) ==
  /\ pc[t] \in Awaiting \cup {"locking"} /\ ~cancel[t] /\ kind[t] # "query"
  /\ cancel' = [cancel EXCEPT ![t] = TRUE]
  /\ UNCHANGED <<shared, pc, kind, pid, input_closed, cancel_signalled, output, outcome, remote, faults>>

-----------------------------------------------------------------------------
(* The server.                                                             *)

Says(m) == messages' = Append(messages, m)

AllMade == {v \in Pids \X (1..MaxOutput) : v[2] <= made[v[1]]}

Outputs(p) ==
  /\ server[p] \in {"Running", "Stopping"}
  /\ Cardinality(AllMade) < MaxOutput
  /\ made' = [made EXCEPT ![p] = @ + 1]
  /\ Says(Msg(p, "Output", <<p, made[p] + 1>>))
  /\ UNCHANGED <<shared, pc, run, outcome, current, server, input, misdirected, faults>>

\* A pipeline that has its input ends.
Finishes(p, state) ==
  /\ server[p] = "Running" /\ p \notin input
  /\ state \in {"Completed", "Failed", "Disconnected"}
  /\ server' = [server EXCEPT ![p] = state]
  /\ Says(Msg(p, "State", state))
  /\ UNCHANGED <<shared, pc, run, outcome, current, made, input, misdirected, faults>>

\* A stop is honoured.
ServerStops(p) ==
  /\ server[p] = "Stopping"
  /\ server' = [server EXCEPT ![p] = "Stopped"]
  /\ Says(Msg(p, "State", "Stopped"))
  /\ UNCHANGED <<shared, pc, run, outcome, current, made, input, misdirected, faults>>

\* A state on the way, a message of the pool, or one that cannot be read.
SaysOther(m) ==
  /\ Fault
  /\ Says(m)
  /\ UNCHANGED <<shared, pc, run, outcome, current, server, made, input, misdirected>>

ServerSpeaks ==
  \/ (\E p \in Pids : Outputs(p))
  \/ (\E p \in Pids : \E s \in {"Completed", "Failed", "Disconnected"} : Finishes(p, s))
  \/ (\E p \in Pids : server[p] = "Stopping" /\ SaysOther(Msg(p, "State", "Stopping")))
  \/ (\E p \in Pids : server[p] = "Running" /\ SaysOther(Msg(p, "Bad", None)))
  \/ SaysOther(Msg(0, "State", "Broken"))

-----------------------------------------------------------------------------
Init ==
  /\ pool = "open" /\ handles = Tasks /\ lock = <<>>
  /\ pc = [t \in Tasks |-> "idle"] /\ pid = [t \in Tasks |-> 0]
  /\ kind = [t \in Tasks |-> "script"]
  /\ input_closed = [t \in Tasks |-> TRUE]
  /\ cancel = [t \in Tasks |-> FALSE] /\ cancel_signalled = [t \in Tasks |-> FALSE]
  /\ output = [t \in Tasks |-> <<>>] /\ outcome = [t \in Tasks |-> "none"]
  /\ messages = <<>> /\ current = 0
  /\ server = [p \in Pids |-> "NotStarted"] /\ made = [p \in Pids |-> 0]
  /\ input = {} /\ misdirected = FALSE /\ faults = 0

\* What the executor does once it polls a run.
Polled(t) ==
  Started(t) \/ EndedInput(t) \/ Cancel(t) \/ CancelSignalled(t) \/ ReadMessage(t)
  \/ ReadForQuery(t)

Next ==
  \/ \E t \in Tasks :
       \/ (\E what \in Kinds : Lock(t, what)) \/ Start(t) \/ Polled(t)
       \/ Collect(t) \/ Stop(t) \/ CommandGone(t)
       \/ CloseLast(t) \/ CloseRefused(t) \/ RefusedHandleDrops(t)
       \/ Fails(t) \/ (\E is_out \in BOOLEAN : Dropped(t, is_out)) \/ Token(t)
  \/ ServerSpeaks \/ (\E p \in Pids : ServerStops(p))

Spec == Init /\ [][Next]_vars

\* The executor polls every run, and the server stops what it is told to.
\* Nothing says that a script ends by itself.
FairSpec ==
  Spec /\ (\A t \in Tasks : WF_vars(Polled(t))) /\ (\A p \in Pids : WF_vars(ServerStops(p)))

-----------------------------------------------------------------------------
(* Properties.                                                             *)

\* A run that ends well returns the whole output of its own pipeline, in order,
\* and nothing of a pipeline an earlier run left behind (the pid filter).
ResultIsOwn ==
  \A t \in Tasks : (kind[t] # "query" /\ outcome[t] = "Completed") =>
    output[t] = [i \in 1..made[pid[t]] |-> <<pid[t], i>>]

\* What get_command_metadata promises: the commands its own pipeline reported.
QueryResultIsOwn ==
  \A t \in Tasks : (kind[t] = "query" /\ outcome[t] = "Completed") =>
    output[t] = [i \in 1..made[pid[t]] |-> <<pid[t], i>>]

\* A run says that its pipeline ended, or was stopped or cancelled, only once
\* it did: none is left working on the server behind such an answer.
EndedOnServer ==
  \A t \in Tasks : (kind[t] # "query" /\ outcome[t] \notin {"none", "error", "dropped"}) =>
    server[pid[t]] \in {"Completed", "Failed", "Stopped", "Disconnected"}

\* A stop signal, which names no pipeline, stops the caller's own: runs hold
\* the mutex to their end (SharedRunspacePool).
StopIsOwn == ~misdirected

\* The pool is never closed under a run, nor under a waiting caller.
ClosedWhenUnused ==
  pool = "closed" => \A t \in Tasks : pc[t] \notin Awaiting \cup {"locking"}

\* What close says: the last outstanding handle closes the pool.
LastHandleCloses == handles = {} => pool = "closed"

\* A run whose token fires ends, although its script never would.
CancelledRunEnds ==
  \A t \in Tasks : (pc[t] = "reading" /\ cancel[t]) ~> pc[t] \notin Awaiting
=============================================================================
