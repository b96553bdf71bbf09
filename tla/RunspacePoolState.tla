-------------------------- MODULE RunspacePoolState --------------------------
(***************************************************************************)
(* RunspacePoolStateMachine (src/runspace/state.rs): the lifecycle of a    *)
(* pool, driven by its owner (open, connect, close, mark_closed) and by    *)
(* whatever the server sends, in any order.                                *)
(***************************************************************************)
EXTENDS PoolStates

CONSTANTS
  Codes,    \* state codes the server sends, the undefined ones included
  MaxSent   \* bound on the messages the machine asks its driver to send

ASSUME ConstantsAssumption == Codes \subseteq Int /\ MaxSent \in Nat

VARIABLES
  state,    \* RunspacePoolStateMachine::state
  sent,     \* the messages of the actions returned so far
  outcome,  \* whether the last on_message returned Ok
  ended     \* the pool was Closed or Broken once, or its close was issued

vars == <<state, sent, outcome, ended>>

Init ==
  /\ state = "BeforeOpen" /\ sent = <<>> /\ outcome = "ok" /\ ended = FALSE

\* The state changes to s; `ended` remembers.
Become(s) == state' = s /\ ended' = (ended \/ s \in Terminal)

\* open: Opening is left before the call returns.
Open ==
  /\ MayOpen(state)
  /\ Len(sent) + 2 <= MaxSent
  /\ Become("NegotiationSent")
  /\ sent' = sent \o <<"SessionCapability", "InitRunspacePool">>
  /\ UNCHANGED outcome

\* Variant: only a terminal machine refuses to connect.
ConnectUnlessTerminal ==
  /\ state \notin Terminal
  /\ Become("Opened")
  /\ UNCHANGED <<sent, outcome>>

\* connect: no message, the server kept the runspace opened.
Connect ==
  /\ MayConnect(state)
  /\ Become("Opened")
  /\ UNCHANGED <<sent, outcome>>

\* Variant: a terminal machine closes again.
CloseAnyway ==
  /\ Len(sent) + 1 <= MaxSent
  /\ state' = "Closing" /\ ended' = TRUE
  /\ sent' = Append(sent, "CloseRunspacePool")
  /\ UNCHANGED outcome

\* close
Close ==
  /\ MayClose(state)
  /\ Len(sent) + 1 <= MaxSent
  /\ state' = "Closing" /\ ended' = TRUE
  /\ sent' = Append(sent, "CloseRunspacePool")
  /\ UNCHANGED outcome

\* mark_closed
MarkClosed ==
  /\ Become("Closed")
  /\ UNCHANGED <<sent, outcome>>

\* Variant: a code nobody defined makes a state of its own.
OnStateOpenEnded(code) ==
  LET to == FromI32(code)
  IN  /\ Become(IF code \in 0..10 THEN AfterServer(state, to) ELSE "Unknown")
      /\ outcome' = IF ServerError(state, to) THEN "err" ELSE "ok"
      /\ UNCHANGED sent

\* Variant: the state is stored before it is judged.
OnStateUnchecked(code) ==
  LET to == FromI32(code)
  IN  /\ Become(to)
      /\ outcome' = IF ServerError(state, to) THEN "err" ELSE "ok"
      /\ UNCHANGED sent

\* on_message, a RunspacePoolState message.
OnState(code) ==
  LET to == FromI32(code)
  IN  /\ Become(AfterServer(state, to))
      /\ outcome' = IF ServerError(state, to) THEN "err" ELSE "ok"
      /\ UNCHANGED sent

\* on_message, a RunspacePoolState message with no state in it.
OnMalformed ==
  /\ outcome' = "err"
  /\ UNCHANGED <<state, sent, ended>>

\* on_message, any other message: informational.
OnOther ==
  /\ outcome' = "ok"
  /\ UNCHANGED <<state, sent, ended>>

Next ==
  \/ Open \/ Connect \/ Close \/ MarkClosed
  \/ (\E code \in Codes : OnState(code))
  \/ OnMalformed \/ OnOther

Spec == Init /\ [][Next]_vars

-----------------------------------------------------------------------------
(* Properties.                                                             *)

Messages == {"SessionCapability", "InitRunspacePool", "CloseRunspacePool"}

\* Every variable has its type.
TypeOK ==
  /\ state \in States
  /\ sent \in Seq(Messages) /\ Len(sent) <= MaxSent
  /\ outcome \in {"ok", "err"}
  /\ ended \in BOOLEAN

\* Once the pool was closed or declared broken, or its close was issued, no
\* sequence of calls and server messages makes it usable again
\* (fuzz/fuzz_targets/runspace_state_machine.rs; state.rs, close).
NeverResurrected == ended => state # "Opened"

\* The machine keeps the promise of PoolLifecycle.
Lifecycle == INSTANCE PoolLifecycle WITH phase <- Phase(state)
KeepsLifecycle == Lifecycle!Spec
=============================================================================
