------------------------------ MODULE PoolStates ------------------------------
(***************************************************************************)
(* The pure part of src/runspace/state.rs: the states of a runspace pool   *)
(* and the transitions a server may ask for.  RunspacePoolState makes a    *)
(* state machine of them, RunspacePool drives one over a transport.        *)
(***************************************************************************)
EXTENDS Integers, Sequences

\* The states by their code on the wire (RunspacePoolState).
StateOfCode == <<"BeforeOpen", "Opening", "Opened", "Closed", "Closing", "Broken",
                 "Disconnecting", "Disconnected", "Connecting",
                 "NegotiationSent", "NegotiationSucceeded">>
States == {"BeforeOpen", "Opening", "Opened", "Closed", "Closing", "Broken",
           "Disconnecting", "Disconnected", "Connecting",
           "NegotiationSent", "NegotiationSucceeded"}

\* from_i32: a code nobody defined is read as Broken.
FromI32(code) == IF code \in 0..10 THEN StateOfCode[code + 1] ELSE "Broken"

\* is_terminal
Terminal == {"Closed", "Broken"}

\* is_legal_server_transition
LegalPairs ==
  ({"BeforeOpen"} \X {"Opening", "NegotiationSent"})
  \cup ({"Opening"} \X {"NegotiationSent", "NegotiationSucceeded", "Opened"})
  \cup ({"NegotiationSent"} \X {"NegotiationSucceeded", "Opened", "Closed", "Disconnected"})
  \cup ({"NegotiationSucceeded"} \X {"Opened", "Closed", "Disconnected"})
  \cup ({"Opened"} \X {"Closing", "Closed", "Disconnecting", "Disconnected"})
  \cup ({"Closing"} \X {"Closed"})
  \cup ({"Disconnecting"} \X {"Disconnected"})
  \cup ({"Disconnected"} \X {"Connecting"})
  \cup ({"Connecting"} \X {"NegotiationSent", "NegotiationSucceeded", "Opened", "Disconnected"})

IsLegalServerTransition(from, to) ==
  \/ from = to
  \/ to = "Broken" /\ from # "Closed"
  \/ <<from, to>> \in LegalPairs

\* Variant: the state is stored before it is judged.
AfterServerUnchecked(from, to) == to

\* on_message, for a RunspacePoolState message: an illegal transition changes
\* nothing, and is an error like the arrival in a terminal state.
AfterServer(from, to) == IF IsLegalServerTransition(from, to) THEN to ELSE from
ServerError(from, to) == ~IsLegalServerTransition(from, to) \/ to \in Terminal

\* open, connect and close refuse by doing nothing.
MayOpen(s)    == s = "BeforeOpen"
MayConnect(s) == s \in {"BeforeOpen", "Disconnected"}
MayClose(s)   == s \notin Terminal

\* The phase of PoolLifecycle each state stands for.
Phase(s) ==
  CASE s = "BeforeOpen"                                             -> "new"
    [] s \in {"Opening", "NegotiationSent", "NegotiationSucceeded"} -> "negotiating"
    [] s = "Opened"                                                 -> "open"
    [] s \in {"Disconnecting", "Disconnected", "Connecting"}        -> "away"
    [] s = "Closing"                                                -> "closing"
    [] s \in Terminal                                               -> "over"
=============================================================================
