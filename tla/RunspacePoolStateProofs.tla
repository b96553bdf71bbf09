----------------------- MODULE RunspacePoolStateProofs -----------------------
(***************************************************************************)
(* What RunspacePoolState guarantees for every set of codes a server may   *)
(* send and every number of messages.                                      *)
(***************************************************************************)
EXTENDS RunspacePoolState, TLAPS

-----------------------------------------------------------------------------
(* What the table of server transitions allows, for every code and every   *)
(* pair of states.                                                         *)

\* A server message leads to a state the enum has, whatever its code.
LEMMA FromI32Type == \A code \in Int : FromI32(code) \in States
  BY SMT DEF FromI32, StateOfCode, States

\* A server transition out of Closing, Closed or Broken ends in one of them.
LEMMA NoWayBack ==
  ASSUME NEW from \in {"Closing", "Closed", "Broken"}, NEW to \in States
  PROVE  AfterServer(from, to) \in {"Closing", "Closed", "Broken"}
  BY DEF AfterServer, IsLegalServerTransition, LegalPairs, States

\* Every step a server can force on the machine is a step of the lifecycle.
LEMMA ServerKeepsLifecycle ==
  ASSUME NEW from \in States, NEW to \in States,
         IsLegalServerTransition(from, to), Phase(from) # Phase(to)
  PROVE  \/ Phase(from) \in {"new", "away"} /\ Phase(to) = "negotiating"
         \/ Phase(from) \in {"new", "negotiating", "away"} /\ Phase(to) = "open"
         \/ Phase(from) \in {"negotiating", "open"} /\ Phase(to) = "away"
         \/ Phase(from) \notin {"closing", "over"} /\ Phase(to) = "closing"
         \/ Phase(from) # "over" /\ Phase(to) = "over"
  BY DEF IsLegalServerTransition, LegalPairs, Phase, Terminal, States

-----------------------------------------------------------------------------
(* The machine.                                                            *)

\* The machine only ever holds a state of the enum, and asks for messages it
\* knows (on_message, open, close).
THEOREM TypeCorrect == Spec => []TypeOK
<1>1. Init => TypeOK
  <2> SUFFICES ASSUME Init PROVE TypeOK
    OBVIOUS
  <2>1. sent \in Seq(Messages) /\ Len(sent) <= MaxSent
    BY ConstantsAssumption DEF Init
  <2> QED
    BY <2>1 DEF Init, TypeOK, States
<1>2. TypeOK /\ [Next]_vars => TypeOK'
  <2> SUFFICES ASSUME TypeOK, [Next]_vars PROVE TypeOK'
    OBVIOUS
  <2> USE DEF TypeOK, Become
  <2>1. CASE Open
    BY <2>1, ConstantsAssumption DEF Open, Messages, States
  <2>2. CASE Connect
    BY <2>2 DEF Connect, States
  <2>3. CASE Close
    BY <2>3, ConstantsAssumption DEF Close, Messages, States
  <2>4. CASE MarkClosed
    BY <2>4 DEF MarkClosed, States
  <2>5. ASSUME NEW code \in Codes, OnState(code) PROVE TypeOK'
    <3>1. FromI32(code) \in States
      BY FromI32Type, ConstantsAssumption
    <3>2. AfterServer(state, FromI32(code)) \in States
      BY <3>1 DEF AfterServer
    <3> QED
      BY <2>5, <3>2 DEF OnState
  <2>6. CASE OnMalformed \/ OnOther
    BY <2>6 DEF OnMalformed, OnOther
  <2>7. CASE UNCHANGED vars
    BY <2>7 DEF vars
  <2> QED
    BY <2>1, <2>2, <2>3, <2>4, <2>5, <2>6, <2>7 DEF Next
<1> QED
  BY <1>1, <1>2, PTL DEF Spec

-----------------------------------------------------------------------------
(* NeverResurrected is not inductive: a pool whose close was issued is not  *)
(* Opened, but it must also be in no state a server could open it from.     *)

OnItsWayOut == ended => state \in {"Closing", "Closed", "Broken"}

\* No sequence of calls and server messages makes a pool usable again once
\* it was closed, declared broken, or its close was issued.
THEOREM NoResurrection == Spec => []NeverResurrected
<1>1. Init => OnItsWayOut
  BY DEF Init, OnItsWayOut
<1>2. TypeOK /\ OnItsWayOut /\ [Next]_vars => OnItsWayOut'
  <2> SUFFICES ASSUME TypeOK, OnItsWayOut, [Next]_vars PROVE OnItsWayOut'
    OBVIOUS
  <2> USE DEF OnItsWayOut, Become, Terminal
  <2>1. CASE Open
    BY <2>1 DEF Open, MayOpen
  <2>2. CASE Connect
    BY <2>2 DEF Connect, MayConnect
  <2>3. CASE Close
    BY <2>3 DEF Close
  <2>4. CASE MarkClosed
    BY <2>4 DEF MarkClosed
  <2>5. ASSUME NEW code \in Codes, OnState(code) PROVE OnItsWayOut'
    <3>1. FromI32(code) \in States
      BY FromI32Type, ConstantsAssumption
    <3>2. CASE ended
      BY <2>5, <3>1, <3>2, NoWayBack DEF OnState
    <3>3. CASE ~ended
      BY <2>5, <3>3 DEF OnState, TypeOK
    <3> QED
      BY <3>2, <3>3
  <2>6. CASE OnMalformed \/ OnOther
    BY <2>6 DEF OnMalformed, OnOther
  <2>7. CASE UNCHANGED vars
    BY <2>7 DEF vars
  <2> QED
    BY <2>1, <2>2, <2>3, <2>4, <2>5, <2>6, <2>7 DEF Next
<1>3. OnItsWayOut => NeverResurrected
  BY DEF OnItsWayOut, NeverResurrected
<1> QED
  BY <1>1, <1>2, <1>3, TypeCorrect, PTL DEF Spec

-----------------------------------------------------------------------------
\* The machine implements PoolLifecycle: used at most from one opening to one
\* end, whatever the server says.
THEOREM LifecycleKept == Spec => KeepsLifecycle
<1> USE DEF Lifecycle!Next, Lifecycle!Negotiate, Lifecycle!Establish,
            Lifecycle!Leave, Lifecycle!BeginClose, Lifecycle!End
<1>1. Init => Lifecycle!Init
  BY DEF Init, Lifecycle!Init, Phase, Terminal
<1>2. TypeOK /\ [Next]_vars => [Lifecycle!Next]_(Phase(state))
  <2> SUFFICES ASSUME TypeOK, [Next]_vars, Phase(state)' # Phase(state)
               PROVE  Lifecycle!Next
    OBVIOUS
  <2> USE DEF TypeOK, Become, Phase, Terminal, States
  <2>1. CASE Open
    BY <2>1 DEF Open, MayOpen
  <2>2. CASE Connect
    BY <2>2 DEF Connect, MayConnect
  <2>3. CASE Close
    BY <2>3 DEF Close, MayClose
  <2>4. CASE MarkClosed
    BY <2>4 DEF MarkClosed
  <2>5. ASSUME NEW code \in Codes, OnState(code) PROVE Lifecycle!Next
    <3>1. FromI32(code) \in States
      BY FromI32Type, ConstantsAssumption
    <3>2. IsLegalServerTransition(state, FromI32(code)) /\ state' = FromI32(code)
      BY <2>5 DEF OnState, AfterServer
    <3> HIDE DEF Phase, Terminal, States
    <3> QED
      BY <3>1, <3>2, ServerKeepsLifecycle
  <2>6. CASE OnMalformed \/ OnOther
    BY <2>6 DEF OnMalformed, OnOther
  <2>7. CASE UNCHANGED vars
    BY <2>7 DEF vars
  <2> QED
    BY <2>1, <2>2, <2>3, <2>4, <2>5, <2>6, <2>7 DEF Next
<1> QED
  BY <1>1, <1>2, TypeCorrect, PTL DEF Spec, KeepsLifecycle, Lifecycle!Spec
=============================================================================
