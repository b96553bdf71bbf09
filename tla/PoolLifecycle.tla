---------------------------- MODULE PoolLifecycle ----------------------------
(***************************************************************************)
(* What a runspace pool promises its user, whatever its server says: it is *)
(* used at most from one opening to one end.  A pool that is on its way    *)
(* out, or out, never comes back; one that left the connected states can   *)
(* (src/runspace/state.rs, comments of open, connect and close).           *)
(***************************************************************************)
VARIABLE phase

Init == phase = "new"

\* The handshake starts, for a new pool or for one that comes back.
Negotiate == phase \in {"new", "away"} /\ phase' = "negotiating"

\* The pool becomes usable, with or without a handshake.
Establish == phase \in {"new", "negotiating", "away"} /\ phase' = "open"

\* The pool is disconnected from its server, which keeps it.
Leave == phase \in {"negotiating", "open"} /\ phase' = "away"

BeginClose == phase \notin {"closing", "over"} /\ phase' = "closing"

End == phase # "over" /\ phase' = "over"

Next == Negotiate \/ Establish \/ Leave \/ BeginClose \/ End

Spec == Init /\ [][Next]_phase
=============================================================================
