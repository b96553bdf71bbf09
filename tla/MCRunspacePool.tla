---------------------------- MODULE MCRunspacePool ----------------------------
(* Small instances of RunspacePool.                                        *)
EXTENDS RunspacePool, TLC

\* The host calls are interchangeable.
CallSymmetry == Permutations(Calls)

\* The states that open, end and suspend a pool.
MCServerStates == {"Opened", "Broken", "Disconnected"}
=============================================================================
