------------------------- MODULE MCOutOfProcSession -------------------------
(* Small instances of OutOfProcSession.                                    *)
EXTENDS OutOfProcSession, TLC

\* Pipelines are interchangeable.
PidSymmetry == Permutations(Pids)
=============================================================================
