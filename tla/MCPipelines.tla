---------------------------- MODULE MCPipelines ----------------------------
(* Small instances of Pipelines.                                           *)
EXTENDS Pipelines, TLC

\* The tasks are interchangeable.
TaskSymmetry == Permutations(Tasks)
=============================================================================
