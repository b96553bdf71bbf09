----------------------------- MODULE MCFragments -----------------------------
(* Two messages of up to three fragments.                                 *)
EXTENDS Fragments, TLC

ObjectSymmetry == Permutations(Objects)
=============================================================================
