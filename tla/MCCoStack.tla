----------------------------- MODULE MCCoStack -----------------------------
(* CoStack for TLC: interchangeable coroutines.                              *)
EXTENDS CoStack, TLC

Symmetry == Permutations(Co)
=============================================================================
