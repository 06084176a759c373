------------------------------- MODULE MCUrcu -------------------------------
(* Small instances of Urcu for TLC.                                           *)
EXTENDS Urcu, TLC

\* Readers are interchangeable, and so are writers, for the safety properties.
ThreadSymmetry == Permutations(Readers) \cup Permutations(Writers)
==============================================================================
