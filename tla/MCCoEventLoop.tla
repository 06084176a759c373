---------------------------- MODULE MCCoEventLoop ----------------------------
(* Small instances of CoEventLoop for TLC.  The wheel has few slots, so that  *)
(* timeouts beyond it are short.                                              *)
EXTENDS CoEventLoop

CoSymmetry == Permutations(Co)
==============================================================================
