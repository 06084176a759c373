--------------------------- MODULE MCBlockingQueue ---------------------------
(* Small instances of BlockingQueue for TLC.                                  *)
EXTENDS BlockingQueue, TLC

\* Threads are interchangeable for the safety properties.
ThreadSymmetry == Permutations(Threads)
==============================================================================
