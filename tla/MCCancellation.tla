--------------------------- MODULE MCCancellation ---------------------------
(* Cancellation for TLC: the threads are interchangeable.                  *)
EXTENDS Cancellation, TLC

Symmetry == Permutations(Threads)
=============================================================================
