------------------------- MODULE MCBoundedMutexQueue -------------------------
(* Instances of BoundedMutexQueue for TLC. *)
EXTENDS BoundedMutexQueue, TLC

(* Threads of one kind are interchangeable; used by the safety run only. *)
Symmetry == Permutations(Producers) \cup Permutations(Consumers)
=============================================================================
