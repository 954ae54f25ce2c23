----------------------------- MODULE MCIndexRing -----------------------------
(* Instances of IndexRing for TLC. *)
EXTENDS IndexRing, TLC

(* Threads of one kind are interchangeable; used by safety runs only. *)
Symmetry == Permutations(Enqueuers) \cup Permutations(Dequeuers)

(* The behaviours in which a dequeuer is preempted only before it lowers the
   threshold: some of those of Spec, few enough to search with many threads. *)
Preempted(t) == pc[t] \in {"idle", "deq_none"}
LateDecrements == Init /\ [][Next /\ Cardinality({t \in Threads : ~Preempted(t)'}) <= 1]_vars
=============================================================================
