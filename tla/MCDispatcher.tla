----------------------------- MODULE MCDispatcher -----------------------------
(* Instances of Dispatcher for TLC. *)
EXTENDS Dispatcher, TLC

CONSTANTS p1, w1, w2, c1, c2, s1, s2, ow, a, b

Program(threads, subscribers, calls, callbacks, throws, events) ==
    [threads |-> threads, subscribers |-> subscribers, calls |-> calls,
     callbacks |-> callbacks, throws |-> throws, events |-> events]

Membership == {"subscribe", "unsubscribe"}

(* Two clients and callbacks that unsubscribe themselves, two workers; concurrent
   shutdowns of two workers, with every kind of publication, where events may throw
   and where they do not; a client against a shutdown, and failing allocations;
   callbacks that unsubscribe each other, and destruction. *)
Safety ==
    {Program({p1, w1, w2, c1, c2}, {a, b}, {"batch"} \cup Membership, {"leave"}, FALSE, 2),
     Program({p1, w1, w2, s1, s2}, {}, Kinds \cup {"shutdown"}, {}, TRUE, 3),
     Program({p1, w1, w2, s1, s2}, {}, Kinds \cup {"shutdown"}, {}, FALSE, 3)}
    \cup {Program({p1, w1, w2, c, ow}, {a, b}, {"try"} \cup Membership, {"unsubscribe"}, FALSE, 2) :
              c \in Clients}
    \cup {Program({p1, w, c, s}, {a, b}, {"try", "shutdown"} \cup Membership, {}, TRUE, 2) :
              w \in Workers, c \in Clients, s \in Stoppers}

(* Concurrent shutdowns; a constructor that may fail; callbacks that unsubscribe
   each other; callbacks that subscribe; callbacks that publish without waiting, and
   call shutdown; callbacks that wait for room in the queue, and destruction. *)
Liveness ==
    {Program({p1, w1, s1, s2}, {}, {"try", "shutdown"}, {}, FALSE, 3),
     Program({p1, w1, w2, s1}, {}, {"try", "shutdown"}, {}, TRUE, 1),
     Program({p1, w1, w2, c1}, {a, b}, {"batch", "subscribe"}, {"unsubscribe", "leave"}, FALSE, 2),
     Program({p1, w1, w2, c1}, {a, b}, {"try"} \cup Membership, {"leave", "subscribe"}, FALSE, 1),
     Program({p1, w1, c1, s1}, {a}, {"wait", "subscribe", "shutdown"}, {"try", "shutdown"}, FALSE, 3),
     Program({p1, w1, c1, ow}, {a}, {"wait"} \cup Membership, {"wait"}, FALSE, 3)}

(* The list a writer builds is the current one without the subscribers that are
   out of S, in its order. *)
ASSUME FilteredReference ==
    \A S \in SUBSET {1, 2, 3} : \A n \in 0..4 : \A list \in [1..n -> {1, 2, 3}] :
        LET IsIn(x) == x \in S IN Filtered(list, S) = SelectSeq(list, IsIn)

(* Threads of one kind are interchangeable in every program of Safety, and so are
   subscribers; used by the safety run only. *)
Symmetry == Permutations(Workers) \cup Permutations(Clients) \cup Permutations(Stoppers)
            \cup Permutations(Subscribers)
=============================================================================
