--------------------------- MODULE MCLockFreeQueue ---------------------------
(* Instances of LockFreeQueue for TLC. *)
EXTENDS LockFreeQueue, TLC

CONSTANTS p1, p2, c1, c2, k1

Program(threads, calls, throwing, cancellable, events) ==
    [threads |-> threads, calls |-> calls, throwing |-> throwing, cancellable |-> cancellable,
     events |-> events]

(* Nobody waits: two producers, one with throwing events, against close and
   close_and_discard.  A waiting producer and two waiting consumers.  One waiting
   thread on each side, the producer cancelled, against close. *)
Mixed == {Program({p1, p2, c1, k1}, {"try"}, {p1}, {}, 2),
          Program({p1, c1, c2}, {"wait"}, {}, {}, 3),
          Program({p2, c1, k1}, {"wait", "until"}, {}, {p2}, 3)}

LastPush == {Program({p1, c1, k1}, {"try"}, {}, {}, 1)}
TwoWaiting == {Program({p1, c1, c2, k1}, {"wait"}, {}, {}, 1)}
=============================================================================
