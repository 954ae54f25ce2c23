---------------------------- MODULE QueueContract ----------------------------
(***************************************************************************)
(* What a queue policy promises the dispatcher: the operations of the      *)
(* concept `concurrent_queue`, each as one atomic step on a bounded FIFO.  *)
(* The histories accepted, taken and discarded exist only to state what    *)
(* becomes of an event; no queue keeps them.                               *)
(***************************************************************************)
EXTENDS Integers, Sequences

CONSTANTS
    Events,     \* the events producers publish
    Capacity    \* number of slots, fixed by the constructor

VARIABLES
    items,      \* queued events, oldest first
    closed,     \* close() or close_and_discard() has happened
    accepted,   \* history: events whose push succeeded, in that order
    taken,      \* history: events handed to consumers, in that order
    discarded,  \* history: events destroyed by close_and_discard()
    ended       \* some consumer has been told `closed`

vars == <<items, closed, accepted, taken, discarded, ended>>

Init ==
    /\ items = <<>> /\ closed = FALSE /\ ended = FALSE
    /\ accepted = <<>> /\ taken = <<>> /\ discarded = <<>>

(* try_push, wait_push, wait_push_until and try_emplace on success. *)
Push(e) ==
    /\ ~closed /\ Len(items) < Capacity
    /\ items' = Append(items, e) /\ accepted' = Append(accepted, e)
    /\ UNCHANGED <<closed, taken, discarded, ended>>

(* try_pop and wait_pop on success. *)
Pop ==
    /\ items # <<>>
    /\ taken' = Append(taken, Head(items)) /\ items' = Tail(items)
    /\ UNCHANGED <<closed, accepted, discarded, ended>>

(* A pop returns `closed`: the event stream is over for good. *)
PopClosed ==
    /\ closed /\ items = <<>>
    /\ ended' = TRUE
    /\ UNCHANGED <<items, closed, accepted, taken, discarded>>

Close ==
    /\ closed' = TRUE
    /\ UNCHANGED <<items, accepted, taken, discarded, ended>>

CloseAndDiscard ==
    /\ closed' = TRUE
    /\ discarded' = discarded \o items /\ items' = <<>>
    /\ UNCHANGED <<accepted, taken, ended>>

Next == (\E e \in Events : Push(e)) \/ Pop \/ PopClosed \/ Close \/ CloseAndDiscard

Spec == Init /\ [][Next]_vars
-----------------------------------------------------------------------------
(* Types of the contents, the flags and the histories. *)
TypeOK ==
    /\ items \in Seq(Events) /\ Len(items) <= Capacity
    /\ closed \in BOOLEAN /\ ended \in BOOLEAN
    /\ accepted \in Seq(Events) /\ taken \in Seq(Events) /\ discarded \in Seq(Events)

(* The accepted events are, in order, those handed out, those discarded and
   those still queued: nothing is lost, duplicated or reordered. *)
NothingLost == accepted = (taken \o discarded) \o items

(* `closed` is only reported once no event can ever be popped again. *)
EndIsFinal == ended => closed /\ items = <<>>

(* Taking follows no discard: what close_and_discard destroys is a suffix. *)
DiscardIsSuffix == discarded # <<>> => closed /\ items = <<>>
=============================================================================
