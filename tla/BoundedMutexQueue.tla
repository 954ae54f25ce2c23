-------------------------- MODULE BoundedMutexQueue --------------------------
(***************************************************************************)
(* bounded_mutex_queue: a ring of optional slots under one mutex, with the *)
(* condition variables not_empty_ (consumers wait) and not_full_           *)
(* (producers wait).  A critical section is one step; the notification     *)
(* that follows the unlock is a step of its own, so other threads run      *)
(* between them.  A waiting thread is "parked" (on its condition variable) *)
(* or "woken" (released from it, not yet holding the mutex again).         *)
(* Definitions named Mutant... are faulty variants of the definition that  *)
(* follows them.                                                           *)
(***************************************************************************)
EXTENDS Integers, Sequences, FiniteSets

CONSTANTS
    Producers, Consumers, Closers,  \* the calling threads
    Capacity,                       \* slots_.size()
    MaxEvents,                      \* bound: events each producer gets accepted
    CopyMayThrow,                   \* whether constructing an event in a slot may throw
    Empty                           \* a disengaged optional

ASSUME ThreadsAssumption ==
    /\ IsFiniteSet(Producers) /\ IsFiniteSet(Consumers) /\ IsFiniteSet(Closers)
    /\ Producers \cap Consumers = {} /\ Producers \cap Closers = {}
    /\ Consumers \cap Closers = {}

ASSUME SizeAssumption == Capacity \in Nat \ {0} /\ MaxEvents \in Nat

ASSUME ThrowAssumption == CopyMayThrow \in BOOLEAN

Events == Producers \X (1..MaxEvents)

ASSUME EmptyAssumption == Empty \notin Events

Waiters == Producers \cup Consumers
Threads == Waiters \cup Closers
Indices == 0..(Capacity - 1)

VARIABLES
    slots_, head_, tail_, size_, closed_,   \* the fields of the class
    pc,         \* where each thread is
    stop,       \* stop has been requested on the token of the thread's call
    deadline,   \* of a wait_push_until call: "none", "ahead" or "passed"
    result,     \* what the consumer's last finished pop returned
    sent,       \* number of events of each producer that were accepted
    accepted, taken, discarded              \* histories, see QueueContract

ring == <<slots_, head_, tail_, size_>>
calls == <<pc, stop, deadline, result>>
histories == <<sent, accepted, taken, discarded>>
vars == <<slots_, head_, tail_, size_, closed_, pc, stop, deadline, result,
          sent, accepted, taken, discarded>>

Init ==
    /\ slots_ = [i \in Indices |-> Empty]
    /\ head_ = 0 /\ tail_ = 0 /\ size_ = 0 /\ closed_ = FALSE
    /\ pc = [t \in Threads |-> "idle"]
    /\ stop = [t \in Waiters |-> FALSE]
    /\ deadline = [p \in Producers |-> "none"]
    /\ result = [c \in Consumers |-> "none"]
    /\ sent = [p \in Producers |-> 0]
    /\ accepted = <<>> /\ taken = <<>> /\ discarded = <<>>
-----------------------------------------------------------------------------
(* The ring. *)

MutantIncrement(index) == IF index = Capacity THEN 0 ELSE index + 1

Increment(index) == IF index + 1 = Capacity THEN 0 ELSE index + 1

(* The slot i places after head_. *)
At(i) == IF head_ + i < Capacity THEN head_ + i ELSE head_ + i - Capacity

Occupied == {At(i) : i \in 0..(size_ - 1)}

(* The queued events, oldest first. *)
Contents == [i \in 1..size_ |-> slots_[At(i - 1)]]

NextEvent(p) == <<p, sent[p] + 1>>

PushLocked(p) ==
    /\ slots_' = [slots_ EXCEPT ![tail_] = NextEvent(p)]
    /\ tail_' = Increment(tail_) /\ size_' = size_ + 1
    /\ sent' = [sent EXCEPT ![p] = @ + 1] /\ accepted' = Append(accepted, NextEvent(p))
    /\ UNCHANGED <<head_, closed_, taken, discarded>>

MutantRemoveHead ==
    head_' = Increment(head_) /\ size_' = size_ - 1 /\ UNCHANGED slots_

RemoveHead ==
    /\ slots_' = [slots_ EXCEPT ![head_] = Empty]
    /\ head_' = Increment(head_) /\ size_' = size_ - 1

PopLocked ==
    /\ taken' = Append(taken, slots_[head_])
    /\ RemoveHead
    /\ UNCHANGED <<tail_, closed_, sent, accepted, discarded>>
-----------------------------------------------------------------------------
(* Waiting and returning. *)

Parked(S) == {t \in S : pc[t] = "parked"}
Woken(S) == {t \in S : pc[t] = "woken"}
Notifying(S) == {t \in S : pc[t] = "notify"}
Waiting(t) == pc[t] \in {"parked", "woken"}

MutantPushReady == size_ # Capacity
MutantPopReady == size_ # 0

(* The predicates of the two condition variables. *)
PushReady == size_ # Capacity \/ closed_
PopReady == size_ # 0 \/ closed_

(* Thread t finishes its critical section with status r and goes to next; the
   token and deadline of its call are of no further use.  The status of a push
   goes to its caller only and is not kept. *)
Leave(t, next, r) ==
    /\ pc' = [pc EXCEPT ![t] = next]
    /\ result' = IF t \in Consumers THEN [result EXCEPT ![t] = r] ELSE result
    /\ stop' = [stop EXCEPT ![t] = FALSE]
    /\ deadline' = IF t \in Producers THEN [deadline EXCEPT ![t] = "none"] ELSE deadline

Refuse(t, r) == Leave(t, "idle", r) /\ UNCHANGED <<ring, closed_, histories>>

(* The call goes to sleep on its condition variable. *)
Park(t, s, d) ==
    /\ pc' = [pc EXCEPT ![t] = "parked"]
    /\ stop' = [stop EXCEPT ![t] = s]
    /\ deadline' = IF t \in Producers THEN [deadline EXCEPT ![t] = d] ELSE deadline
    /\ UNCHANGED <<ring, closed_, histories, result>>

(* The event is constructed in the tail slot; a constructor that throws leaves
   the queue as it was and the call ends without a notification. *)
Accept(p) ==
    \/ PushLocked(p) /\ Leave(p, "notify", "success")
    \/ CopyMayThrow /\ Refuse(p, "threw")

MutantTake(c) ==
    \/ ~stop[c] /\ PopLocked /\ Leave(c, "notify", "success")
    \/ /\ stop[c] /\ RemoveHead /\ Leave(c, "notify", "stopped")
       /\ UNCHANGED <<tail_, closed_, sent, accepted, taken, discarded>>

Take(c) == PopLocked /\ Leave(c, "notify", "success")

MutantTimeoutFirst(p, s, d) ==
    \/ d = "passed" /\ Refuse(p, "timeout")
    \/ d # "passed" /\ PushReady /\ closed_ /\ Refuse(p, "closed")
    \/ d # "passed" /\ PushReady /\ ~closed_ /\ Accept(p)
    \/ ~PushReady /\ d # "passed" /\ s /\ Refuse(p, "stopped")
    \/ ~PushReady /\ d # "passed" /\ ~s /\ Park(p, s, d)

MutantPushAttempt(p, s, d) ==
    \/ PushReady /\ Accept(p)
    \/ ~PushReady /\ s /\ Refuse(p, "stopped")
    \/ ~PushReady /\ ~s /\ d # "passed" /\ Park(p, s, d)

(* The body of wait_push and wait_push_until from an evaluation of the
   predicate under the mutex to the next unlock: readiness wins over
   cancellation, cancellation over the deadline. *)
PushAttempt(p, s, d) ==
    \/ PushReady /\ closed_ /\ Refuse(p, "closed")
    \/ PushReady /\ ~closed_ /\ Accept(p)
    \/ ~PushReady /\ s /\ Refuse(p, "stopped")
    \/ ~PushReady /\ ~s /\ d = "passed" /\ Refuse(p, "timeout")
    \/ ~PushReady /\ ~s /\ d # "passed" /\ Park(p, s, d)

MutantPopAttempt(c, s) ==
    \/ closed_ /\ Refuse(c, "closed")
    \/ ~closed_ /\ size_ # 0 /\ Take(c)
    \/ ~PopReady /\ ~s /\ Park(c, s, "none")

(* The same for wait_pop. *)
PopAttempt(c, s) ==
    \/ PopReady /\ size_ = 0 /\ Refuse(c, "closed")
    \/ PopReady /\ size_ # 0 /\ Take(c)
    \/ ~PopReady /\ s /\ Refuse(c, "stopped")
    \/ ~PopReady /\ ~s /\ Park(c, s, "none")
-----------------------------------------------------------------------------
(* The operations. *)

(* try_push and try_emplace. *)
TryPush(p) ==
    /\ pc[p] = "idle" /\ sent[p] < MaxEvents
    /\ \/ closed_ /\ Refuse(p, "closed")
       \/ ~closed_ /\ size_ = Capacity /\ Refuse(p, "full")
       \/ ~closed_ /\ size_ # Capacity /\ Accept(p)

(* wait_push (no deadline) and wait_push_until, whose deadline may have passed. *)
WaitPush(p) ==
    /\ pc[p] = "idle" /\ sent[p] < MaxEvents
    /\ \E s \in BOOLEAN, d \in {"none", "ahead", "passed"} : PushAttempt(p, s, d)

ResumePush(p) == pc[p] = "woken" /\ PushAttempt(p, stop[p], deadline[p])

TryPop(c) ==
    /\ pc[c] = "idle"
    /\ \/ size_ = 0 /\ closed_ /\ Refuse(c, "closed")
       \/ size_ = 0 /\ ~closed_ /\ Refuse(c, "empty")
       \/ size_ # 0 /\ Take(c)

WaitPop(c) == pc[c] = "idle" /\ \E s \in BOOLEAN : PopAttempt(c, s)

ResumePop(c) == pc[c] = "woken" /\ PopAttempt(c, stop[c])

(* notify_one after the unlock: t moves on and one thread parked in S, if any,
   is released. *)
NotifyOne(t, S) ==
    /\ pc[t] = "notify"
    /\ \/ Parked(S) = {} /\ pc' = [pc EXCEPT ![t] = "idle"]
       \/ \E w \in Parked(S) : pc' = [pc EXCEPT ![t] = "idle", ![w] = "woken"]
    /\ UNCHANGED <<ring, closed_, histories, stop, deadline, result>>

SkipNotify(t) ==
    /\ pc[t] = "notify" /\ pc' = [pc EXCEPT ![t] = "idle"]
    /\ UNCHANGED <<ring, closed_, histories, stop, deadline, result>>

MutantNotifyConsumer(p) == IF size_ = 1 THEN NotifyOne(p, Consumers) ELSE SkipNotify(p)

NotifyConsumer(p) == NotifyOne(p, Consumers)
NotifyProducer(c) == NotifyOne(c, Producers)

(* close(): the flag under the mutex, then both notify_all. *)
Close(k) ==
    /\ pc[k] = "idle"
    /\ closed_' = TRUE
    /\ pc' = [pc EXCEPT ![k] = "wake_consumers"]
    /\ UNCHANGED <<ring, histories, stop, deadline, result>>

(* close_and_discard(): the same after emptying the ring from head_ on. *)
CloseAndDiscard(k) ==
    /\ pc[k] = "idle"
    /\ closed_' = TRUE
    /\ slots_' = [i \in Indices |-> IF i \in Occupied THEN Empty ELSE slots_[i]]
    /\ head_' = tail_ /\ size_' = 0 /\ UNCHANGED tail_
    /\ discarded' = discarded \o Contents
    /\ pc' = [pc EXCEPT ![k] = "wake_consumers"]
    /\ UNCHANGED <<sent, accepted, taken, stop, deadline, result>>

(* notify_all: k moves on to next and every thread parked in S is released. *)
NotifyAll(k, next, S) ==
    /\ pc' = [t \in Threads |-> IF t = k THEN next
                                ELSE IF t \in Parked(S) THEN "woken" ELSE pc[t]]
    /\ UNCHANGED <<ring, closed_, histories, stop, deadline, result>>

MutantWakeConsumers(k) ==
    /\ pc[k] = "wake_consumers"
    /\ \/ Parked(Consumers) = {} /\ pc' = [pc EXCEPT ![k] = "wake_producers"]
       \/ \E w \in Parked(Consumers) :
              pc' = [pc EXCEPT ![k] = "wake_producers", ![w] = "woken"]
    /\ UNCHANGED <<ring, closed_, histories, stop, deadline, result>>

WakeConsumers(k) ==
    pc[k] = "wake_consumers" /\ NotifyAll(k, "wake_producers", Consumers)

WakeProducers(k) ==
    pc[k] = "wake_producers" /\ NotifyAll(k, "idle", Producers)

(* The holder of a waiting call's stop source requests stop: the callback that
   the stop-aware wait registers calls notify_all on its condition variable. *)
SideOf(t) == IF t \in Producers THEN Producers ELSE Consumers

RequestStop(t) ==
    /\ Waiting(t) /\ ~stop[t]
    /\ stop' = [stop EXCEPT ![t] = TRUE]
    /\ pc' = [u \in Threads |-> IF u \in Parked(SideOf(t)) THEN "woken" ELSE pc[u]]
    /\ UNCHANGED <<ring, closed_, histories, deadline, result>>

(* The deadline of a waiting call passes; a sleeping thread wakes up. *)
Expire(p) ==
    /\ Waiting(p) /\ deadline[p] = "ahead"
    /\ deadline' = [deadline EXCEPT ![p] = "passed"]
    /\ pc' = [pc EXCEPT ![p] = "woken"]
    /\ UNCHANGED <<ring, closed_, histories, stop, result>>

(* A condition variable may release a thread nobody notified. *)
SpuriousWake(t) ==
    /\ pc[t] = "parked"
    /\ pc' = [pc EXCEPT ![t] = "woken"]
    /\ UNCHANGED <<ring, closed_, histories, stop, deadline, result>>

Next ==
    \/ \E p \in Producers :
           TryPush(p) \/ WaitPush(p) \/ ResumePush(p) \/ NotifyConsumer(p) \/ Expire(p)
    \/ \E c \in Consumers :
           TryPop(c) \/ WaitPop(c) \/ ResumePop(c) \/ NotifyProducer(c)
    \/ \E k \in Closers :
           Close(k) \/ CloseAndDiscard(k) \/ WakeConsumers(k) \/ WakeProducers(k)
    \/ \E t \in Waiters : RequestStop(t) \/ SpuriousWake(t)

Spec == Init /\ [][Next]_vars

(* A thread inside an operation gets to run, and so does the clock; nobody is
   obliged to call an operation, to request stop or to wake spuriously. *)
Fairness ==
    /\ \A p \in Producers :
           WF_vars(ResumePush(p)) /\ WF_vars(NotifyConsumer(p)) /\ WF_vars(Expire(p))
    /\ \A c \in Consumers : WF_vars(ResumePop(c)) /\ WF_vars(NotifyProducer(c))
    /\ \A k \in Closers : WF_vars(WakeConsumers(k)) /\ WF_vars(WakeProducers(k))

FairSpec == Spec /\ Fairness
-----------------------------------------------------------------------------
(* Correctness. *)

(* Types of the fields, of the calls in progress and of the histories. *)
TypeOK ==
    /\ slots_ \in [Indices -> Events \cup {Empty}]
    /\ head_ \in Indices /\ tail_ \in Indices /\ size_ \in 0..Capacity
    /\ closed_ \in BOOLEAN
    /\ pc \in [Threads -> {"idle", "parked", "woken", "notify", "wake_consumers", "wake_producers"}]
    /\ stop \in [Waiters -> BOOLEAN]
    /\ deadline \in [Producers -> {"none", "ahead", "passed"}]
    /\ result \in [Consumers -> {"none", "success", "empty", "closed", "stopped"}]
    /\ sent \in [Producers -> 0..MaxEvents]
    /\ accepted \in Seq(Events) /\ taken \in Seq(Events) /\ discarded \in Seq(Events)

(* push_locked relies on "the tail slot is always disengaged when size_ is below
   capacity": the engaged slots are exactly the size_ slots from head_ on, and
   tail_ is the next one. *)
RingOK ==
    /\ tail_ = At(size_)
    /\ \A i \in Indices : slots_[At(i)] = Empty <=> i >= size_

(* The queue implements the contract of the concept concurrent_queue: every
   step is one atomic step of a bounded FIFO, or invisible. *)
Contract == INSTANCE QueueContract WITH
    items <- Contents, closed <- closed_,
    ended <- \E c \in Consumers : result[c] = "closed"

ImplementsContract == Contract!Spec

(* No accepted event is lost, duplicated or reordered on its way through the
   ring, whatever the wrap-around and whoever closes. *)
NothingLost == Contract!NothingLost

(* wait_pop and try_pop report `closed` only when no event can follow, so a
   worker that stops on `closed` leaves nothing behind. *)
EndIsFinal == Contract!EndIsFinal

(* While consumers sleep on an open queue, every queued event is matched by a
   consumer already released or by a producer about to notify: no wake-up of
   not_empty_ is ever lost. *)
ConsumerWakeups ==
    Parked(Consumers) # {} /\ ~closed_ =>
        size_ <= Cardinality(Notifying(Producers)) + Cardinality(Woken(Consumers))

(* While producers sleep on an open queue, every free slot is matched by a
   producer already released or by a consumer about to notify. *)
ProducerWakeups ==
    Parked(Producers) # {} /\ ~closed_ =>
        Capacity - size_ <= Cardinality(Notifying(Consumers)) + Cardinality(Woken(Producers))

(* Nobody sleeps on a closed queue except while a close() is still on its way
   to the notify_all that releases it. *)
CloseReleases ==
    closed_ =>
        /\ Parked(Consumers) # {} => \E k \in Closers : pc[k] = "wake_consumers"
        /\ Parked(Producers) # {} =>
               \E k \in Closers : pc[k] \in {"wake_consumers", "wake_producers"}

(* wait_pop waits for an event, close or cancellation, and no longer. *)
ConsumersReleased ==
    \A c \in Consumers : []<>~(Waiting(c) /\ (size_ > 0 \/ closed_ \/ stop[c]))

(* wait_push waits for space, close or cancellation, and wait_push_until also
   for its deadline, and no longer. *)
ProducersReleased ==
    \A p \in Producers :
        []<>~(Waiting(p) /\ (size_ < Capacity \/ closed_ \/ stop[p] \/ deadline[p] # "none"))
=============================================================================
