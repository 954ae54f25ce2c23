---------------------------- MODULE LockFreeQueue ----------------------------
(***************************************************************************)
(* bounded_lock_free_queue: event slots whose indices circulate between    *)
(* two index rings, gates that count the operations inside and shut them   *)
(* out, and epochs on which wait_push and wait_pop park.                   *)
(*                                                                         *)
(* The index rings are atomic FIFOs here.  A waiter compares the epoch it  *)
(* loaded with the current one for equality only, so the model keeps, for  *)
(* each waiter, whether the epoch has moved since.  notify_one unblocks    *)
(* one waiter whose epoch has moved, as the C++ standard requires and no   *)
(* more.  Each atomic operation of a thread is a step.  Definitions named  *)
(* Mutant... are faulty variants of the definition that follows them.      *)
(***************************************************************************)
EXTENDS Integers, Sequences, FiniteSets

CONSTANTS
    Producers, Consumers, Closers,
    Programs,           \* threads that share the queue, the calls they make ("try", "wait",
                        \* "until"), whose events may throw when constructed in a slot,
                        \* whose stop tokens may be signalled, and (bound) the number
                        \* of accepted events at which no push begins any more
    Capacity, Empty, NoThread

ASSUME LockFreeThreadsAssumption ==
    /\ IsFiniteSet(Producers) /\ IsFiniteSet(Consumers) /\ IsFiniteSet(Closers)
    /\ Producers \cap (Consumers \cup Closers) = {} /\ Consumers \cap Closers = {}
    /\ NoThread \notin Closers
    /\ \A p \in Programs :
           /\ p.threads \subseteq Producers \cup Consumers \cup Closers
           /\ p.calls \subseteq {"try", "wait", "until"}
           /\ p.throwing \subseteq Producers /\ p.cancellable \subseteq Producers \cup Consumers
           /\ p.events \in Nat

(* validate_capacity asks for a power of two, at least two; that it is a power
   matters to the index rings only. *)
ASSUME LockFreeCapacityAssumption == Capacity \in Nat /\ Capacity >= 2

Events == Producers \X Nat

ASSUME LockFreeEmptyAssumption == Empty \notin Events

Waiters == Producers \cup Consumers
Threads == Waiters \cup Closers
Indices == 0..(Capacity - 1)
NoIndex == -1

VARIABLES
    program,            \* the one considered, fixed
    slots_, available_indices_, published_indices_, occupied_count_,
    producer_gate_, consumer_gate_,     \* closed bit and active count
    producer_quiesced_,
    close_mutex_,       \* its holder
    pc, call, round,    \* where a thread is, its call, which attempt of a waiting call
    outcome,            \* of the last attempt
    index,              \* the index a thread holds
    moved,              \* the epoch moved since the waiter loaded it
    stop,               \* a waiter's stop token: "no", "requested", "signalled"
    discarding,         \* a closer runs close_and_discard
    sent, accepted, taken, discarded, ended     \* histories, see QueueContract

gates == <<program, producer_gate_, consumer_gate_, producer_quiesced_, close_mutex_>>
storage == <<slots_, available_indices_, published_indices_, occupied_count_>>
waits == <<call, round, outcome, moved, stop, discarding>>
histories == <<sent, accepted, taken, discarded, ended>>
vars == <<program, slots_, available_indices_, published_indices_, occupied_count_, producer_gate_,
          consumer_gate_, producer_quiesced_, close_mutex_, pc, call, round, outcome, index,
          moved, stop, discarding, sent, accepted, taken, discarded, ended>>

Init ==
    /\ slots_ = [i \in Indices |-> Empty] /\ occupied_count_ = 0
    /\ available_indices_ = [i \in 1..Capacity |-> i - 1] /\ published_indices_ = <<>>
    /\ producer_gate_ = [closed |-> FALSE, active |-> 0]
    /\ consumer_gate_ = [closed |-> FALSE, active |-> 0]
    /\ producer_quiesced_ = FALSE /\ close_mutex_ = NoThread
    /\ program \in Programs /\ pc = [t \in Threads |-> "idle"]
    /\ call = [t \in Waiters |-> "try"] /\ round = [t \in Waiters |-> 1]
    /\ outcome = [t \in Waiters |-> "none"] /\ index = [t \in Waiters |-> NoIndex]
    /\ moved = [t \in Waiters |-> FALSE] /\ stop = [t \in Waiters |-> "no"]
    /\ discarding = [t \in Closers |-> FALSE]
    /\ sent = [p \in Producers |-> 0] /\ accepted = <<>> /\ taken = <<>> /\ discarded = <<>>
    /\ ended = FALSE

Goto(t, label) == pc' = [pc EXCEPT ![t] = label]
Members(list) == {list[i] : i \in DOMAIN list}
NextEvent(p) == <<p, sent[p] + 1>>
-----------------------------------------------------------------------------
(* operation_guard *)

(* A thread calls an operation; producers stop at the bound. *)
Start(t, kind) ==
    /\ pc[t] = "idle" /\ t \in program.threads /\ kind \in program.calls
    /\ t \in Producers => Len(accepted) < program.events
    /\ t \in Consumers => kind # "until"
    /\ call' = [call EXCEPT ![t] = kind] /\ Goto(t, "enter")
    /\ UNCHANGED <<storage, gates, index, round, outcome, moved, stop, discarding, histories>>

(* A call returns and its local variables are gone. *)
Return(t) ==
    /\ call' = [call EXCEPT ![t] = "try"] /\ round' = [round EXCEPT ![t] = 1]
    /\ outcome' = [outcome EXCEPT ![t] = "none"] /\ stop' = [stop EXCEPT ![t] = "no"]
    /\ moved' = [moved EXCEPT ![t] = FALSE] /\ Goto(t, "idle")

(* A closed gate ends the call, an open one counts the operation. *)
Enter(t) ==
    /\ pc[t] = "enter"
    /\ LET closed == IF t \in Producers THEN producer_gate_.closed ELSE consumer_gate_.closed IN
       \/ /\ closed
          /\ Return(t) /\ ended' = (ended \/ t \in Consumers)
          /\ UNCHANGED <<producer_gate_, consumer_gate_>>
       \/ /\ ~closed /\ t \in Producers
          /\ producer_gate_' = [producer_gate_ EXCEPT !.active = @ + 1]
          /\ Goto(t, "reserve") /\ UNCHANGED <<consumer_gate_, call, round, outcome, moved, stop, ended>>
       \/ /\ ~closed /\ t \in Consumers
          /\ consumer_gate_' = [consumer_gate_ EXCEPT !.active = @ + 1]
          /\ Goto(t, "dequeue") /\ UNCHANGED <<producer_gate_, call, round, outcome, moved, stop, ended>>
    /\ UNCHANGED <<program, storage, producer_quiesced_, close_mutex_, index, discarding, sent,
                   accepted, taken, discarded>>

(* Leaving the gate: a waiting call that got nothing goes on. *)
Exit(t) ==
    /\ pc[t] = "exit"
    /\ IF t \in Producers
       THEN /\ producer_gate_' = [producer_gate_ EXCEPT !.active = @ - 1]
            /\ UNCHANGED consumer_gate_
       ELSE /\ consumer_gate_' = [consumer_gate_ EXCEPT !.active = @ - 1]
            /\ UNCHANGED producer_gate_
    /\ IF outcome[t] \in {"full", "empty"} /\ call[t] # "try"
       THEN Goto(t, "retry") /\ UNCHANGED <<call, round, outcome, moved, stop>>
       ELSE Return(t)
    /\ UNCHANGED <<program, storage, producer_quiesced_, close_mutex_, index, discarding, histories>>
-----------------------------------------------------------------------------
(* try_push_impl and try_emplace *)

MutantWithoutHead(indices) == indices

(* What a dequeue leaves of an index ring. *)
WithoutHead(indices) == Tail(indices)

MutantReleased(i) == available_indices_

(* The free indices once a slot has been given back. *)
Released(i) == Append(available_indices_, i)

(* Take a free slot. *)
Reserve(p) ==
    /\ pc[p] = "reserve"
    /\ \/ /\ available_indices_ = <<>>
          /\ outcome' = [outcome EXCEPT ![p] = "full"] /\ Goto(p, "exit")
          /\ UNCHANGED <<available_indices_, index>>
       \/ /\ available_indices_ # <<>>
          /\ index' = [index EXCEPT ![p] = Head(available_indices_)]
          /\ available_indices_' = WithoutHead(available_indices_)
          /\ Goto(p, "construct") /\ UNCHANGED outcome
    /\ UNCHANGED <<slots_, published_indices_, occupied_count_, gates, call, round, moved, stop,
                   discarding, histories>>

(* The constructor throws: the slot goes back. *)
ConstructThrows(p) ==
    /\ pc[p] = "construct" /\ p \in program.throwing
    /\ available_indices_' = Released(index[p])
    /\ index' = [index EXCEPT ![p] = NoIndex]
    /\ outcome' = [outcome EXCEPT ![p] = "threw"] /\ Goto(p, "move_capacity")
    /\ UNCHANGED <<slots_, published_indices_, occupied_count_, gates, call, round, moved, stop,
                   discarding, histories>>

(* The event lives in its slot, and is counted. *)
Construct(p) ==
    /\ pc[p] = "construct"
    /\ slots_' = [slots_ EXCEPT ![index[p]] = NextEvent(p)]
    /\ occupied_count_' = occupied_count_ + 1
    /\ Goto(p, "publish")
    /\ UNCHANGED <<available_indices_, published_indices_, gates, index, waits, histories>>

(* publish_constructed_index: the push takes effect. *)
PublishIndex(p) ==
    /\ pc[p] = "publish"
    /\ published_indices_' = Append(published_indices_, index[p])
    /\ accepted' = Append(accepted, NextEvent(p)) /\ sent' = [sent EXCEPT ![p] = @ + 1]
    /\ index' = [index EXCEPT ![p] = NoIndex]
    /\ outcome' = [outcome EXCEPT ![p] = "success"] /\ Goto(p, "move_data")
    /\ UNCHANGED <<slots_, available_indices_, occupied_count_, gates, call, round, moved, stop,
                   discarding, taken, discarded, ended>>
-----------------------------------------------------------------------------
(* try_pop *)

(* Take a published index, or find none. *)
Dequeue(c) ==
    /\ pc[c] = "dequeue"
    /\ \/ /\ published_indices_ = <<>>
          /\ Goto(c, "check") /\ UNCHANGED <<published_indices_, index, taken>>
       \/ /\ published_indices_ # <<>>
          /\ index' = [index EXCEPT ![c] = Head(published_indices_)]
          /\ taken' = Append(taken, slots_[Head(published_indices_)])
          /\ published_indices_' = WithoutHead(published_indices_)
          /\ Goto(c, "take")
    /\ UNCHANGED <<slots_, available_indices_, occupied_count_, gates, waits, sent, accepted,
                   discarded, ended>>

(* Having found none, the quiescence flag tells `closed` from `empty`. *)
CheckQuiesced(c) ==
    /\ pc[c] = "check"
    /\ outcome' = [outcome EXCEPT ![c] = IF producer_quiesced_ THEN "closed" ELSE "empty"]
    /\ ended' = (ended \/ producer_quiesced_)
    /\ Goto(c, "exit")
    /\ UNCHANGED <<storage, gates, index, call, round, moved, stop, discarding, sent, accepted,
                   taken, discarded>>

(* Move the event out and destroy the slot's. *)
TakeEvent(c) ==
    /\ pc[c] = "take"
    /\ slots_' = [slots_ EXCEPT ![index[c]] = Empty]
    /\ occupied_count_' = occupied_count_ - 1
    /\ Goto(c, "release")
    /\ UNCHANGED <<available_indices_, published_indices_, gates, index, waits, histories>>

(* Return the slot. *)
ReleaseIndex(c) ==
    /\ pc[c] = "release"
    /\ available_indices_' = Released(index[c])
    /\ index' = [index EXCEPT ![c] = NoIndex]
    /\ outcome' = [outcome EXCEPT ![c] = "success"] /\ Goto(c, "move_capacity")
    /\ UNCHANGED <<slots_, published_indices_, occupied_count_, gates, call, round, moved, stop,
                   discarding, histories>>
-----------------------------------------------------------------------------
(* signal_data and signal_capacity: consumers park on the data epoch, producers
   on the capacity epoch. *)

Signalled(side) == IF side = "data" THEN Consumers ELSE Producers

(* The waiter is between its load of the epoch and the end of its wait. *)
HasLoaded(u) == call[u] = "wait" /\ (round[u] = 2 \/ pc[u] = "parked")

(* epoch.fetch_add *)
MoveEpoch(t, side) ==
    /\ pc[t] = (IF side = "data" THEN "move_data" ELSE "move_capacity")
    /\ moved' = [u \in Waiters |-> moved[u] \/ (u \in Signalled(side) /\ HasLoaded(u))]
    /\ Goto(t, IF side = "data" THEN "notify_data" ELSE "notify_capacity")
    /\ UNCHANGED <<storage, gates, call, round, outcome, index, stop, discarding, histories>>

Unblocked == {u \in Waiters : pc[u] = "parked" /\ moved[u]}

MutantNotifiable(side) == {u \in Unblocked \cap Signalled(side) : side = "data"}

(* The waiters that a notification of one side may release. *)
Notifiable(side) == Unblocked \cap Signalled(side)

(* A closer signals both sides, everybody else leaves its gate. *)
AfterNotify(t, side) ==
    IF t \notin Closers THEN "exit" ELSE IF side = "data" THEN "move_capacity" ELSE "signalled"

(* epoch.notify_one() *)
NotifyOne(t, side) ==
    /\ pc[t] = (IF side = "data" THEN "notify_data" ELSE "notify_capacity")
    /\ \/ Notifiable(side) = {} /\ Goto(t, AfterNotify(t, side))
       \/ \E u \in Notifiable(side) :
              pc' = [pc EXCEPT ![t] = AfterNotify(t, side), ![u] = "enter"]
    /\ UNCHANGED <<storage, gates, waits, index, histories>>

(* atomic wait may also return on its own once the value has changed. *)
SpuriousWake(t) ==
    /\ t \in Unblocked
    /\ Goto(t, "enter")
    /\ UNCHANGED <<storage, gates, waits, index, histories>>
-----------------------------------------------------------------------------
(* wait_push, wait_pop and wait_push_until *)

(* An attempt got nothing: cancelled, out of time, or another attempt.  A call
   with a deadline polls until the deadline has passed, then tries once more. *)
Retry(t) ==
    /\ pc[t] = "retry"
    /\ \/ /\ stop[t] # "no" /\ (call[t] = "until" => round[t] = 1)
          /\ Return(t)
       \/ /\ stop[t] = "no" /\ call[t] = "wait"
          /\ Goto(t, IF round[t] = 1 THEN "load" ELSE "park")
          /\ UNCHANGED <<call, round, outcome, moved, stop>>
       \/ /\ stop[t] = "no" /\ call[t] = "until" /\ round[t] = 1
          /\ round' \in {round, [round EXCEPT ![t] = 2]}
          /\ Goto(t, "enter") /\ UNCHANGED <<call, outcome, moved, stop>>
       \/ /\ call[t] = "until" /\ round[t] = 2
          /\ Return(t)
    /\ UNCHANGED <<storage, gates, index, discarding, histories>>

(* Load the epoch, then make the second attempt. *)
LoadEpoch(t) ==
    /\ pc[t] = "load"
    /\ moved' = [moved EXCEPT ![t] = FALSE] /\ round' = [round EXCEPT ![t] = 2]
    /\ Goto(t, "enter")
    /\ UNCHANGED <<storage, gates, index, call, outcome, stop, discarding, histories>>

MutantMustWait(t) == TRUE

(* The epoch is still the one loaded. *)
MustWait(t) == ~moved[t]

(* epoch.wait: blocks only while that is so. *)
Park(t) ==
    /\ pc[t] = "park"
    /\ round' = [round EXCEPT ![t] = 1]
    /\ Goto(t, IF MustWait(t) THEN "parked" ELSE "enter")
    /\ UNCHANGED <<storage, gates, index, call, outcome, moved, stop, discarding, histories>>

InCall(t) == pc[t] # "idle"

(* Somebody requests stop on the token of t's waiting call ... *)
RequestStop(t) ==
    /\ t \in program.cancellable /\ InCall(t) /\ call[t] # "try" /\ stop[t] = "no"
    /\ stop' = [stop EXCEPT ![t] = "requested"]
    /\ UNCHANGED <<storage, gates, pc, call, round, outcome, index, moved, discarding, histories>>

MutantSideOf(t) == {}

(* The waiters that share t's epoch. *)
SideOf(t) == IF t \in Consumers THEN Consumers ELSE Producers

(* ... and the stop callback moves the epoch and notifies everybody on it. *)
StopCallback(t) ==
    /\ stop[t] = "requested" /\ InCall(t)
    /\ stop' = [stop EXCEPT ![t] = "signalled"]
    /\ IF call[t] = "until" THEN UNCHANGED <<moved, pc>>
       ELSE /\ moved' = [u \in Waiters |-> moved[u] \/ (u \in SideOf(t) /\ HasLoaded(u))]
            /\ pc' = [u \in Threads |->
                          IF u \in SideOf(t) /\ pc[u] = "parked" THEN "enter" ELSE pc[u]]
    /\ UNCHANGED <<storage, gates, call, round, outcome, index, discarding, histories>>
-----------------------------------------------------------------------------
(* close and close_and_discard *)

(* Both shut the producers out first. *)
Close(t, discard) ==
    /\ pc[t] = "idle" /\ t \in program.threads /\ close_mutex_ = NoThread
    /\ close_mutex_' = t /\ discarding' = [discarding EXCEPT ![t] = discard]
    /\ producer_gate_' = [producer_gate_ EXCEPT !.closed = TRUE]
    /\ Goto(t, "await_producers")
    /\ UNCHANGED <<program, storage, consumer_gate_, producer_quiesced_, call, round, outcome, index,
                   moved, stop, histories>>

(* close_gate waits until the producers inside have left. *)
ProducersGone == producer_gate_.active = 0

AwaitProducers(t) ==
    /\ pc[t] = "await_producers" /\ ProducersGone
    /\ producer_quiesced_' = TRUE
    /\ Goto(t, "move_data")
    /\ UNCHANGED <<program, storage, producer_gate_, consumer_gate_, close_mutex_, waits, index, histories>>

(* The signals of close_producers are out: close is done, close_and_discard
   shuts the consumers out; after its own signals it is done, too. *)
Signals(t) ==
    /\ pc[t] = "signalled"
    /\ \/ /\ discarding[t]
          /\ consumer_gate_' = [consumer_gate_ EXCEPT !.closed = TRUE]
          /\ Goto(t, "await_consumers") /\ UNCHANGED close_mutex_
       \/ /\ ~discarding[t]
          /\ close_mutex_' = NoThread /\ Goto(t, "returned") /\ UNCHANGED consumer_gate_
    /\ UNCHANGED <<program, storage, producer_gate_, producer_quiesced_, waits, index, histories>>

MutantConsumersGone == TRUE

(* close_gate waits until the consumers inside have left. *)
ConsumersGone == consumer_gate_.active = 0

AwaitConsumers(t) ==
    /\ pc[t] = "await_consumers" /\ ConsumersGone
    /\ Goto(t, "discard")
    /\ UNCHANGED <<storage, gates, waits, index, histories>>

(* One round of the discarding loop, or its end. *)
Discard(t) ==
    /\ pc[t] = "discard"
    /\ \/ /\ published_indices_ # <<>>
          /\ LET i == Head(published_indices_) IN
             /\ discarded' = Append(discarded, slots_[i])
             /\ slots_' = [slots_ EXCEPT ![i] = Empty]
             /\ available_indices_' = Released(i)
          /\ published_indices_' = WithoutHead(published_indices_)
          /\ occupied_count_' = occupied_count_ - 1
          /\ UNCHANGED <<pc, discarding>>
       \/ /\ published_indices_ = <<>>
          /\ discarding' = [discarding EXCEPT ![t] = FALSE]
          /\ Goto(t, "move_data") /\ UNCHANGED <<storage, discarded>>
    /\ UNCHANGED <<gates, call, round, outcome, moved, stop, index, sent, accepted, taken, ended>>
-----------------------------------------------------------------------------
(* Nobody is inside an operation, except for calls that have to wait. *)
AtRest ==
    \A t \in Threads :
        \/ pc[t] \in {"idle", "returned"}
        \/ pc[t] = "parked" /\ t \in Producers /\ available_indices_ = <<>> /\ ~producer_gate_.closed
        \/ pc[t] = "parked" /\ t \in Consumers /\ published_indices_ = <<>> /\ ~producer_quiesced_

Rest == AtRest /\ UNCHANGED vars

Step(t) ==
    \/ t \in Waiters /\ (Enter(t) \/ Exit(t) \/ Retry(t) \/ LoadEpoch(t) \/ Park(t))
    \/ t \in Producers /\ (Reserve(t) \/ ConstructThrows(t) \/ Construct(t) \/ PublishIndex(t))
    \/ t \in Consumers /\ (Dequeue(t) \/ CheckQuiesced(t) \/ TakeEvent(t) \/ ReleaseIndex(t))
    \/ t \in Closers /\ (AwaitProducers(t) \/ Signals(t) \/ AwaitConsumers(t) \/ Discard(t))
    \/ \E side \in {"data", "capacity"} : MoveEpoch(t, side) \/ NotifyOne(t, side)

Next ==
    \/ \E t \in Waiters, kind \in program.calls : Start(t, kind)
    \/ \E t \in Waiters : RequestStop(t) \/ StopCallback(t) \/ SpuriousWake(t)
    \/ \E t \in Threads : Step(t)
    \/ \E t \in Closers, discard \in BOOLEAN : Close(t, discard)
    \/ Rest

Spec == Init /\ [][Next]_vars

(* Threads inside an operation keep running; what they call is up to them. *)
Fairness ==
    /\ \A t \in Threads : WF_vars(Step(t))
    /\ \A t \in Waiters : WF_vars(StopCallback(t))

FairSpec == Spec /\ Fairness
-----------------------------------------------------------------------------
(* Correctness. *)

(* Types of the fields and of the threads' local state; no counter leaves its
   range. *)
TypeOK ==
    /\ slots_ \in [Indices -> Events \cup {Empty}] /\ occupied_count_ \in 0..Capacity
    /\ available_indices_ \in Seq(Indices) /\ published_indices_ \in Seq(Indices)
    /\ producer_gate_ \in [closed : BOOLEAN, active : 0..Cardinality(Producers)]
    /\ consumer_gate_ \in [closed : BOOLEAN, active : 0..Cardinality(Consumers)]
    /\ producer_quiesced_ \in BOOLEAN /\ close_mutex_ \in Closers \cup {NoThread}
    /\ pc \in [Threads -> {"idle", "enter", "exit", "reserve", "construct", "publish", "dequeue",
                           "check", "take", "release", "move_data", "notify_data", "move_capacity",
                           "notify_capacity", "retry", "load", "park", "parked", "await_producers",
                           "signalled", "await_consumers", "discard", "returned"}]
    /\ call \in [Waiters -> {"try", "wait", "until"}] /\ round \in [Waiters -> {1, 2}]
    /\ outcome \in [Waiters -> {"none", "success", "full", "empty", "closed",
                                "threw"}]
    /\ index \in [Waiters -> Indices \cup {NoIndex}]
    /\ moved \in [Waiters -> BOOLEAN] /\ stop \in [Waiters -> {"no", "requested", "signalled"}]
    /\ discarding \in [Closers -> BOOLEAN]

Held == {index[t] : t \in {u \in Waiters : index[u] # NoIndex}}

(* The slots whose events are alive: published, or between construction and
   publication or between dequeue and destruction. *)
Alive == Members(published_indices_)
         \cup {index[t] : t \in {u \in Waiters : pc[u] \in {"publish", "take"}}}

(* Every slot index is in exactly one place, so no slot is shared or leaked, and
   a slot holds an event exactly while somebody will still destroy it; size()
   counts them.  When close_and_discard has returned every slot is free. *)
SlotsOwned ==
    /\ Len(available_indices_) + Len(published_indices_)
           + Cardinality({t \in Waiters : index[t] # NoIndex}) = Capacity
    /\ Members(available_indices_) \cup Members(published_indices_) \cup Held = Indices
    /\ \A i \in Indices : slots_[i] # Empty <=> i \in Alive
    /\ occupied_count_ = Cardinality(Alive)
    /\ consumer_gate_.closed /\ close_mutex_ = NoThread => Members(available_indices_) = Indices

(* The events in the slots of the published indices. *)
Items == [i \in DOMAIN published_indices_ |-> slots_[published_indices_[i]]]

Contract == INSTANCE QueueContract WITH items <- Items, closed <- producer_quiesced_

(* The accepted events are, in order, those popped, those discarded and those
   still in the slots of the published indices. *)
NothingLost == Contract!NothingLost

Discarding == \E k \in Closers : pc[k] = "discard"

(* What a pop says of the end of the stream is left out: ended stays FALSE. *)
Fifo == INSTANCE QueueContract WITH
    items <- IF Discarding THEN <<>> ELSE Items,
    closed <- producer_quiesced_,
    discarded <- IF Discarding THEN discarded \o Items ELSE discarded,
    ended <- FALSE

FifoStep ==
    \/ \E p \in Producers : Fifo!Push(NextEvent(p))
    \/ Fifo!Pop \/ Fifo!Close \/ Fifo!CloseAndDiscard

(* Apart from what it says of the end, the queue is the bounded FIFO of the
   contract: a push takes effect when its index is published, a pop when it takes
   the index, close when the producers have left, and close_and_discard at once,
   when the consumers have left, though it destroys the events one by one. *)
ImplementsFifo == Fifo!Init /\ [][FifoStep]_(Fifo!vars)

(* Once production is marked quiescent no event is accepted any more. *)
QuiescedIsQuiet == [][producer_quiesced_ => accepted' = accepted]_vars

(* A pop reports `closed` only when every accepted event has been popped or is
   left to close_and_discard. *)
ClosedIsFinal ==
    ended => producer_quiesced_ /\ (published_indices_ = <<>> \/ consumer_gate_.closed)

(* A wait_push does not stay parked while a slot is free or the queue closed. *)
ProducersReleased ==
    \A p \in Producers :
        []<>~(pc[p] = "parked" /\ (available_indices_ # <<>> \/ producer_gate_.closed))

(* A wait_pop does not stay parked while an event is published, nor when the
   queue is closed. *)
ConsumersReleased ==
    \A c \in Consumers :
        []<>~(pc[c] = "parked" /\ (published_indices_ # <<>> \/ producer_quiesced_))

(* A cancelled waiting call returns. *)
CancelReturns == \A t \in Waiters : []<>(stop[t] = "no")
=============================================================================
