------------------------------ MODULE IndexRing ------------------------------
(***************************************************************************)
(* scalable_circular_index_queue: a ring of 2 * capacity entries through   *)
(* which the queue's slot indices circulate without a lock.  head_ and     *)
(* tail_ hand out tickets; a ticket names an entry and a cycle.  An entry  *)
(* that carries an older cycle may be overwritten; a dequeuer that comes   *)
(* too early closes the entry to its enqueuer by writing its own cycle, or *)
(* by taking the safe bit away from an index it must not touch.            *)
(* threshold_ lets dequeuers of an empty ring give up without a ticket.    *)
(*                                                                         *)
(* An entry word is the record of its three fields; the all-ones index     *)
(* marks a consumed entry.  Each atomic operation is a step, except that a *)
(* load and the compare-exchange of the loaded word are one step where     *)
(* nothing else is read between them: words never recur, so a successful   *)
(* exchange found the entry as it was loaded.  Tickets do not wrap (64     *)
(* bits in the code).  All callers pass known_nonempty = false.            *)
(* Definitions named Mutant... are faulty variants of the definition that  *)
(* follows them.                                                           *)
(***************************************************************************)
EXTENDS Integers, FiniteSets

CONSTANTS
    Enqueuers, Dequeuers,       \* the threads that call enqueue and try_dequeue
    Capacity,
    Initials,           \* the initially_full arguments considered
    MaxCalls            \* bound: calls of enqueue and try_dequeue

ASSUME RingAssumption ==
    /\ IsFiniteSet(Enqueuers) /\ IsFiniteSet(Dequeuers)
    /\ Capacity \in Nat /\ Capacity >= 2
    /\ Initials \subseteq BOOLEAN /\ MaxCalls \in Nat

Threads == Enqueuers \cup Dequeuers
Indices == 0..(Capacity - 1)
RingSize == 2 * Capacity
RingMask == RingSize - 1
Slots == 0..RingMask
Entries == [cycle : Int, safe : BOOLEAN, index : Indices \cup {RingMask}]

(* map(ticket), and the cycle a ticket stands for. *)
Slot(ticket) == ticket % RingSize
Cycle(ticket) == ticket \div RingSize
MutantInitialThreshold == Capacity - 1
InitialThreshold == Capacity + RingSize - 1

VARIABLES
    entries_, head_, tail_, threshold_,
    outside,            \* the indices that are with the ring's users
    pc,
    ticket, index, seen,        \* locals: the ticket, the index to enqueue, a loaded entry
    behind,             \* locals of catch_up
    made,               \* calls so far
    empty_seen,         \* history: nothing waited at some moment of this dequeue
    honest              \* history: no dequeue came back empty-handed without that

ring == <<entries_, head_, tail_, threshold_>>
locals == <<ticket, index, seen, behind>>
calls == <<made, outside, honest>>
vars == <<entries_, head_, tail_, threshold_, outside, pc, ticket, index, seen, behind, made,
          empty_seen, honest>>

Fresh == [cycle |-> -1, safe |-> TRUE, index |-> RingMask]
Nowhere == [tail |-> 0, head |-> 0]

(* initialize_empty and initialize_full *)
Init ==
    /\ \E full \in Initials :
           /\ entries_ = [j \in Slots |-> IF full /\ j \in Indices
                                          THEN [cycle |-> 0, safe |-> TRUE, index |-> j] ELSE Fresh]
           /\ tail_ = (IF full THEN Capacity ELSE 0)
           /\ threshold_ = (IF full THEN InitialThreshold ELSE -1)
           /\ outside = (IF full THEN {} ELSE Indices)
    /\ head_ = 0
    /\ pc = [t \in Threads |-> "idle"]
    /\ ticket = [t \in Threads |-> 0] /\ index = [t \in Threads |-> RingMask]
    /\ seen = [t \in Threads |-> Fresh] /\ behind = [t \in Threads |-> Nowhere]
    /\ made = 0
    /\ empty_seen = [t \in Threads |-> FALSE] /\ honest = TRUE

Goto(t, label) == pc' = [pc EXCEPT ![t] = label]

(* A call returns and its locals are gone. *)
Return(t) ==
    /\ Goto(t, "idle")
    /\ ticket' = [ticket EXCEPT ![t] = 0] /\ index' = [index EXCEPT ![t] = RingMask]
    /\ seen' = [seen EXCEPT ![t] = Fresh] /\ behind' = [behind EXCEPT ![t] = Nowhere]

Entry(t) == entries_[Slot(ticket[t])]
SetEntry(t, entry) == entries_' = [entries_ EXCEPT ![Slot(ticket[t])] = entry]

TicketOf(j) == entries_[j].cycle * RingSize + j

(* Before and after an enqueue puts its index into the ring. *)
Carrying(t) == pc[t] \in {"enq_ticket", "enq_load", "enq_head", "enq_cas"}
Arming(t) == pc[t] \in {"enq_threshold", "enq_arm"}
Dequeuing(t) == pc[t] # "idle" /\ ~Carrying(t) /\ ~Arming(t)

(* The entries whose index was enqueued by a call that has returned and is
   promised to no dequeuer yet. *)
Waiting ==
    {j \in Slots : /\ entries_[j].index # RingMask /\ TicketOf(j) >= head_
                   /\ \A t \in Threads : ~(Arming(t) /\ ticket[t] = TicketOf(j))}
-----------------------------------------------------------------------------
(* enqueue *)

(* The next tail ticket. *)
DrawTail(t) ==
    /\ ticket' = [ticket EXCEPT ![t] = tail_] /\ tail_' = tail_ + 1
    /\ Goto(t, "enq_load")

(* A user puts back an index it holds. *)
Enqueue(t, i) ==
    /\ pc[t] = "idle" /\ made < MaxCalls /\ i \in outside
    /\ outside' = outside \ {i} /\ made' = made + 1
    /\ index' = [index EXCEPT ![t] = i] /\ DrawTail(t)
    /\ UNCHANGED <<entries_, head_, threshold_, seen, behind, honest>>

EnqTicket(t) ==
    /\ pc[t] = "enq_ticket" /\ DrawTail(t)
    /\ UNCHANGED <<entries_, head_, threshold_, index, seen, behind, calls>>

MutantReusable(t) == Entry(t).cycle < Cycle(ticket[t])
MutantReusableTooLate(t) == Entry(t).cycle < Cycle(ticket[t]) - 1 /\ Entry(t).index = RingMask

(* An entry can be reused if it is consumed and of an older cycle. *)
Reusable(t) == Entry(t).cycle < Cycle(ticket[t]) /\ Entry(t).index = RingMask

(* The compare-exchange that puts the index into the ring. *)
Insert(t) ==
    /\ SetEntry(t, [cycle |-> Cycle(ticket[t]), safe |-> TRUE, index |-> index[t]])
    /\ Goto(t, "enq_threshold")

(* Fill a safe entry; an unsafe one depends on the head; any other is skipped. *)
EnqEntry(t) ==
    /\ pc[t] = "enq_load"
    /\ \/ Reusable(t) /\ Entry(t).safe /\ Insert(t) /\ UNCHANGED seen
       \/ /\ Reusable(t) /\ ~Entry(t).safe
          /\ seen' = [seen EXCEPT ![t] = Entry(t)] /\ Goto(t, "enq_head") /\ UNCHANGED entries_
       \/ ~Reusable(t) /\ Goto(t, "enq_ticket") /\ UNCHANGED <<entries_, seen>>
    /\ UNCHANGED <<head_, tail_, threshold_, ticket, index, behind, calls>>

MutantNotPassed(t) == TRUE

(* No dequeuer has drawn the ticket yet. *)
NotPassed(t) == head_ <= ticket[t]

(* An unsafe entry can be filled only if that is so. *)
EnqHead(t) ==
    /\ pc[t] = "enq_head"
    /\ Goto(t, IF NotPassed(t) THEN "enq_cas" ELSE "enq_ticket")
    /\ UNCHANGED <<ring, locals, calls>>

(* Fill the unsafe entry, or start over with what it has become; a weak exchange
   may fail though nothing has changed. *)
EnqUnsafe(t) ==
    /\ pc[t] = "enq_cas"
    /\ \/ Entry(t) = seen[t] /\ Insert(t)
       \/ Goto(t, "enq_load") /\ UNCHANGED entries_
    /\ seen' = [seen EXCEPT ![t] = Fresh]
    /\ UNCHANGED <<head_, tail_, threshold_, ticket, index, behind, calls>>

EnqThreshold(t) ==
    /\ pc[t] = "enq_threshold"
    /\ \/ threshold_ = InitialThreshold /\ Return(t)
       \/ threshold_ # InitialThreshold /\ Goto(t, "enq_arm") /\ UNCHANGED locals
    /\ UNCHANGED <<ring, calls>>

EnqArm(t) ==
    /\ pc[t] = "enq_arm"
    /\ threshold_' = InitialThreshold /\ Return(t)
    /\ UNCHANGED <<entries_, head_, tail_, calls>>
-----------------------------------------------------------------------------
(* try_dequeue *)

(* The fast path: with a spent threshold the ring is taken to be empty. *)
Dequeue(t) ==
    /\ pc[t] = "idle" /\ made < MaxCalls
    /\ made' = made + 1
    /\ \/ threshold_ < 0 /\ honest' = (honest /\ Waiting = {}) /\ UNCHANGED pc
       \/ threshold_ >= 0 /\ Goto(t, "deq_ticket") /\ UNCHANGED honest
    /\ UNCHANGED <<ring, locals, outside>>

DeqTicket(t) ==
    /\ pc[t] = "deq_ticket"
    /\ ticket' = [ticket EXCEPT ![t] = head_] /\ head_' = head_ + 1
    /\ Goto(t, "deq_load")
    /\ UNCHANGED <<entries_, tail_, threshold_, index, seen, behind, calls>>

MutantTaken(t) == RingMask

(* The index, as it was before fetch_or. *)
Taken(t) == Entry(t).index

(* The entry carries this ticket's cycle: fetch_or consumes it and keeps its
   safe bit, the index is ours. *)
DeqTake(t) ==
    /\ pc[t] = "deq_load" /\ Entry(t).cycle = Cycle(ticket[t])
    /\ SetEntry(t, [Entry(t) EXCEPT !.index = RingMask])
    /\ outside' = outside \cup {Taken(t)} /\ Return(t)
    /\ UNCHANGED <<head_, tail_, threshold_, made, honest>>

(* What a dequeuer leaves behind: an index of an older cycle without its safe
   bit, a consumed entry with this ticket's cycle. *)
Passed(t) ==
    IF Entry(t).index # RingMask THEN [Entry(t) EXCEPT !.safe = FALSE]
    ELSE [Entry(t) EXCEPT !.cycle = Cycle(ticket[t])]

(* The entry carries another cycle.  A newer entry is left alone, a consumed one
   is looked at catchup_attempts times before it is closed. *)
DeqPass(t) ==
    /\ pc[t] = "deq_load" /\ Entry(t).cycle # Cycle(ticket[t])
    /\ \/ Entry(t).cycle < Cycle(ticket[t]) /\ SetEntry(t, Passed(t))
       \/ Entry(t).cycle > Cycle(ticket[t]) /\ UNCHANGED entries_
    /\ Goto(t, "deq_tail")
    /\ UNCHANGED <<head_, tail_, threshold_, locals, calls>>

(* Has the tail been overtaken? *)
DeqTail(t) ==
    /\ pc[t] = "deq_tail"
    /\ \/ /\ tail_ <= ticket[t] + 1
          /\ behind' = [behind EXCEPT ![t] = [tail |-> tail_, head |-> ticket[t] + 1]]
          /\ Goto(t, "catch_up")
       \/ /\ tail_ > ticket[t] + 1
          /\ Goto(t, "deq_threshold") /\ UNCHANGED behind
    /\ UNCHANGED <<ring, ticket, index, seen, calls>>

(* catch_up: move the tail to the head, as long as it is behind; this exchange,
   too, may fail for no reason. *)
CatchUp(t) ==
    /\ pc[t] = "catch_up"
    /\ \/ tail_ = behind[t].tail /\ tail_' = behind[t].head /\ Goto(t, "deq_none")
       \/ Goto(t, "catch_head") /\ UNCHANGED tail_
    /\ UNCHANGED <<entries_, head_, threshold_, locals, calls>>

CatchHead(t) ==
    /\ pc[t] = "catch_head"
    /\ behind' = [behind EXCEPT ![t].head = head_] /\ Goto(t, "catch_tail")
    /\ UNCHANGED <<ring, ticket, index, seen, calls>>

MutantCatchTail(t) ==
    /\ pc[t] = "catch_tail" /\ Goto(t, "catch_up")
    /\ UNCHANGED <<ring, locals, calls>>

CatchTail(t) ==
    /\ pc[t] = "catch_tail"
    /\ behind' = [behind EXCEPT ![t].tail = tail_]
    /\ Goto(t, IF tail_ < behind[t].head THEN "catch_up" ELSE "deq_none")
    /\ UNCHANGED <<ring, ticket, index, seen, calls>>

ReturnNone(t) == Return(t) /\ honest' = (honest /\ (empty_seen[t] \/ Waiting = {}))

DeqNone(t) ==
    /\ pc[t] = "deq_none"
    /\ threshold_' = threshold_ - 1 /\ ReturnNone(t)
    /\ UNCHANGED <<entries_, head_, tail_, made, outside>>

(* The tail is ahead: try the next ticket until the threshold is spent. *)
DeqThreshold(t) ==
    /\ pc[t] = "deq_threshold"
    /\ threshold_' = threshold_ - 1
    /\ \/ threshold_ <= 0 /\ ReturnNone(t)
       \/ threshold_ > 0 /\ Goto(t, "deq_ticket") /\ UNCHANGED <<locals, honest>>
    /\ UNCHANGED <<entries_, head_, tail_, made, outside>>
-----------------------------------------------------------------------------
Step(t) ==
    \/ EnqTicket(t) \/ EnqEntry(t) \/ EnqHead(t) \/ EnqUnsafe(t) \/ EnqThreshold(t) \/ EnqArm(t)
    \/ DeqTicket(t) \/ DeqTake(t) \/ DeqPass(t) \/ DeqTail(t)
    \/ CatchUp(t) \/ CatchHead(t) \/ CatchTail(t) \/ DeqNone(t) \/ DeqThreshold(t)

Observe ==
    empty_seen' = [t \in Threads |->
                       Dequeuing(t)' /\ (empty_seen[t] \/ Waiting' = {} \/ (pc[t] = "idle" /\ Waiting = {}))]

AtRest == \A t \in Threads : pc[t] = "idle"
Rest == AtRest /\ UNCHANGED vars

Act ==
    \/ \E t \in Enqueuers, i \in Indices : Enqueue(t, i)
    \/ \E t \in Dequeuers : Dequeue(t)
    \/ \E t \in Threads : Step(t)

Next == (Act /\ Observe) \/ Rest

Spec == Init /\ [][Next]_vars

(* A weak exchange succeeds; it fails though nothing has changed. *)
Exchanged(t) == (EnqUnsafe(t) \/ CatchUp(t)) /\ pc'[t] \in {"enq_threshold", "deq_none"}
FailsSpuriously(t) ==
    \/ EnqUnsafe(t) /\ Entry(t) = seen[t] /\ pc'[t] = "enq_load"
    \/ CatchUp(t) /\ tail_ = behind[t].tail /\ pc'[t] = "catch_head"

(* The scheduler runs some thread that is inside a call, whichever it likes, and
   an exchange that is tried again and again does not always fail for no reason. *)
FairSpec ==
    /\ Spec
    /\ WF_vars(\E t \in Threads : Step(t) /\ Observe)
    /\ \A t \in Threads : []<><<FailsSpuriously(t)>>_vars => []<><<Exchanged(t)>>_vars
-----------------------------------------------------------------------------
(* Correctness. *)

(* Types of the ring's words and of the callers' locals: only indices of slots
   leave the ring, and entries hold nothing else. *)
TypeOK ==
    /\ entries_ \in [Slots -> Entries] /\ head_ \in Nat /\ tail_ \in Nat
    /\ threshold_ \in Int /\ outside \subseteq Indices
    /\ ticket \in [Threads -> Nat] /\ index \in [Threads -> Indices \cup {RingMask}]
    /\ seen \in [Threads -> Entries] /\ behind \in [Threads -> [tail : Nat, head : Nat]]
    /\ made \in 0..MaxCalls
    /\ empty_seen \in [Threads -> BOOLEAN] /\ honest \in BOOLEAN

Stored == {j \in Slots : entries_[j].index # RingMask}

(* No index is lost or duplicated: each is with a user, on its way into the ring
   or in one entry. *)
IndexConserved ==
    \A i \in Indices :
        Cardinality({j \in Stored : entries_[j].index = i})
        + Cardinality({t \in Threads : Carrying(t) /\ index[t] = i})
        + Cardinality({i} \cap outside) = 1

(* No index is stranded: the ticket of every stored index is still to be drawn,
   or the dequeuer that drew it has not looked at the entry yet. *)
NotStranded ==
    \A j \in Stored :
        \/ TicketOf(j) >= head_
        \/ \E t \in Threads : pc[t] = "deq_load" /\ ticket[t] = TicketOf(j)

(* Enqueuers do not run away from the head, however many tickets they must skip
   because an entry still holds an older index: the tickets between head and tail
   fit into the ring once. *)
TicketsBounded == tail_ - head_ <= RingSize

(* try_dequeue comes back empty-handed only if at some moment of the call the
   ring was empty: no index waited whose enqueue had returned. *)
HonestEmpty == honest

Returned == made - Cardinality({t \in Threads : pc[t] # "idle"})

(* enqueue and try_dequeue are lock-free: while calls are under way one of them
   returns, also if the scheduler keeps the other threads anywhere inside theirs,
   so no thread spins until another goes on and no two undo each other's work for
   ever.  A single call may starve as long as others return. *)
SomeCallReturns == []<>AtRest \/ []<><<Returned' > Returned>>_vars
=============================================================================
