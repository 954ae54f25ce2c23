--------------------------- MODULE IndexRingProofs ---------------------------
(***************************************************************************)
(* Proofs about IndexRing for every number of threads, every capacity and  *)
(* every number of calls: the types, that no index is stranded behind the  *)
(* head, and that none is lost or duplicated.                              *)
(*                                                                         *)
(* The argument is about what a dequeuer leaves behind.  A ticket that has *)
(* been drawn and looked at is closed: its entry carries that cycle or a   *)
(* newer one, or is unsafe (PassedClosed).  So an enqueuer that finds a    *)
(* safe entry of an older cycle knows that its ticket is not closed.  An   *)
(* enqueuer that finds an unsafe one reads the head, and what it knew then *)
(* is still true at its compare-exchange, because an entry never takes a   *)
(* value again that it has given up (SeenOK, CasOK).                       *)
(***************************************************************************)
EXTENDS IndexRing, TLAPS, FiniteSetTheorems

Labels == {"idle", "enq_ticket", "enq_load", "enq_head", "enq_cas", "enq_threshold", "enq_arm",
           "deq_ticket", "deq_load", "deq_tail", "catch_up", "catch_head", "catch_tail",
           "deq_none", "deq_threshold"}

(* The program counters; an enqueuer carries an index until it is inserted. *)
ThreadsOK == pc \in [Threads -> Labels] /\ \A t \in Threads : Carrying(t) => index[t] \in Indices

(* The dequeuer that drew ticket T has not looked at the entry yet. *)
Pending(T) == \E u \in Threads : pc[u] = "deq_load" /\ ticket[u] = T

(* The head tickets handed out so far. *)
Drawn == 0..(head_ - 1)

(* A consumed entry is as the constructor left it, or its ticket was drawn. *)
WordsOK ==
    \A j \in Slots :
        \/ entries_[j].index = RingMask /\ entries_[j].cycle = -1
        \/ entries_[j].index = RingMask /\ entries_[j].cycle \in Nat /\ TicketOf(j) < head_
        \/ entries_[j].index # RingMask /\ entries_[j].cycle \in Nat

(* A ticket has one dequeuer, so what it is due is still in the entry. *)
DequeuersOK ==
    \A t \in Threads : pc[t] = "deq_load" =>
        /\ ticket[t] < head_
        /\ Entry(t).cycle = Cycle(ticket[t]) => Entry(t).index # RingMask
        /\ \A u \in Threads : pc[u] = "deq_load" /\ ticket[u] = ticket[t] => u = t

(* A dequeuer that has looked at its entry has closed it for the ticket's
   enqueuer. *)
PassedClosed ==
    \A T \in Drawn :
        Pending(T) \/ entries_[Slot(T)].cycle >= Cycle(T) \/ ~entries_[Slot(T)].safe

(* The entry an enqueuer loaded was consumed, unsafe and older than its ticket;
   if it is not there any more, a newer one is. *)
SeenOK ==
    \A t \in Threads : pc[t] \in {"enq_head", "enq_cas"} =>
        /\ ~seen[t].safe /\ seen[t].index = RingMask /\ seen[t].cycle < Cycle(ticket[t])
        /\ Entry(t).cycle >= seen[t].cycle
        /\ Entry(t).cycle = seen[t].cycle => Entry(t) = seen[t]

(* While the entry is as loaded nobody has passed it since the head was read. *)
CasOK ==
    \A t \in Threads : pc[t] = "enq_cas" /\ Entry(t) = seen[t] =>
        \A T \in Drawn : Slot(T) = Slot(ticket[t]) /\ Cycle(T) >= Cycle(ticket[t]) => Pending(T)

(* The inductive invariant. *)
RingInv ==
    TypeOK /\ ThreadsOK /\ WordsOK /\ DequeuersOK /\ PassedClosed /\ SeenOK /\ CasOK /\ NotStranded
-----------------------------------------------------------------------------
(* Tickets: slot and cycle determine the ticket and the other way round. *)
LEMMA RingNumbers ==
    /\ RingSize \in Nat /\ RingSize >= 4 /\ RingMask \in Nat /\ RingMask \in Slots
    /\ RingMask \notin Indices
BY RingAssumption DEF RingSize, RingMask, Indices, Slots

LEMMA SlotCycle ==
    ASSUME NEW n \in Nat
    PROVE  /\ Slot(n) \in Slots /\ Cycle(n) \in Nat
           /\ n = Cycle(n) * RingSize + Slot(n)
<1> USE RingAssumption DEF RingSize
<1>1. n % RingSize \in 0..(RingSize - 1) /\ n \div RingSize \in Nat
  OBVIOUS
<1>2. n = (n \div RingSize) * RingSize + (n % RingSize)
  OBVIOUS
<1> QED BY <1>1, <1>2 DEF Slot, Cycle, RingMask, Slots

LEMMA TicketParts ==
    ASSUME NEW c \in Nat, NEW j \in Slots
    PROVE  /\ c * RingSize + j \in Nat
           /\ Slot(c * RingSize + j) = j /\ Cycle(c * RingSize + j) = c
BY RingAssumption DEF Slot, Cycle, RingSize, RingMask, Slots

(* In one slot a later cycle is a later ticket. *)
LEMMA CycleOrder ==
    ASSUME NEW m \in Nat, NEW n \in Nat, Slot(m) = Slot(n), Cycle(m) >= Cycle(n)
    PROVE  m >= n
<1>1. \A a, b, s \in Nat : a >= b => a * RingSize + s >= b * RingSize + s
  BY RingNumbers
<1>2. Cycle(m) \in Nat /\ Cycle(n) \in Nat /\ Slot(m) \in Nat
  BY SlotCycle, RingNumbers DEF Slots
<1>3. m = Cycle(m) * RingSize + Slot(m) /\ n = Cycle(n) * RingSize + Slot(n)
  BY SlotCycle
<1> QED BY <1>1, <1>2, <1>3
-----------------------------------------------------------------------------
(* Types and program counters. *)
LEMMA TypeInit == Init => RingInv
<1> SUFFICES ASSUME Init PROVE RingInv
  OBVIOUS
<1> USE RingNumbers
<1>1. PICK full \in Initials :
           /\ entries_ = [j \in Slots |-> IF full /\ j \in Indices
                                          THEN [cycle |-> 0, safe |-> TRUE, index |-> j] ELSE Fresh]
           /\ tail_ = (IF full THEN Capacity ELSE 0)
           /\ threshold_ = (IF full THEN InitialThreshold ELSE -1)
           /\ outside = (IF full THEN {} ELSE Indices)
  BY DEF Init
<1>2. head_ = 0 /\ pc = [t \in Threads |-> "idle"]
  BY DEF Init
<1>3. Fresh \in Entries /\ \A j \in Indices : [cycle |-> 0, safe |-> TRUE, index |-> j] \in Entries
  BY DEF Fresh, Entries
<1>4. TypeOK
  <2>1. entries_ \in [Slots -> Entries]
    BY <1>1, <1>3
  <2>2. tail_ \in Nat /\ threshold_ \in Int /\ outside \subseteq Indices
    BY <1>1, RingAssumption DEF InitialThreshold
  <2> QED BY <1>3, <2>1, <2>2, RingAssumption DEF TypeOK, Init, Nowhere
<1>5. ThreadsOK
  BY <1>2 DEF ThreadsOK, Labels, Carrying
<1>6. WordsOK
  BY <1>1 DEF WordsOK, Fresh
<1>7. NotStranded
  BY <1>1, <1>2, <1>3, SlotCycle DEF NotStranded, Stored, TicketOf, Fresh, Slots
<1>8. DequeuersOK /\ PassedClosed /\ SeenOK /\ CasOK
  BY <1>2 DEF DequeuersOK, PassedClosed, SeenOK, CasOK, Drawn
<1> QED BY <1>4, <1>5, <1>6, <1>7, <1>8 DEF RingInv

LEMMA ObserveType == Observe => empty_seen' \in [Threads -> BOOLEAN]
BY DEF Observe

(* The entry a thread's ticket names. *)
LEMMA EntryType ==
    ASSUME TypeOK, NEW t \in Threads
    PROVE  /\ ticket[t] \in Nat /\ Slot(ticket[t]) \in Slots /\ Cycle(ticket[t]) \in Nat
           /\ Entry(t) \in Entries /\ Entry(t).cycle \in Int /\ Entry(t).safe \in BOOLEAN
           /\ Entry(t).index \in Indices \cup {RingMask}
BY SlotCycle DEF TypeOK, Entry, Entries

LEMMA TypeStep ==
    ASSUME TypeOK, ThreadsOK, DequeuersOK, Act, Observe
    PROVE  TypeOK' /\ ThreadsOK'
<1> USE RingNumbers DEF Threads
<1>o. empty_seen' \in [Threads -> BOOLEAN]
  BY ObserveType
<1>f. Fresh \in Entries /\ Nowhere \in [tail : Nat, head : Nat]
  BY DEF Fresh, Entries, Nowhere
<1>w. ASSUME NEW t \in Threads, NEW e \in Entries, SetEntry(t, e)
      PROVE  entries_' \in [Slots -> Entries]
  BY <1>w, EntryType DEF SetEntry, TypeOK
<1>i. ASSUME NEW t \in Threads, Insert(t) PROVE entries_' \in [Slots -> Entries]
  <2>1. index[t] \in Indices \cup {RingMask} /\ Cycle(ticket[t]) \in Int
    BY EntryType DEF TypeOK
  <2>2. [cycle |-> Cycle(ticket[t]), safe |-> TRUE, index |-> index[t]] \in Entries
    BY <2>1 DEF Entries
  <2> QED BY <1>i, <1>w, <2>2 DEF Insert
<1>r. ASSUME NEW t \in Threads, Return(t)
      PROVE  /\ ticket' \in [Threads -> Nat] /\ index' \in [Threads -> Indices \cup {RingMask}]
             /\ seen' \in [Threads -> Entries] /\ behind' \in [Threads -> [tail : Nat, head : Nat]]
             /\ ThreadsOK'
  BY <1>f, <1>r DEF Return, Goto, TypeOK, ThreadsOK, Labels, Carrying
<1>1. ASSUME NEW t \in Enqueuers, NEW i \in Indices, Enqueue(t, i) PROVE TypeOK' /\ ThreadsOK'
  BY <1>1, <1>o, RingAssumption DEF Enqueue, DrawTail, Goto, TypeOK, ThreadsOK, Labels, Carrying
<1>2. ASSUME NEW t \in Dequeuers, Dequeue(t) PROVE TypeOK' /\ ThreadsOK'
  <2>1. ThreadsOK'
    BY <1>2 DEF Dequeue, locals, Goto, ThreadsOK, Labels, Carrying
  <2>2. honest' \in BOOLEAN
    BY <1>2 DEF Dequeue, TypeOK
  <2>3. made' \in 0..MaxCalls
    BY <1>2, RingAssumption DEF Dequeue, TypeOK
  <2> QED BY <1>2, <1>o, <2>1, <2>2, <2>3 DEF Dequeue, ring, locals, TypeOK
<1>3. ASSUME NEW t \in Threads, Step(t) PROVE TypeOK' /\ ThreadsOK'
  <2>1. CASE EnqTicket(t)
    BY <2>1, <1>o DEF EnqTicket, DrawTail, Goto, calls, TypeOK, ThreadsOK, Labels, Carrying
  <2>2. CASE EnqEntry(t)
    <3>2. entries_' \in [Slots -> Entries] /\ seen' \in [Threads -> Entries]
      BY <2>2, <1>i, EntryType DEF EnqEntry, TypeOK
    <3>3. ThreadsOK'
      BY <2>2 DEF EnqEntry, Insert, Goto, ThreadsOK, Labels, Carrying
    <3> QED BY <2>2, <3>2, <3>3, <1>o DEF EnqEntry, calls, TypeOK
  <2>3. CASE EnqHead(t)
    BY <2>3, <1>o DEF EnqHead, Goto, ring, locals, calls, TypeOK, ThreadsOK, Labels, Carrying
  <2>4. CASE EnqUnsafe(t)
    <3>2. entries_' \in [Slots -> Entries] /\ seen' \in [Threads -> Entries]
      BY <2>4, <1>i, <1>f DEF EnqUnsafe, TypeOK
    <3>3. ThreadsOK'
      BY <2>4 DEF EnqUnsafe, Insert, Goto, ThreadsOK, Labels, Carrying
    <3> QED BY <2>4, <3>2, <3>3, <1>o DEF EnqUnsafe, calls, TypeOK
  <2>5. CASE EnqThreshold(t)
    <3>1. CASE Return(t)
      BY <2>5, <3>1, <1>r, <1>o DEF EnqThreshold, ring, calls, TypeOK
    <3>2. CASE Goto(t, "enq_arm") /\ UNCHANGED locals
      BY <2>5, <3>2, <1>o DEF EnqThreshold, Goto, locals, ring, calls, TypeOK, ThreadsOK, Labels,
                              Carrying
    <3> QED BY <2>5, <3>1, <3>2 DEF EnqThreshold
  <2>6. CASE EnqArm(t)
    <3>1. threshold_' \in Int
      BY <2>6, RingAssumption DEF EnqArm, InitialThreshold
    <3> QED BY <2>6, <3>1, <1>r, <1>o DEF EnqArm, calls, TypeOK
  <2>7. CASE DeqTicket(t)
    BY <2>7, <1>o DEF DeqTicket, Goto, calls, TypeOK, ThreadsOK, Labels, Carrying
  <2>8. CASE DeqTake(t)
    <3>1. Taken(t) \in Indices
      BY <2>8, EntryType DEF DeqTake, Taken, DequeuersOK
    <3>2. [Entry(t) EXCEPT !.index = RingMask] \in Entries
      BY EntryType DEF Entries
    <3>3. entries_' \in [Slots -> Entries]
      BY <2>8, <3>2, <1>w DEF DeqTake
    <3> QED BY <2>8, <3>1, <3>3, <1>r, <1>o DEF DeqTake, TypeOK
  <2>9. CASE DeqPass(t)
    <3>1. Passed(t) \in Entries
      <4>1. [Entry(t) EXCEPT !.safe = FALSE] \in Entries
        BY EntryType DEF Entries
      <4>2. [Entry(t) EXCEPT !.cycle = Cycle(ticket[t])] \in Entries
        <5>1. Cycle(ticket[t]) \in Int /\ Entry(t) \in Entries
          BY EntryType
        <5> QED BY <5>1 DEF Entries
      <4> QED BY <4>1, <4>2 DEF Passed
    <3>2. entries_' \in [Slots -> Entries]
      BY <2>9, <3>1, <1>w DEF DeqPass, TypeOK
    <3> QED BY <2>9, <3>2, <1>o DEF DeqPass, Goto, locals, calls, TypeOK, ThreadsOK, Labels, Carrying
  <2>10. CASE DeqTail(t)
    <3>1. behind' \in [Threads -> [tail : Nat, head : Nat]]
      BY <2>10 DEF DeqTail, TypeOK
    <3> QED BY <2>10, <3>1, <1>o DEF DeqTail, Goto, ring, calls, TypeOK, ThreadsOK, Labels, Carrying
  <2>11. CASE CatchUp(t)
    BY <2>11, <1>o DEF CatchUp, Goto, locals, calls, TypeOK, ThreadsOK, Labels, Carrying
  <2>12. CASE CatchHead(t)
    <3>1. behind' \in [Threads -> [tail : Nat, head : Nat]]
      BY <2>12 DEF CatchHead, TypeOK
    <3> QED BY <2>12, <3>1, <1>o DEF CatchHead, Goto, ring, calls, TypeOK, ThreadsOK, Labels, Carrying
  <2>13. CASE CatchTail(t)
    <3>1. behind' \in [Threads -> [tail : Nat, head : Nat]]
      BY <2>13 DEF CatchTail, TypeOK
    <3> QED BY <2>13, <3>1, <1>o DEF CatchTail, Goto, ring, calls, TypeOK, ThreadsOK, Labels, Carrying
  <2>14. CASE DeqNone(t)
    <3>1. honest' \in BOOLEAN
      BY <2>14 DEF DeqNone, ReturnNone
    <3> QED BY <2>14, <3>1, <1>r, <1>o DEF DeqNone, ReturnNone, TypeOK
  <2>15. CASE DeqThreshold(t)
    <3>1. CASE ReturnNone(t)
      <4>1. honest' \in BOOLEAN
        BY <3>1 DEF ReturnNone
      <4> QED BY <2>15, <3>1, <4>1, <1>r, <1>o DEF DeqThreshold, ReturnNone, TypeOK
    <3>2. CASE Goto(t, "deq_ticket") /\ UNCHANGED <<locals, honest>>
      BY <2>15, <3>2, <1>o DEF DeqThreshold, Goto, locals, TypeOK, ThreadsOK, Labels, Carrying
    <3> QED BY <2>15, <3>1, <3>2 DEF DeqThreshold
  <2> QED BY <1>3, <2>1, <2>2, <2>3, <2>4, <2>5, <2>6, <2>7, <2>8, <2>9, <2>10, <2>11, <2>12,
             <2>13, <2>14, <2>15 DEF Step
<1> QED BY <1>1, <1>2, <1>3 DEF Act
-----------------------------------------------------------------------------
(* Tickets, entries and who has looked at them. *)

(* The parts of the invariant that are about them. *)
Core == WordsOK /\ DequeuersOK /\ PassedClosed /\ SeenOK /\ CasOK /\ NotStranded

(* A step of thread t leaves the other threads where they are. *)
Others(t) ==
    \A u \in Threads \ {t} :
        pc'[u] = pc[u] /\ ticket'[u] = ticket[u] /\ index'[u] = index[u] /\ seen'[u] = seen[u]

LEMMA Frame ==
    ASSUME TypeOK, ThreadsOK, NEW t \in Threads,
           Step(t) \/ (\E i \in Indices : Enqueue(t, i)) \/ Dequeue(t)
    PROVE  Others(t)
<1> USE DEF Others, TypeOK, ThreadsOK
<1>1. CASE \E i \in Indices : Enqueue(t, i)
  BY <1>1 DEF Enqueue, DrawTail, Goto
<1>2. CASE Dequeue(t)
  BY <1>2 DEF Dequeue, Goto, locals
<1>3. CASE EnqTicket(t) \/ EnqEntry(t) \/ EnqHead(t) \/ EnqUnsafe(t)
  BY <1>3 DEF EnqTicket, EnqEntry, EnqHead, EnqUnsafe, DrawTail, Insert, Goto, locals
<1>4. CASE EnqThreshold(t) \/ EnqArm(t) \/ DeqTicket(t) \/ DeqTake(t) \/ DeqPass(t)
  BY <1>4 DEF EnqThreshold, EnqArm, DeqTicket, DeqTake, DeqPass, Return, Goto, locals
<1>5. CASE DeqTail(t) \/ CatchUp(t) \/ CatchHead(t) \/ CatchTail(t) \/ DeqNone(t) \/ DeqThreshold(t)
  BY <1>5 DEF DeqTail, CatchUp, CatchHead, CatchTail, DeqNone, DeqThreshold, ReturnNone, Return,
              Goto, locals
<1> QED BY <1>1, <1>2, <1>3, <1>4, <1>5 DEF Step

(* A step that leaves entries and head alone and neither starts nor ends a look
   at an entry. *)
LEMMA QuietCore ==
    ASSUME TypeOK, Core, NEW t \in Threads, Others(t), entries_' = entries_, head_' = head_,
           pc[t] # "deq_load", pc'[t] # "deq_load", pc'[t] \notin {"enq_head", "enq_cas"}
    PROVE  Core'
<1>1. \A T : Pending(T)' <=> Pending(T)
  BY DEF Pending, Others
<1>2. WordsOK' /\ DequeuersOK'
  <2>1. WordsOK'
    BY DEF Core, WordsOK, TicketOf
  <2>2. DequeuersOK'
    BY DEF Core, DequeuersOK, Others, Entry
  <2> QED BY <2>1, <2>2
<1>3. PassedClosed' /\ NotStranded'
  <2>1. PassedClosed'
    BY <1>1 DEF Core, PassedClosed, Drawn
  <2>2. NotStranded'
    BY <1>1 DEF Core, NotStranded, Stored, TicketOf, Pending
  <2> QED BY <2>1, <2>2
<1>4. SeenOK' /\ CasOK'
  BY <1>1 DEF Core, SeenOK, CasOK, Drawn, Entry, Others
<1> QED BY <1>2, <1>3, <1>4 DEF Core

(* An unsafe entry was loaded, or the head was found not to have passed. *)
LEMMA LookCore ==
    ASSUME TypeOK, ThreadsOK, Core, NEW t \in Threads, Others(t), entries_' = entries_, head_' = head_,
           ticket' = ticket,
           \/ /\ pc[t] = "enq_load" /\ pc'[t] = "enq_head"
              /\ seen'[t] = Entry(t) /\ Reusable(t) /\ ~Entry(t).safe
           \/ pc[t] = "enq_head" /\ pc'[t] = "enq_cas" /\ seen'[t] = seen[t] /\ NotPassed(t)
    PROVE  Core'
<1>1. \A T : Pending(T)' <=> Pending(T)
  BY DEF Pending, Others
<1>2. WordsOK' /\ DequeuersOK'
  <2>1. WordsOK'
    BY DEF Core, WordsOK, TicketOf
  <2>2. DequeuersOK'
    BY DEF Core, DequeuersOK, Others, Entry
  <2> QED BY <2>1, <2>2
<1>3. PassedClosed' /\ NotStranded'
  <2>1. PassedClosed'
    BY <1>1 DEF Core, PassedClosed, Drawn
  <2>2. NotStranded'
    BY <1>1 DEF Core, NotStranded, Stored, TicketOf, Pending
  <2> QED BY <2>1, <2>2
<1>4. SeenOK'
  <2>1. ASSUME NEW u \in Threads, u # t, pc'[u] \in {"enq_head", "enq_cas"}
        PROVE  /\ ~seen'[u].safe /\ seen'[u].index = RingMask /\ seen'[u].cycle < Cycle(ticket'[u])
               /\ Entry(u)'.cycle >= seen'[u].cycle
               /\ Entry(u)'.cycle = seen'[u].cycle => Entry(u)' = seen'[u]
    BY <2>1 DEF Core, SeenOK, Entry, Others
  <2>2. Entry(t)' = Entry(t) /\ Entry(t).cycle \in Int
    BY EntryType DEF Entry
  <2>3. /\ ~seen'[t].safe /\ seen'[t].index = RingMask /\ seen'[t].cycle < Cycle(ticket'[t])
        /\ Entry(t)'.cycle >= seen'[t].cycle
        /\ Entry(t)'.cycle = seen'[t].cycle => Entry(t)' = seen'[t]
    BY <2>2 DEF Core, SeenOK, Reusable
  <2> QED BY <2>1, <2>3 DEF SeenOK
<1>5. CasOK'
  <2>1. ASSUME pc'[t] = "enq_cas", NEW T \in Drawn, Slot(T) = Slot(ticket[t]),
               Cycle(T) >= Cycle(ticket[t])
        PROVE  FALSE
    <3>1. T \in Nat /\ T < head_ /\ ticket[t] \in Nat /\ head_ \in Nat
      BY DEF Drawn, TypeOK
    <3>2. T >= ticket[t]
      BY <2>1, <3>1, CycleOrder
    <3> QED BY <2>1, <3>1, <3>2 DEF NotPassed
  <2> QED BY <1>1, <2>1 DEF Core, CasOK, Drawn, Entry, Others
<1> QED BY <1>2, <1>3, <1>4, <1>5 DEF Core

(* A dequeuer draws the next head ticket. *)
LEMMA DrawCore ==
    ASSUME TypeOK, ThreadsOK, Core, NEW t \in Threads, Others(t), entries_' = entries_,
           head_' = head_ + 1, pc[t] = "deq_ticket", pc'[t] = "deq_load", ticket'[t] = head_
    PROVE  Core'
<1>0. head_ \in Nat
  BY DEF TypeOK
<1>1. \A T : Pending(T)' <=> (Pending(T) \/ T = head_)
  BY DEF Pending, Others
<1>2. WordsOK'
  <2>1. \A j \in Slots : TicketOf(j)' = TicketOf(j)
    BY DEF TicketOf
  <2>2. ASSUME NEW j \in Slots, entries_[j].cycle \in Nat PROVE TicketOf(j) \in Nat
    BY <2>2, TicketParts DEF TicketOf
  <2> QED BY <1>0, <2>1, <2>2 DEF Core, WordsOK
<1>3. DequeuersOK'
  <2>1. ASSUME entries_[Slot(head_)].cycle = Cycle(head_)
        PROVE  entries_[Slot(head_)].index # RingMask
    <3>1. TicketOf(Slot(head_)) = head_
      BY <1>0, <2>1, SlotCycle DEF TicketOf
    <3>2. Slot(head_) \in Slots /\ Cycle(head_) \in Nat
      BY <1>0, SlotCycle
    <3> QED BY <1>0, <2>1, <3>1, <3>2 DEF Core, WordsOK
  <2> QED BY <1>0, <2>1 DEF Core, DequeuersOK, Others, Entry, TypeOK
<1>4. Drawn' = Drawn \cup {head_}
  BY <1>0 DEF Drawn
<1>5. PassedClosed'
  BY <1>1, <1>4 DEF Core, PassedClosed
<1>6. SeenOK' /\ CasOK'
  BY <1>1, <1>4 DEF Core, SeenOK, CasOK, Entry, Others
<1>7. NotStranded'
  <2>1. ASSUME NEW j \in Stored
        PROVE  TicketOf(j) >= head_ + 1 \/ \E u \in Threads : pc'[u] = "deq_load" /\ ticket'[u] = TicketOf(j)
    <3>1. j \in Slots /\ entries_[j].cycle \in Nat
      BY DEF Stored, Core, WordsOK
    <3>2. TicketOf(j) \in Nat
      BY <3>1, TicketParts DEF TicketOf
    <3>3. TicketOf(j) >= head_ \/ Pending(TicketOf(j))
      BY DEF Core, NotStranded, Pending
    <3> QED BY <1>0, <3>2, <3>3 DEF Pending, Others
  <2>2. Stored' = Stored /\ \A j \in Stored : TicketOf(j)' = TicketOf(j)
    BY DEF Stored, TicketOf
  <2> QED BY <2>1, <2>2 DEF NotStranded, Pending
<1> QED BY <1>2, <1>3, <1>5, <1>6, <1>7 DEF Core

(* Replacing the entry of t's ticket. *)
LEMMA NewEntry ==
    ASSUME TypeOK, NEW t \in Threads, NEW e, SetEntry(t, e)
    PROVE  \A j \in Slots : entries_'[j] = IF j = Slot(ticket[t]) THEN e ELSE entries_[j]
BY EntryType DEF SetEntry, TypeOK

(* An enqueuer whose ticket nobody has passed puts its index into the ring. *)
LEMMA InsertCore ==
    ASSUME TypeOK, ThreadsOK, Core, NEW t \in Threads, Others(t), head_' = head_, ticket' = ticket,
           Insert(t), pc[t] \in {"enq_load", "enq_cas"}, Reusable(t),
           \/ Entry(t).safe
           \/ pc[t] = "enq_cas" /\ Entry(t) = seen[t]
    PROVE  Core'
<1> DEFINE T0 == ticket[t]
           j0 == Slot(T0)
<1>0. T0 \in Nat /\ j0 \in Slots /\ Cycle(T0) \in Nat /\ Entry(t).cycle \in Int /\ head_ \in Nat
  BY EntryType DEF TypeOK
<1>1. \A T : Pending(T)' <=> Pending(T)
  BY DEF Pending, Others, Insert, Goto, ThreadsOK
<1>2. \A j \in Slots : j # j0 => entries_'[j] = entries_[j]
  BY NewEntry DEF Insert
<1>3. entries_'[j0] = [cycle |-> Cycle(T0), safe |-> TRUE, index |-> index[t]]
  BY <1>0, NewEntry DEF Insert
<1>4. index[t] \in Indices /\ index[t] # RingMask
  BY RingNumbers DEF ThreadsOK, Carrying
<1>5. entries_[j0].cycle < Cycle(T0) /\ entries_[j0] = Entry(t)
  BY DEF Reusable, Entry
<1>6. ASSUME NEW T \in Drawn, ~Pending(T), Slot(T) = j0 PROVE Cycle(T) < Cycle(T0)
  <2>1. T \in Nat /\ Cycle(T) \in Nat
    BY SlotCycle DEF Drawn
  <2>2. CASE Entry(t).safe
    BY <1>0, <1>5, <1>6, <2>1, <2>2 DEF Core, PassedClosed
  <2>3. CASE pc[t] = "enq_cas" /\ Entry(t) = seen[t]
    BY <1>0, <1>6, <2>1, <2>3 DEF Core, CasOK
  <2> QED BY <2>2, <2>3
<1>7. WordsOK'
  BY <1>0, <1>2, <1>3, <1>4 DEF Core, WordsOK, TicketOf
<1>8. DequeuersOK'
  <2> SUFFICES ASSUME NEW u \in Threads, pc'[u] = "deq_load"
               PROVE  /\ ticket[u] < head_
                      /\ entries_'[Slot(ticket[u])].cycle = Cycle(ticket[u]) =>
                             entries_'[Slot(ticket[u])].index # RingMask
                      /\ \A v \in Threads : pc'[v] = "deq_load" /\ ticket[v] = ticket[u] => v = u
    BY DEF DequeuersOK, Entry
  <2>1. pc[u] = "deq_load" /\ u # t /\ \A v \in Threads : pc'[v] = "deq_load" => pc[v] = "deq_load"
    BY DEF Others, Insert, Goto, ThreadsOK
  <2>2. Slot(ticket[u]) \in Slots
    BY EntryType
  <2> QED BY <1>2, <1>3, <1>4, <2>1, <2>2 DEF Core, DequeuersOK, Entry
<1>9. PassedClosed'
  <2> SUFFICES ASSUME NEW T \in Drawn, ~Pending(T)
               PROVE  entries_'[Slot(T)].cycle >= Cycle(T) \/ ~entries_'[Slot(T)].safe
    BY <1>1 DEF PassedClosed, Drawn
  <2>1. T \in Nat /\ Cycle(T) \in Nat /\ Slot(T) \in Slots
    BY SlotCycle DEF Drawn
  <2>2. CASE Slot(T) = j0
    BY <1>0, <1>3, <1>6, <2>1, <2>2
  <2>3. CASE Slot(T) # j0
    BY <1>2, <2>1, <2>3 DEF Core, PassedClosed
  <2> QED BY <2>2, <2>3
<1>10. ASSUME NEW u \in Threads, pc'[u] \in {"enq_head", "enq_cas"}
       PROVE  /\ pc[u] = pc'[u] /\ seen'[u] = seen[u] /\ Slot(ticket[u]) \in Slots
              /\ ticket'[u] = ticket[u] /\ seen[u].cycle \in Int
              /\ Slot(ticket[u]) = j0 => entries_'[j0].cycle > seen[u].cycle
  <2>1. u # t
    BY <1>10 DEF Insert, Goto, ThreadsOK
  <2>2. pc[u] = pc'[u] /\ seen'[u] = seen[u] /\ seen[u].cycle \in Int
    BY <2>1 DEF Others, TypeOK, Entries
  <2>3. Slot(ticket[u]) = j0 => entries_[j0].cycle >= seen[u].cycle
    BY <1>10, <2>2 DEF Core, SeenOK, Entry
  <2>4. entries_'[j0].cycle = Cycle(T0)
    BY <1>3
  <2> QED BY <1>0, <1>5, <2>2, <2>3, <2>4, EntryType
<1>11. SeenOK'
  <2> SUFFICES ASSUME NEW u \in Threads, pc'[u] \in {"enq_head", "enq_cas"}
               PROVE  /\ ~seen[u].safe /\ seen[u].index = RingMask /\ seen[u].cycle < Cycle(ticket[u])
                      /\ entries_'[Slot(ticket[u])].cycle >= seen[u].cycle
                      /\ entries_'[Slot(ticket[u])].cycle = seen[u].cycle =>
                             entries_'[Slot(ticket[u])] = seen[u]
    BY <1>10 DEF SeenOK, Entry
  <2>1. CASE Slot(ticket[u]) = j0
    <3>1. entries_'[j0].cycle = Cycle(T0)
      BY <1>3
    <3> QED BY <1>0, <1>10, <2>1, <3>1 DEF Core, SeenOK
  <2>2. CASE Slot(ticket[u]) # j0
    BY <1>2, <1>10, <2>2 DEF Core, SeenOK, Entry
  <2> QED BY <2>1, <2>2
<1>12. CasOK'
  <2> SUFFICES ASSUME NEW u \in Threads, pc'[u] = "enq_cas",
                      entries_'[Slot(ticket[u])] = seen[u],
                      NEW T \in Drawn, Slot(T) = Slot(ticket[u]), Cycle(T) >= Cycle(ticket[u])
               PROVE  Pending(T)
    BY <1>1, <1>10 DEF CasOK, Entry, Drawn
  <2>1. Slot(ticket[u]) # j0
    <3>1. entries_'[j0].cycle = Cycle(T0)
      BY <1>3
    <3> QED BY <1>0, <1>10, <3>1
  <2> QED BY <1>2, <1>10, <2>1 DEF Core, CasOK, Entry
<1>13. NotStranded'
  <2> SUFFICES ASSUME NEW j \in Slots, entries_'[j].index # RingMask
               PROVE  \/ entries_'[j].cycle * RingSize + j >= head_
                      \/ \E u \in Threads :
                             pc'[u] = "deq_load" /\ ticket[u] = entries_'[j].cycle * RingSize + j
    BY DEF NotStranded, Stored, TicketOf
  <2>1. CASE j = j0
    <3>1. entries_'[j].cycle * RingSize + j = T0
      BY <1>0, <1>3, <2>1, SlotCycle
    <3>2. T0 >= head_ \/ Pending(T0)
      BY <1>0, <1>6 DEF Drawn
    <3> QED BY <1>0, <1>1, <3>1, <3>2 DEF Pending, Others, Insert, Goto, ThreadsOK
  <2>2. CASE j # j0
    BY <1>2, <2>2 DEF Core, NotStranded, Stored, TicketOf, Others, Insert, Goto, ThreadsOK
  <2> QED BY <2>1, <2>2
<1> QED BY <1>7, <1>8, <1>9, <1>11, <1>12, <1>13 DEF Core

(* What a dequeuer with cycle c makes of the entry before it: it takes the index,
   takes the safe bit away, closes the entry or leaves a newer one alone. *)
LooksAt(before, after, c) ==
    /\ ~before.safe => ~after.safe
    /\ \/ before.cycle = c /\ after.cycle = c /\ after.index = RingMask
       \/ /\ before.cycle < c /\ before.index # RingMask
          /\ after.cycle = before.cycle /\ after.index = before.index /\ ~after.safe
       \/ before.cycle < c /\ before.index = RingMask /\ after.cycle = c /\ after.index = RingMask
       \/ before.cycle > c /\ after = before

(* A dequeuer looks at the entry of its ticket and goes on. *)
LEMMA LookedCore ==
    ASSUME TypeOK, ThreadsOK, Core, NEW t \in Threads, Others(t), head_' = head_,
           pc[t] = "deq_load", pc'[t] \in {"idle", "deq_tail"}, NEW e \in Entries,
           SetEntry(t, e), LooksAt(Entry(t), e, Cycle(ticket[t]))
    PROVE  Core'
<1> DEFINE T0 == ticket[t]
           j0 == Slot(T0)
           c0 == Cycle(T0)
           old == entries_[j0]
<1>0. /\ T0 \in Nat /\ j0 \in Slots /\ c0 \in Nat /\ old.cycle \in Int /\ head_ \in Nat
      /\ e.cycle \in Int /\ Entry(t) = old
  BY EntryType DEF TypeOK, Entry, Entries
<1>1. T0 < head_ /\ (old.cycle = c0 => old.index # RingMask) /\ T0 = c0 * RingSize + j0
  BY <1>0, SlotCycle DEF Core, DequeuersOK
<1>2. \A j \in Slots : j # j0 => entries_'[j] = entries_[j]
  BY NewEntry
<1>3. entries_'[j0] = e
  BY <1>0, NewEntry
<1>4. LooksAt(old, e, c0)
  BY <1>0
<1>5. /\ \A u \in Threads : pc'[u] = "deq_load" => pc[u] = "deq_load" /\ u # t /\ ticket'[u] = ticket[u]
      /\ \A u \in Threads : pc[u] = "deq_load" /\ u # t => pc'[u] = "deq_load" /\ ticket'[u] = ticket[u]
  BY DEF Others
<1>6. ASSUME NEW u \in Threads, u # t, pc[u] = "deq_load"
      PROVE  ticket[u] # T0 /\ (Slot(ticket[u]) = j0 => Cycle(ticket[u]) # c0)
  <2>1. ticket[u] # T0
    BY <1>6 DEF Core, DequeuersOK
  <2>2. ticket[u] = Cycle(ticket[u]) * RingSize + Slot(ticket[u])
    BY SlotCycle DEF TypeOK
  <2> QED BY <1>1, <2>1, <2>2
<1>7. \A T \in Nat : T # T0 => (Pending(T)' <=> Pending(T))
  BY <1>5 DEF Pending
<1>8. WordsOK'
  <2> SUFFICES ASSUME NEW j \in Slots
               PROVE  \/ entries_'[j].index = RingMask /\ entries_'[j].cycle = -1
                      \/ /\ entries_'[j].index = RingMask /\ entries_'[j].cycle \in Nat
                         /\ entries_'[j].cycle * RingSize + j < head_
                      \/ entries_'[j].index # RingMask /\ entries_'[j].cycle \in Nat
    BY DEF WordsOK, TicketOf
  <2>1. CASE j = j0
    <3>1. CASE e.cycle = c0 /\ e.index = RingMask
      BY <1>0, <1>1, <1>3, <2>1, <3>1
    <3>2. CASE e.cycle = old.cycle /\ e.index = old.index
      BY <1>0, <1>3, <2>1, <3>2 DEF Core, WordsOK, TicketOf
    <3> QED BY <1>4, <3>1, <3>2 DEF LooksAt
  <2>2. CASE j # j0
    BY <1>2, <2>2 DEF Core, WordsOK, TicketOf
  <2> QED BY <2>1, <2>2
<1>9. DequeuersOK'
  <2> SUFFICES ASSUME NEW u \in Threads, pc'[u] = "deq_load"
               PROVE  /\ ticket[u] < head_
                      /\ entries_'[Slot(ticket[u])].cycle = Cycle(ticket[u]) =>
                             entries_'[Slot(ticket[u])].index # RingMask
                      /\ \A v \in Threads : pc'[v] = "deq_load" /\ ticket[v] = ticket[u] => v = u
    BY <1>5 DEF DequeuersOK, Entry
  <2>1. pc[u] = "deq_load" /\ u # t /\ Slot(ticket[u]) \in Slots
    BY <1>5, EntryType
  <2>2. CASE Slot(ticket[u]) = j0
    BY <1>3, <1>4, <1>5, <1>6, <2>1, <2>2 DEF Core, DequeuersOK, Entry, LooksAt
  <2>3. CASE Slot(ticket[u]) # j0
    BY <1>2, <1>5, <2>1, <2>3 DEF Core, DequeuersOK, Entry
  <2> QED BY <2>2, <2>3
<1>10. PassedClosed'
  <2> SUFFICES ASSUME NEW T \in Drawn, ~Pending(T)'
               PROVE  entries_'[Slot(T)].cycle >= Cycle(T) \/ ~entries_'[Slot(T)].safe
    BY DEF PassedClosed, Drawn
  <2>1. T \in Nat /\ Cycle(T) \in Nat /\ Slot(T) \in Slots
    BY SlotCycle DEF Drawn
  <2>2. CASE T = T0
    BY <1>0, <1>3, <1>4, <2>2 DEF LooksAt
  <2>3. CASE T # T0 /\ Slot(T) = j0
    <3>1. old.cycle >= Cycle(T) \/ ~old.safe
      BY <1>7, <2>1, <2>3 DEF Core, PassedClosed
    <3>2. e.cycle >= old.cycle /\ (~old.safe => ~e.safe)
      BY <1>0, <1>4 DEF LooksAt
    <3> QED BY <1>0, <1>3, <2>1, <2>3, <3>1, <3>2
  <2>4. CASE T # T0 /\ Slot(T) # j0
    BY <1>2, <1>7, <2>1, <2>4 DEF Core, PassedClosed
  <2> QED BY <2>2, <2>3, <2>4
<1>11. ASSUME NEW u \in Threads, pc'[u] \in {"enq_head", "enq_cas"}
       PROVE  /\ pc[u] = pc'[u] /\ seen'[u] = seen[u] /\ Slot(ticket[u]) \in Slots
              /\ ticket'[u] = ticket[u] /\ seen[u].cycle \in Int
              /\ Slot(ticket[u]) = j0 => e.cycle > seen[u].cycle \/ (e = old /\ old.cycle > c0)
  <2>1. u # t
    BY <1>11
  <2>2. /\ pc[u] = pc'[u] /\ seen'[u] = seen[u] /\ seen[u].cycle \in Int /\ ticket'[u] = ticket[u]
        /\ Slot(ticket[u]) \in Slots
    BY <2>1, EntryType DEF Others, TypeOK, Entries
  <2>3. ASSUME Slot(ticket[u]) = j0
        PROVE  e.cycle > seen[u].cycle \/ (e = old /\ old.cycle > c0)
    <3>1. /\ old.cycle >= seen[u].cycle /\ (old.cycle = seen[u].cycle => old = seen[u])
          /\ seen[u].index = RingMask
      BY <1>11, <2>2, <2>3 DEF Core, SeenOK, Entry
    <3>2. old.index # RingMask => old.cycle > seen[u].cycle
      BY <1>0, <2>2, <3>1
    <3> QED BY <1>0, <1>1, <1>4, <2>2, <3>1, <3>2 DEF LooksAt
  <2> QED BY <2>2, <2>3
<1>12. SeenOK'
  <2> SUFFICES ASSUME NEW u \in Threads, pc'[u] \in {"enq_head", "enq_cas"}
               PROVE  /\ ~seen[u].safe /\ seen[u].index = RingMask /\ seen[u].cycle < Cycle(ticket[u])
                      /\ entries_'[Slot(ticket[u])].cycle >= seen[u].cycle
                      /\ entries_'[Slot(ticket[u])].cycle = seen[u].cycle =>
                             entries_'[Slot(ticket[u])] = seen[u]
    BY <1>11 DEF SeenOK, Entry
  <2>1. CASE Slot(ticket[u]) = j0
    BY <1>0, <1>3, <1>11, <2>1 DEF Core, SeenOK, Entry
  <2>2. CASE Slot(ticket[u]) # j0
    BY <1>2, <1>11, <2>2 DEF Core, SeenOK, Entry
  <2> QED BY <2>1, <2>2
<1>13. CasOK'
  <2> SUFFICES ASSUME NEW u \in Threads, pc'[u] = "enq_cas",
                      entries_'[Slot(ticket[u])] = seen[u],
                      NEW T \in Drawn, Slot(T) = Slot(ticket[u]), Cycle(T) >= Cycle(ticket[u])
               PROVE  Pending(T)'
    BY <1>11 DEF CasOK, Entry, Drawn
  <2>1. pc[u] = "enq_cas" /\ T \in Nat /\ Cycle(T) \in Nat /\ Cycle(ticket[u]) \in Nat
    BY <1>11, SlotCycle, EntryType DEF Drawn
  <2>2. entries_[Slot(ticket[u])] = seen[u] /\ (Slot(ticket[u]) = j0 => old.cycle > c0)
    BY <1>0, <1>2, <1>3, <1>11
  <2>3. Pending(T)
    BY <2>1, <2>2 DEF Core, CasOK, Entry
  <2>4. T # T0
    <3>1. seen[u].cycle < Cycle(ticket[u])
      BY <2>1 DEF Core, SeenOK
    <3> QED BY <1>0, <1>11, <2>1, <2>2, <3>1
  <2> QED BY <1>7, <2>1, <2>3, <2>4
<1>14. NotStranded'
  <2> SUFFICES ASSUME NEW j \in Slots, entries_'[j].index # RingMask
               PROVE  \/ entries_'[j].cycle * RingSize + j >= head_
                      \/ \E u \in Threads :
                             pc'[u] = "deq_load" /\ ticket'[u] = entries_'[j].cycle * RingSize + j
    BY DEF NotStranded, Stored, TicketOf
  <2>1. /\ entries_'[j].cycle = entries_[j].cycle /\ entries_[j].index # RingMask
        /\ j = j0 => entries_[j].cycle # c0
    BY <1>0, <1>2, <1>3, <1>4 DEF LooksAt
  <2>2. entries_[j].cycle \in Nat
    BY <2>1 DEF Core, WordsOK
  <2>3. entries_[j].cycle * RingSize + j # T0
    BY <2>1, <2>2, TicketParts
  <2>4. \/ entries_[j].cycle * RingSize + j >= head_
        \/ \E u \in Threads : pc[u] = "deq_load" /\ ticket[u] = entries_[j].cycle * RingSize + j
    BY <2>1 DEF Core, NotStranded, Stored, TicketOf
  <2> QED BY <1>5, <2>1, <2>3, <2>4
<1> QED BY <1>8, <1>9, <1>10, <1>12, <1>13, <1>14 DEF Core
-----------------------------------------------------------------------------
LEMMA CoreStep ==
    ASSUME TypeOK, ThreadsOK, Core, Act
    PROVE  Core'
<1> USE DEF ThreadsOK
<1>1. ASSUME NEW t \in Enqueuers, NEW i \in Indices, Enqueue(t, i) PROVE Core'
  <2>1. t \in Threads
    BY DEF Threads
  <2>2. Others(t)
    BY <1>1, <2>1, Frame
  <2> QED BY <1>1, <2>1, <2>2, QuietCore DEF Enqueue, DrawTail, Goto
<1>2. ASSUME NEW t \in Dequeuers, Dequeue(t) PROVE Core'
  <2>1. t \in Threads
    BY DEF Threads
  <2>2. Others(t)
    BY <1>2, <2>1, Frame
  <2> QED BY <1>2, <2>1, <2>2, QuietCore DEF Dequeue, ring, Goto
<1>3. ASSUME NEW t \in Threads, Step(t) PROVE Core'
  <2>0. Others(t)
    BY <1>3, Frame
  <2>1. CASE EnqTicket(t) \/ EnqThreshold(t) \/ EnqArm(t) \/ DeqNone(t) \/ DeqThreshold(t)
    BY <2>0, <2>1, QuietCore DEF EnqTicket, EnqThreshold, EnqArm, DeqNone, DeqThreshold, DrawTail,
                                 ReturnNone, Return, Goto, ring
  <2>2. CASE DeqTail(t) \/ CatchUp(t) \/ CatchHead(t) \/ CatchTail(t)
    BY <2>0, <2>2, QuietCore DEF DeqTail, CatchUp, CatchHead, CatchTail, Goto, ring
  <2>3. CASE EnqEntry(t)
    <3>1. CASE Reusable(t) /\ Entry(t).safe /\ Insert(t)
      BY <2>0, <2>3, <3>1, InsertCore DEF EnqEntry
    <3>2. CASE Reusable(t) /\ ~Entry(t).safe /\ seen' = [seen EXCEPT ![t] = Entry(t)]
               /\ Goto(t, "enq_head") /\ UNCHANGED entries_
      <4>1. seen'[t] = Entry(t) /\ pc'[t] = "enq_head"
        BY <3>2 DEF Goto, TypeOK
      <4> QED BY <2>0, <2>3, <3>2, <4>1, LookCore DEF EnqEntry
    <3>3. CASE ~Reusable(t) /\ Goto(t, "enq_ticket") /\ UNCHANGED entries_
      BY <2>0, <2>3, <3>3, QuietCore DEF EnqEntry, Goto
    <3> QED BY <2>3, <3>1, <3>2, <3>3 DEF EnqEntry
  <2>4. CASE EnqHead(t)
    <3>1. CASE NotPassed(t)
      BY <2>0, <2>4, <3>1, LookCore DEF EnqHead, Goto, ring, locals
    <3>2. CASE ~NotPassed(t)
      BY <2>0, <2>4, <3>2, QuietCore DEF EnqHead, Goto, ring
    <3> QED BY <3>1, <3>2
  <2>5. CASE EnqUnsafe(t)
    <3>1. CASE Entry(t) = seen[t] /\ Insert(t)
      <4>1. Reusable(t)
        BY <2>5, <3>1 DEF EnqUnsafe, Core, SeenOK, Reusable
      <4> QED BY <2>0, <2>5, <3>1, <4>1, InsertCore DEF EnqUnsafe
    <3>2. CASE Goto(t, "enq_load") /\ UNCHANGED entries_
      BY <2>0, <2>5, <3>2, QuietCore DEF EnqUnsafe, Goto
    <3> QED BY <2>5, <3>1, <3>2 DEF EnqUnsafe
  <2>6. CASE DeqTicket(t)
    BY <2>0, <2>6, DrawCore DEF DeqTicket, Goto, TypeOK
  <2>7. CASE DeqTake(t)
    <3>1. [Entry(t) EXCEPT !.index = RingMask] \in Entries
      BY EntryType DEF Entries
    <3>2. LooksAt(Entry(t), [Entry(t) EXCEPT !.index = RingMask], Cycle(ticket[t]))
      <4>1. /\ [Entry(t) EXCEPT !.index = RingMask].cycle = Entry(t).cycle
            /\ [Entry(t) EXCEPT !.index = RingMask].safe = Entry(t).safe
            /\ [Entry(t) EXCEPT !.index = RingMask].index = RingMask
        BY EntryType DEF Entries
      <4> QED BY <2>7, <4>1 DEF LooksAt, DeqTake
    <3>3. pc[t] = "deq_load" /\ pc'[t] = "idle" /\ head_' = head_
      BY <2>7 DEF DeqTake, Return, Goto
    <3> QED BY <2>0, <2>7, <3>1, <3>2, <3>3, LookedCore DEF DeqTake
  <2>8. CASE DeqPass(t)
    <3>0. pc[t] = "deq_load" /\ pc'[t] = "deq_tail" /\ head_' = head_
      BY <2>8 DEF DeqPass, Goto
    <3>1. CASE Entry(t).cycle < Cycle(ticket[t]) /\ SetEntry(t, Passed(t))
      <4>1. Entry(t) \in Entries /\ Cycle(ticket[t]) \in Int
        BY EntryType
      <4>2. CASE Entry(t).index # RingMask
        <5>1. Passed(t) = [Entry(t) EXCEPT !.safe = FALSE]
          BY <4>2 DEF Passed
        <5>2. /\ Passed(t) \in Entries /\ Passed(t).safe = FALSE
              /\ Passed(t).cycle = Entry(t).cycle /\ Passed(t).index = Entry(t).index
          BY <4>1, <5>1 DEF Entries
        <5> QED BY <2>0, <3>0, <3>1, <4>2, <5>2, LookedCore DEF LooksAt
      <4>3. CASE Entry(t).index = RingMask
        <5>1. Passed(t) = [Entry(t) EXCEPT !.cycle = Cycle(ticket[t])]
          BY <4>3 DEF Passed
        <5>2. /\ Passed(t) \in Entries /\ Passed(t).safe = Entry(t).safe
              /\ Passed(t).cycle = Cycle(ticket[t]) /\ Passed(t).index = Entry(t).index
          BY <4>1, <5>1 DEF Entries
        <5> QED BY <2>0, <3>0, <3>1, <4>3, <5>2, LookedCore DEF LooksAt
      <4> QED BY <4>2, <4>3
    <3>2. CASE Entry(t).cycle > Cycle(ticket[t]) /\ UNCHANGED entries_
      <4>1. SetEntry(t, Entry(t)) /\ Entry(t) \in Entries
        BY <3>2, EntryType DEF SetEntry, Entry, TypeOK
      <4>2. LooksAt(Entry(t), Entry(t), Cycle(ticket[t]))
        BY <3>2 DEF LooksAt
      <4> QED BY <2>0, <3>0, <4>1, <4>2, LookedCore
    <3> QED BY <2>8, <3>1, <3>2 DEF DeqPass
  <2> QED BY <1>3, <2>1, <2>2, <2>3, <2>4, <2>5, <2>6, <2>7, <2>8 DEF Step
<1> QED BY <1>1, <1>2, <1>3 DEF Act

LEMMA RingStutter == RingInv /\ UNCHANGED vars => RingInv'
<1> SUFFICES ASSUME RingInv, UNCHANGED vars PROVE RingInv'
  OBVIOUS
<1>1. TypeOK' /\ ThreadsOK'
  BY DEF RingInv, vars, TypeOK, ThreadsOK, Carrying
<1>2. WordsOK' /\ DequeuersOK'
  BY DEF RingInv, vars, WordsOK, DequeuersOK, TicketOf, Entry
<1>3. PassedClosed' /\ SeenOK' /\ CasOK'
  BY DEF RingInv, vars, PassedClosed, SeenOK, CasOK, Drawn, Pending, Entry
<1>4. NotStranded'
  BY DEF RingInv, vars, NotStranded, Stored, TicketOf
<1> QED BY <1>1, <1>2, <1>3, <1>4 DEF RingInv

(* Every reachable state of the ring satisfies the inductive invariant. *)
THEOREM RingInvariant == Spec => []RingInv
<1>1. RingInv /\ [Next]_vars => RingInv'
  <2>1. RingInv /\ Act /\ Observe => RingInv'
    BY TypeStep, CoreStep DEF RingInv, Core
  <2> QED BY <2>1, RingStutter DEF Next, Rest
<1> QED BY <1>1, TypeInit, PTL DEF Spec

(* try_dequeue and enqueue keep every word of the ring and every local in its
   type: only indices of slots leave the ring. *)
THEOREM TypeCorrect == Spec => []TypeOK
<1>1. RingInv => TypeOK
  BY DEF RingInv
<1> QED BY <1>1, RingInvariant, PTL

(* No interleaving of enqueuers, dequeuers and catch_up leaves a stored index
   behind the head with nobody due to collect it. *)
THEOREM NoneStranded == Spec => []NotStranded
<1>1. RingInv => NotStranded
  BY DEF RingInv
<1> QED BY <1>1, RingInvariant, PTL
-----------------------------------------------------------------------------
(* Conservation of the indices. *)

InRing(i) == {j \in Stored : entries_[j].index = i}
InHands(i) == {t \in Threads : Carrying(t) /\ index[t] = i}
WithUsers(i) == {i} \cap outside
Places(i) == Cardinality(InRing(i)) + Cardinality(InHands(i)) + Cardinality(WithUsers(i))

LEMMA FinitePlaces ==
    ASSUME NEW i
    PROVE  /\ IsFiniteSet(InRing(i)) /\ Cardinality(InRing(i)) \in Nat
           /\ IsFiniteSet(InHands(i)) /\ Cardinality(InHands(i)) \in Nat
           /\ IsFiniteSet(WithUsers(i)) /\ Cardinality(WithUsers(i)) \in Nat
<1>1. IsFiniteSet(Slots)
  BY RingNumbers, FS_Interval DEF Slots
<1>2. IsFiniteSet(Threads)
  BY RingAssumption, FS_Union DEF Threads
<1>3. IsFiniteSet(InRing(i)) /\ IsFiniteSet(InHands(i)) /\ IsFiniteSet(WithUsers(i))
  <2>1. InRing(i) \subseteq Slots /\ InHands(i) \subseteq Threads /\ WithUsers(i) \subseteq {i}
    BY DEF InRing, Stored, InHands, WithUsers
  <2> QED BY <1>1, <1>2, <2>1, FS_Subset, FS_Singleton
<1> QED BY <1>3, FS_CardinalityType

(* The index of no entry and the load of no thread has changed. *)
LEMMA Unmoved ==
    ASSUME TypeOK, ThreadsOK, NEW t \in Threads, Others(t), outside' = outside,
           \A j \in Slots : entries_'[j].index = entries_[j].index,
           Carrying(t)' <=> Carrying(t), Carrying(t) => index'[t] = index[t], IndexConserved
    PROVE  IndexConserved'
<1>1. ASSUME NEW i \in Indices
      PROVE  InRing(i)' = InRing(i) /\ InHands(i)' = InHands(i) /\ WithUsers(i)' = WithUsers(i)
  <2>1. InRing(i)' = InRing(i) /\ WithUsers(i)' = WithUsers(i)
    BY DEF InRing, Stored, WithUsers
  <2>2. \A u \in Threads : u # t => (Carrying(u)' <=> Carrying(u)) /\ index'[u] = index[u]
    BY DEF Others, Carrying
  <2> QED BY <2>1, <2>2 DEF InHands
<1>2. ASSUME NEW i \in Indices PROVE Places(i)' = 1
  BY <1>1 DEF Places, IndexConserved, InRing, InHands, WithUsers
<1> QED BY <1>2 DEF IndexConserved, Places, InRing, InHands, WithUsers

(* A user hands an index to an enqueue call. *)
LEMMA EnqueueMoves ==
    ASSUME TypeOK, ThreadsOK, IndexConserved, NEW t \in Threads, NEW k \in Indices, Enqueue(t, k)
    PROVE  IndexConserved'
<1> SUFFICES ASSUME NEW i \in Indices PROVE Places(i)' = 1
  BY DEF IndexConserved, Places, InRing, InHands, WithUsers
<1>0. Places(i) = 1
  BY DEF IndexConserved, Places, InRing, InHands, WithUsers
<1>1. InRing(i)' = InRing(i)
  BY DEF Enqueue, InRing, Stored
<1>2. ~Carrying(t) /\ Carrying(t)' /\ index'[t] = k
  BY DEF Enqueue, DrawTail, Goto, Carrying, TypeOK, ThreadsOK
<1>3. \A u \in Threads : u # t => (Carrying(u)' <=> Carrying(u)) /\ index'[u] = index[u]
  BY DEF Enqueue, DrawTail, Goto, Carrying, TypeOK, ThreadsOK
<1>4. CASE i = k
  <2>1. InHands(i)' = InHands(i) \cup {t} /\ t \notin InHands(i)
    BY <1>2, <1>3, <1>4 DEF InHands
  <2>2. Cardinality(InHands(i)') = Cardinality(InHands(i)) + 1
    BY <2>1, FinitePlaces, FS_AddElement
  <2>3. WithUsers(i) = {i} /\ WithUsers(i)' = {}
    BY <1>4 DEF Enqueue, WithUsers
  <2>4. Cardinality(WithUsers(i)) = 1 /\ Cardinality(WithUsers(i)') = 0
    BY <2>3, FS_Singleton, FS_EmptySet
  <2> QED BY <1>0, <1>1, <2>2, <2>4, FinitePlaces DEF Places
<1>5. CASE i # k
  <2>1. InHands(i)' = InHands(i)
    BY <1>2, <1>3, <1>5 DEF InHands
  <2>2. WithUsers(i)' = WithUsers(i)
    BY <1>5 DEF Enqueue, WithUsers
  <2> QED BY <1>0, <1>1, <2>1, <2>2 DEF Places
<1> QED BY <1>4, <1>5

(* The compare-exchange of an enqueuer moves its index into a consumed entry. *)
LEMMA InsertMoves ==
    ASSUME TypeOK, ThreadsOK, IndexConserved, NEW t \in Threads, Others(t), Insert(t),
           Carrying(t), Reusable(t), outside' = outside
    PROVE  IndexConserved'
<1> SUFFICES ASSUME NEW i \in Indices PROVE Places(i)' = 1
  BY DEF IndexConserved, Places, InRing, InHands, WithUsers
<1> DEFINE j0 == Slot(ticket[t])
           k == index[t]
<1>0. Places(i) = 1 /\ i # RingMask
  BY RingNumbers DEF IndexConserved, Places, InRing, InHands, WithUsers
<1>1. WithUsers(i)' = WithUsers(i)
  BY DEF WithUsers
<1>2. k \in Indices /\ k # RingMask /\ j0 \in Slots
  BY EntryType, RingNumbers DEF ThreadsOK
<1>3. entries_[j0].index = RingMask /\ entries_'[j0].index = k
  BY <1>2, NewEntry DEF Reusable, Entry, Insert
<1>4. \A j \in Slots : j # j0 => entries_'[j] = entries_[j]
  BY NewEntry DEF Insert
<1>5. ~Carrying(t)'
  BY DEF Insert, Goto, Carrying, ThreadsOK
<1>6. \A u \in Threads : u # t => (Carrying(u)' <=> Carrying(u)) /\ index'[u] = index[u]
  BY DEF Others, Carrying
<1>7. CASE i = k
  <2>1. InRing(i)' = InRing(i) \cup {j0} /\ j0 \notin InRing(i)
    BY <1>0, <1>2, <1>3, <1>4, <1>7 DEF InRing, Stored
  <2>2. Cardinality(InRing(i)') = Cardinality(InRing(i)) + 1
    BY <2>1, FinitePlaces, FS_AddElement
  <2>3. InHands(i)' = InHands(i) \ {t} /\ t \in InHands(i)
    BY <1>5, <1>6, <1>7 DEF InHands
  <2>4. Cardinality(InHands(i)') = Cardinality(InHands(i)) - 1
    BY <2>3, FinitePlaces, FS_RemoveElement
  <2> QED BY <1>0, <1>1, <2>2, <2>4, FinitePlaces DEF Places
<1>8. CASE i # k
  <2>1. InRing(i)' = InRing(i)
    BY <1>0, <1>2, <1>3, <1>4, <1>8 DEF InRing, Stored
  <2>2. InHands(i)' = InHands(i)
    BY <1>5, <1>6, <1>8 DEF InHands
  <2> QED BY <1>0, <1>1, <2>1, <2>2 DEF Places
<1> QED BY <1>7, <1>8

(* A dequeuer takes an index out of the entry and gives it to its caller. *)
LEMMA TakeMoves ==
    ASSUME TypeOK, ThreadsOK, DequeuersOK, IndexConserved, NEW t \in Threads, DeqTake(t)
    PROVE  IndexConserved'
<1> SUFFICES ASSUME NEW i \in Indices PROVE Places(i)' = 1
  BY DEF IndexConserved, Places, InRing, InHands, WithUsers
<1> DEFINE j0 == Slot(ticket[t])
           k == entries_[j0].index
<1>0. Places(i) = 1 /\ i # RingMask
  BY RingNumbers DEF IndexConserved, Places, InRing, InHands, WithUsers
<1>s. Stored \subseteq Slots /\ Stored' \subseteq Slots
  BY DEF Stored
<1>1. j0 \in Slots /\ k # RingMask
  BY EntryType DEF DequeuersOK, DeqTake, Entry
<1>2. \A j \in Slots : j # j0 => entries_'[j] = entries_[j]
  BY NewEntry DEF DeqTake
<1>3. entries_'[j0].index = RingMask
  <2>1. entries_'[j0] = [Entry(t) EXCEPT !.index = RingMask]
    BY <1>1, NewEntry DEF DeqTake
  <2> QED BY <2>1, EntryType DEF Entries
<1>4. outside' = outside \cup {k}
  BY DEF DeqTake, Taken, Entry
<1>5. InHands(i)' = InHands(i)
  <2>1. ~Carrying(t) /\ ~Carrying(t)'
    BY DEF DeqTake, Return, Goto, Carrying, ThreadsOK
  <2>2. \A u \in Threads : u # t => (Carrying(u)' <=> Carrying(u)) /\ index'[u] = index[u]
    BY DEF DeqTake, Return, Goto, Carrying, ThreadsOK, TypeOK
  <2> QED BY <2>1, <2>2 DEF InHands
<1>6. CASE i = k
  <2>1. InRing(i)' = InRing(i) \ {j0} /\ j0 \in InRing(i)
    <3>1. j0 \in InRing(i)
      <4>1. j0 \in Stored
        BY <1>1 DEF Stored
      <4> QED BY <1>1, <1>6, <4>1 DEF InRing
    <3>2. ASSUME NEW j \in Slots PROVE (j \in Stored' /\ entries_'[j].index = i) <=> (j \in Stored /\ entries_[j].index = i /\ j # j0)
      BY <1>0, <1>2, <1>3 DEF Stored
    <3>3. InRing(i)' = InRing(i) \ {j0}
      BY <1>s, <3>2 DEF InRing
    <3> QED BY <3>1, <3>3
  <2>2. Cardinality(InRing(i)') = Cardinality(InRing(i)) - 1
    <3>1. Cardinality(InRing(i) \ {j0}) = Cardinality(InRing(i)) - 1
      BY <2>1, FinitePlaces, FS_RemoveElement
    <3> QED BY <2>1, <3>1
  <2>3. Cardinality(InRing(i)) # 0
    BY <2>1, FinitePlaces, FS_EmptySet
  <2>4. Cardinality(WithUsers(i)) = 0
    BY <1>0, <2>3, FinitePlaces DEF Places
  <2>5. WithUsers(i)' = {i}
    BY <1>4, <1>6 DEF WithUsers
  <2>6. Cardinality(WithUsers(i)') = 1
    BY <2>5, FS_Singleton
  <2> QED BY <1>0, <1>5, <2>2, <2>4, <2>6, FinitePlaces DEF Places
<1>7. CASE i # k
  <2>1. InRing(i)' = InRing(i)
    <3>1. ASSUME NEW j \in Slots PROVE (j \in Stored' /\ entries_'[j].index = i) <=> (j \in Stored /\ entries_[j].index = i)
      BY <1>0, <1>2, <1>3, <1>7 DEF Stored
    <3> QED BY <1>s, <3>1 DEF InRing
  <2>2. WithUsers(i)' = WithUsers(i)
    BY <1>4, <1>7 DEF WithUsers
  <2> QED BY <1>0, <1>5, <2>1, <2>2 DEF Places
<1> QED BY <1>6, <1>7

LEMMA ConservedInit == Init => IndexConserved
<1> SUFFICES ASSUME Init, NEW i \in Indices PROVE Places(i) = 1
  BY DEF IndexConserved, Places, InRing, InHands, WithUsers
<1>1. InHands(i) = {}
  BY DEF Init, InHands, Carrying
<1>2. PICK full \in Initials :
           /\ entries_ = [j \in Slots |-> IF full /\ j \in Indices
                                          THEN [cycle |-> 0, safe |-> TRUE, index |-> j] ELSE Fresh]
           /\ outside = (IF full THEN {} ELSE Indices)
  BY DEF Init
<1>3. i \in Slots /\ i # RingMask
  BY RingAssumption, RingNumbers DEF Indices, Slots, RingMask, RingSize
<1>4. CASE full
  <2>1. InRing(i) = {i} /\ WithUsers(i) = {}
    BY <1>2, <1>3, <1>4 DEF InRing, Stored, WithUsers, Fresh
  <2>2. Cardinality({i}) = 1 /\ Cardinality({}) = 0
    BY FS_Singleton, FS_EmptySet
  <2> QED BY <1>1, <2>1, <2>2 DEF Places
<1>5. CASE ~full
  <2>1. InRing(i) = {} /\ WithUsers(i) = {i}
    BY <1>2, <1>3, <1>5 DEF InRing, Stored, WithUsers, Fresh
  <2>2. Cardinality({i}) = 1 /\ Cardinality({}) = 0
    BY FS_Singleton, FS_EmptySet
  <2> QED BY <1>1, <2>1, <2>2 DEF Places
<1> QED BY <1>4, <1>5

LEMMA ConservedStep ==
    ASSUME TypeOK, ThreadsOK, DequeuersOK, SeenOK, IndexConserved, Act
    PROVE  IndexConserved'
<1>1. ASSUME NEW t \in Enqueuers, NEW i \in Indices, Enqueue(t, i) PROVE IndexConserved'
  BY <1>1, EnqueueMoves DEF Threads
<1>2. ASSUME NEW t \in Dequeuers, Dequeue(t) PROVE IndexConserved'
  <2>1. t \in Threads
    BY DEF Threads
  <2>2. Others(t)
    BY <1>2, <2>1, Frame
  <2>3. outside' = outside /\ entries_' = entries_ /\ ~Carrying(t) /\ ~Carrying(t)'
    BY <1>2, <2>1 DEF Dequeue, ring, Goto, Carrying, ThreadsOK
  <2> QED BY <2>1, <2>2, <2>3, Unmoved
<1>3. ASSUME NEW t \in Threads, Step(t) PROVE IndexConserved'
  <2>0. Others(t)
    BY <1>3, Frame
  <2>1. CASE EnqTicket(t) \/ EnqHead(t)
    <3>1. /\ outside' = outside /\ entries_' = entries_ /\ Carrying(t) /\ Carrying(t)'
          /\ index' = index
      BY <2>1 DEF EnqTicket, EnqHead, DrawTail, Goto, ring, locals, calls, Carrying, ThreadsOK
    <3> QED BY <2>0, <3>1, Unmoved
  <2>2. CASE EnqThreshold(t) \/ EnqArm(t) \/ DeqTicket(t) \/ DeqTail(t) \/ DeqNone(t) \/ DeqThreshold(t)
    <3>1. outside' = outside /\ entries_' = entries_ /\ ~Carrying(t) /\ ~Carrying(t)'
      BY <2>2 DEF EnqThreshold, EnqArm, DeqTicket, DeqTail, DeqNone, DeqThreshold, ReturnNone,
                  Return, Goto, ring, calls, Carrying, ThreadsOK
    <3> QED BY <2>0, <3>1, Unmoved
  <2>3. CASE CatchUp(t) \/ CatchHead(t) \/ CatchTail(t)
    <3>1. outside' = outside /\ entries_' = entries_ /\ ~Carrying(t) /\ ~Carrying(t)'
      BY <2>3 DEF CatchUp, CatchHead, CatchTail, Goto, ring, calls, Carrying, ThreadsOK
    <3> QED BY <2>0, <3>1, Unmoved
  <2>4. CASE EnqEntry(t)
    <3>1. Carrying(t) /\ outside' = outside /\ index' = index
      BY <2>4 DEF EnqEntry, calls, Carrying
    <3>2. CASE Reusable(t) /\ Insert(t)
      BY <2>0, <3>1, <3>2, InsertMoves
    <3>3. CASE UNCHANGED entries_ /\ (Goto(t, "enq_head") \/ Goto(t, "enq_ticket"))
      <4>1. Carrying(t)'
        BY <3>3 DEF Goto, Carrying, ThreadsOK
      <4> QED BY <2>0, <3>1, <3>3, <4>1, Unmoved
    <3> QED BY <2>4, <3>2, <3>3 DEF EnqEntry
  <2>5. CASE EnqUnsafe(t)
    <3>1. Carrying(t) /\ outside' = outside /\ index' = index
      BY <2>5 DEF EnqUnsafe, calls, Carrying
    <3>2. CASE Entry(t) = seen[t] /\ Insert(t)
      <4>1. Reusable(t)
        BY <2>5, <3>2 DEF EnqUnsafe, SeenOK, Reusable
      <4> QED BY <2>0, <3>1, <3>2, <4>1, InsertMoves
    <3>3. CASE UNCHANGED entries_ /\ Goto(t, "enq_load")
      <4>1. Carrying(t)'
        BY <3>3 DEF Goto, Carrying, ThreadsOK
      <4> QED BY <2>0, <3>1, <3>3, <4>1, Unmoved
    <3> QED BY <2>5, <3>2, <3>3 DEF EnqUnsafe
  <2>6. CASE DeqTake(t)
    BY <2>6, TakeMoves
  <2>7. CASE DeqPass(t)
    <3>1. outside' = outside /\ ~Carrying(t) /\ ~Carrying(t)'
      BY <2>7 DEF DeqPass, Goto, calls, Carrying, ThreadsOK
    <3>2. \A j \in Slots : entries_'[j].index = entries_[j].index
      <4>1. CASE SetEntry(t, Passed(t))
        <5>1. /\ [Entry(t) EXCEPT !.safe = FALSE].index = Entry(t).index
              /\ [Entry(t) EXCEPT !.cycle = Cycle(ticket[t])].index = Entry(t).index
          BY EntryType DEF Entries
        <5>2. Passed(t).index = entries_[Slot(ticket[t])].index
          BY <5>1 DEF Passed, Entry
        <5> QED BY <4>1, <5>2, NewEntry
      <4> QED BY <2>7, <4>1 DEF DeqPass
    <3> QED BY <2>0, <3>1, <3>2, Unmoved
  <2> QED BY <1>3, <2>1, <2>2, <2>3, <2>4, <2>5, <2>6, <2>7 DEF Step
<1> QED BY <1>1, <1>2, <1>3 DEF Act

(* The ring neither loses nor duplicates an index: at every moment each is with
   a user, carried by one enqueue call or in one entry. *)
THEOREM IndicesConserved == Spec => []IndexConserved
<1>1. RingInv /\ IndexConserved /\ [Next]_vars => IndexConserved'
  <2>1. RingInv /\ IndexConserved /\ Act => IndexConserved'
    BY ConservedStep DEF RingInv
  <2>2. IndexConserved /\ UNCHANGED vars => IndexConserved'
    BY DEF IndexConserved, vars, Stored, Carrying
  <2> QED BY <2>1, <2>2 DEF Next, Rest
<1> QED BY <1>1, ConservedInit, RingInvariant, PTL DEF Spec
=============================================================================
