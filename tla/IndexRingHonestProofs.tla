------------------------ MODULE IndexRingHonestProofs ------------------------
(***************************************************************************)
(* Enqueuers of the ring never get more than a round ahead of the head,    *)
(* and with no more dequeuers than indices try_dequeue is honest: it comes *)
(* back empty-handed only if the ring was empty at some moment of the      *)
(* call.  Both hold for every capacity, every number of enqueuers and      *)
(* every number of calls; with more dequeuers the second is false.         *)
(*                                                                         *)
(* The tickets from the head up to the tail form the window.  A ticket of  *)
(* the window is in place in its entry, carried by an enqueuer, or skipped.*)
(* The first two kinds hold different indices, so there are at most        *)
(* Capacity of them.  A ticket of the window is skipped only because its   *)
(* entry still holds an index of an earlier cycle; that index blocked the  *)
(* ticket, and if it comes back into the ring, then with a later ticket.   *)
(* So no index blocks two tickets of a window that fits into the ring      *)
(* (SkipOK), there are at most Capacity skipped tickets, and the window    *)
(* fits into the ring.  Then the threshold an enqueuer arms pays for the   *)
(* way to its ticket and for the dequeuers that may still lower it         *)
(* (ThresholdOK), and a spent threshold means that nothing waits.          *)
(***************************************************************************)
EXTENDS IndexRingProofs

(* The tickets that are handed out to enqueuers and not yet to dequeuers. *)
Window == head_..(tail_ - 1)

(* What a ticket of the window has become. *)
InPlace(x) == entries_[Slot(x)].index # RingMask /\ entries_[Slot(x)].cycle = Cycle(x)
Drawing(t) == pc[t] \in {"enq_load", "enq_head", "enq_cas"}
Carried(x) == \E t \in Threads : Drawing(t) /\ ticket[t] = x
Skipped == {x \in Window : ~InPlace(x) /\ ~Carried(x)}

DequeueLabels == {"deq_ticket", "deq_load", "deq_tail", "catch_up", "catch_head", "catch_tail",
                  "deq_none", "deq_threshold"}

(* The dequeuers that have drawn a ticket and may still lower the threshold. *)
Late == {t \in Threads : pc[t] \in DequeueLabels \ {"deq_ticket"}}

(* Tickets in the ring and in the hands of enqueuers are below the tail. *)
TailOK ==
    /\ \A j \in Stored : TicketOf(j) < tail_
    /\ \A t \in Threads : Drawing(t) => ticket[t] < tail_

(* What a dequeuer knows of the head; catch_up never lowers the tail. *)
HeadOK ==
    \A t \in Threads :
        /\ pc[t] \in DequeueLabels => t \in Dequeuers
        /\ pc[t] = "deq_tail" => ticket[t] < head_
        /\ pc[t] \in {"catch_up", "catch_tail"} => behind[t].head <= head_
        /\ pc[t] = "catch_up" => behind[t].tail <= behind[t].head

(* Index i blocked ticket x: it is where x would have gone, or it has left that
   entry and will get, or has got, a later ticket. *)
Blocked(i, x) ==
    /\ \A j \in Stored : entries_[j].index = i => TicketOf(j) > x \/ j = Slot(x)
    /\ \A t \in Threads : Drawing(t) /\ index[t] = i => ticket[t] > x

(* The skipped tickets were blocked by different indices. *)
Blame(g) ==
    /\ \A x, y \in Skipped : g[x] = g[y] => x = y
    /\ \A x \in Skipped : Blocked(g[x], x)
SkipOK == \E g \in [Skipped -> Indices] : Blame(g)

(* A dequeuer that found the tail overtaken has seen the ring empty. *)
SeenEmpty ==
    \A t \in Threads : pc[t] \in {"catch_up", "catch_head", "catch_tail", "deq_none"} => empty_seen[t]

(* The threshold is not spent before the dequeuers reach what waits. *)
ThresholdOK == \A j \in Waiting : threshold_ >= TicketOf(j) - head_ + Cardinality(Late)

(* The inductive invariants: tickets, on top of the invariants of
   IndexRingProofs, and the threshold. *)
TicketInv == RingInv /\ IndexConserved /\ TailOK /\ HeadOK /\ SkipOK
HonestInv == TicketInv /\ SeenEmpty /\ ThresholdOK /\ HonestEmpty
-----------------------------------------------------------------------------
(* Tickets of one slot are a multiple of the ring size apart. *)
LEMMA SlotsApart ==
    ASSUME NEW m \in Nat, NEW n \in Nat, Slot(m) = Slot(n), Cycle(m) > Cycle(n)
    PROVE  m >= n + RingSize
<1>1. \A a, b, s \in Nat : a > b => a * RingSize + s >= b * RingSize + s + RingSize
  <2> SUFFICES ASSUME NEW a \in Nat, NEW b \in Nat, NEW s \in Nat, a > b
               PROVE  a * RingSize + s >= b * RingSize + s + RingSize
    OBVIOUS
  <2>1. PICK d \in Nat : a = b + 1 + d
    <3>1. a - b - 1 \in Nat /\ a = b + 1 + (a - b - 1)
      OBVIOUS
    <3> QED BY <3>1
  <2>2. a * RingSize = b * RingSize + RingSize + d * RingSize /\ d * RingSize >= 0
    BY <2>1, RingNumbers
  <2> QED BY <2>2, RingNumbers
<1>2. Cycle(m) \in Nat /\ Cycle(n) \in Nat /\ Slot(m) \in Nat
  BY SlotCycle, RingNumbers DEF Slots
<1>3. m = Cycle(m) * RingSize + Slot(m) /\ n = Cycle(n) * RingSize + Slot(n)
  BY SlotCycle
<1> QED BY <1>1, <1>2, <1>3

(* The ticket of a stored index. *)
LEMMA StoredTicket ==
    ASSUME TypeOK, WordsOK, NEW j \in Stored
    PROVE  /\ j \in Slots /\ entries_[j].cycle \in Nat /\ entries_[j].index \in Indices
           /\ TicketOf(j) \in Nat /\ Slot(TicketOf(j)) = j /\ Cycle(TicketOf(j)) = entries_[j].cycle
<1>1. j \in Slots /\ entries_[j].cycle \in Nat /\ entries_[j].index # RingMask
  BY DEF Stored, WordsOK
<1>2. entries_[j] \in Entries
  BY <1>1 DEF TypeOK
<1>3. entries_[j].index \in Indices
  BY <1>1, <1>2 DEF Entries
<1> QED BY <1>1, <1>3, TicketParts DEF TicketOf

(* A ticket in place is the ticket of its entry. *)
LEMMA InPlaceTicket ==
    ASSUME TypeOK, NEW x \in Nat, InPlace(x)
    PROVE  Slot(x) \in Stored /\ TicketOf(Slot(x)) = x
BY SlotCycle DEF InPlace, Stored, TicketOf

(* Every index is in one place. *)
LEMMA IndexOnce ==
    ASSUME TypeOK, ThreadsOK, WordsOK, IndexConserved
    PROVE  /\ \A j, k \in Stored : entries_[j].index = entries_[k].index => j = k
           /\ \A t, u \in Threads : Carrying(t) /\ Carrying(u) /\ index[t] = index[u] => t = u
           /\ \A j \in Stored, t \in Threads : Carrying(t) => entries_[j].index # index[t]
<1>0. ASSUME NEW i \in Indices
      PROVE  Cardinality(InRing(i)) + Cardinality(InHands(i)) <= 1
  <2>1. Places(i) = 1
    BY DEF IndexConserved, Places, InRing, InHands, WithUsers
  <2> QED BY <2>1, FinitePlaces DEF Places
<1>1. ASSUME NEW S, IsFiniteSet(S), Cardinality(S) <= 1, NEW a \in S, NEW b \in S PROVE a = b
  <2>1. Cardinality(S) \in Nat /\ Cardinality(S) # 0
    BY <1>1, FS_CardinalityType, FS_EmptySet
  <2>2. Cardinality(S) = 1
    BY <1>1, <2>1
  <2>3. PICK x : S = {x}
    BY <1>1, <2>2, FS_Singleton
  <2> QED BY <2>3, <1>1
<1>2. ASSUME NEW j \in Stored, NEW k \in Stored, entries_[j].index = entries_[k].index PROVE j = k
  <2> DEFINE i == entries_[j].index
  <2>1. i \in Indices /\ j \in InRing(i) /\ k \in InRing(i)
    BY <1>2, StoredTicket DEF InRing
  <2>2. IsFiniteSet(InRing(i)) /\ Cardinality(InRing(i)) <= 1
    BY <1>0, <2>1, FinitePlaces
  <2> HIDE DEF i
  <2> QED BY <1>1, <2>1, <2>2
<1>3. ASSUME NEW t \in Threads, NEW u \in Threads, Carrying(t), Carrying(u), index[t] = index[u] PROVE t = u
  <2> DEFINE i == index[t]
  <2>1. i \in Indices /\ t \in InHands(i) /\ u \in InHands(i)
    BY <1>3 DEF InHands, ThreadsOK
  <2>2. IsFiniteSet(InHands(i)) /\ Cardinality(InHands(i)) <= 1
    BY <1>0, <2>1, FinitePlaces
  <2> HIDE DEF i
  <2> QED BY <1>1, <2>1, <2>2
<1>4. ASSUME NEW j \in Stored, NEW t \in Threads, Carrying(t), entries_[j].index = index[t] PROVE FALSE
  <2> DEFINE i == index[t]
  <2>1. i \in Indices /\ t \in InHands(i) /\ j \in InRing(i)
    BY <1>4 DEF InHands, InRing, ThreadsOK
  <2>2. Cardinality(InHands(i)) # 0 /\ Cardinality(InRing(i)) # 0
    BY <2>1, FinitePlaces, FS_EmptySet
  <2> QED BY <1>0, <2>1, <2>2, FinitePlaces
<1> QED BY <1>2, <1>3, <1>4

(* The index a ticket of the window stands for. *)
Bearer(x) == CHOOSE t \in Threads : Drawing(t) /\ ticket[t] = x
IndexOf(x) == IF InPlace(x) THEN entries_[Slot(x)].index ELSE index[Bearer(x)]

(* Tickets in place or carried stand for different indices. *)
LEMMA Spread ==
    ASSUME TypeOK, ThreadsOK, WordsOK, IndexConserved,
           NEW X \in SUBSET Nat, NEW S \in SUBSET Indices,
           \A x \in X : (InPlace(x) \/ Carried(x)) /\ IndexOf(x) \in S
    PROVE  IsFiniteSet(X) /\ IsFiniteSet(S) /\ Cardinality(X) <= Cardinality(S)
<1> DEFINE f == [x \in X |-> IndexOf(x)]
<1>1. ASSUME NEW x \in X, ~InPlace(x)
      PROVE  /\ Bearer(x) \in Threads /\ Carrying(Bearer(x)) /\ ticket[Bearer(x)] = x
             /\ IndexOf(x) = index[Bearer(x)]
  BY <1>1 DEF Carried, Bearer, Drawing, Carrying, IndexOf
<1>2. ASSUME NEW x \in X, InPlace(x)
      PROVE  Slot(x) \in Stored /\ TicketOf(Slot(x)) = x /\ IndexOf(x) = entries_[Slot(x)].index
  BY <1>2, InPlaceTicket DEF IndexOf
<1>3. ASSUME NEW x \in X, NEW y \in X, IndexOf(x) = IndexOf(y) PROVE x = y
  <2>1. CASE InPlace(x) /\ InPlace(y)
    BY <1>2, <1>3, <2>1, IndexOnce
  <2>2. CASE InPlace(x) /\ ~InPlace(y)
    BY <1>1, <1>2, <1>3, <2>2, IndexOnce
  <2>3. CASE ~InPlace(x) /\ InPlace(y)
    BY <1>1, <1>2, <1>3, <2>3, IndexOnce
  <2>4. CASE ~InPlace(x) /\ ~InPlace(y)
    <3>1. Bearer(x) = Bearer(y)
      BY <1>1, <1>3, <2>4, IndexOnce
    <3> QED BY <1>1, <2>4, <3>1
  <2> QED BY <2>1, <2>2, <2>3, <2>4
<1>4. f \in Injection(X, S)
  <2>1. f \in [X -> S]
    OBVIOUS
  <2>2. \A x, y \in X : f[x] = f[y] => x = y
    BY <1>3
  <2> QED BY <2>1, <2>2 DEF Injection, IsInjective
<1>5. IsFiniteSet(Indices)
  BY RingAssumption, FS_Interval DEF Indices
<1>6. IsFiniteSet(S)
  BY <1>5, FS_Subset
<1> HIDE DEF f
<1> QED BY <1>4, <1>6, FS_Injection

(* The window has room for every index and a ticket every index has blocked. *)
LEMMA WindowBound ==
    ASSUME TicketInv
    PROVE  tail_ - head_ <= RingSize
<1>0. TypeOK /\ ThreadsOK /\ WordsOK /\ IndexConserved /\ SkipOK /\ head_ \in Nat /\ tail_ \in Nat
  BY DEF TicketInv, RingInv, TypeOK
<1>n. /\ IsFiniteSet(Indices) /\ Cardinality(Indices) = Capacity
      /\ Capacity \in Nat /\ RingSize = 2 * Capacity
  BY RingAssumption, FS_Interval DEF Indices, RingSize
<1> DEFINE Live == Window \ Skipped
<1>1. /\ IsFiniteSet(Window)
      /\ Cardinality(Window) = IF head_ > tail_ - 1 THEN 0 ELSE (tail_ - 1) - head_ + 1
  BY <1>0, FS_Interval DEF Window
<1>2. IsFiniteSet(Live) /\ Cardinality(Live) <= Capacity
  <2>1. Live \in SUBSET Nat /\ \A x \in Live : InPlace(x) \/ Carried(x)
    BY <1>0 DEF Window, Skipped
  <2>2. ASSUME NEW x \in Live PROVE IndexOf(x) \in Indices
    <3>1. CASE InPlace(x)
      <4>1. Slot(x) \in Stored
        BY <1>0, <2>1, <3>1, InPlaceTicket
      <4> QED BY <1>0, <3>1, <4>1, StoredTicket DEF IndexOf
    <3>2. CASE ~InPlace(x)
      <4>1. Bearer(x) \in Threads /\ Carrying(Bearer(x)) /\ IndexOf(x) = index[Bearer(x)]
        BY <2>1, <3>2 DEF Carried, Bearer, Drawing, Carrying, IndexOf
      <4> QED BY <1>0, <4>1 DEF ThreadsOK
    <3> QED BY <3>1, <3>2
  <2> HIDE DEF Live
  <2>3. Cardinality(Live) <= Cardinality(Indices) /\ IsFiniteSet(Live)
    BY <1>0, <2>1, <2>2, Spread
  <2> QED BY <1>n, <2>3
<1>3. IsFiniteSet(Skipped) /\ Cardinality(Skipped) <= Capacity
  <2>1. PICK g \in [Skipped -> Indices] : Blame(g)
    BY <1>0 DEF SkipOK
  <2>2. g \in Injection(Skipped, Indices)
    BY <2>1 DEF Blame, Injection, IsInjective
  <2> QED BY <1>n, <2>2, FS_Injection
<1>4. Cardinality(Window) <= 2 * Capacity
  <2>1. Window = Live \cup Skipped
    BY DEF Skipped
  <2>2. Cardinality(Live) \in Nat /\ Cardinality(Skipped) \in Nat /\ Cardinality(Live \cap Skipped) \in Nat
    <3>1. IsFiniteSet(Live \cap Skipped)
      BY <1>2, FS_Intersection
    <3> QED BY <1>2, <1>3, <3>1, FS_CardinalityType
  <2> HIDE DEF Live
  <2>3. Cardinality(Live \cup Skipped) = Cardinality(Live) + Cardinality(Skipped) - Cardinality(Live \cap Skipped)
    BY <1>2, <1>3, FS_Union
  <2> QED BY <1>n, <1>2, <1>3, <2>1, <2>2, <2>3
<1> QED BY <1>0, <1>n, <1>1, <1>4
-----------------------------------------------------------------------------
(* Tickets stay below the tail. *)
LEMMA TailKept ==
    ASSUME TypeOK, ThreadsOK, TailOK, NEW t \in Threads, Others(t), tail_ \in Nat, tail_' \in Nat,
           tail_ <= tail_',
           Drawing(t)' => ticket'[t] < tail_' /\ ticket'[t] \in Nat,
           \A j \in Stored' : (j \in Stored /\ TicketOf(j)' = TicketOf(j)) \/ TicketOf(j)' < tail_',
           \A j \in Stored : TicketOf(j) \in Int
    PROVE  TailOK'
<1>1. ASSUME NEW j \in Stored' PROVE TicketOf(j)' < tail_'
  BY <1>1 DEF TailOK
<1>2. ASSUME NEW u \in Threads, Drawing(u)' PROVE ticket'[u] < tail_'
  <2>1. CASE u = t
    BY <1>2, <2>1
  <2>2. CASE u # t
    <3>1. Drawing(u) /\ ticket'[u] = ticket[u] /\ ticket[u] \in Nat
      BY <1>2, <2>2 DEF Drawing, Others, TypeOK
    <3> QED BY <3>1 DEF TailOK
  <2> QED BY <2>1, <2>2
<1> QED BY <1>1, <1>2 DEF TailOK

(* Indices put into the ring lie below the tail. *)
LEMMA InsertTail ==
    ASSUME RingInv, TailOK, NEW t \in Threads, Insert(t), Drawing(t), ticket' = ticket
    PROVE  \A j \in Stored' : (j \in Stored /\ TicketOf(j)' = TicketOf(j)) \/ TicketOf(j)' < tail_
<1> DEFINE x == ticket[t]
<1>0. TypeOK /\ x \in Nat /\ Slot(x) \in Slots /\ x < tail_
  BY EntryType DEF RingInv, TailOK
<1>1. entries_'[Slot(x)].cycle = Cycle(x)
  BY <1>0, NewEntry DEF Insert
<1>2. TicketOf(Slot(x))' = x
  BY <1>0, <1>1, SlotCycle DEF TicketOf
<1>3. \A j \in Slots : j # Slot(x) => entries_'[j] = entries_[j]
  BY <1>0, NewEntry DEF Insert
<1>4. ASSUME NEW j \in Stored', j # Slot(x) PROVE j \in Stored /\ TicketOf(j)' = TicketOf(j)
  BY <1>3, <1>4 DEF Stored, TicketOf
<1> QED BY <1>0, <1>2, <1>4

(* A dequeuer that comes too early changes no stored ticket. *)
LEMMA PassKeeps ==
    ASSUME TypeOK, NEW t \in Threads, DeqPass(t), NEW j \in Slots
    PROVE  /\ entries_'[j].index = entries_[j].index
           /\ entries_[j].index # RingMask => entries_'[j].cycle = entries_[j].cycle
<1>1. /\ [Entry(t) EXCEPT !.safe = FALSE].index = Entry(t).index
      /\ [Entry(t) EXCEPT !.safe = FALSE].cycle = Entry(t).cycle
      /\ [Entry(t) EXCEPT !.cycle = Cycle(ticket[t])].index = Entry(t).index
  BY EntryType DEF Entries
<1>2. Passed(t).index = Entry(t).index /\ (Entry(t).index # RingMask => Passed(t).cycle = Entry(t).cycle)
  BY <1>1 DEF Passed
<1>3. CASE SetEntry(t, Passed(t))
  BY <1>2, <1>3, NewEntry DEF Entry
<1>4. CASE entries_' = entries_
  BY <1>4
<1> QED BY <1>3, <1>4 DEF DeqPass

(* A dequeuer that takes its index leaves the other entries alone. *)
LEMMA TakeKeeps ==
    ASSUME TypeOK, NEW t \in Threads, DeqTake(t), NEW j \in Slots
    PROVE  entries_'[j] = entries_[j] \/ entries_'[j].index = RingMask
<1>1. [Entry(t) EXCEPT !.index = RingMask].index = RingMask
  BY EntryType DEF Entries
<1>2. SetEntry(t, [Entry(t) EXCEPT !.index = RingMask])
  BY DEF DeqTake
<1>3. CASE j = Slot(ticket[t])
  <2>1. entries_'[j] = [Entry(t) EXCEPT !.index = RingMask]
    BY <1>2, <1>3, NewEntry
  <2> QED BY <1>1, <2>1
<1>4. CASE j # Slot(ticket[t])
  BY <1>2, <1>4, NewEntry
<1> QED BY <1>3, <1>4

LEMMA TailStep ==
    ASSUME RingInv, TailOK, HeadOK, Act
    PROVE  TailOK' /\ tail_ <= tail_'
<1>0. TypeOK /\ ThreadsOK /\ WordsOK /\ tail_ \in Nat /\ head_ \in Nat
  BY DEF RingInv, TypeOK
<1>s. \A j \in Stored : TicketOf(j) \in Int
  BY <1>0, StoredTicket
<1>e. ASSUME entries_' = entries_
      PROVE  \A j \in Stored' : j \in Stored /\ TicketOf(j)' = TicketOf(j)
  BY <1>e DEF Stored, TicketOf
<1>1. ASSUME NEW t \in Threads, (\E i \in Indices : Enqueue(t, i)) \/ EnqTicket(t)
      PROVE  TailOK' /\ tail_ <= tail_'
  <2>1. Others(t)
    BY <1>0, <1>1, Frame DEF Step
  <2>2. entries_' = entries_ /\ tail_' = tail_ + 1 /\ ticket'[t] = tail_
    BY <1>0, <1>1 DEF Enqueue, EnqTicket, DrawTail, TypeOK
  <2> QED BY <1>0, <1>s, <1>e, <2>1, <2>2, TailKept
<1>2. ASSUME NEW t \in Dequeuers, Dequeue(t) PROVE TailOK' /\ tail_ <= tail_'
  <2>1. t \in Threads /\ Others(t)
    BY <1>0, <1>2, Frame DEF Threads
  <2>2. entries_' = entries_ /\ tail_' = tail_ /\ ~Drawing(t)'
    BY <1>0, <1>2, <2>1 DEF Dequeue, ring, Goto, Drawing, ThreadsOK
  <2> QED BY <1>0, <1>s, <1>e, <2>1, <2>2, TailKept
<1>3. ASSUME NEW t \in Threads, Step(t) PROVE TailOK' /\ tail_ <= tail_'
  <2>0. Others(t)
    BY <1>0, <1>3, Frame
  <2>1. CASE EnqTicket(t)
    BY <1>1, <2>1
  <2>2. CASE EnqEntry(t) \/ EnqUnsafe(t)
    <3>1. Drawing(t) /\ tail_' = tail_ /\ ticket' = ticket
      BY <2>2 DEF EnqEntry, EnqUnsafe, Drawing
    <3>2. ticket[t] \in Nat /\ ticket[t] < tail_
      BY <1>0, <3>1 DEF TailOK, TypeOK
    <3>3. CASE Insert(t)
      BY <1>0, <1>s, <2>0, <3>1, <3>2, <3>3, InsertTail, TailKept
    <3>4. CASE entries_' = entries_
      BY <1>0, <1>s, <1>e, <2>0, <3>1, <3>2, <3>4, TailKept
    <3> QED BY <2>2, <3>3, <3>4 DEF EnqEntry, EnqUnsafe
  <2>3. CASE EnqHead(t)
    <3>1. Drawing(t) /\ tail_' = tail_ /\ ticket' = ticket /\ entries_' = entries_
      BY <2>3 DEF EnqHead, ring, locals, Drawing
    <3>2. ticket[t] \in Nat /\ ticket[t] < tail_
      BY <1>0, <3>1 DEF TailOK, TypeOK
    <3> QED BY <1>0, <1>s, <1>e, <2>0, <3>1, <3>2, TailKept
  <2>4. CASE EnqThreshold(t) \/ EnqArm(t) \/ DeqTicket(t)
    <3>1. entries_' = entries_ /\ tail_' = tail_ /\ ~Drawing(t)'
      BY <1>0, <2>4 DEF EnqThreshold, EnqArm, DeqTicket, Return, ring, Goto, Drawing, ThreadsOK
    <3> QED BY <1>0, <1>s, <1>e, <2>0, <3>1, TailKept
  <2>5. CASE DeqTail(t) \/ CatchHead(t) \/ CatchTail(t) \/ DeqNone(t) \/ DeqThreshold(t)
    <3>1. entries_' = entries_ /\ tail_' = tail_ /\ ~Drawing(t)'
      BY <1>0, <2>5 DEF DeqTail, CatchHead, CatchTail, DeqNone, DeqThreshold, ReturnNone, Return,
                        ring, Goto, Drawing, ThreadsOK
    <3> QED BY <1>0, <1>s, <1>e, <2>0, <3>1, TailKept
  <2>6. CASE CatchUp(t)
    <3>1. entries_' = entries_ /\ ~Drawing(t)'
      BY <1>0, <2>6 DEF CatchUp, Goto, Drawing, ThreadsOK
    <3>2. behind[t].head \in Nat /\ behind[t].tail \in Nat /\ behind[t].tail <= behind[t].head
      BY <1>0, <2>6 DEF CatchUp, HeadOK, TypeOK
    <3>3. tail_' \in Nat /\ tail_ <= tail_'
      BY <1>0, <2>6, <3>2 DEF CatchUp
    <3> QED BY <1>0, <1>s, <1>e, <2>0, <3>1, <3>3, TailKept
  <2>7. CASE DeqTake(t)
    <3>1. tail_' = tail_ /\ ~Drawing(t)'
      BY <1>0, <2>7 DEF DeqTake, Return, Goto, Drawing, ThreadsOK
    <3>2. \A j \in Stored' : j \in Stored /\ TicketOf(j)' = TicketOf(j)
      BY <1>0, <2>7, TakeKeeps DEF Stored, TicketOf
    <3> QED BY <1>0, <1>s, <2>0, <3>1, <3>2, TailKept
  <2>8. CASE DeqPass(t)
    <3>1. tail_' = tail_ /\ ~Drawing(t)'
      BY <1>0, <2>8 DEF DeqPass, Goto, Drawing, ThreadsOK
    <3>2. \A j \in Stored' : j \in Stored /\ TicketOf(j)' = TicketOf(j)
      BY <1>0, <1>e, <2>8, PassKeeps DEF Stored, TicketOf
    <3> QED BY <1>0, <1>s, <2>0, <3>1, <3>2, TailKept
  <2> QED BY <1>3, <2>1, <2>2, <2>3, <2>4, <2>5, <2>6, <2>7, <2>8 DEF Step
<1> QED BY <1>1, <1>2, <1>3 DEF Act, Threads

LEMMA HeadStep ==
    ASSUME RingInv, HeadOK, Act
    PROVE  HeadOK' /\ head_ <= head_'
<1>0. TypeOK /\ ThreadsOK /\ head_ \in Nat
  BY DEF RingInv, TypeOK
<1>k. ASSUME NEW t \in Threads, Others(t), head_' \in Nat, head_ <= head_',
             \A u \in Threads : u # t => behind'[u] = behind[u],
             /\ pc'[t] \in DequeueLabels => t \in Dequeuers
             /\ pc'[t] = "deq_tail" => ticket'[t] < head_'
             /\ pc'[t] \in {"catch_up", "catch_tail"} => behind'[t].head <= head_'
             /\ pc'[t] = "catch_up" => behind'[t].tail <= behind'[t].head
      PROVE  HeadOK'
  <2>1. ASSUME NEW u \in Threads, u # t
        PROVE  /\ pc'[u] \in DequeueLabels => u \in Dequeuers
               /\ pc'[u] = "deq_tail" => ticket'[u] < head_'
               /\ pc'[u] \in {"catch_up", "catch_tail"} => behind'[u].head <= head_'
               /\ pc'[u] = "catch_up" => behind'[u].tail <= behind'[u].head
    <3>1. pc'[u] = pc[u] /\ ticket'[u] = ticket[u] /\ behind'[u] = behind[u]
      BY <1>k, <2>1 DEF Others
    <3>2. ticket[u] \in Nat /\ behind[u].head \in Nat
      BY <1>0 DEF TypeOK
    <3> QED BY <1>0, <1>k, <3>1, <3>2 DEF HeadOK
  <2> QED BY <1>k, <2>1 DEF HeadOK
<1>1. ASSUME NEW t \in Enqueuers, NEW i \in Indices, Enqueue(t, i) PROVE HeadOK' /\ head_ <= head_'
  <2>1. t \in Threads /\ Others(t)
    BY <1>0, <1>1, Frame DEF Threads
  <2>2. head_' = head_ /\ behind' = behind /\ pc'[t] = "enq_load"
    BY <1>0, <1>1, <2>1 DEF Enqueue, DrawTail, Goto, ThreadsOK
  <2> QED BY <1>0, <1>k, <2>1, <2>2 DEF DequeueLabels
<1>2. ASSUME NEW t \in Dequeuers, Dequeue(t) PROVE HeadOK' /\ head_ <= head_'
  <2>1. t \in Threads /\ Others(t)
    BY <1>0, <1>2, Frame DEF Threads
  <2>2. head_' = head_ /\ behind' = behind /\ pc'[t] \in {"idle", "deq_ticket"}
    BY <1>0, <1>2, <2>1 DEF Dequeue, ring, locals, Goto, ThreadsOK
  <2> QED BY <1>0, <1>k, <2>1, <2>2
<1>3. ASSUME NEW t \in Threads, Step(t) PROVE HeadOK' /\ head_ <= head_'
  <2>0. Others(t)
    BY <1>0, <1>3, Frame
  <2>1. CASE EnqTicket(t) \/ EnqEntry(t) \/ EnqHead(t) \/ EnqUnsafe(t)
    <3>1. head_' = head_ /\ behind' = behind /\ pc'[t] \notin DequeueLabels
      BY <1>0, <2>1 DEF EnqTicket, EnqEntry, EnqHead, EnqUnsafe, Insert, DrawTail, ring, locals, Goto,
                        ThreadsOK, DequeueLabels
    <3> QED BY <1>0, <1>k, <2>0, <3>1 DEF DequeueLabels
  <2>2. CASE EnqThreshold(t) \/ EnqArm(t) \/ DeqTake(t) \/ DeqNone(t)
    <3>1. /\ head_' = head_ /\ \A u \in Threads : u # t => behind'[u] = behind[u]
          /\ pc'[t] \in {"idle", "enq_arm"}
      BY <1>0, <2>2 DEF EnqThreshold, EnqArm, DeqTake, DeqNone, ReturnNone, Return, ring, locals, Goto,
                        ThreadsOK, TypeOK
    <3> QED BY <1>0, <1>k, <2>0, <3>1 DEF DequeueLabels
  <2>3. CASE DeqTicket(t) \/ DeqThreshold(t)
    <3>1. t \in Dequeuers
      BY <2>3 DEF DeqTicket, DeqThreshold, HeadOK, DequeueLabels
    <3>2. /\ head_' \in Nat /\ head_ <= head_' /\ \A u \in Threads : u # t => behind'[u] = behind[u]
          /\ pc'[t] \in {"deq_load", "deq_ticket", "idle"}
      BY <1>0, <2>3 DEF DeqTicket, DeqThreshold, ReturnNone, Return, locals, Goto, ThreadsOK, TypeOK
    <3> QED BY <1>0, <1>k, <2>0, <3>1, <3>2
  <2>4. CASE DeqPass(t)
    <3>1. t \in Dequeuers /\ ticket[t] < head_
      BY <2>4 DEF DeqPass, HeadOK, DequeueLabels, RingInv, DequeuersOK
    <3>2. head_' = head_ /\ behind' = behind /\ ticket' = ticket /\ pc'[t] = "deq_tail"
      BY <1>0, <2>4 DEF DeqPass, locals, Goto, ThreadsOK
    <3> QED BY <1>0, <1>k, <2>0, <3>1, <3>2
  <2>5. CASE DeqTail(t)
    <3>1. t \in Dequeuers /\ ticket[t] < head_ /\ ticket[t] \in Nat /\ head_' = head_
      BY <1>0, <2>5 DEF DeqTail, HeadOK, DequeueLabels, TypeOK, ring
    <3>2. ticket[t] + 1 <= head_
      BY <1>0, <3>1
    <3>3. CASE Goto(t, "deq_threshold") /\ UNCHANGED behind
      <4>1. pc'[t] = "deq_threshold"
        BY <1>0, <3>3 DEF Goto, ThreadsOK
      <4> QED BY <1>0, <1>k, <2>0, <3>1, <3>3, <4>1
    <3>4. CASE /\ tail_ <= ticket[t] + 1 /\ Goto(t, "catch_up")
               /\ behind' = [behind EXCEPT ![t] = [tail |-> tail_, head |-> ticket[t] + 1]]
      <4>1. pc'[t] = "catch_up"
        BY <1>0, <3>4 DEF Goto, ThreadsOK
      <4>2. behind'[t].tail = tail_ /\ behind'[t].head = ticket[t] + 1
        BY <1>0, <3>4 DEF TypeOK
      <4>3. \A u \in Threads : u # t => behind'[u] = behind[u]
        BY <1>0, <3>4 DEF TypeOK
      <4> QED BY <1>0, <1>k, <2>0, <3>1, <3>2, <3>4, <4>1, <4>2, <4>3
    <3> QED BY <2>5, <3>3, <3>4 DEF DeqTail
  <2>6. CASE CatchUp(t)
    <3>1. t \in Dequeuers
      BY <2>6 DEF CatchUp, HeadOK, DequeueLabels
    <3>2. head_' = head_ /\ behind' = behind /\ pc'[t] \in {"deq_none", "catch_head"}
      BY <1>0, <2>6 DEF CatchUp, locals, Goto, ThreadsOK
    <3> QED BY <1>0, <1>k, <2>0, <3>1, <3>2
  <2>7. CASE CatchHead(t)
    <3>1. t \in Dequeuers /\ head_' = head_
      BY <2>7 DEF CatchHead, HeadOK, DequeueLabels, ring
    <3>2. pc'[t] = "catch_tail"
      BY <1>0, <2>7 DEF CatchHead, Goto, ThreadsOK
    <3>3. behind'[t].head = head_ /\ \A u \in Threads : u # t => behind'[u] = behind[u]
      BY <1>0, <2>7 DEF CatchHead, TypeOK
    <3> QED BY <1>0, <1>k, <2>0, <3>1, <3>2, <3>3
  <2>8. CASE CatchTail(t)
    <3>1. /\ t \in Dequeuers /\ behind[t].head <= head_ /\ head_' = head_
          /\ behind' = [behind EXCEPT ![t].tail = tail_]
      BY <2>8 DEF CatchTail, HeadOK, DequeueLabels, ring
    <3>2. pc'[t] = IF tail_ < behind[t].head THEN "catch_up" ELSE "deq_none"
      BY <1>0, <2>8 DEF CatchTail, Goto, ThreadsOK
    <3>3. /\ behind'[t].head = behind[t].head /\ behind'[t].tail = tail_
          /\ \A u \in Threads : u # t => behind'[u] = behind[u]
      BY <1>0, <3>1 DEF TypeOK
    <3>4. tail_ \in Nat /\ behind[t].head \in Nat
      BY <1>0 DEF TypeOK
    <3> QED BY <1>0, <1>k, <2>0, <3>1, <3>2, <3>3, <3>4
  <2> QED BY <1>3, <2>1, <2>2, <2>3, <2>4, <2>5, <2>6, <2>7, <2>8 DEF Step
<1> QED BY <1>1, <1>2, <1>3 DEF Act
-----------------------------------------------------------------------------
(* Skipped tickets. *)

(* A step of t that takes no ticket of the window out of its place or out of
   t's hands. *)
LEMMA NoneSkipped ==
    ASSUME NEW t \in Threads, Others(t),
           \A x \in Window' : x \in Window \/ Carried(x)',
           \A x \in Window' : InPlace(x) => InPlace(x)',
           \A x \in Window' : Drawing(t) /\ ticket[t] = x =>
               InPlace(x)' \/ (Drawing(t)' /\ ticket'[t] = x)
    PROVE  Skipped' \subseteq Skipped
<1> SUFFICES ASSUME NEW x \in Window', ~InPlace(x)', ~Carried(x)' PROVE ~InPlace(x) /\ ~Carried(x)
  BY DEF Skipped
<1>1. ~InPlace(x)
  OBVIOUS
<1>2. ASSUME NEW u \in Threads, Drawing(u), ticket[u] = x PROVE FALSE
  <2>1. CASE u = t
    BY <1>2, <2>1 DEF Carried
  <2>2. CASE u # t
    <3>1. Drawing(u)' /\ ticket'[u] = x
      BY <1>2, <2>2 DEF Others, Drawing
    <3> QED BY <3>1 DEF Carried
  <2> QED BY <2>1, <2>2
<1> QED BY <1>1, <1>2 DEF Carried

(* What stays in the ring keeps its ticket. *)
StoredKept ==
    \A j \in Stored' : j \in Stored /\ entries_'[j].index = entries_[j].index /\ TicketOf(j)' = TicketOf(j)

(* No ticket is skipped and every index that has blocked one still has. *)
LEMMA SkipKept ==
    ASSUME SkipOK, Skipped' \subseteq Skipped,
           \A x \in Skipped', i \in Indices : Blocked(i, x) => Blocked(i, x)'
    PROVE  SkipOK'
<1>1. PICK g \in [Skipped -> Indices] : Blame(g)
  BY DEF SkipOK
<1>2. PICK h \in [Skipped' -> Indices] : \A x \in Skipped' : h[x] = g[x]
  <2>1. [x \in Skipped' |-> g[x]] \in [Skipped' -> Indices]
    BY <1>1
  <2> QED BY <2>1
<1>3. Blame(h)'
  BY <1>1, <1>2 DEF Blame
<1> QED BY <1>3 DEF SkipOK

(* A step that stores nothing: t keeps its ticket or draws the next. *)
LEMMA QuietSkip ==
    ASSUME SkipOK, NEW t \in Threads, Others(t), StoredKept, Skipped' \subseteq Skipped,
           head_ \in Nat, tail_ \in Nat,
           Drawing(t)' => \/ Drawing(t) /\ ticket'[t] = ticket[t] /\ index'[t] = index[t]
                          \/ ticket'[t] = tail_
    PROVE  SkipOK'
<1>1. ASSUME NEW x \in Skipped', NEW i \in Indices, Blocked(i, x) PROVE Blocked(i, x)'
  <2>1. ASSUME NEW j \in Stored', entries_'[j].index = i PROVE TicketOf(j)' > x \/ j = Slot(x)
    BY <1>1, <2>1 DEF Blocked, StoredKept
  <2>2. ASSUME NEW u \in Threads, Drawing(u)', index'[u] = i PROVE ticket'[u] > x
    <3>1. CASE Drawing(u) /\ ticket'[u] = ticket[u] /\ index'[u] = index[u]
      BY <1>1, <2>2, <3>1 DEF Blocked
    <3>2. CASE ticket'[u] = tail_
      BY <3>2 DEF Skipped, Window
    <3>3. CASE u # t
      BY <2>2, <3>1, <3>3 DEF Others, Drawing
    <3> QED BY <2>2, <3>1, <3>2, <3>3
  <2> QED BY <2>1, <2>2 DEF Blocked
<1> QED BY <1>1, SkipKept

(* An enqueuer puts its index where its ticket belongs. *)
LEMMA InsertSkip ==
    ASSUME TicketInv, NEW t \in Threads, Others(t), Insert(t), Drawing(t), Reusable(t),
           head_' = head_, tail_' = tail_, ticket' = ticket
    PROVE  SkipOK'
<1>0. TypeOK /\ ThreadsOK /\ SkipOK /\ head_ \in Nat /\ tail_ \in Nat /\ ticket[t] \in Nat /\ Slot(ticket[t]) \in Slots
  BY EntryType DEF TicketInv, RingInv, TypeOK
<1>1. index[t] \in Indices /\ index[t] # RingMask
  BY <1>0, RingNumbers DEF Drawing, Carrying, ThreadsOK
<1>2. entries_'[Slot(ticket[t])] = [cycle |-> Cycle(ticket[t]), safe |-> TRUE, index |-> index[t]]
  BY <1>0, NewEntry DEF Insert
<1>3. \A j \in Slots : j # Slot(ticket[t]) => entries_'[j] = entries_[j]
  BY <1>0, NewEntry DEF Insert
<1>4. ~Drawing(t)'
  BY <1>0 DEF Insert, Goto, Drawing, ThreadsOK
<1>5. Skipped' \subseteq Skipped
  <2>1. ASSUME NEW x \in Window, InPlace(x) PROVE InPlace(x)'
    <3>1. Slot(x) \in Slots
      BY <1>0, SlotCycle DEF Window
    <3>2. Slot(x) # Slot(ticket[t])
      BY <2>1 DEF InPlace, Reusable, Entry
    <3>3. entries_'[Slot(x)] = entries_[Slot(x)]
      BY <1>3, <3>1, <3>2
    <3> QED BY <2>1, <3>3 DEF InPlace
  <2>2. ASSUME NEW x, ticket[t] = x PROVE InPlace(x)'
    BY <1>1, <1>2, <2>2 DEF InPlace
  <2>3. Window' = Window
    BY DEF Window
  <2> QED BY <2>1, <2>2, <2>3, NoneSkipped
<1>6. TicketOf(Slot(ticket[t]))' = ticket[t]
  <2>1. entries_'[Slot(ticket[t])].cycle = Cycle(ticket[t])
    BY <1>2
  <2> QED BY <1>0, <2>1, SlotCycle DEF TicketOf
<1>7. ASSUME NEW x \in Skipped', NEW i \in Indices, Blocked(i, x) PROVE Blocked(i, x)'
  <2>1. ASSUME NEW j \in Stored', entries_'[j].index = i PROVE TicketOf(j)' > x \/ j = Slot(x)
    <3>1. CASE j = Slot(ticket[t])
      <4>1. index[t] = i
        BY <1>2, <2>1, <3>1
      <4> QED BY <1>6, <1>7, <3>1, <4>1 DEF Blocked
    <3>2. CASE j # Slot(ticket[t])
      <4>1. j \in Stored /\ entries_[j].index = i /\ TicketOf(j)' = TicketOf(j)
        BY <1>3, <2>1, <3>2 DEF Stored, TicketOf
      <4> QED BY <1>7, <4>1 DEF Blocked
    <3> QED BY <3>1, <3>2
  <2>2. ASSUME NEW u \in Threads, Drawing(u)', index'[u] = i PROVE ticket'[u] > x
    <3>1. Drawing(u) /\ ticket'[u] = ticket[u] /\ index'[u] = index[u]
      BY <1>4, <2>2 DEF Others, Drawing
    <3> QED BY <1>7, <2>2, <3>1 DEF Blocked
  <2> QED BY <2>1, <2>2 DEF Blocked
<1> QED BY <1>0, <1>5, <1>7, SkipKept

(* An enqueuer gives up a ticket of the window: its entry still holds an index of
   an earlier cycle, which has blocked no other ticket of the window. *)
LEMMA OneSkipped ==
    ASSUME TicketInv, NEW t \in Threads, Others(t), pc[t] = "enq_load", pc'[t] = "enq_ticket",
           ~Reusable(t), entries_' = entries_, head_' = head_, tail_' = tail_
    PROVE  SkipOK'
<1> DEFINE x == ticket[t]
           j == Slot(x)
<1>0. /\ TypeOK /\ ThreadsOK /\ WordsOK /\ IndexConserved /\ SkipOK
      /\ head_ \in Nat /\ tail_ \in Nat /\ RingSize \in Nat
      /\ x \in Nat /\ j \in Slots /\ Cycle(x) \in Nat /\ x < tail_
  BY EntryType, RingNumbers DEF TicketInv, RingInv, TypeOK, TailOK, Drawing
<1>w. Window' = Window /\ \A y : InPlace(y)' <=> InPlace(y)
  BY DEF Window, InPlace
<1>k. StoredKept
  BY DEF StoredKept, Stored, TicketOf
<1>1. \A y \in Skipped' : y \in Skipped \/ y = x
  <2>1. ASSUME NEW y \in Skipped', y # x PROVE y \in Skipped
    <3>1. ASSUME Carried(y) PROVE Carried(y)'
      BY <2>1, <3>1 DEF Carried, Drawing, Others
    <3> QED BY <1>w, <2>1, <3>1 DEF Skipped
  <2> QED BY <2>1
<1>2. CASE x \notin Skipped'
  BY <1>0, <1>k, <1>1, <1>2, QuietSkip DEF Drawing
<1>3. CASE x \in Skipped'
  <2>1. x \in Window /\ x >= head_ /\ ~InPlace(x)
    BY <1>0, <1>3, <1>w DEF Skipped, Window
  <2>2. entries_[j] \in Entries /\ entries_[j].cycle \in Int
    BY <1>0 DEF TypeOK, Entries
  <2>3. entries_[j].index # RingMask
    <3> SUFFICES ASSUME entries_[j].index = RingMask PROVE FALSE
      OBVIOUS
    <3>1. entries_[j].cycle >= Cycle(x)
      BY <1>0, <2>2 DEF Reusable, Entry
    <3>2. entries_[j].cycle \in Nat /\ TicketOf(j) < head_
      BY <1>0, <2>2, <3>1 DEF WordsOK
    <3>3. TicketOf(j) \in Nat /\ Slot(TicketOf(j)) = j /\ Cycle(TicketOf(j)) = entries_[j].cycle
      BY <1>0, <3>2, TicketParts DEF TicketOf
    <3>4. TicketOf(j) >= x
      BY <1>0, <3>1, <3>3, CycleOrder
    <3> QED BY <1>0, <2>1, <3>2, <3>3, <3>4
  <2> DEFINE z == TicketOf(j)
             i == entries_[j].index
  <2>4. /\ j \in Stored /\ i \in Indices /\ z \in Nat /\ Slot(z) = j /\ Cycle(z) \in Nat
        /\ Cycle(z) # Cycle(x) /\ z < tail_
    <3>1. j \in Stored
      BY <1>0, <2>3 DEF Stored
    <3>2. entries_[j].cycle # Cycle(x)
      BY <2>1, <2>3 DEF InPlace
    <3> QED BY <1>0, <3>1, <3>2, StoredTicket DEF TicketInv, TailOK
  <2> HIDE DEF z
  <2>5. z + RingSize <= x
    <3>1. CASE Cycle(z) < Cycle(x)
      BY <1>0, <2>4, <3>1, SlotsApart
    <3>2. CASE Cycle(z) > Cycle(x)
      <4>1. z >= x + RingSize
        BY <1>0, <2>4, <3>2, SlotsApart
      <4> QED BY <1>0, <2>1, <2>4, <4>1, WindowBound
    <3> QED BY <1>0, <2>4, <3>1, <3>2
  <2>6. PICK g \in [Skipped -> Indices] : Blame(g)
    BY <1>0 DEF SkipOK
  <2>7. ASSUME NEW y \in Skipped PROVE y # x /\ g[y] # i
    <3>1. y \in Nat /\ y >= head_ /\ y < tail_ /\ ~Carried(y)
      BY <1>0 DEF Skipped, Window
    <3>2. y # x
      BY <3>1 DEF Carried, Drawing
    <3>3. ASSUME g[y] = i PROVE FALSE
      <4>1. z > y \/ j = Slot(y)
        BY <2>4, <2>6, <3>3 DEF Blame, Blocked, z
      <4>2. CASE z > y
        BY <1>0, <2>4, <2>5, <3>1, <4>2, WindowBound
      <4>3. CASE j = Slot(y)
        <5>0. Cycle(y) \in Nat
          BY <3>1, SlotCycle
        <5>1. CASE Cycle(x) > Cycle(y)
          <6>1. x >= y + RingSize
            BY <1>0, <3>1, <4>3, <5>1, SlotsApart
          <6> QED BY <1>0, <3>1, <6>1, WindowBound
        <5>2. CASE Cycle(y) > Cycle(x)
          <6>1. y >= x + RingSize
            BY <1>0, <3>1, <4>3, <5>2, SlotsApart
          <6> QED BY <1>0, <2>1, <3>1, <6>1, WindowBound
        <5>3. CASE Cycle(x) = Cycle(y)
          <6>1. x >= y /\ y >= x
            BY <1>0, <3>1, <4>3, <5>0, <5>3, CycleOrder
          <6> QED BY <1>0, <3>1, <3>2, <6>1
        <5> QED BY <1>0, <5>0, <5>1, <5>2, <5>3
      <4> QED BY <4>1, <4>2, <4>3
    <3> QED BY <3>2, <3>3
  <2>c. PICK x0 \in Nat, i0 \in Indices : x0 = x /\ i0 = i
    BY <1>0, <2>4
  <2>8. PICK h \in [Skipped' -> Indices] : \A y \in Skipped' : h[y] = IF y = x0 THEN i0 ELSE g[y]
    <3>1. [y \in Skipped' |-> IF y = x0 THEN i0 ELSE g[y]] \in [Skipped' -> Indices]
      BY <1>1, <2>4, <2>6, <2>c
    <3> QED BY <3>1
  <2>9. \A y, y2 \in Skipped' : h[y] = h[y2] => y = y2
    BY <1>1, <2>6, <2>7, <2>8, <2>c DEF Blame
  <2>d. ASSUME NEW u \in Threads, Drawing(u)'
        PROVE  Drawing(u) /\ ticket'[u] = ticket[u] /\ index'[u] = index[u]
    BY <2>d DEF Others, Drawing
  <2>10. Blocked(i0, x0)'
    <3>1. ASSUME NEW k \in Stored', entries_'[k].index = i0 PROVE k = Slot(x0)
      <4>1. k \in Stored /\ entries_[k].index = i
        BY <2>c, <3>1 DEF Stored
      <4> QED BY <1>0, <2>4, <2>c, <4>1, IndexOnce
    <3>2. ASSUME NEW u \in Threads, Drawing(u)', index'[u] = i0 PROVE FALSE
      <4>1. Carrying(u) /\ index[u] = i
        BY <2>c, <2>d, <3>2 DEF Drawing, Carrying
      <4> QED BY <1>0, <2>4, <4>1, IndexOnce
    <3> QED BY <3>1, <3>2 DEF Blocked
  <2>11. ASSUME NEW y \in Skipped, NEW b \in Indices, Blocked(b, y) PROVE Blocked(b, y)'
    <3>1. ASSUME NEW k \in Stored', entries_'[k].index = b PROVE TicketOf(k)' > y \/ k = Slot(y)
      BY <1>k, <2>11, <3>1 DEF Blocked, StoredKept
    <3>2. ASSUME NEW u \in Threads, Drawing(u)', index'[u] = b PROVE ticket'[u] > y
      BY <2>d, <2>11, <3>2 DEF Blocked
    <3> QED BY <3>1, <3>2 DEF Blocked
  <2>12. ASSUME NEW y \in Skipped' PROVE Blocked(h[y], y)'
    <3>1. CASE y = x0
      <4>1. h[y] = i0
        BY <2>8, <2>12, <3>1
      <4>2. Blocked(i0, y)'
        BY <2>10, <3>1
      <4> QED BY <4>1, <4>2
    <3>2. CASE y # x0
      <4>1. y \in Skipped /\ h[y] = g[y] /\ g[y] \in Indices
        BY <1>1, <2>6, <2>8, <2>12, <2>c, <3>2
      <4>2. Blocked(g[y], y)
        BY <2>6, <4>1 DEF Blame
      <4>3. Blocked(g[y], y)'
        BY <2>11, <4>1, <4>2
      <4> QED BY <4>1, <4>3
    <3> QED BY <3>1, <3>2
  <2>13. Blame(h)'
    BY <2>9, <2>12 DEF Blame
  <2> QED BY <2>8, <2>13 DEF SkipOK
<1> QED BY <1>2, <1>3

LEMMA SkipStep ==
    ASSUME TicketInv, Act
    PROVE  SkipOK'
<1>0. /\ TypeOK /\ ThreadsOK /\ SkipOK /\ HeadOK /\ TailOK
      /\ head_ \in Nat /\ tail_ \in Nat
  BY DEF TicketInv, RingInv, TypeOK
<1>e. ASSUME entries_' = entries_ PROVE StoredKept /\ \A x : InPlace(x)' <=> InPlace(x)
  BY <1>e DEF StoredKept, Stored, TicketOf, InPlace
<1>w. ASSUME head_' = head_, tail_' = tail_ PROVE Window' = Window
  BY <1>w DEF Window
(* A step that is not about a ticket of the window. *)
<1>q. ASSUME NEW t \in Threads, Others(t), entries_' = entries_, head_' = head_, tail_' = tail_,
             Drawing(t) /\ ticket[t] \in Window => Drawing(t)',
             Drawing(t)' => Drawing(t) /\ ticket'[t] = ticket[t] /\ index'[t] = index[t]
      PROVE  SkipOK'
  <2>1. Skipped' \subseteq Skipped
    BY <1>q, <1>e, <1>w, NoneSkipped
  <2> QED BY <1>0, <1>e, <1>q, <2>1, QuietSkip
<1>1. ASSUME NEW t \in Threads, (\E i \in Indices : Enqueue(t, i)) \/ EnqTicket(t)
      PROVE  SkipOK'
  <2>1. Others(t)
    BY <1>0, <1>1, Frame DEF Step
  <2>2. /\ entries_' = entries_ /\ head_' = head_ /\ tail_' = tail_ + 1
        /\ ticket'[t] = tail_ /\ pc'[t] = "enq_load" /\ ~Drawing(t)
    BY <1>0, <1>1 DEF Enqueue, EnqTicket, DrawTail, Goto, Drawing, TypeOK, ThreadsOK
  <2>3. \A x \in Window' : x \in Window \/ Carried(x)'
    <3>1. \A x \in Window' : x \in Window \/ x = tail_
      BY <1>0, <2>2 DEF Window
    <3>2. ASSUME NEW x, x = tail_ PROVE Carried(x)'
      BY <2>2, <3>2 DEF Carried, Drawing
    <3> QED BY <3>1, <3>2
  <2>4. Skipped' \subseteq Skipped
    BY <1>e, <2>1, <2>2, <2>3, NoneSkipped
  <2> QED BY <1>0, <1>e, <2>1, <2>2, <2>4, QuietSkip
<1>2. ASSUME NEW t \in Dequeuers, Dequeue(t) PROVE SkipOK'
  <2>1. t \in Threads /\ Others(t)
    BY <1>0, <1>2, Frame DEF Threads
  <2>2. entries_' = entries_ /\ head_' = head_ /\ tail_' = tail_ /\ ~Drawing(t) /\ ~Drawing(t)'
    BY <1>0, <1>2, <2>1 DEF Dequeue, ring, Goto, Drawing, ThreadsOK
  <2> QED BY <1>q, <2>1, <2>2
<1>3. ASSUME NEW t \in Threads, Step(t) PROVE SkipOK'
  <2>0. Others(t) /\ ticket[t] \in Nat
    BY <1>0, <1>3, Frame DEF TypeOK
  <2>1. CASE EnqTicket(t)
    BY <1>1, <2>1
  <2>2. CASE EnqEntry(t)
    <3>0. /\ pc[t] = "enq_load" /\ Drawing(t) /\ head_' = head_ /\ tail_' = tail_
          /\ ticket' = ticket /\ index' = index
      BY <2>2 DEF EnqEntry, Drawing
    <3>1. CASE Reusable(t) /\ Insert(t)
      BY <2>0, <3>0, <3>1, InsertSkip
    <3>2. CASE Goto(t, "enq_head") /\ UNCHANGED entries_
      <4>1. pc'[t] = "enq_head" /\ Drawing(t)'
        BY <1>0, <3>2 DEF Goto, ThreadsOK, Drawing
      <4> QED BY <1>q, <2>0, <3>0, <3>2, <4>1
    <3>3. CASE ~Reusable(t) /\ Goto(t, "enq_ticket") /\ UNCHANGED entries_
      <4>1. pc'[t] = "enq_ticket"
        BY <1>0, <3>3 DEF Goto, ThreadsOK
      <4> QED BY <2>0, <3>0, <3>3, <4>1, OneSkipped
    <3> QED BY <2>2, <3>1, <3>2, <3>3 DEF EnqEntry
  <2>3. CASE EnqHead(t)
    <3>1. /\ entries_' = entries_ /\ head_' = head_ /\ tail_' = tail_
          /\ ticket' = ticket /\ index' = index /\ Drawing(t)
          /\ pc'[t] = IF NotPassed(t) THEN "enq_cas" ELSE "enq_ticket"
      BY <1>0, <2>3 DEF EnqHead, ring, locals, Goto, ThreadsOK, Drawing
    <3>2. ticket[t] \in Window => NotPassed(t)
      BY <1>0, <2>0 DEF Window, NotPassed
    <3>3. ticket[t] \in Window => Drawing(t)'
      BY <3>1, <3>2 DEF Drawing
    <3> QED BY <1>q, <2>0, <3>1, <3>3
  <2>4. CASE EnqUnsafe(t)
    <3>0. Drawing(t) /\ head_' = head_ /\ tail_' = tail_ /\ ticket' = ticket /\ index' = index
      BY <2>4 DEF EnqUnsafe, Drawing
    <3>1. CASE Entry(t) = seen[t] /\ Insert(t)
      <4>1. Reusable(t)
        BY <2>4, <3>1 DEF EnqUnsafe, TicketInv, RingInv, SeenOK, Reusable
      <4> QED BY <2>0, <3>0, <3>1, <4>1, InsertSkip
    <3>2. CASE Goto(t, "enq_load") /\ UNCHANGED entries_
      <4>1. pc'[t] = "enq_load" /\ Drawing(t)'
        BY <1>0, <3>2 DEF Goto, ThreadsOK, Drawing
      <4> QED BY <1>q, <2>0, <3>0, <3>2, <4>1
    <3> QED BY <2>4, <3>1, <3>2 DEF EnqUnsafe
  <2>5. CASE EnqThreshold(t) \/ EnqArm(t)
    <3>1. entries_' = entries_ /\ head_' = head_ /\ tail_' = tail_ /\ ~Drawing(t) /\ ~Drawing(t)'
      BY <1>0, <2>5 DEF EnqThreshold, EnqArm, Return, ring, Goto, Drawing, ThreadsOK
    <3> QED BY <1>q, <2>0, <3>1
  <2>6. CASE DeqTail(t) \/ CatchHead(t) \/ CatchTail(t) \/ DeqNone(t) \/ DeqThreshold(t)
    <3>1. entries_' = entries_ /\ head_' = head_ /\ tail_' = tail_ /\ ~Drawing(t) /\ ~Drawing(t)'
      BY <1>0, <2>6 DEF DeqTail, CatchHead, CatchTail, DeqNone, DeqThreshold, ReturnNone, Return,
                        ring, Goto, Drawing, ThreadsOK
    <3> QED BY <1>q, <2>0, <3>1
  <2>7. CASE DeqTicket(t)
    <3>1. entries_' = entries_ /\ head_' = head_ + 1 /\ tail_' = tail_ /\ ~Drawing(t) /\ ~Drawing(t)'
      BY <1>0, <2>7 DEF DeqTicket, Goto, Drawing, ThreadsOK
    <3>2. \A x \in Window' : x \in Window
      BY <1>0, <3>1 DEF Window
    <3>3. Skipped' \subseteq Skipped
      BY <1>e, <2>0, <3>1, <3>2, NoneSkipped
    <3> QED BY <1>0, <1>e, <2>0, <3>1, <3>3, QuietSkip
  <2>8. CASE CatchUp(t)
    <3>1. entries_' = entries_ /\ head_' = head_ /\ ~Drawing(t) /\ ~Drawing(t)'
      BY <1>0, <2>8 DEF CatchUp, Goto, Drawing, ThreadsOK
    <3>2. CASE tail_' = tail_
      BY <1>q, <2>0, <3>1, <3>2
    <3>3. CASE tail_' = behind[t].head
      <4>1. behind[t].head \in Nat /\ behind[t].head <= head_
        BY <1>0, <2>8 DEF CatchUp, HeadOK, TypeOK
      <4>2. Window' = {}
        BY <1>0, <3>1, <3>3, <4>1 DEF Window
      <4>3. Skipped' \subseteq Skipped
        BY <4>2 DEF Skipped
      <4> QED BY <1>0, <1>e, <2>0, <3>1, <4>3, QuietSkip
    <3> QED BY <2>8, <3>2, <3>3 DEF CatchUp
  <2>9. CASE DeqTake(t)
    <3>1. head_' = head_ /\ tail_' = tail_ /\ ~Drawing(t) /\ ~Drawing(t)'
      BY <1>0, <2>9 DEF DeqTake, Return, Goto, Drawing, ThreadsOK
    <3>2. ASSUME NEW x \in Window, InPlace(x) PROVE InPlace(x)'
      <4>1. x \in Nat /\ x >= head_ /\ Slot(x) \in Slots
        BY <1>0, SlotCycle DEF Window
      <4>2. ticket[t] < head_
        BY <2>9 DEF DeqTake, TicketInv, RingInv, DequeuersOK
      <4>3. CASE Slot(x) = Slot(ticket[t])
        <5>1. Cycle(x) = Cycle(ticket[t])
          BY <2>9, <3>2, <4>3 DEF DeqTake, InPlace, Entry
        <5>2. ticket[t] >= x
          BY <2>0, <4>1, <4>3, <5>1, CycleOrder, SlotCycle
        <5> QED BY <1>0, <2>0, <4>1, <4>2, <5>2
      <4>4. CASE Slot(x) # Slot(ticket[t])
        <5>1. entries_'[Slot(x)] = entries_[Slot(x)]
          BY <1>0, <2>9, <4>1, <4>4, NewEntry DEF DeqTake
        <5> QED BY <3>2, <5>1 DEF InPlace
      <4> QED BY <4>3, <4>4
    <3>3. Skipped' \subseteq Skipped
      BY <1>w, <2>0, <3>1, <3>2, NoneSkipped
    <3>4. StoredKept
      BY <1>0, <2>9, TakeKeeps DEF StoredKept, Stored, TicketOf
    <3> QED BY <1>0, <2>0, <3>1, <3>3, <3>4, QuietSkip
  <2>10. CASE DeqPass(t)
    <3>1. head_' = head_ /\ tail_' = tail_ /\ ~Drawing(t) /\ ~Drawing(t)'
      BY <1>0, <2>10 DEF DeqPass, Goto, Drawing, ThreadsOK
    <3>2. ASSUME NEW x \in Window, InPlace(x) PROVE InPlace(x)'
      <4>1. Slot(x) \in Slots
        BY <1>0, SlotCycle DEF Window
      <4> QED BY <1>0, <2>10, <3>2, <4>1, PassKeeps DEF InPlace
    <3>3. Skipped' \subseteq Skipped
      BY <1>w, <2>0, <3>1, <3>2, NoneSkipped
    <3>4. StoredKept
      BY <1>0, <2>10, PassKeeps DEF StoredKept, Stored, TicketOf
    <3> QED BY <1>0, <2>0, <3>1, <3>3, <3>4, QuietSkip
  <2> QED BY <1>3, <2>1, <2>2, <2>3, <2>4, <2>5, <2>6, <2>7, <2>8, <2>9, <2>10 DEF Step
<1> QED BY <1>1, <1>2, <1>3 DEF Act, Threads
-----------------------------------------------------------------------------
(* What waits, and the threshold. *)

LEMMA WaitingTicket ==
    ASSUME RingInv, TailOK, NEW j \in Waiting
    PROVE  j \in Stored /\ TicketOf(j) \in Nat /\ TicketOf(j) >= head_ /\ TicketOf(j) < tail_
<1>1. TypeOK /\ WordsOK /\ j \in Stored /\ TicketOf(j) >= head_
  BY DEF RingInv, Waiting, Stored
<1> QED BY <1>1, StoredTicket DEF TailOK

(* A step of t stores nothing but what t has yet to arm the threshold for, and
   a step after which nothing new waits. *)
StoresArmed(t) ==
    /\ \A j \in Stored' : \/ j \in Stored /\ TicketOf(j)' = TicketOf(j)
                          \/ Arming(t)' /\ ticket'[t] = TicketOf(j)'
    /\ Arming(t) => Arming(t)' /\ ticket'[t] = ticket[t]
NoneArrives == \A j \in Waiting' : j \in Waiting /\ TicketOf(j)' = TicketOf(j)

LEMMA WaitingKept ==
    ASSUME RingInv, NEW t \in Threads, Others(t), head_' \in Nat, head_ <= head_', StoresArmed(t)
    PROVE  NoneArrives
<1> SUFFICES ASSUME NEW j \in Waiting' PROVE j \in Waiting /\ TicketOf(j)' = TicketOf(j)
  BY DEF NoneArrives
<1>1. /\ j \in Stored' /\ TicketOf(j)' >= head_'
      /\ \A u \in Threads : ~(Arming(u)' /\ ticket'[u] = TicketOf(j)')
  BY DEF Waiting, Stored
<1>2. j \in Stored /\ TicketOf(j)' = TicketOf(j)
  BY <1>1 DEF StoresArmed
<1>3. TicketOf(j) >= head_
  <2>1. TypeOK /\ WordsOK /\ head_ \in Nat
    BY DEF RingInv, TypeOK
  <2>2. TicketOf(j) \in Nat
    BY <1>2, <2>1, StoredTicket
  <2> QED BY <1>1, <1>2, <2>1, <2>2
<1>4. ASSUME NEW u \in Threads, Arming(u), ticket[u] = TicketOf(j) PROVE FALSE
  <2>1. CASE u = t
    BY <1>1, <1>2, <1>4, <2>1 DEF StoresArmed
  <2>2. CASE u # t
    <3>1. Arming(u)' /\ ticket'[u] = ticket[u]
      BY <1>4, <2>2 DEF Others, Arming
    <3> QED BY <1>1, <1>2, <1>4, <3>1
  <2> QED BY <2>1, <2>2
<1> QED BY <1>2, <1>3, <1>4 DEF Waiting, Stored

LEMMA LateSize ==
    ASSUME Cardinality(Dequeuers) <= Capacity, HeadOK
    PROVE  IsFiniteSet(Late) /\ Cardinality(Late) \in 0..Capacity
<1>1. Late \in SUBSET Dequeuers
  BY DEF Late, HeadOK
<1>2. IsFiniteSet(Late) /\ Cardinality(Late) <= Cardinality(Dequeuers)
  BY <1>1, RingAssumption, FS_Subset
<1>3. Cardinality(Late) \in Nat /\ Cardinality(Dequeuers) \in Nat /\ Capacity \in Nat
  BY <1>2, RingAssumption, FS_CardinalityType
<1> QED BY <1>2, <1>3

LEMMA LateChange ==
    ASSUME IsFiniteSet(Late), NEW t \in Threads, Others(t)
    PROVE  /\ (t \in Late <=> t \in Late') => Cardinality(Late') = Cardinality(Late)
           /\ t \in Late /\ t \notin Late' => Cardinality(Late') = Cardinality(Late) - 1
           /\ t \notin Late /\ t \in Late' => Cardinality(Late') = Cardinality(Late) + 1
<1>1. \A u : u # t => (u \in Late' <=> u \in Late)
  BY DEF Late, Others
<1>2. ASSUME t \in Late <=> t \in Late' PROVE Late' = Late
  BY <1>1, <1>2
<1>3. ASSUME t \in Late, t \notin Late' PROVE Cardinality(Late') = Cardinality(Late) - 1
  <2>1. Late' = Late \ {t}
    BY <1>1, <1>3
  <2>2. Cardinality(Late \ {t}) = Cardinality(Late) - 1
    BY <1>3, FS_RemoveElement
  <2> QED BY <2>1, <2>2
<1>4. ASSUME t \notin Late, t \in Late' PROVE Cardinality(Late') = Cardinality(Late) + 1
  <2>1. Late' = Late \cup {t}
    BY <1>1, <1>4
  <2>2. Cardinality(Late \cup {t}) = Cardinality(Late) + 1
    BY <1>4, FS_AddElement
  <2> QED BY <2>1, <2>2
<1> QED BY <1>2, <1>3, <1>4

(* A step that does not shorten what the threshold pays for. *)
LEMMA ThresholdKept ==
    ASSUME RingInv, TailOK, ThresholdOK,
           NoneArrives,
           head_' \in Nat, threshold_' \in Int, Cardinality(Late) \in Nat, Cardinality(Late') \in Nat,
           threshold_' + head_' - Cardinality(Late') >= threshold_ + head_ - Cardinality(Late)
    PROVE  ThresholdOK'
<1>0. head_ \in Nat /\ threshold_ \in Int
  BY DEF RingInv, TypeOK
<1>1. ASSUME NEW j \in Waiting' PROVE threshold_' >= TicketOf(j)' - head_' + Cardinality(Late')
  <2>1. j \in Waiting /\ TicketOf(j)' = TicketOf(j) /\ TicketOf(j) \in Nat
    BY <1>1, WaitingTicket DEF NoneArrives
  <2>2. threshold_ >= TicketOf(j) - head_ + Cardinality(Late)
    BY <2>1 DEF ThresholdOK
  <2> QED BY <1>0, <2>1, <2>2
<1> QED BY <1>1 DEF ThresholdOK

(* The threshold an enqueuer arms pays for the whole window. *)
LEMMA ThresholdArmed ==
    ASSUME Cardinality(Dequeuers) <= Capacity, TicketInv, HeadOK', entries_' = entries_, head_' = head_,
           threshold_' = InitialThreshold
    PROVE  ThresholdOK'
<1>0. RingInv /\ TailOK /\ head_ \in Nat /\ tail_ \in Nat /\ Capacity \in Nat /\ Capacity >= 2
  BY RingAssumption DEF TicketInv, RingInv, TypeOK
<1>1. Cardinality(Late') \in 0..Capacity
  <2>2. Late' \in SUBSET Dequeuers
    BY DEF Late, HeadOK
  <2>3. IsFiniteSet(Late') /\ Cardinality(Late') <= Cardinality(Dequeuers)
    BY <2>2, RingAssumption, FS_Subset
  <2>4. Cardinality(Late') \in Nat /\ Cardinality(Dequeuers) \in Nat
    BY <2>3, RingAssumption, FS_CardinalityType
  <2> QED BY <1>0, <2>3, <2>4
<1>2. ASSUME NEW j \in Waiting' PROVE threshold_' >= TicketOf(j)' - head_' + Cardinality(Late')
  <2>1. j \in Stored /\ TicketOf(j)' = TicketOf(j)
    BY <1>2 DEF Waiting, Stored, TicketOf
  <2>2. TicketOf(j) \in Nat /\ TicketOf(j) < tail_
    BY <1>0, <2>1, StoredTicket DEF RingInv, TailOK
  <2> QED BY <1>0, <1>1, <2>1, <2>2, WindowBound DEF InitialThreshold, RingSize
<1> QED BY <1>2 DEF ThresholdOK

(* With a spent threshold nothing waits; a late dequeuer counts for one more. *)
LEMMA Spent ==
    ASSUME Cardinality(Dequeuers) <= Capacity, RingInv, TailOK, HeadOK, ThresholdOK,
           threshold_ < 0 \/ (threshold_ <= 0 /\ Late # {})
    PROVE  Waiting = {}
<1> SUFFICES ASSUME NEW j \in Waiting PROVE FALSE
  OBVIOUS
<1>1. TicketOf(j) \in Nat /\ TicketOf(j) >= head_ /\ head_ \in Nat /\ threshold_ \in Int
  BY WaitingTicket DEF RingInv, TypeOK
<1>2. IsFiniteSet(Late) /\ Cardinality(Late) \in Nat
  BY LateSize
<1>3. Late # {} => Cardinality(Late) >= 1
  BY <1>2, FS_EmptySet
<1>4. threshold_ >= TicketOf(j) - head_ + Cardinality(Late)
  BY DEF ThresholdOK
<1> QED BY <1>1, <1>2, <1>3, <1>4

LEMMA ThresholdStep ==
    ASSUME Cardinality(Dequeuers) <= Capacity, TicketInv, SeenEmpty, ThresholdOK, HonestEmpty, HeadOK',
           TypeOK', ThreadsOK', Act
    PROVE  ThresholdOK' /\ HonestEmpty'
<1>0. /\ RingInv /\ TypeOK /\ ThreadsOK /\ HeadOK /\ TailOK
      /\ head_ \in Nat /\ tail_ \in Nat /\ threshold_ \in Int
      /\ head_' \in Nat /\ threshold_' \in Int
  BY DEF TicketInv, RingInv, TypeOK
<1>h. honest
  BY DEF HonestEmpty
<1>l. IsFiniteSet(Late) /\ Cardinality(Late) \in Nat
  BY <1>0, LateSize
<1>c. ASSUME NEW t \in Threads, Others(t)
      PROVE  /\ (t \in Late <=> t \in Late') => Cardinality(Late') = Cardinality(Late)
             /\ t \in Late /\ t \notin Late' =>
                    Cardinality(Late') = Cardinality(Late) - 1 /\ Cardinality(Late) >= 1
             /\ t \notin Late /\ t \in Late' => Cardinality(Late') = Cardinality(Late) + 1
  <2>1. t \in Late => Cardinality(Late) # 0
    BY <1>l, FS_EmptySet
  <2> QED BY <1>c, <1>l, <2>1, LateChange
(* The steps that arm nothing: none of them, with t late or not, one that makes t
   late, and one that takes from the threshold what t no longer can. *)
<1>q. ASSUME NEW t \in Threads, Others(t),
             NoneArrives,
             threshold_' = threshold_, head_' = head_, t \in Late' => t \in Late
      PROVE  ThresholdOK'
  <2>1. Cardinality(Late') \in Nat /\ Cardinality(Late') <= Cardinality(Late)
    <3>1. CASE t \in Late <=> t \in Late'
      BY <1>c, <1>l, <1>q, <3>1
    <3>2. CASE t \in Late /\ t \notin Late'
      BY <1>c, <1>l, <1>q, <3>2
    <3> QED BY <1>q, <3>1, <3>2
  <2> QED BY <1>0, <1>l, <1>q, <2>1, ThresholdKept
<1>d. ASSUME NEW t \in Threads, Others(t),
             NoneArrives,
             threshold_' = threshold_, head_' = head_ + 1, t \notin Late, t \in Late'
      PROVE  ThresholdOK'
  <2>1. Cardinality(Late') = Cardinality(Late) + 1
    BY <1>c, <1>d
  <2> QED BY <1>0, <1>l, <1>d, <2>1, ThresholdKept
<1>g. ASSUME NEW t \in Threads, Others(t),
             NoneArrives,
             threshold_' = threshold_ - 1, head_' = head_, t \in Late, t \notin Late'
      PROVE  ThresholdOK'
  <2>1. Cardinality(Late') = Cardinality(Late) - 1 /\ Cardinality(Late) >= 1
    BY <1>c, <1>g
  <2> QED BY <1>0, <1>l, <1>g, <2>1, ThresholdKept
<1>e. ASSUME NEW t \in Threads, Others(t), entries_' = entries_, head_ <= head_',
             ~Arming(t) \/ (Arming(t)' /\ ticket'[t] = ticket[t])
      PROVE  NoneArrives
  <2>1. \A j \in Stored' : j \in Stored /\ TicketOf(j)' = TicketOf(j)
    BY <1>e DEF Stored, TicketOf
  <2>2. StoresArmed(t)
    BY <1>e, <2>1 DEF StoresArmed
  <2> QED BY <1>0, <1>e, <2>2, WaitingKept
<1>1. ASSUME NEW t \in Enqueuers, NEW i \in Indices, Enqueue(t, i) PROVE ThresholdOK' /\ HonestEmpty'
  <2>1. t \in Threads /\ Others(t)
    BY <1>0, <1>1, Frame DEF Threads
  <2>2. /\ entries_' = entries_ /\ head_' = head_ /\ threshold_' = threshold_ /\ honest' = honest
        /\ pc[t] = "idle" /\ pc'[t] = "enq_load"
    BY <1>0, <1>1, <2>1 DEF Enqueue, DrawTail, Goto, ThreadsOK
  <2>3. ~Arming(t) /\ t \notin Late /\ t \notin Late'
    BY <2>2 DEF Arming, Late, DequeueLabels
  <2>4. NoneArrives
    BY <1>0, <1>e, <2>1, <2>2, <2>3
  <2>5. ThresholdOK'
    BY <1>q, <2>1, <2>2, <2>3, <2>4
  <2> QED BY <1>h, <2>2, <2>5 DEF HonestEmpty
<1>2. ASSUME NEW t \in Dequeuers, Dequeue(t) PROVE ThresholdOK' /\ HonestEmpty'
  <2>1. t \in Threads /\ Others(t)
    BY <1>0, <1>2, Frame DEF Threads
  <2>2. /\ entries_' = entries_ /\ head_' = head_ /\ threshold_' = threshold_
        /\ pc[t] = "idle" /\ pc'[t] \in {"idle", "deq_ticket"}
    BY <1>0, <1>2, <2>1 DEF Dequeue, ring, Goto, ThreadsOK
  <2>3. ~Arming(t) /\ t \notin Late /\ t \notin Late'
    BY <2>2 DEF Arming, Late, DequeueLabels
  <2>4. NoneArrives
    BY <1>0, <1>e, <2>1, <2>2, <2>3
  <2>5. ThresholdOK'
    BY <1>q, <2>1, <2>2, <2>3, <2>4
  <2>6. honest'
    BY <1>0, <1>2, <1>h, Spent DEF Dequeue
  <2> QED BY <2>5, <2>6 DEF HonestEmpty
<1>3. ASSUME NEW t \in Threads, Step(t) PROVE ThresholdOK' /\ HonestEmpty'
  <2>0. Others(t)
    BY <1>0, <1>3, Frame
  <2>i. ASSUME Insert(t), Drawing(t), ticket' = ticket, head_' = head_, threshold_' = threshold_
        PROVE  ThresholdOK'
    <3>1. pc'[t] = "enq_threshold"
      BY <1>0, <2>i DEF Insert, Goto, ThreadsOK
    <3>2. Arming(t)' /\ ~Arming(t) /\ t \notin Late /\ t \notin Late'
      BY <2>i, <3>1 DEF Arming, Drawing, Late, DequeueLabels
    <3>3. ASSUME NEW j \in Stored'
          PROVE  \/ j \in Stored /\ TicketOf(j)' = TicketOf(j)
                 \/ Arming(t)' /\ ticket'[t] = TicketOf(j)'
      <4>1. CASE j = Slot(ticket[t])
        <5>1. ticket[t] \in Nat /\ Slot(ticket[t]) \in Slots
          BY <1>0, EntryType
        <5>2. entries_'[j].cycle = Cycle(ticket[t])
          BY <1>0, <2>i, <4>1, <5>1, NewEntry DEF Insert
        <5>3. TicketOf(j)' = ticket[t]
          BY <4>1, <5>1, <5>2, SlotCycle DEF TicketOf
        <5> QED BY <2>i, <3>2, <5>3
      <4>2. CASE j # Slot(ticket[t])
        <5>1. j \in Slots /\ entries_'[j] = entries_[j]
          BY <1>0, <2>i, <3>3, <4>2, NewEntry DEF Insert, Stored
        <5> QED BY <3>3, <5>1 DEF Stored, TicketOf
      <4> QED BY <4>1, <4>2
    <3>4. StoresArmed(t)
      BY <3>2, <3>3 DEF StoresArmed
    <3>5. NoneArrives
      BY <1>0, <2>0, <2>i, <3>4, WaitingKept
    <3> QED BY <1>q, <2>0, <2>i, <3>2, <3>5
  <2>1. CASE EnqTicket(t) \/ EnqHead(t)
    <3>1. /\ entries_' = entries_ /\ head_' = head_ /\ threshold_' = threshold_ /\ honest' = honest
          /\ pc[t] \in {"enq_ticket", "enq_head"} /\ pc'[t] \in {"enq_load", "enq_cas", "enq_ticket"}
      BY <1>0, <2>1 DEF EnqTicket, EnqHead, DrawTail, Goto, ring, calls, ThreadsOK
    <3>2. ~Arming(t) /\ t \notin Late /\ t \notin Late'
      BY <3>1 DEF Arming, Late, DequeueLabels
    <3>3. NoneArrives
      BY <1>0, <1>e, <2>0, <3>1, <3>2
    <3>4. ThresholdOK'
      BY <1>q, <2>0, <3>1, <3>2, <3>3
    <3> QED BY <1>h, <3>1, <3>4 DEF HonestEmpty
  <2>2. CASE EnqEntry(t) \/ EnqUnsafe(t)
    <3>1. /\ head_' = head_ /\ threshold_' = threshold_ /\ honest' = honest /\ ticket' = ticket
          /\ pc[t] \in {"enq_load", "enq_cas"} /\ Drawing(t)
      BY <2>2 DEF EnqEntry, EnqUnsafe, calls, Drawing
    <3>2. CASE Insert(t)
      BY <1>h, <2>i, <3>1, <3>2 DEF HonestEmpty
    <3>3. CASE entries_' = entries_ /\ ~Insert(t)
      <4>1. pc'[t] \in {"enq_head", "enq_ticket", "enq_load"}
        BY <1>0, <2>2, <3>3 DEF EnqEntry, EnqUnsafe, Goto, ThreadsOK
      <4>2. ~Arming(t) /\ t \notin Late /\ t \notin Late'
        BY <3>1, <4>1 DEF Arming, Late, DequeueLabels
      <4>3. NoneArrives
        BY <1>0, <1>e, <2>0, <3>1, <3>3, <4>2
      <4>4. ThresholdOK'
        BY <1>q, <2>0, <3>1, <4>2, <4>3
      <4> QED BY <1>h, <3>1, <4>4 DEF HonestEmpty
    <3> QED BY <2>2, <3>2, <3>3 DEF EnqEntry, EnqUnsafe
  <2>3. CASE EnqThreshold(t)
    <3>1. /\ entries_' = entries_ /\ head_' = head_ /\ threshold_' = threshold_ /\ honest' = honest
          /\ pc[t] = "enq_threshold"
      BY <2>3 DEF EnqThreshold, ring, calls
    <3>2. CASE threshold_ = InitialThreshold
      BY <1>h, <3>1, <3>2, ThresholdArmed DEF HonestEmpty
    <3>3. CASE Goto(t, "enq_arm") /\ UNCHANGED locals
      <4>1. pc'[t] = "enq_arm" /\ ticket' = ticket
        BY <1>0, <3>3 DEF Goto, locals, ThreadsOK
      <4>2. Arming(t)' /\ t \notin Late /\ t \notin Late'
        BY <3>1, <4>1 DEF Arming, Late, DequeueLabels
      <4>3. NoneArrives
        BY <1>0, <1>e, <2>0, <3>1, <4>1, <4>2
      <4>4. ThresholdOK'
        BY <1>q, <2>0, <3>1, <4>2, <4>3
      <4> QED BY <1>h, <3>1, <4>4 DEF HonestEmpty
    <3> QED BY <2>3, <3>2, <3>3 DEF EnqThreshold
  <2>4. CASE EnqArm(t)
    BY <1>h, <2>4, ThresholdArmed DEF EnqArm, calls, HonestEmpty
  <2>5. CASE DeqTicket(t)
    <3>1. /\ entries_' = entries_ /\ head_' = head_ + 1 /\ threshold_' = threshold_ /\ honest' = honest
          /\ pc[t] = "deq_ticket" /\ pc'[t] = "deq_load"
      BY <1>0, <2>5 DEF DeqTicket, Goto, calls, ThreadsOK
    <3>2. ~Arming(t) /\ t \notin Late /\ t \in Late'
      BY <3>1 DEF Arming, Late, DequeueLabels
    <3>3. NoneArrives
      BY <1>0, <1>e, <2>0, <3>1, <3>2
    <3>4. ThresholdOK'
      BY <1>d, <2>0, <3>1, <3>2, <3>3
    <3> QED BY <1>h, <3>1, <3>4 DEF HonestEmpty
  <2>6. CASE DeqTake(t)
    <3>1. head_' = head_ /\ threshold_' = threshold_ /\ honest' = honest /\ pc[t] = "deq_load"
      BY <2>6 DEF DeqTake
    <3>2. ~Arming(t) /\ t \in Late
      BY <3>1 DEF Arming, Late, DequeueLabels
    <3>3. \A j \in Stored' : j \in Stored /\ TicketOf(j)' = TicketOf(j)
      BY <1>0, <2>6, TakeKeeps DEF Stored, TicketOf
    <3>4. StoresArmed(t)
      BY <3>2, <3>3 DEF StoresArmed
    <3>5. NoneArrives
      BY <1>0, <2>0, <3>1, <3>4, WaitingKept
    <3>6. ThresholdOK'
      BY <1>q, <2>0, <3>1, <3>2, <3>5
    <3> QED BY <1>h, <3>1, <3>6 DEF HonestEmpty
  <2>7. CASE DeqPass(t)
    <3>1. head_' = head_ /\ threshold_' = threshold_ /\ honest' = honest /\ pc[t] = "deq_load"
      BY <2>7 DEF DeqPass, calls
    <3>2. ~Arming(t) /\ t \in Late
      BY <3>1 DEF Arming, Late, DequeueLabels
    <3>3. \A j \in Stored' : j \in Stored /\ TicketOf(j)' = TicketOf(j)
      BY <1>0, <2>7, PassKeeps DEF Stored, TicketOf
    <3>4. StoresArmed(t)
      BY <3>2, <3>3 DEF StoresArmed
    <3>5. NoneArrives
      BY <1>0, <2>0, <3>1, <3>4, WaitingKept
    <3>6. ThresholdOK'
      BY <1>q, <2>0, <3>1, <3>2, <3>5
    <3> QED BY <1>h, <3>1, <3>6 DEF HonestEmpty
  <2>8. CASE DeqTail(t) \/ CatchUp(t) \/ CatchHead(t) \/ CatchTail(t)
    <3>1. /\ entries_' = entries_ /\ head_' = head_ /\ threshold_' = threshold_ /\ honest' = honest
          /\ pc[t] \in {"deq_tail", "catch_up", "catch_head", "catch_tail"}
      BY <2>8 DEF DeqTail, CatchUp, CatchHead, CatchTail, ring, calls
    <3>2. ~Arming(t) /\ t \in Late
      BY <3>1 DEF Arming, Late, DequeueLabels
    <3>3. NoneArrives
      BY <1>0, <1>e, <2>0, <3>1, <3>2
    <3>4. ThresholdOK'
      BY <1>q, <2>0, <3>1, <3>2, <3>3
    <3> QED BY <1>h, <3>1, <3>4 DEF HonestEmpty
  <2>9. CASE DeqNone(t) \/ DeqThreshold(t)
    <3>1. /\ entries_' = entries_ /\ head_' = head_ /\ threshold_' = threshold_ - 1
          /\ pc[t] \in {"deq_none", "deq_threshold"} /\ pc'[t] \in {"idle", "deq_ticket"}
      BY <1>0, <2>9 DEF DeqNone, DeqThreshold, ReturnNone, Return, Goto, ThreadsOK
    <3>2. ~Arming(t) /\ t \in Late /\ t \notin Late'
      BY <3>1 DEF Arming, Late, DequeueLabels
    <3>w. NoneArrives
      BY <1>0, <1>e, <2>0, <3>1, <3>2
    <3>3. ThresholdOK'
      BY <1>g, <2>0, <3>1, <3>2, <3>w
    <3>4. CASE DeqNone(t)
      BY <1>h, <3>3, <3>4 DEF DeqNone, ReturnNone, SeenEmpty, HonestEmpty
    <3>5. CASE DeqThreshold(t)
      <4>1. threshold_ <= 0 => Waiting = {}
        BY <1>0, <3>2, Spent
      <4> QED BY <1>h, <3>3, <3>5, <4>1 DEF DeqThreshold, ReturnNone, HonestEmpty
    <3> QED BY <2>9, <3>4, <3>5
  <2> QED BY <1>3, <2>1, <2>2, <2>3, <2>4, <2>5, <2>6, <2>7, <2>8, <2>9 DEF Step
<1> QED BY <1>1, <1>2, <1>3 DEF Act

(* Overtaking the tail shows the ring empty. *)
LEMMA SeenStep ==
    ASSUME RingInv, TailOK, HeadOK, SeenEmpty, Act, Observe
    PROVE  SeenEmpty'
<1> DEFINE Overtaken == {"catch_up", "catch_head", "catch_tail", "deq_none"}
<1>0. /\ TypeOK /\ ThreadsOK /\ WordsOK /\ head_ \in Nat /\ tail_ \in Nat
  BY DEF RingInv, TypeOK
<1>1. ASSUME NEW t \in Threads, NEW u \in Threads, pc'[u] \in Overtaken,
             Step(t) \/ (\E i \in Indices : Enqueue(t, i)) \/ Dequeue(t)
      PROVE  pc[u] \in Overtaken \/ Waiting' = {}
  <2>1. CASE u # t
    BY <1>0, <1>1, <2>1, Frame DEF Others
  <2>2. CASE u = t /\ DeqTail(t)
    <3> SUFFICES ASSUME pc[t] = "deq_tail", NEW j \in Waiting' PROVE FALSE
      BY <2>2 DEF DeqTail
    <3>1. tail_ <= ticket[t] + 1 /\ entries_' = entries_ /\ head_' = head_
      BY <1>0, <1>1, <2>2 DEF DeqTail, Goto, ring, ThreadsOK
    <3>2. ticket[t] \in Nat /\ ticket[t] < head_
      BY <1>0 DEF HeadOK, TypeOK
    <3>3. j \in Stored /\ TicketOf(j) >= head_
      BY <3>1 DEF Waiting, Stored, TicketOf
    <3>4. TicketOf(j) \in Nat /\ TicketOf(j) < tail_
      BY <1>0, <3>3, StoredTicket DEF TailOK
    <3> QED BY <1>0, <3>1, <3>2, <3>3, <3>4
  <2>3. CASE u = t /\ (CatchUp(t) \/ CatchHead(t) \/ CatchTail(t))
    BY <2>3 DEF CatchUp, CatchHead, CatchTail
  <2>4. CASE u = t /\ ((\E i \in Indices : Enqueue(t, i)) \/ Dequeue(t))
    BY <1>0, <1>1, <2>4 DEF Enqueue, Dequeue, DrawTail, Goto, ThreadsOK
  <2>5. CASE u = t /\ (EnqTicket(t) \/ EnqEntry(t) \/ EnqHead(t) \/ EnqUnsafe(t) \/ EnqThreshold(t) \/ EnqArm(t))
    BY <1>0, <1>1, <2>5 DEF EnqTicket, EnqEntry, EnqHead, EnqUnsafe, EnqThreshold, EnqArm, DrawTail,
                            Insert, Return, Goto, ThreadsOK
  <2>6. CASE u = t /\ (DeqTicket(t) \/ DeqTake(t) \/ DeqPass(t) \/ DeqNone(t) \/ DeqThreshold(t))
    BY <1>0, <1>1, <2>6 DEF DeqTicket, DeqTake, DeqPass, DeqNone, DeqThreshold, ReturnNone, Return,
                            Goto, ThreadsOK
  <2> QED BY <1>1, <2>1, <2>2, <2>3, <2>4, <2>5, <2>6 DEF Step
<1>2. PICK t \in Threads : Step(t) \/ (\E i \in Indices : Enqueue(t, i)) \/ Dequeue(t)
  BY DEF Act, Threads
<1>3. ASSUME NEW u \in Threads, pc'[u] \in Overtaken PROVE empty_seen'[u]
  <2>1. Dequeuing(u)'
    BY <1>3 DEF Dequeuing, Carrying, Arming
  <2>2. empty_seen[u] \/ Waiting' = {}
    BY <1>1, <1>2, <1>3 DEF SeenEmpty
  <2> QED BY <2>1, <2>2 DEF Observe
<1> QED BY <1>3 DEF SeenEmpty
-----------------------------------------------------------------------------
LEMMA HonestInit == Init => TailOK /\ HeadOK /\ SkipOK /\ SeenEmpty /\ ThresholdOK /\ HonestEmpty
<1> SUFFICES ASSUME Init
             PROVE  TailOK /\ HeadOK /\ SkipOK /\ SeenEmpty /\ ThresholdOK /\ HonestEmpty
  OBVIOUS
<1>1. PICK full \in Initials :
           /\ entries_ = [j \in Slots |-> IF full /\ j \in Indices
                                          THEN [cycle |-> 0, safe |-> TRUE, index |-> j] ELSE Fresh]
           /\ tail_ = (IF full THEN Capacity ELSE 0)
           /\ threshold_ = (IF full THEN InitialThreshold ELSE -1)
  BY DEF Init
<1>2. head_ = 0 /\ pc = [t \in Threads |-> "idle"] /\ honest
  BY DEF Init
<1>3. Capacity \in Nat /\ Capacity >= 2 /\ RingMask \notin Indices /\ RingSize \in Nat
  BY RingAssumption, RingNumbers
<1>4. ASSUME NEW j \in Stored
      PROVE  full /\ j \in Indices /\ j \in Slots /\ entries_[j].index = j /\ entries_[j].cycle = 0 /\ TicketOf(j) = j
  <2>1. j \in Slots /\ entries_[j].index # RingMask
    BY <1>4 DEF Stored
  <2>2. full /\ j \in Indices
    BY <1>1, <2>1 DEF Fresh
  <2>3. entries_[j] = [cycle |-> 0, safe |-> TRUE, index |-> j]
    BY <1>1, <2>1, <2>2
  <2>4. j \in Nat
    BY <1>3, <2>2 DEF Indices
  <2> QED BY <1>3, <2>1, <2>2, <2>3, <2>4 DEF TicketOf
<1>5. TailOK
  <2>1. \A j \in Stored : TicketOf(j) < tail_
    BY <1>1, <1>3, <1>4 DEF Indices
  <2> QED BY <1>2, <2>1 DEF TailOK, Drawing
<1>6. HeadOK /\ SeenEmpty /\ HonestEmpty
  BY <1>2 DEF HeadOK, DequeueLabels, SeenEmpty, HonestEmpty
<1>7. SkipOK
  <2>1. ASSUME NEW x \in Window PROVE InPlace(x)
    <3>1. full /\ x \in Nat /\ x < Capacity
      BY <1>1, <1>2, <1>3 DEF Window
    <3>2. x \in Slots /\ x \in Indices /\ 0 * RingSize + x = x
      BY <1>3, <3>1 DEF Slots, RingMask, RingSize, Indices
    <3>3. Slot(x) = x /\ Cycle(x) = 0
      BY <3>2, TicketParts
    <3>4. entries_[x] = [cycle |-> 0, safe |-> TRUE, index |-> x] /\ x # RingMask
      BY <1>1, <1>3, <3>1, <3>2
    <3> QED BY <3>3, <3>4 DEF InPlace
  <2>2. Skipped = {}
    BY <2>1 DEF Skipped
  <2>3. PICK g \in [Skipped -> Indices] : TRUE
    <3>1. [x \in Skipped |-> 0] \in [Skipped -> Indices]
      BY <2>2
    <3> QED BY <3>1
  <2>4. Blame(g)
    BY <2>2 DEF Blame
  <2> QED BY <2>4 DEF SkipOK
<1>8. ThresholdOK
  <2> SUFFICES ASSUME NEW j \in Waiting PROVE threshold_ >= TicketOf(j) - head_ + Cardinality(Late)
    BY DEF ThresholdOK
  <2>1. j \in Stored
    BY DEF Waiting, Stored
  <2>2. Late = {}
    BY <1>2 DEF Late, DequeueLabels
  <2>3. Cardinality(Late) = 0
    BY <2>2, FS_EmptySet
  <2> QED BY <1>1, <1>2, <1>3, <1>4, <2>1, <2>3 DEF InitialThreshold, RingSize, Indices
<1> QED BY <1>5, <1>6, <1>7, <1>8

LEMMA TicketStutter ==
    ASSUME TailOK, HeadOK, SkipOK, UNCHANGED vars
    PROVE  TailOK' /\ HeadOK' /\ SkipOK'
<1> USE DEF vars
<1>1. TailOK' /\ HeadOK'
  BY DEF TailOK, HeadOK, Stored, TicketOf, Drawing
<1>2. Skipped' = Skipped
  BY DEF Skipped, Window, InPlace, Carried, Drawing
<1>3. \A x \in Skipped', i \in Indices : Blocked(i, x) => Blocked(i, x)'
  BY DEF Blocked, Stored, TicketOf, Drawing
<1>4. SkipOK'
  BY <1>2, <1>3, SkipKept
<1> QED BY <1>1, <1>4

LEMMA HonestStutter ==
    ASSUME SeenEmpty, ThresholdOK, HonestEmpty, UNCHANGED vars
    PROVE  SeenEmpty' /\ ThresholdOK' /\ HonestEmpty'
<1> USE DEF vars
<1>1. ThresholdOK'
  <2>1. Waiting' = Waiting /\ Late' = Late
    BY DEF Waiting, TicketOf, Arming, Late
  <2> QED BY <2>1 DEF ThresholdOK, TicketOf
<1> QED BY <1>1 DEF SeenEmpty, HonestEmpty

(* Whatever the number of threads, every reachable state of the ring satisfies the
   inductive invariant about tickets: no two skipped tickets between head and tail
   were blocked by one index. *)
THEOREM TicketInvariant == Spec => []TicketInv
<1>1. Init => TicketInv
  BY TypeInit, ConservedInit, HonestInit DEF TicketInv
<1>2. TicketInv /\ [Next]_vars => TicketInv'
  <2> SUFFICES ASSUME TicketInv, [Next]_vars PROVE TicketInv'
    OBVIOUS
  <2>0. RingInv /\ IndexConserved /\ TailOK /\ HeadOK /\ SkipOK
    BY DEF TicketInv
  <2>1. CASE Act /\ Observe
    <3>1. RingInv'
      BY <2>0, <2>1, TypeStep, CoreStep DEF RingInv, Core
    <3>2. IndexConserved'
      BY <2>0, <2>1, ConservedStep DEF RingInv
    <3>3. TailOK' /\ HeadOK' /\ SkipOK'
      BY <2>0, <2>1, TailStep, HeadStep, SkipStep
    <3> QED BY <3>1, <3>2, <3>3 DEF TicketInv
  <2>2. CASE UNCHANGED vars
    <3>1. RingInv'
      BY <2>0, <2>2, RingStutter
    <3>2. IndexConserved'
      BY <2>0, <2>2 DEF IndexConserved, vars, Stored, Carrying
    <3> QED BY <2>0, <2>2, <3>1, <3>2, TicketStutter DEF TicketInv
  <2> QED BY <2>1, <2>2 DEF Next, Rest
<1> QED BY <1>1, <1>2, PTL DEF Spec

(* Enqueuers do not run away from the head: whatever the number of threads and
   however many tickets they skip, the tickets between head and tail fit into the
   ring once. *)
THEOREM WindowBounded == Spec => []TicketsBounded
<1>1. TicketInv => TicketsBounded
  BY WindowBound DEF TicketsBounded
<1> QED BY <1>1, TicketInvariant, PTL

(* With no more dequeuers than indices the threshold pays for what waits in every
   reachable state. *)
THEOREM HonestInvariant ==
    ASSUME Cardinality(Dequeuers) <= Capacity
    PROVE  Spec => []HonestInv
<1> DEFINE Extra == SeenEmpty /\ ThresholdOK /\ HonestEmpty
<1>1. Init => Extra
  BY HonestInit
<1>2. TicketInv /\ TicketInv' /\ Extra /\ [Next]_vars => Extra'
  <2> SUFFICES ASSUME TicketInv, TicketInv', Extra, [Next]_vars PROVE Extra'
    OBVIOUS
  <2>0. RingInv /\ TailOK /\ HeadOK /\ SeenEmpty /\ ThresholdOK /\ HonestEmpty
    BY DEF TicketInv
  <2>1. CASE Act /\ Observe
    <3>1. HeadOK' /\ TypeOK' /\ ThreadsOK'
      BY DEF TicketInv, RingInv
    <3>2. SeenEmpty'
      BY <2>0, <2>1, SeenStep
    <3>3. ThresholdOK' /\ HonestEmpty'
      BY <2>0, <2>1, <3>1, ThresholdStep
    <3> QED BY <3>2, <3>3
  <2>2. CASE UNCHANGED vars
    BY <2>0, <2>2, HonestStutter
  <2> QED BY <2>1, <2>2 DEF Next, Rest
<1>3. TicketInv /\ Extra => HonestInv
  BY DEF HonestInv
<1> HIDE DEF Extra
<1> QED BY <1>1, <1>2, <1>3, TicketInvariant, PTL DEF Spec

(* With no more dequeuers than indices try_dequeue comes back empty-handed only if
   the ring was empty at some moment of the call, whatever the threshold, the
   skipped tickets and catch_up did meanwhile. *)
THEOREM FewDequeuersHonest ==
    ASSUME Cardinality(Dequeuers) <= Capacity
    PROVE  Spec => []HonestEmpty
<1>1. HonestInv => HonestEmpty
  BY DEF HonestInv
<1> QED BY <1>1, HonestInvariant, PTL
=============================================================================
