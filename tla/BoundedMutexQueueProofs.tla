----------------------- MODULE BoundedMutexQueueProofs -----------------------
(***************************************************************************)
(* Proofs about BoundedMutexQueue for every number of threads, capacity    *)
(* and bound.  What happens to the data (ring, closed_, histories, result) *)
(* is separated from what happens to the threads: lemma StepKinds sorts    *)
(* the steps of Next into six kinds, and the data invariant is shown to    *)
(* survive each kind without looking at the threads again.                 *)
(***************************************************************************)
EXTENDS BoundedMutexQueue, SequenceFacts, TLAPS, FiniteSetTheorems

DataUnchanged == UNCHANGED <<ring, closed_, histories>>

(* A step of the threads only: nothing a caller could observe in the data. *)
QuietStep == DataUnchanged /\ UNCHANGED result

(* A pop that finds the queue empty. *)
EmptyStep(c) ==
    /\ DataUnchanged /\ size_ = 0
    /\ \/ closed_ /\ result' = [result EXCEPT ![c] = "closed"]
       \/ ~closed_ /\ \E r \in {"empty", "stopped"} : result' = [result EXCEPT ![c] = r]

PushStep(p) ==
    ~closed_ /\ size_ < Capacity /\ sent[p] < MaxEvents /\ PushLocked(p) /\ UNCHANGED result

PopStep(c) == size_ # 0 /\ PopLocked /\ result' = [result EXCEPT ![c] = "success"]

CloseStep == closed_' = TRUE /\ UNCHANGED <<ring, histories, result>>

DiscardStep ==
    /\ closed_' = TRUE
    /\ slots_' = [i \in Indices |-> IF i \in Occupied THEN Empty ELSE slots_[i]]
    /\ head_' = tail_ /\ size_' = 0 /\ discarded' = discarded \o Contents
    /\ UNCHANGED <<tail_, sent, accepted, taken, result>>

DataStep ==
    \/ QuietStep \/ CloseStep \/ DiscardStep
    \/ \E p \in Producers : PushStep(p)
    \/ \E c \in Consumers : EmptyStep(c) \/ PopStep(c)

(* A waiting producer has an event left to send: the call it is in checked. *)
CanSend == \A p \in Producers : Waiting(p) => sent[p] < MaxEvents

(* The types that concern the threads. *)
ThreadsOK ==
    /\ pc \in [Threads -> {"idle", "parked", "woken", "notify", "wake_consumers", "wake_producers"}]
    /\ stop \in [Waiters -> BOOLEAN]
    /\ deadline \in [Producers -> {"none", "ahead", "passed"}]

(* The types that concern the data. *)
DataOK ==
    /\ slots_ \in [Indices -> Events \cup {Empty}]
    /\ head_ \in Indices /\ tail_ \in Indices /\ size_ \in 0..Capacity
    /\ closed_ \in BOOLEAN
    /\ result \in [Consumers -> {"none", "success", "empty", "closed", "stopped"}]
    /\ sent \in [Producers -> 0..MaxEvents]
    /\ accepted \in Seq(Events) /\ taken \in Seq(Events) /\ discarded \in Seq(Events)

(* The inductive invariant: to pop an event of the right type the head slot
   must be engaged (RingOK), to count a push CanSend must hold. *)
TypeInv == ThreadsOK /\ DataOK /\ RingOK /\ CanSend
-----------------------------------------------------------------------------
(* Every step treats the data in one of the six ways. *)
LEMMA StepKinds == ThreadsOK /\ CanSend /\ DataOK /\ Next => DataStep
<1> SUFFICES ASSUME ThreadsOK, CanSend, DataOK, Next PROVE DataStep
  OBVIOUS
<1> USE ThreadsAssumption
<1>1. ASSUME NEW p \in Producers, Accept(p), ~closed_, size_ # Capacity, sent[p] < MaxEvents
      PROVE  DataStep
  <2>1. CASE PushLocked(p) /\ Leave(p, "notify", "success")
    <3>1. result' = result
      BY <2>1 DEF Leave
    <3>2. size_ < Capacity
      BY <1>1, SizeAssumption DEF DataOK
    <3>3. PushStep(p)
      BY <1>1, <2>1, <3>1, <3>2 DEF PushStep
    <3> QED BY <3>3 DEF DataStep
  <2>2. CASE CopyMayThrow /\ Refuse(p, "threw")
    BY <2>2 DEF DataStep, QuietStep, DataUnchanged, Refuse, Leave
  <2> QED BY <1>1, <2>1, <2>2 DEF Accept
<1>2. ASSUME NEW p \in Producers, NEW r, Refuse(p, r) PROVE DataStep
  BY <1>2 DEF DataStep, QuietStep, DataUnchanged, Refuse, Leave
<1>3. ASSUME NEW t \in Waiters, NEW s, NEW d, Park(t, s, d) PROVE DataStep
  BY <1>3 DEF DataStep, QuietStep, DataUnchanged, Park
<1>4. ASSUME NEW p \in Producers, NEW s, NEW d, PushAttempt(p, s, d), sent[p] < MaxEvents
      PROVE  DataStep
  BY <1>1, <1>2, <1>3, <1>4 DEF PushAttempt, PushReady, Waiters
<1>5. ASSUME NEW c \in Consumers, Take(c), size_ # 0 PROVE DataStep
  <2>1. PopStep(c)
    BY <1>5 DEF Take, Leave, PopStep
  <2> QED BY <2>1 DEF DataStep
<1>6. ASSUME NEW c \in Consumers, size_ = 0,
             \/ closed_ /\ Refuse(c, "closed")
             \/ ~closed_ /\ Refuse(c, "empty")
             \/ ~closed_ /\ Refuse(c, "stopped")
      PROVE  DataStep
  <2>1. EmptyStep(c)
    BY <1>6 DEF Refuse, Leave, EmptyStep, DataUnchanged
  <2> QED BY <2>1 DEF DataStep
<1>7. ASSUME NEW c \in Consumers, NEW s, PopAttempt(c, s) PROVE DataStep
  BY <1>3, <1>5, <1>6, <1>7 DEF PopAttempt, PopReady, Waiters
<1>8. ASSUME NEW p \in Producers,
             TryPush(p) \/ WaitPush(p) \/ ResumePush(p) \/ NotifyConsumer(p) \/ Expire(p)
      PROVE  DataStep
  <2>1. CASE TryPush(p)
    BY <1>1, <1>2, <2>1 DEF TryPush
  <2>2. CASE WaitPush(p)
    BY <1>4, <2>2 DEF WaitPush
  <2>3. CASE ResumePush(p)
    BY <1>4, <2>3 DEF ResumePush, CanSend, Waiting
  <2>4. CASE NotifyConsumer(p)
    BY <2>4 DEF NotifyConsumer, NotifyOne, DataStep, QuietStep, DataUnchanged
  <2>5. CASE Expire(p)
    BY <2>5 DEF Expire, DataStep, QuietStep, DataUnchanged
  <2> QED BY <1>8, <2>1, <2>2, <2>3, <2>4, <2>5
<1>9. ASSUME NEW c \in Consumers, TryPop(c) \/ WaitPop(c) \/ ResumePop(c) \/ NotifyProducer(c)
      PROVE  DataStep
  <2>1. CASE TryPop(c)
    BY <1>5, <1>6, <2>1 DEF TryPop
  <2>2. CASE WaitPop(c) \/ ResumePop(c)
    BY <1>7, <2>2 DEF WaitPop, ResumePop
  <2>3. CASE NotifyProducer(c)
    BY <2>3 DEF NotifyProducer, NotifyOne, DataStep, QuietStep, DataUnchanged
  <2> QED BY <1>9, <2>1, <2>2, <2>3
<1>10. ASSUME NEW k \in Closers,
              Close(k) \/ CloseAndDiscard(k) \/ WakeConsumers(k) \/ WakeProducers(k)
       PROVE  DataStep
  BY <1>10 DEF Close, CloseAndDiscard, WakeConsumers, WakeProducers, NotifyAll,
               DataStep, QuietStep, CloseStep, DiscardStep, DataUnchanged
<1>11. ASSUME NEW t \in Waiters, RequestStop(t) \/ SpuriousWake(t) PROVE DataStep
  BY <1>11 DEF RequestStop, SpuriousWake, DataStep, QuietStep, DataUnchanged
<1> QED BY <1>8, <1>9, <1>10, <1>11 DEF Next
-----------------------------------------------------------------------------
(* The slots At(0), ..., At(Capacity - 1) are all slots, each once. *)
LEMMA AtFacts ==
    ASSUME head_ \in Indices
    PROVE  /\ \A i \in Indices : At(i) \in Indices
           /\ \A i, j \in Indices : At(i) = At(j) => i = j
           /\ \A i \in Indices : \E j \in Indices : At(j) = i
<1> USE SizeAssumption DEF Indices, At
<1>1. \A i \in Indices : At(i) \in Indices
  OBVIOUS
<1>2. \A i, j \in Indices : At(i) = At(j) => i = j
  OBVIOUS
<1>3. ASSUME NEW i \in Indices PROVE \E j \in Indices : At(j) = i
  <2>1. CASE i >= head_
    <3>1. i - head_ \in Indices /\ At(i - head_) = i
      BY <2>1
    <3> QED BY <3>1
  <2>2. CASE i < head_
    <3>1. i - head_ + Capacity \in Indices /\ At(i - head_ + Capacity) = i
      BY <2>2
    <3> QED BY <3>1
  <2> QED BY <2>1, <2>2
<1> QED BY <1>1, <1>2, <1>3

(* The contents are a sequence of size_ events. *)
LEMMA ContentsFacts ==
    ASSUME DataOK, RingOK
    PROVE  Contents \in Seq(Events) /\ Len(Contents) = size_
<1>1. \A i \in 1..size_ : slots_[At(i - 1)] \in Events
  <2>1. \A i \in 1..size_ : i - 1 \in Indices /\ ~(i - 1 >= size_)
    BY SizeAssumption DEF DataOK, Indices
  <2> QED BY <2>1, AtFacts DEF DataOK, RingOK
<1>2. Contents \in [1..size_ -> Events]
  BY <1>1 DEF Contents
<1>3. size_ \in Nat
  BY SizeAssumption DEF DataOK
<1> QED BY <1>2, <1>3

(* A push fills the slot behind the last engaged one. *)
LEMMA PushRing ==
    ASSUME DataOK, RingOK, NEW p \in Producers, PushStep(p)
    PROVE  DataOK' /\ RingOK' /\ Contents' = Append(Contents, NextEvent(p))
<1> USE SizeAssumption
<1>1. NextEvent(p) \in Events /\ NextEvent(p) # Empty
  BY EmptyAssumption DEF NextEvent, Events, PushStep, DataOK
<1>2. DataOK'
  BY <1>1 DEF DataOK, PushStep, PushLocked, Increment, Indices
<1>3. \A i \in 0..Capacity : At(i)' = At(i)
  BY DEF PushStep, PushLocked, At
<1>4. tail_' = At(size_ + 1)
  BY DEF PushStep, PushLocked, Increment, RingOK, At, DataOK, Indices
<1>5. \A i \in Indices : slots_'[At(i)] = IF i = size_ THEN NextEvent(p) ELSE slots_[At(i)]
  <2>1. size_ \in Indices /\ tail_ = At(size_) /\ tail_ \in Indices
    BY DEF PushStep, RingOK, DataOK, Indices
  <2>2. \A i \in Indices : At(i) \in Indices /\ (At(i) = tail_ <=> i = size_)
    BY AtFacts, <2>1 DEF DataOK
  <2>3. slots_' = [slots_ EXCEPT ![tail_] = NextEvent(p)] /\ DOMAIN slots_ = Indices
    BY DEF PushStep, PushLocked, DataOK
  <2> QED BY <2>1, <2>2, <2>3
<1>6. RingOK'
  BY <1>1, <1>3, <1>4, <1>5 DEF RingOK, PushStep, PushLocked, DataOK, Indices
<1>7. Contents' = Append(Contents, NextEvent(p))
  <2>1. size_' = size_ + 1
    BY DEF PushStep, PushLocked
  <2>2. Contents' = [i \in 1..(size_ + 1) |-> slots_'[At(i - 1)]]
    BY <1>3, <2>1 DEF Contents, DataOK, PushStep
  <2>3. Contents' = [i \in 1..(size_ + 1) |->
                        IF i = size_ + 1 THEN NextEvent(p) ELSE slots_[At(i - 1)]]
    BY <1>5, <2>2 DEF Indices, DataOK, PushStep
  <2>4. Append(Contents, NextEvent(p)) = [i \in 1..(size_ + 1) |->
                        IF i = size_ + 1 THEN NextEvent(p) ELSE Contents[i]]
    BY ContentsFacts, <1>1, AppendAsFunction
  <2>5. \A i \in 1..(size_ + 1) : i # size_ + 1 => Contents[i] = slots_[At(i - 1)]
    BY DEF Contents, DataOK
  <2> QED BY <2>3, <2>4, <2>5
<1> QED BY <1>2, <1>6, <1>7

(* A pop empties the head slot and hands out the oldest event. *)
LEMMA PopRing ==
    ASSUME DataOK, RingOK, NEW c \in Consumers, PopStep(c)
    PROVE  /\ DataOK' /\ RingOK' /\ Contents' = Tail(Contents)
           /\ Contents # <<>> /\ Head(Contents) = slots_[head_]
<1> USE SizeAssumption
<1>1. size_ \in 1..Capacity /\ At(0) = head_
  BY DEF DataOK, PopStep, At, Indices
<1>2. slots_[head_] \in Events
  BY <1>1 DEF RingOK, DataOK, Indices
<1>3. DataOK'
  BY <1>1, <1>2 DEF DataOK, PopStep, PopLocked, RemoveHead, Increment, Indices
<1>4. \A i \in 0..(Capacity - 2) : At(i)' = At(i + 1)
  BY DEF PopStep, PopLocked, RemoveHead, Increment, At, DataOK, Indices
<1>5. At(Capacity - 1)' = head_
  BY DEF PopStep, PopLocked, RemoveHead, Increment, At, DataOK, Indices
<1>7. slots_'[head_] = Empty /\ \A i \in 1..(Capacity - 1) : slots_'[At(i)] = slots_[At(i)]
  BY <1>1, AtFacts DEF PopStep, PopLocked, RemoveHead, DataOK, Indices
<1>8. RingOK'
  <2>1. tail_' = At(size_)'
    BY <1>1 DEF PopStep, PopLocked, RemoveHead, Increment, RingOK, At, DataOK, Indices
  <2>2. ASSUME NEW i \in Indices PROVE slots_'[At(i)'] = Empty <=> i >= size_'
    <3>1. size_' = size_ - 1
      BY DEF PopStep, PopLocked, RemoveHead
    <3>2. CASE i = Capacity - 1
      BY <1>1, <1>5, <1>7, <3>1, <3>2
    <3>3. CASE i # Capacity - 1
      <4>1. i \in 0..(Capacity - 2) /\ i + 1 \in 1..(Capacity - 1) /\ i + 1 \in Indices
        BY <3>3 DEF Indices
      <4>2. slots_'[At(i)'] = slots_[At(i + 1)]
        BY <1>4, <1>7, <4>1
      <4> QED BY <1>1, <3>1, <4>1, <4>2 DEF RingOK, Indices
    <3> QED BY <3>2, <3>3
  <2> QED BY <2>1, <2>2 DEF RingOK, Indices
<1>9. Contents' = Tail(Contents)
  <2>1. size_' = size_ - 1
    BY DEF PopStep, PopLocked, RemoveHead
  <2>2. Contents' = [i \in 1..(size_ - 1) |-> slots_'[At(i - 1)']]
    BY <2>1 DEF Contents, At
  <2>3. \A i \in 1..(size_ - 1) : slots_'[At(i - 1)'] = slots_[At(i)]
    BY <1>1, <1>4, <1>7 DEF Indices
  <2>4. Tail(Contents) = [i \in 1..(size_ - 1) |-> Contents[i + 1]]
    BY <1>1, ContentsFacts, TailAsFunction
  <2>5. \A i \in 1..(size_ - 1) : Contents[i + 1] = slots_[At(i)]
    BY <1>1 DEF Contents
  <2> QED BY <2>2, <2>3, <2>4, <2>5
<1>10. Contents # <<>> /\ Head(Contents) = slots_[head_]
  BY <1>1, ContentsFacts DEF Contents
<1> QED BY <1>3, <1>8, <1>9, <1>10

(* close_and_discard leaves an empty, consistent ring. *)
LEMMA DiscardRing ==
    ASSUME DataOK, RingOK, DiscardStep
    PROVE  DataOK' /\ RingOK' /\ Contents' = <<>>
<1> USE SizeAssumption
<1>1. DataOK'
  BY ContentsFacts DEF DataOK, DiscardStep, Indices
<1>2. \A i \in Indices : slots_'[i] = Empty
  <2> SUFFICES ASSUME NEW i \in Indices, i \notin Occupied PROVE slots_[i] = Empty
    BY DEF DiscardStep
  <2>1. PICK j \in Indices : At(j) = i
    BY AtFacts DEF DataOK
  <2>2. j >= size_
    BY <2>1 DEF Occupied, Indices, DataOK
  <2> QED BY <2>1, <2>2 DEF RingOK
<1>3. tail_' = At(size_)'
  BY DEF DiscardStep, At, DataOK, Indices
<1>4. \A i \in Indices : At(i)' \in Indices
  BY DEF DiscardStep, At, DataOK, Indices
<1>5. RingOK'
  BY <1>2, <1>3, <1>4 DEF RingOK, DiscardStep, Indices
<1>6. Contents' = <<>>
  BY DEF Contents, DiscardStep
<1> QED BY <1>1, <1>5, <1>6
-----------------------------------------------------------------------------
(* The data part of the invariant survives every kind of step. *)
LEMMA DataStepOK == ASSUME DataOK, RingOK, DataStep PROVE DataOK' /\ RingOK'
<1>1. CASE QuietStep
  BY <1>1 DEF QuietStep, DataUnchanged, ring, histories, DataOK, RingOK, At
<1>2. CASE CloseStep
  BY <1>2 DEF CloseStep, ring, histories, DataOK, RingOK, At
<1>3. CASE DiscardStep
  BY <1>3, DiscardRing
<1>4. ASSUME NEW p \in Producers, PushStep(p) PROVE DataOK' /\ RingOK'
  BY <1>4, PushRing
<1>5. ASSUME NEW c \in Consumers, EmptyStep(c) PROVE DataOK' /\ RingOK'
  BY <1>5 DEF EmptyStep, DataUnchanged, ring, histories, DataOK, RingOK, At
<1>6. ASSUME NEW c \in Consumers, PopStep(c) PROVE DataOK' /\ RingOK'
  BY <1>6, PopRing
<1> QED BY <1>1, <1>2, <1>3, <1>4, <1>5, <1>6 DEF DataStep

(* The thread part: only a call that checked sent[p] makes a producer wait. *)
LEMMA ThreadsStepOK ==
    ASSUME ThreadsOK, CanSend, DataOK, Next
    PROVE  ThreadsOK' /\ CanSend'
<1> USE ThreadsAssumption
<1>a. ASSUME NEW p \in Producers, sent[p] < MaxEvents, Accept(p)
      PROVE  ThreadsOK' /\ CanSend'
  <2>1. /\ pc' = [pc EXCEPT ![p] = "notify"] \/ pc' = [pc EXCEPT ![p] = "idle"]
        /\ stop' = [stop EXCEPT ![p] = FALSE] /\ deadline' = [deadline EXCEPT ![p] = "none"]
    BY <1>a DEF Accept, Refuse, Leave
  <2>2. ThreadsOK'
    BY <2>1 DEF ThreadsOK, Waiters, Threads
  <2>3. \A q \in Producers \ {p} : sent'[q] = sent[q] /\ pc'[q] = pc[q]
    <3>1. sent' = [sent EXCEPT ![p] = @ + 1] \/ sent' = sent
      BY <1>a DEF Accept, PushLocked, Refuse, histories
    <3> QED BY <2>1, <3>1 DEF ThreadsOK, DataOK, Waiters, Threads
  <2>4. ~Waiting(p)'
    BY <2>1 DEF ThreadsOK, Waiting, Waiters, Threads
  <2>5. CanSend'
    BY <2>3, <2>4 DEF CanSend, Waiting
  <2> QED BY <2>2, <2>5
<1>b. ASSUME NEW t \in Waiters, NEW r, Refuse(t, r) PROVE ThreadsOK' /\ CanSend'
  BY <1>b DEF Refuse, Leave, histories, ThreadsOK, CanSend, Waiting, Waiters, Threads
<1>c. ASSUME NEW t \in Waiters, NEW s \in BOOLEAN, NEW d \in {"none", "ahead", "passed"},
             Park(t, s, d), t \in Producers => sent[t] < MaxEvents
      PROVE  ThreadsOK' /\ CanSend'
  BY <1>c DEF Park, histories, ThreadsOK, CanSend, Waiting, Waiters, Threads
<1>d. ASSUME NEW c \in Consumers, Take(c) PROVE ThreadsOK' /\ CanSend'
  BY <1>d DEF Take, PopLocked, Leave, ThreadsOK, CanSend, Waiting, Waiters, Threads
<1>1. ASSUME NEW p \in Producers, NEW s \in BOOLEAN, NEW d \in {"none", "ahead", "passed"},
             PushAttempt(p, s, d), sent[p] < MaxEvents
      PROVE  ThreadsOK' /\ CanSend'
  BY <1>a, <1>b, <1>c, <1>1 DEF PushAttempt, Waiters
<1>2. ASSUME NEW c \in Consumers, NEW s \in BOOLEAN, PopAttempt(c, s)
      PROVE  ThreadsOK' /\ CanSend'
  BY <1>b, <1>c, <1>d, <1>2 DEF PopAttempt, Waiters
<1>3. ASSUME NEW p \in Producers,
             TryPush(p) \/ WaitPush(p) \/ ResumePush(p) \/ NotifyConsumer(p) \/ Expire(p)
      PROVE  ThreadsOK' /\ CanSend'
  <2>1. CASE TryPush(p)
    BY <1>a, <1>b, <2>1 DEF TryPush, Waiters
  <2>2. CASE WaitPush(p)
    BY <1>1, <2>2 DEF WaitPush
  <2>3. CASE ResumePush(p)
    <3>1. sent[p] < MaxEvents /\ stop[p] \in BOOLEAN /\ deadline[p] \in {"none", "ahead", "passed"}
      BY <2>3 DEF ResumePush, CanSend, Waiting, ThreadsOK, Waiters
    <3> QED BY <1>1, <2>3, <3>1 DEF ResumePush
  <2>4. CASE NotifyConsumer(p)
    BY <2>4 DEF NotifyConsumer, NotifyOne, Parked, histories,
           ThreadsOK, CanSend, Waiting, Waiters, Threads
  <2>5. CASE Expire(p)
    BY <2>5 DEF Expire, histories, ThreadsOK, CanSend, Waiting, Waiters, Threads
  <2> QED BY <1>3, <2>1, <2>2, <2>3, <2>4, <2>5
<1>4. ASSUME NEW c \in Consumers, TryPop(c) \/ WaitPop(c) \/ ResumePop(c) \/ NotifyProducer(c)
      PROVE  ThreadsOK' /\ CanSend'
  <2>1. CASE TryPop(c)
    BY <1>b, <1>d, <2>1 DEF TryPop, Waiters
  <2>2. CASE WaitPop(c) \/ ResumePop(c)
    BY <1>2, <2>2 DEF WaitPop, ResumePop, ThreadsOK, Waiters
  <2>3. CASE NotifyProducer(c)
    BY <2>3 DEF NotifyProducer, NotifyOne, Parked, histories,
           ThreadsOK, CanSend, Waiting, Waiters, Threads
  <2> QED BY <1>4, <2>1, <2>2, <2>3
<1>5. ASSUME NEW k \in Closers,
             Close(k) \/ CloseAndDiscard(k) \/ WakeConsumers(k) \/ WakeProducers(k)
      PROVE  ThreadsOK' /\ CanSend'
  BY <1>5 DEF Close, CloseAndDiscard, WakeConsumers, WakeProducers, NotifyAll, Parked, histories,
         ThreadsOK, CanSend, Waiting, Waiters, Threads
<1>6. ASSUME NEW t \in Waiters, RequestStop(t) \/ SpuriousWake(t)
      PROVE  ThreadsOK' /\ CanSend'
  BY <1>6 DEF RequestStop, SpuriousWake, Parked, SideOf, histories,
         ThreadsOK, CanSend, Waiting, Waiters, Threads
<1> QED BY <1>3, <1>4, <1>5, <1>6 DEF Next

LEMMA TypeInvInit == Init => TypeInv
<1> SUFFICES ASSUME Init PROVE TypeInv
  OBVIOUS
<1> USE SizeAssumption
<1>1. ThreadsOK
  BY DEF Init, ThreadsOK
<1>2. DataOK
  <2>1. slots_ \in [Indices -> Events \cup {Empty}] /\ closed_ \in BOOLEAN
    BY DEF Init
  <2>2. head_ \in Indices /\ tail_ \in Indices /\ size_ \in 0..Capacity
    BY DEF Init, Indices
  <2>3. /\ result \in [Consumers -> {"none", "success", "empty", "closed", "stopped"}]
        /\ sent \in [Producers -> 0..MaxEvents]
    BY DEF Init
  <2>4. accepted \in Seq(Events) /\ taken \in Seq(Events) /\ discarded \in Seq(Events)
    BY EmptySeq DEF Init
  <2> QED BY <2>1, <2>2, <2>3, <2>4 DEF DataOK
<1>3. RingOK
  <2>1. tail_ = At(size_) /\ \A i \in Indices : At(i) \in Indices /\ i >= size_
    BY DEF Init, At, Indices
  <2> QED BY <2>1 DEF Init, RingOK
<1>4. CanSend
  BY DEF Init, CanSend, Waiting, Threads, Waiters
<1> QED BY <1>1, <1>2, <1>3, <1>4 DEF TypeInv

LEMMA TypeInvNext == TypeInv /\ [Next]_vars => TypeInv'
<1>1. TypeInv /\ Next => TypeInv'
  BY StepKinds, DataStepOK, ThreadsStepOK DEF TypeInv
<1>2. TypeInv /\ UNCHANGED vars => TypeInv'
  BY DEF TypeInv, vars, ThreadsOK, DataOK, RingOK, CanSend, Waiting, At
<1> QED BY <1>1, <1>2

LEMMA TypeInvariant == Spec => []TypeInv
  BY TypeInvInit, TypeInvNext, PTL DEF Spec

(* The fields, calls and histories keep their types; in particular size_ never
   passes Capacity and no disengaged slot is ever handed out. *)
THEOREM TypeCorrect == Spec => []TypeOK
<1>1. TypeInv => TypeOK
  BY DEF TypeInv, ThreadsOK, DataOK, TypeOK
<1> QED BY <1>1, TypeInvariant, PTL

(* push_locked's comment holds: the tail slot is disengaged whenever there is
   room, and the engaged slots are the size_ slots from head_ on. *)
THEOREM RingCorrect == Spec => []RingOK
<1>1. TypeInv => RingOK
  BY DEF TypeInv
<1> QED BY <1>1, TypeInvariant, PTL
-----------------------------------------------------------------------------
(* What the contract needs.  NothingLost alone is not inductive: a pop moves
   the head of Contents behind taken, past discarded, so nothing may be popped
   once something was discarded. *)
DataInv == DataOK /\ RingOK /\ Contract!DiscardIsSuffix /\ EndIsFinal /\ NothingLost

(* Appending to a concatenation appends to its second part. *)
LEMMA AppendConcat ==
    \A s, u \in Seq(Events), e \in Events : Append(s \o u, e) = s \o Append(u, e)
<1> TAKE s, u \in Seq(Events), e \in Events
<1>1. <<e>> \in Seq(Events) /\ s \o u \in Seq(Events)
  BY ConcatProperties
<1>2. Append(s \o u, e) = (s \o u) \o <<e>> /\ Append(u, e) = u \o <<e>>
  BY <1>1, AppendIsConcat
<1> QED BY <1>1, <1>2, ConcatAssociative

LEMMA EmptyContents == ASSUME DataOK, RingOK PROVE Contents = <<>> <=> size_ = 0
  BY ContentsFacts, EmptySeq, SizeAssumption DEF DataOK

(* Which step of the contract each kind of step is. *)
LEMMA DataStepRefines ==
    ASSUME DataInv, DataStep
    PROVE  Contract!Next \/ UNCHANGED Contract!vars
<1> DEFINE ended == \E c \in Consumers : result[c] = "closed"
<1>0. DataOK /\ RingOK /\ (ended => closed_ /\ size_ = 0)
  BY EmptyContents DEF DataInv, EndIsFinal, Contract!EndIsFinal
<1>1. CASE QuietStep
  BY <1>1 DEF QuietStep, DataUnchanged, ring, histories, Contents, At, Contract!vars
<1>2. CASE CloseStep
  <2>1. Contract!Close
    BY <1>2 DEF CloseStep, ring, histories, Contents, At, Contract!Close
  <2> QED BY <2>1 DEF Contract!Next
<1>3. CASE DiscardStep
  <2>1. Contents' = <<>>
    BY <1>0, <1>3, DiscardRing
  <2>2. Contract!CloseAndDiscard
    BY <1>3, <2>1 DEF DiscardStep, Contract!CloseAndDiscard
  <2> QED BY <2>2 DEF Contract!Next
<1>4. ASSUME NEW p \in Producers, PushStep(p) PROVE Contract!Next
  <2>1. Contents' = Append(Contents, NextEvent(p)) /\ Len(Contents) < Capacity
    BY <1>0, <1>4, PushRing, ContentsFacts DEF PushStep
  <2>2. Contract!Push(NextEvent(p))
    BY <1>4, <2>1 DEF PushStep, PushLocked, Contract!Push
  <2>3. NextEvent(p) \in Events
    BY <1>0, <1>4, SizeAssumption DEF NextEvent, Events, PushStep, DataOK
  <2> QED BY <2>2, <2>3 DEF Contract!Next
<1>5. ASSUME NEW c \in Consumers, EmptyStep(c) PROVE Contract!Next \/ UNCHANGED Contract!vars
  <2>1. UNCHANGED <<Contents, closed_, accepted, taken, discarded>> /\ Contents = <<>>
    BY <1>0, <1>5, EmptyContents DEF EmptyStep, DataUnchanged, ring, histories, Contents, At
  <2>2. CASE closed_ /\ result' = [result EXCEPT ![c] = "closed"]
    <3>1. ended'
      BY <1>0, <2>2 DEF DataOK
    <3>2. Contract!PopClosed
      BY <2>1, <2>2, <3>1 DEF Contract!PopClosed
    <3> QED BY <3>2 DEF Contract!Next
  <2>3. CASE ~closed_ /\ \E r \in {"empty", "stopped"} : result' = [result EXCEPT ![c] = r]
    <3>1. ended' = FALSE /\ ended = FALSE
      BY <1>0, <2>3 DEF DataOK
    <3> QED BY <2>1, <3>1 DEF Contract!vars
  <2> QED BY <1>5, <2>2, <2>3 DEF EmptyStep
<1>6. ASSUME NEW c \in Consumers, PopStep(c) PROVE Contract!Next
  <2>1. Contents' = Tail(Contents) /\ Contents # <<>> /\ Head(Contents) = slots_[head_]
    BY <1>0, <1>6, PopRing
  <2>2. ended = FALSE /\ ended' = FALSE
    BY <1>0, <1>6 DEF PopStep, DataOK
  <2>3. Contract!Pop
    BY <1>6, <2>1, <2>2 DEF PopStep, PopLocked, Contract!Pop
  <2> QED BY <2>3 DEF Contract!Next
<1> QED BY <1>1, <1>2, <1>3, <1>4, <1>5, <1>6 DEF DataStep

(* The contract's invariants survive the contract's steps. *)
LEMMA ContractStepOK ==
    ASSUME DataInv, Contract!Next \/ UNCHANGED Contract!vars
    PROVE  (Contract!DiscardIsSuffix /\ EndIsFinal /\ NothingLost)'
<1> USE DEF EndIsFinal, NothingLost, Contract!DiscardIsSuffix, Contract!EndIsFinal,
            Contract!NothingLost
<1> DEFINE items == Contents
           ended == \E c \in Consumers : result[c] = "closed"
<1>1. /\ items \in Seq(Events)
      /\ accepted \in Seq(Events) /\ taken \in Seq(Events) /\ discarded \in Seq(Events)
  BY ContentsFacts DEF DataInv, DataOK
<1>2. /\ discarded # <<>> => closed_ /\ items = <<>>
      /\ ended => closed_ /\ items = <<>>
      /\ accepted = (taken \o discarded) \o items
  BY DEF DataInv
<1> SUFFICES /\ discarded' # <<>> => closed_' /\ items' = <<>>
             /\ ended' => closed_' /\ items' = <<>>
             /\ accepted' = (taken' \o discarded') \o items'
  OBVIOUS
<1>4. ASSUME NEW e \in Events, Contract!Push(e)
      PROVE  /\ discarded' # <<>> => closed_' /\ items' = <<>>
             /\ ended' => closed_' /\ items' = <<>>
             /\ accepted' = (taken' \o discarded') \o items'
  <2>1. ~closed_ /\ items' = Append(items, e) /\ accepted' = Append(accepted, e)
        /\ UNCHANGED <<closed_, taken, discarded, ended>>
    BY <1>4 DEF Contract!Push
  <2>2. taken \o discarded \in Seq(Events)
    BY <1>1, ConcatProperties
  <2>3. Append((taken \o discarded) \o items, e) = (taken \o discarded) \o Append(items, e)
    <3> DEFINE t == taken \o discarded
    <3>1. t \in Seq(Events) /\ items \in Seq(Events)
      BY <1>1, <2>2
    <3> HIDE DEF t, items
    <3>2. Append(t \o items, e) = t \o Append(items, e)
      BY <3>1, AppendConcat
    <3> QED BY <3>2 DEF t
  <2> QED BY <1>2, <2>1, <2>3
<1>5. CASE Contract!Pop
  <2>1. items # <<>> /\ taken' = Append(taken, Head(items)) /\ items' = Tail(items)
        /\ UNCHANGED <<closed_, accepted, discarded, ended>>
    BY <1>5 DEF Contract!Pop
  <2>2. discarded = <<>> /\ ~ended
    BY <1>2, <2>1
  <2>3. taken' \in Seq(Events)
    BY <1>1, <2>1, HeadTailProperties, AppendProperties
  <2>4. taken \o discarded = taken /\ taken' \o discarded' = taken'
    BY <1>1, <2>1, <2>2, <2>3, ConcatEmptySeq
  <2>5. taken \o items = taken' \o items'
    BY <1>1, <2>1, MoveHead
  <2> QED BY <1>2, <2>1, <2>2, <2>4, <2>5
<1>6. CASE Contract!PopClosed
  BY <1>2, <1>6 DEF Contract!PopClosed
<1>7. CASE Contract!Close
  BY <1>2, <1>7 DEF Contract!Close
<1>8. CASE Contract!CloseAndDiscard
  <2>1. closed_' = TRUE /\ discarded' = discarded \o items /\ items' = <<>>
        /\ UNCHANGED <<accepted, taken, ended>>
    BY <1>8 DEF Contract!CloseAndDiscard
  <2>2. (taken \o discarded) \o items = taken \o (discarded \o items)
    BY <1>1, ConcatAssociative
  <2>3. taken \o (discarded \o items) \in Seq(Events)
    BY <1>1, ConcatProperties
  <2>4. (taken \o (discarded \o items)) \o <<>> = taken \o (discarded \o items)
    BY <2>3, ConcatEmptySeq
  <2> QED BY <1>2, <2>1, <2>2, <2>4
<1>9. CASE UNCHANGED Contract!vars
  BY <1>2, <1>9 DEF Contract!vars
<1> QED BY <1>4, <1>5, <1>6, <1>7, <1>8, <1>9 DEF Contract!Next

(* The inductive invariant behind the contract. *)
SafetyInv == TypeInv /\ Contract!DiscardIsSuffix /\ EndIsFinal /\ NothingLost

LEMMA SafetyInvInit == Init => SafetyInv
<1> SUFFICES ASSUME Init PROVE SafetyInv
  OBVIOUS
<1>1. Contents = <<>>
  BY TypeInvInit, EmptyContents DEF TypeInv, Init
<1>2. accepted = <<>> /\ taken = <<>> /\ discarded = <<>>
  BY DEF Init
<1>3. (<<>> \o <<>>) \o <<>> = <<>>
  BY ConcatEmptySeq, EmptySeq
<1>4. ~ \E c \in Consumers : result[c] = "closed"
  BY DEF Init
<1> QED BY <1>1, <1>2, <1>3, <1>4, TypeInvInit DEF SafetyInv, EndIsFinal, NothingLost,
          Contract!DiscardIsSuffix, Contract!EndIsFinal, Contract!NothingLost

(* Every step of the queue keeps the invariant and is a step of the contract. *)
LEMMA SafetyInvNext ==
    SafetyInv /\ [Next]_vars => SafetyInv' /\ (Contract!Next \/ UNCHANGED Contract!vars)
<1> SUFFICES ASSUME SafetyInv, [Next]_vars
             PROVE  SafetyInv' /\ (Contract!Next \/ UNCHANGED Contract!vars)
  OBVIOUS
<1>1. TypeInv' /\ DataInv
  BY TypeInvNext DEF SafetyInv, DataInv, TypeInv
<1>2. DataStep
  <2>1. CASE Next
    BY <2>1, StepKinds DEF SafetyInv, TypeInv
  <2>2. CASE UNCHANGED vars
    BY <2>2 DEF vars, DataStep, QuietStep, DataUnchanged, ring, histories
  <2> QED BY <2>1, <2>2
<1>3. Contract!Next \/ UNCHANGED Contract!vars
  BY <1>1, <1>2, DataStepRefines
<1> QED BY <1>1, <1>3, ContractStepOK DEF SafetyInv, TypeInv

LEMMA SafetyInvariant == Spec => []SafetyInv
  BY SafetyInvInit, SafetyInvNext, PTL DEF Spec

(* Accepted events are exactly those handed out, then those discarded, then
   those still in the ring, in the order of acceptance. *)
THEOREM NothingLostCorrect == Spec => []NothingLost
<1>1. SafetyInv => NothingLost
  BY DEF SafetyInv
<1> QED BY <1>1, SafetyInvariant, PTL

(* A consumer told `closed` leaves an empty, closed queue behind. *)
THEOREM EndIsFinalCorrect == Spec => []EndIsFinal
<1>1. SafetyInv => EndIsFinal
  BY DEF SafetyInv
<1> QED BY <1>1, SafetyInvariant, PTL

(* The mutex queue implements the abstract bounded FIFO. *)
THEOREM Refinement == Spec => ImplementsContract
<1>1. Init => Contract!Init
  <2> SUFFICES ASSUME Init PROVE Contract!Init
    OBVIOUS
  <2>1. Contents = <<>>
    BY TypeInvInit, EmptyContents DEF TypeInv, Init
  <2>2. (\E c \in Consumers : result[c] = "closed") = FALSE
    BY DEF Init
  <2> QED BY <2>1, <2>2 DEF Init, Contract!Init
<1>2. SafetyInv /\ [Next]_vars => [Contract!Next]_(Contract!vars)
  BY SafetyInvNext
<1> QED BY <1>1, <1>2, SafetyInvariant, PTL DEF Spec, ImplementsContract, Contract!Spec
-----------------------------------------------------------------------------
(* No lost wake-ups.  S is the side that sleeps, O the side that notifies it;
   Credit counts the threads on their way to serve S: those of O about to
   notify and those of S already released. *)
Credit(S, O) == Cardinality(Notifying(O)) + Cardinality(Woken(S))

(* S is served: n units (events for consumers, free slots for producers) are
   never left to a sleeping S without a thread on its way. *)
Served(S, O, n) == Parked(S) # {} /\ ~closed_ => n <= Credit(S, O)

Sides == {<<Producers, Consumers>>, <<Consumers, Producers>>}

LEMMA SidesFacts ==
    ASSUME NEW S, NEW O, <<S, O>> \in Sides
    PROVE  /\ IsFiniteSet(S) /\ IsFiniteSet(O) /\ S \cap O = {}
           /\ S \subseteq Waiters /\ O \subseteq Waiters
           /\ S \cap Closers = {} /\ O \cap Closers = {}
  BY ThreadsAssumption DEF Sides, Waiters

LEMMA CreditType ==
    ASSUME NEW S, NEW O, IsFiniteSet(S), IsFiniteSet(O)
    PROVE  /\ IsFiniteSet(Notifying(O)) /\ IsFiniteSet(Woken(S))
           /\ Cardinality(Notifying(O)) \in Nat /\ Cardinality(Woken(S)) \in Nat
           /\ Credit(S, O) \in Nat
<1>1. Notifying(O) \subseteq O /\ Woken(S) \subseteq S
  BY DEF Notifying, Woken
<1>2. IsFiniteSet(Notifying(O)) /\ IsFiniteSet(Woken(S))
  BY <1>1, FS_Subset
<1>3. Cardinality(Notifying(O)) \in Nat /\ Cardinality(Woken(S)) \in Nat
  BY <1>2, FS_CardinalityType
<1> QED BY <1>2, <1>3 DEF Credit

(* What one thread's move from pc[t] to v does to the credit of S. *)
LEMMA MoveCredit ==
    ASSUME NEW S, NEW O, <<S, O>> \in Sides, ThreadsOK,
           NEW t \in Threads, NEW v, pc' = [pc EXCEPT ![t] = v]
    PROVE  /\ t \notin S /\ (t \in O => pc[t] # "notify" /\ v # "notify") =>
                  Credit(S, O)' = Credit(S, O) /\ Parked(S)' = Parked(S)
           /\ t \in O /\ pc[t] # "notify" /\ v = "notify" =>
                  Credit(S, O)' = Credit(S, O) + 1 /\ Parked(S)' = Parked(S)
           /\ t \in S /\ pc[t] \notin {"woken", "parked"} /\ v \notin {"woken", "parked"} =>
                  Credit(S, O)' = Credit(S, O) /\ Parked(S)' = Parked(S)
           /\ t \in S /\ pc[t] = "woken" /\ v \notin {"woken", "parked"} =>
                  Credit(S, O)' = Credit(S, O) - 1 /\ Parked(S)' = Parked(S)
           /\ t \in S /\ pc[t] \in {"parked", "woken"} /\ v = "woken" =>
                  Credit(S, O)' >= Credit(S, O) /\ Parked(S)' \subseteq Parked(S)
<1> USE SidesFacts
<1>0. \A u \in Threads : pc'[u] = IF u = t THEN v ELSE pc[u]
  BY DEF ThreadsOK
<1>a. S \subseteq Threads /\ O \subseteq Threads
  BY DEF Threads
<1>b. IsFiniteSet(Notifying(O)) /\ IsFiniteSet(Woken(S)) /\ Cardinality(Notifying(O)) \in Nat
      /\ Cardinality(Woken(S)) \in Nat
  BY CreditType
<1>1. CASE t \notin S /\ (t \in O => pc[t] # "notify" /\ v # "notify")
  <2>1. Notifying(O)' = Notifying(O) /\ Woken(S)' = Woken(S) /\ Parked(S)' = Parked(S)
    BY <1>0, <1>a, <1>1 DEF Notifying, Woken, Parked
  <2>2. t \notin S
    BY <1>1
  <2>3. ~(t \in O /\ pc[t] # "notify" /\ v = "notify")
    BY <1>1
  <2> QED BY <2>1, <2>2, <2>3 DEF Credit
<1>2. CASE t \in O /\ pc[t] # "notify" /\ v = "notify"
  <2>1. Notifying(O)' = Notifying(O) \cup {t} /\ t \notin Notifying(O)
        /\ Woken(S)' = Woken(S) /\ Parked(S)' = Parked(S)
    BY <1>0, <1>a, <1>2 DEF Notifying, Woken, Parked
  <2>2. Cardinality(Notifying(O) \cup {t}) = Cardinality(Notifying(O)) + 1
    BY <1>b, <2>1, FS_AddElement
  <2>3. Credit(S, O)' = Credit(S, O) + 1
    BY <1>b, <2>1, <2>2 DEF Credit
  <2>4. t \notin S
    BY <1>2
  <2> QED BY <1>2, <2>1, <2>3, <2>4
<1>3. CASE t \in S /\ pc[t] \notin {"woken", "parked"} /\ v \notin {"woken", "parked"}
  <2>1. Notifying(O)' = Notifying(O) /\ Woken(S)' = Woken(S) /\ Parked(S)' = Parked(S)
    BY <1>0, <1>a, <1>3 DEF Notifying, Woken, Parked
  <2>2. t \notin O
    BY <1>3
  <2> QED BY <1>3, <2>1, <2>2 DEF Credit
<1>4. CASE t \in S /\ pc[t] = "woken" /\ v \notin {"woken", "parked"}
  <2>1. Notifying(O)' = Notifying(O) /\ Woken(S)' = Woken(S) \ {t} /\ t \in Woken(S)
        /\ Parked(S)' = Parked(S)
    BY <1>0, <1>a, <1>4 DEF Notifying, Woken, Parked
  <2>2. Cardinality(Woken(S) \ {t}) = Cardinality(Woken(S)) - 1
    BY <1>b, <2>1, FS_RemoveElement
  <2>3. Credit(S, O)' = Credit(S, O) - 1
    BY <1>b, <2>1, <2>2 DEF Credit
  <2>4. t \notin O
    BY <1>4
  <2> QED BY <1>4, <2>1, <2>3, <2>4
<1>5. CASE t \in S /\ pc[t] \in {"parked", "woken"} /\ v = "woken"
  <2>1. Notifying(O)' = Notifying(O) /\ Woken(S)' = Woken(S) \cup {t}
        /\ Parked(S)' \subseteq Parked(S)
    BY <1>0, <1>a, <1>5 DEF Notifying, Woken, Parked
  <2>2. Cardinality(Woken(S) \cup {t}) =
            IF t \in Woken(S) THEN Cardinality(Woken(S)) ELSE Cardinality(Woken(S)) + 1
    BY <1>b, FS_AddElement
  <2>4. Credit(S, O)' >= Credit(S, O)
    BY <1>b, <2>1, <2>2 DEF Credit
  <2>5. t \notin O
    BY <1>5
  <2> QED BY <1>5, <2>1, <2>4, <2>5
<1>6. CASE ~ \/ t \notin S /\ (t \in O => pc[t] # "notify" /\ v # "notify")
             \/ t \in O /\ pc[t] # "notify" /\ v = "notify"
             \/ t \in S /\ pc[t] \notin {"woken", "parked"} /\ v \notin {"woken", "parked"}
             \/ t \in S /\ pc[t] = "woken" /\ v \notin {"woken", "parked"}
             \/ t \in S /\ pc[t] \in {"parked", "woken"} /\ v = "woken"
  BY <1>6
<1> QED BY <1>1, <1>2, <1>3, <1>4, <1>5, <1>6

(* notify_one hands the notifier's credit to the thread it releases. *)
LEMMA NotifyCredit ==
    ASSUME NEW S, NEW O, <<S, O>> \in Sides, ThreadsOK, NEW t \in O, NotifyOne(t, S)
    PROVE  Parked(S)' = {} \/ (Credit(S, O)' = Credit(S, O) /\ Parked(S) # {})
<1> USE SidesFacts
<1>a. S \subseteq Threads /\ O \subseteq Threads
  BY DEF Threads
<1>b. IsFiniteSet(Notifying(O)) /\ IsFiniteSet(Woken(S)) /\ Cardinality(Notifying(O)) \in Nat
      /\ Cardinality(Woken(S)) \in Nat
  BY CreditType
<1>1. CASE Parked(S) = {} /\ pc' = [pc EXCEPT ![t] = "idle"]
  BY <1>1, <1>a DEF Parked, ThreadsOK
<1>2. ASSUME NEW w \in Parked(S), pc' = [pc EXCEPT ![t] = "idle", ![w] = "woken"]
      PROVE  Credit(S, O)' = Credit(S, O) /\ Parked(S) # {}
  <2>1. w \in S /\ w # t /\ pc[w] = "parked" /\ pc[t] = "notify"
    BY <1>2 DEF Parked, NotifyOne
  <2>2. \A u \in Threads : pc'[u] = IF u = w THEN "woken" ELSE IF u = t THEN "idle" ELSE pc[u]
    BY <1>2, <1>a, <2>1 DEF ThreadsOK
  <2>3. Notifying(O)' = Notifying(O) \ {t} /\ t \in Notifying(O)
    BY <1>a, <2>1, <2>2 DEF Notifying
  <2>4. Woken(S)' = Woken(S) \cup {w} /\ w \notin Woken(S)
    BY <1>a, <2>1, <2>2 DEF Woken
  <2>5. Cardinality(Notifying(O) \ {t}) = Cardinality(Notifying(O)) - 1
    BY <1>b, <2>3, FS_RemoveElement
  <2>6. Cardinality(Woken(S) \cup {w}) = Cardinality(Woken(S)) + 1
    BY <1>b, <2>4, FS_AddElement
  <2> QED BY <1>b, <1>2, <2>3, <2>4, <2>5, <2>6 DEF Credit
<1> QED BY <1>1, <1>2 DEF NotifyOne

(* Releasing threads of the other side, and closers moving on, do not matter. *)
LEMMA OtherSideCredit ==
    ASSUME NEW S, NEW O, <<S, O>> \in Sides, ThreadsOK,
           \A u \in S : pc'[u] = pc[u] \/ (pc[u] = "notify" /\ pc'[u] = "idle"),
           \A u \in O : pc'[u] = pc[u] \/ (pc[u] = "parked" /\ pc'[u] = "woken")
    PROVE  Credit(S, O)' = Credit(S, O) /\ Parked(S)' = Parked(S)
<1>1. Notifying(O)' = Notifying(O) /\ Woken(S)' = Woken(S) /\ Parked(S)' = Parked(S)
  BY DEF Notifying, Woken, Parked
<1> QED BY <1>1 DEF Credit

(* Served in the next state, where the supply is m. *)
ServedNext(S, O, m) == Parked(S)' # {} /\ ~closed_' => m <= Credit(S, O)'

LEMMA CreditNextType ==
    ASSUME NEW S, NEW O, <<S, O>> \in Sides PROVE Credit(S, O)' \in Nat
<1>1. Notifying(O)' \subseteq O /\ Woken(S)' \subseteq S
  BY DEF Notifying, Woken
<1>2. IsFiniteSet(Notifying(O)') /\ IsFiniteSet(Woken(S)')
  BY <1>1, SidesFacts, FS_Subset
<1>3. Cardinality(Notifying(O)') \in Nat /\ Cardinality(Woken(S)') \in Nat
  BY <1>2, FS_CardinalityType
<1> QED BY <1>3 DEF Credit

(* How Served survives: the supply grows by no more than the credit. *)
LEMMA ServedStep ==
    ASSUME NEW S, NEW O, <<S, O>> \in Sides, NEW n \in Int, NEW m \in Int, NEW d \in {-1, 0, 1},
           Served(S, O, n), closed_' = closed_, Credit(S, O)' >= Credit(S, O) + d,
           Parked(S)' # {} => Parked(S) # {}, m <= n + d
    PROVE  ServedNext(S, O, m)
<1>1. Credit(S, O) \in Nat /\ Credit(S, O)' \in Nat
  BY CreditNextType, SidesFacts, CreditType
<1> QED BY <1>1 DEF Served, ServedNext

(* A thread of the notifying side leaves its critical section: it may have
   raised the supply by one only if it is about to notify. *)
LEMMA NotifierStep ==
    ASSUME NEW S, NEW O, <<S, O>> \in Sides, ThreadsOK, NEW n \in Int, NEW m \in Int,
           Served(S, O, n), closed_' = closed_,
           NEW t \in O, pc[t] # "notify", NEW v, pc' = [pc EXCEPT ![t] = v],
           \/ v # "notify" /\ m <= n
           \/ v = "notify" /\ m <= n + 1
    PROVE  ServedNext(S, O, m)
<1>1. t \in Threads /\ t \notin S /\ Credit(S, O) \in Nat
  BY SidesFacts, CreditType DEF Threads
<1>2. CASE v # "notify" /\ m <= n
  <2>1. Credit(S, O)' = Credit(S, O) /\ Parked(S)' = Parked(S)
    BY <1>1, <1>2, MoveCredit
  <2>2. Credit(S, O)' >= Credit(S, O) + 0 /\ m <= n + 0
    BY <1>1, <1>2, <2>1
  <2> QED BY <2>1, <2>2, ServedStep
<1>3. CASE v = "notify" /\ m <= n + 1
  <2>1. Credit(S, O)' = Credit(S, O) + 1 /\ Parked(S)' = Parked(S)
    BY <1>1, <1>3, MoveCredit
  <2>2. Credit(S, O)' >= Credit(S, O) + 1
    BY <1>1, <2>1
  <2> QED BY <1>3, <2>1, <2>2, ServedStep
<1> QED BY <1>2, <1>3

(* A thread of the waiting side takes one unit and with it its own credit, if
   it had one. *)
LEMMA TakerStep ==
    ASSUME NEW S, NEW O, <<S, O>> \in Sides, ThreadsOK, NEW n \in Int, NEW m \in Int,
           Served(S, O, n), closed_' = closed_, m <= n - 1,
           NEW t \in S, pc[t] \in {"idle", "woken"}, pc' = [pc EXCEPT ![t] = "notify"]
    PROVE  ServedNext(S, O, m)
<1>1. t \in Threads /\ Credit(S, O) \in Nat /\ Credit(S, O)' \in Nat
  BY SidesFacts, CreditType, CreditNextType DEF Threads
<1>2. Parked(S)' = Parked(S) /\ Credit(S, O)' \in {Credit(S, O), Credit(S, O) - 1}
  <2>1. CASE pc[t] = "idle"
    <3>1. pc[t] \notin {"woken", "parked"} /\ "notify" \notin {"woken", "parked"}
      BY <2>1
    <3> QED BY <1>1, <3>1, MoveCredit
  <2>2. CASE pc[t] = "woken"
    <3>1. "notify" \notin {"woken", "parked"}
      OBVIOUS
    <3> QED BY <1>1, <2>2, <3>1, MoveCredit
  <2> QED BY <2>1, <2>2
<1>3. Credit(S, O)' >= Credit(S, O) + (-1) /\ m <= n + (-1)
  BY <1>1, <1>2
<1> QED BY <1>2, <1>3, ServedStep

(* With nothing left to serve, a thread of the waiting side may sleep or leave. *)
LEMMA NothingToServe ==
    ASSUME NEW S, NEW O, <<S, O>> \in Sides, NEW m \in Int, closed_' \/ m <= 0
    PROVE  ServedNext(S, O, m)
  BY CreditNextType DEF ServedNext

Signal(S, O) ==
    \/ \E t \in O : NotifyOne(t, S) \/ (Waiting(t) /\ pc' = [pc EXCEPT ![t] = "woken"])
    \/ \E t \in S : NotifyOne(t, O) \/ (Waiting(t) /\ pc' = [pc EXCEPT ![t] = "woken"])
    \/ \E k \in Closers : \E v : NotifyAll(k, v, S) \/ NotifyAll(k, v, O)
    \/ \E t \in S \cup O : RequestStop(t)

(* Steps that leave the supply and closed_ alone: notifications, closers,
   cancellation, the clock and spurious wake-ups. *)
LEMMA SignalStep ==
    ASSUME NEW S, NEW O, <<S, O>> \in Sides, ThreadsOK, NEW n \in Int,
           Served(S, O, n), closed_' = closed_,
           Signal(S, O)
    PROVE  ServedNext(S, O, n)
<1> USE SidesFacts
<1>0. Credit(S, O) \in Nat /\ Credit(S, O)' \in Nat /\ S \subseteq Threads /\ O \subseteq Threads
  BY CreditType, CreditNextType DEF Threads
<1>1. ASSUME Parked(S)' = {} PROVE ServedNext(S, O, n)
  BY <1>1 DEF ServedNext
<1>2. ASSUME Credit(S, O)' >= Credit(S, O), Parked(S)' \subseteq Parked(S)
      PROVE  ServedNext(S, O, n)
  <2>1. Credit(S, O)' >= Credit(S, O) + 0 /\ n <= n + 0
    BY <1>0, <1>2
  <2> QED BY <1>2, <2>1, ServedStep
<1>3. ASSUME \A u \in S : pc'[u] = pc[u] \/ (pc[u] = "notify" /\ pc'[u] = "idle"),
             \A u \in O : pc'[u] = pc[u] \/ (pc[u] = "parked" /\ pc'[u] = "woken")
      PROVE  ServedNext(S, O, n)
  <2>1. Credit(S, O)' = Credit(S, O) /\ Parked(S)' = Parked(S)
    BY <1>3, OtherSideCredit
  <2> QED BY <1>0, <1>2, <2>1
<1>4. ASSUME NEW t \in O, NotifyOne(t, S) PROVE ServedNext(S, O, n)
  <2>1. Parked(S)' = {} \/ (Credit(S, O)' = Credit(S, O) /\ Parked(S) # {})
    BY <1>4, NotifyCredit
  <2> QED BY <2>1 DEF Served, ServedNext
<1>5. ASSUME NEW t \in O, Waiting(t), pc' = [pc EXCEPT ![t] = "woken"] PROVE ServedNext(S, O, n)
  <2>1. pc[t] # "notify"
    BY <1>5 DEF Waiting
  <2>2. n <= n
    OBVIOUS
  <2> QED BY <1>5, <2>1, <2>2, NotifierStep
<1>6. ASSUME NEW t \in S, NotifyOne(t, O) PROVE ServedNext(S, O, n)
  BY <1>0, <1>3, <1>6 DEF NotifyOne, Parked, ThreadsOK
<1>7. ASSUME NEW t \in S, Waiting(t), pc' = [pc EXCEPT ![t] = "woken"] PROVE ServedNext(S, O, n)
  BY <1>0, <1>2, <1>7, MoveCredit DEF Waiting
<1>8. ASSUME NEW k \in Closers, NEW v, NotifyAll(k, v, S) PROVE ServedNext(S, O, n)
  <2>1. Parked(S)' = {}
    BY <1>0, <1>8 DEF NotifyAll, Parked
  <2> QED BY <1>1, <2>1
<1>9. ASSUME NEW k \in Closers, NEW v, NotifyAll(k, v, O) PROVE ServedNext(S, O, n)
  BY <1>0, <1>3, <1>9 DEF NotifyAll, Parked
<1>10. ASSUME NEW t \in S, RequestStop(t) PROVE ServedNext(S, O, n)
  <2>1. SideOf(t) = S
    BY DEF SideOf, Sides
  <2>2. Parked(S)' = {}
    BY <1>0, <1>10, <2>1 DEF RequestStop, Parked
  <2> QED BY <1>1, <2>2
<1>11. ASSUME NEW t \in O, RequestStop(t) PROVE ServedNext(S, O, n)
  <2>1. SideOf(t) = O
    BY DEF SideOf, Sides
  <2> QED BY <1>0, <1>3, <1>11, <2>1 DEF RequestStop, Parked
<1> QED BY <1>4, <1>5, <1>6, <1>7, <1>8, <1>9, <1>10, <1>11 DEF Signal

(* Both sides at once: what a push and a pop do to the two supplies. *)
LEMMA ServedPush ==
    ASSUME TypeInv, NEW p \in Producers, TryPush(p) \/ WaitPush(p) \/ ResumePush(p)
    PROVE  /\ Served(Consumers, Producers, size_) => ServedNext(Consumers, Producers, size_')
           /\ ~CopyMayThrow /\ Served(Producers, Consumers, Capacity - size_) =>
                  ServedNext(Producers, Consumers, Capacity - size_')
<1>a. <<Consumers, Producers>> \in Sides /\ <<Producers, Consumers>> \in Sides
  BY DEF Sides
<1>b. ThreadsOK /\ size_ \in 0..Capacity /\ Capacity \in Nat /\ size_ \in Int
  BY SizeAssumption DEF TypeInv, DataOK
<1>1. pc[p] \in {"idle", "woken"} /\ pc[p] # "notify"
  BY DEF TryPush, WaitPush, ResumePush
<1>2. \/ PushLocked(p) /\ Leave(p, "notify", "success")
      \/ CopyMayThrow /\ Refuse(p, "threw")
      \/ (closed_ \/ size_ = Capacity) /\ \E r : Refuse(p, r)
      \/ size_ = Capacity /\ \E s, d : Park(p, s, d)
  <2>1. ASSUME NEW s, NEW d, PushAttempt(p, s, d)
        PROVE  \/ PushLocked(p) /\ Leave(p, "notify", "success")
               \/ CopyMayThrow /\ Refuse(p, "threw")
               \/ (closed_ \/ size_ = Capacity) /\ \E r : Refuse(p, r)
               \/ size_ = Capacity /\ \E x, y : Park(p, x, y)
    BY <2>1 DEF PushAttempt, Accept, PushReady
  <2> QED BY <2>1 DEF TryPush, WaitPush, ResumePush, Accept
<1>3. CASE PushLocked(p) /\ Leave(p, "notify", "success")
  <2>1. pc' = [pc EXCEPT ![p] = "notify"] /\ size_' = size_ + 1 /\ closed_' = closed_
    BY <1>3 DEF PushLocked, Leave
  <2>2. size_' \in Int /\ Capacity - size_ \in Int /\ Capacity - size_' \in Int
        /\ size_' <= size_ + 1 /\ Capacity - size_' <= (Capacity - size_) - 1
    BY <1>b, <2>1
  <2>3. Served(Consumers, Producers, size_) => ServedNext(Consumers, Producers, size_')
    BY <1>a, <1>b, <1>1, <2>1, <2>2, NotifierStep
  <2>4. Served(Producers, Consumers, Capacity - size_) =>
            ServedNext(Producers, Consumers, Capacity - size_')
    BY <1>a, <1>b, <1>1, <2>1, <2>2, TakerStep
  <2> QED BY <2>3, <2>4
<1>4. ASSUME NEW v, v # "notify", pc' = [pc EXCEPT ![p] = v], size_' = size_, closed_' = closed_,
             ~CopyMayThrow => closed_ \/ size_ = Capacity
      PROVE  /\ Served(Consumers, Producers, size_) => ServedNext(Consumers, Producers, size_')
             /\ ~CopyMayThrow /\ Served(Producers, Consumers, Capacity - size_) =>
                    ServedNext(Producers, Consumers, Capacity - size_')
  <2>1. size_' \in Int /\ Capacity - size_ \in Int /\ Capacity - size_' \in Int /\ size_' <= size_
        /\ (size_ = Capacity => Capacity - size_' <= 0)
    BY <1>b, <1>4
  <2>2. Served(Consumers, Producers, size_) => ServedNext(Consumers, Producers, size_')
    BY <1>a, <1>b, <1>1, <1>4, <2>1, NotifierStep
  <2>3. ~CopyMayThrow /\ Served(Producers, Consumers, Capacity - size_) =>
            ServedNext(Producers, Consumers, Capacity - size_')
    BY <1>a, <1>4, <2>1, NothingToServe
  <2> QED BY <2>2, <2>3
<1>5. ASSUME NEW r, Refuse(p, r)
      PROVE  pc' = [pc EXCEPT ![p] = "idle"] /\ size_' = size_ /\ closed_' = closed_
  BY <1>5 DEF Refuse, Leave, ring
<1>6. ASSUME NEW s, NEW d, Park(p, s, d)
      PROVE  pc' = [pc EXCEPT ![p] = "parked"] /\ size_' = size_ /\ closed_' = closed_
  BY <1>6 DEF Park, ring
<1>7. CASE CopyMayThrow /\ Refuse(p, "threw")
  BY <1>4, <1>5, <1>7
<1>8. CASE (closed_ \/ size_ = Capacity) /\ \E r : Refuse(p, r)
  BY <1>4, <1>5, <1>8
<1>9. CASE size_ = Capacity /\ \E s, d : Park(p, s, d)
  BY <1>4, <1>6, <1>9
<1> QED BY <1>2, <1>3, <1>7, <1>8, <1>9

LEMMA ServedPop ==
    ASSUME TypeInv, NEW c \in Consumers, TryPop(c) \/ WaitPop(c) \/ ResumePop(c)
    PROVE  /\ Served(Consumers, Producers, size_) => ServedNext(Consumers, Producers, size_')
           /\ Served(Producers, Consumers, Capacity - size_) =>
                  ServedNext(Producers, Consumers, Capacity - size_')
<1>a. <<Consumers, Producers>> \in Sides /\ <<Producers, Consumers>> \in Sides
  BY DEF Sides
<1>b. ThreadsOK /\ size_ \in 0..Capacity /\ Capacity \in Nat /\ size_ \in Int
  BY SizeAssumption DEF TypeInv, DataOK
<1>1. pc[c] \in {"idle", "woken"} /\ pc[c] # "notify"
  BY DEF TryPop, WaitPop, ResumePop
<1>2. \/ Take(c)
      \/ size_ = 0 /\ \E r : Refuse(c, r)
      \/ size_ = 0 /\ \E s, d : Park(c, s, d)
  <2>1. ASSUME NEW s, PopAttempt(c, s)
        PROVE  \/ Take(c)
               \/ size_ = 0 /\ \E r : Refuse(c, r)
               \/ size_ = 0 /\ \E x, y : Park(c, x, y)
    BY <2>1 DEF PopAttempt, PopReady
  <2> QED BY <2>1 DEF TryPop, WaitPop, ResumePop
<1>3. CASE Take(c)
  <2>1. pc' = [pc EXCEPT ![c] = "notify"] /\ size_' = size_ - 1 /\ closed_' = closed_
    BY <1>3 DEF Take, PopLocked, RemoveHead, Leave
  <2>2. size_' \in Int /\ Capacity - size_ \in Int /\ Capacity - size_' \in Int
        /\ size_' <= size_ - 1 /\ Capacity - size_' <= (Capacity - size_) + 1
    BY <1>b, <2>1
  <2>3. Served(Consumers, Producers, size_) => ServedNext(Consumers, Producers, size_')
    BY <1>a, <1>b, <1>1, <2>1, <2>2, TakerStep
  <2>4. Served(Producers, Consumers, Capacity - size_) =>
            ServedNext(Producers, Consumers, Capacity - size_')
    BY <1>a, <1>b, <1>1, <2>1, <2>2, NotifierStep
  <2> QED BY <2>3, <2>4
<1>4. ASSUME NEW v, v # "notify", pc' = [pc EXCEPT ![c] = v], size_' = size_, closed_' = closed_,
             size_ = 0
      PROVE  /\ Served(Consumers, Producers, size_) => ServedNext(Consumers, Producers, size_')
             /\ Served(Producers, Consumers, Capacity - size_) =>
                    ServedNext(Producers, Consumers, Capacity - size_')
  <2>1. size_' \in Int /\ size_' <= 0 /\ Capacity - size_ \in Int /\ Capacity - size_' \in Int
        /\ Capacity - size_' <= Capacity - size_
    BY <1>b, <1>4
  <2>2. Served(Consumers, Producers, size_) => ServedNext(Consumers, Producers, size_')
    BY <1>a, <1>4, <2>1, NothingToServe
  <2>3. Served(Producers, Consumers, Capacity - size_) =>
            ServedNext(Producers, Consumers, Capacity - size_')
    BY <1>a, <1>b, <1>1, <1>4, <2>1, NotifierStep
  <2> QED BY <2>2, <2>3
<1>5. ASSUME NEW r, Refuse(c, r)
      PROVE  pc' = [pc EXCEPT ![c] = "idle"] /\ size_' = size_ /\ closed_' = closed_
  BY <1>5 DEF Refuse, Leave, ring
<1>6. ASSUME NEW s, NEW d, Park(c, s, d)
      PROVE  pc' = [pc EXCEPT ![c] = "parked"] /\ size_' = size_ /\ closed_' = closed_
  BY <1>6 DEF Park, ring
<1>7. CASE size_ = 0 /\ \E r : Refuse(c, r)
  BY <1>4, <1>5, <1>7
<1>8. CASE size_ = 0 /\ \E s, d : Park(c, s, d)
  BY <1>4, <1>6, <1>8
<1> QED BY <1>2, <1>3, <1>7, <1>8

(* The wake-up accounting is inductive, for producers provided that no event
   constructor throws. *)
WakeInv ==
    /\ Served(Consumers, Producers, size_)
    /\ ~CopyMayThrow => Served(Producers, Consumers, Capacity - size_)

LEMMA WakeInvNext == ASSUME TypeInv, WakeInv, [Next]_vars PROVE WakeInv'
<1> DEFINE Goal == /\ ServedNext(Consumers, Producers, size_')
                   /\ ~CopyMayThrow => ServedNext(Producers, Consumers, Capacity - size_')
<1> SUFFICES Goal
  BY DEF WakeInv, Served, ServedNext
<1>a. <<Consumers, Producers>> \in Sides /\ <<Producers, Consumers>> \in Sides
  BY DEF Sides
<1>b. ThreadsOK /\ size_ \in Int /\ Capacity - size_ \in Int
  BY SizeAssumption DEF TypeInv, DataOK
<1>1. ASSUME closed_' = TRUE PROVE Goal
  BY <1>1 DEF ServedNext
<1>2. ASSUME size_' = size_, closed_' = closed_, Signal(Consumers, Producers) PROVE Goal
  <2>1. Signal(Producers, Consumers)
    BY <1>2 DEF Signal
  <2>2. ServedNext(Consumers, Producers, size_)
    BY <1>a, <1>b, <1>2, SignalStep DEF WakeInv
  <2>3. ~CopyMayThrow => ServedNext(Producers, Consumers, Capacity - size_)
    BY <1>a, <1>b, <1>2, <2>1, SignalStep DEF WakeInv
  <2> QED BY <1>2, <2>2, <2>3
<1>3. ASSUME NEW p \in Producers, TryPush(p) \/ WaitPush(p) \/ ResumePush(p) PROVE Goal
  BY <1>3, ServedPush DEF WakeInv
<1>4. ASSUME NEW c \in Consumers, TryPop(c) \/ WaitPop(c) \/ ResumePop(c) PROVE Goal
  BY <1>4, ServedPop DEF WakeInv
<1>5. ASSUME NEW p \in Producers, NotifyConsumer(p) PROVE Goal
  <2>1. size_' = size_ /\ closed_' = closed_ /\ NotifyOne(p, Consumers)
    BY <1>5 DEF NotifyConsumer, NotifyOne, ring
  <2> QED BY <1>2, <2>1 DEF Signal
<1>6. ASSUME NEW c \in Consumers, NotifyProducer(c) PROVE Goal
  <2>1. size_' = size_ /\ closed_' = closed_ /\ NotifyOne(c, Producers)
    BY <1>6 DEF NotifyProducer, NotifyOne, ring
  <2> QED BY <1>2, <2>1 DEF Signal
<1>7. ASSUME NEW p \in Producers, Expire(p) PROVE Goal
  <2>1. size_' = size_ /\ closed_' = closed_ /\ Waiting(p) /\ pc' = [pc EXCEPT ![p] = "woken"]
    BY <1>7 DEF Expire, ring
  <2> QED BY <1>2, <2>1 DEF Signal
<1>8. ASSUME NEW k \in Closers, Close(k) \/ CloseAndDiscard(k) PROVE Goal
  BY <1>1, <1>8 DEF Close, CloseAndDiscard
<1>9. ASSUME NEW k \in Closers, WakeConsumers(k) \/ WakeProducers(k) PROVE Goal
  <2>1. /\ size_' = size_ /\ closed_' = closed_
        /\ NotifyAll(k, "wake_producers", Consumers) \/ NotifyAll(k, "idle", Producers)
    BY <1>9 DEF WakeConsumers, WakeProducers, NotifyAll, ring
  <2> QED BY <1>2, <2>1 DEF Signal
<1>10. ASSUME NEW t \in Waiters, RequestStop(t) PROVE Goal
  <2>1. size_' = size_ /\ closed_' = closed_ /\ t \in Consumers \cup Producers
    BY <1>10 DEF RequestStop, ring, Waiters
  <2> QED BY <1>2, <1>10, <2>1 DEF Signal
<1>11. ASSUME NEW t \in Waiters, SpuriousWake(t) PROVE Goal
  <2>1. size_' = size_ /\ closed_' = closed_ /\ Waiting(t) /\ pc' = [pc EXCEPT ![t] = "woken"]
    BY <1>11 DEF SpuriousWake, ring, Waiting
  <2> QED BY <1>2, <2>1 DEF Signal, Waiters
<1>12. CASE UNCHANGED vars
  BY <1>12 DEF vars, WakeInv, Served, ServedNext, Credit, Parked, Woken, Notifying
<1> QED BY <1>3, <1>4, <1>5, <1>6, <1>7, <1>8, <1>9, <1>10, <1>11, <1>12 DEF Next

LEMMA WakeInvariant == Spec => [](TypeInv /\ WakeInv)
<1>1. Init => WakeInv
  <2>1. Init => Parked(Consumers) = {} /\ Parked(Producers) = {}
    BY DEF Init, Parked, Threads, Waiters
  <2> QED BY <2>1 DEF WakeInv, Served
<1>2. TypeInv /\ WakeInv /\ [Next]_vars => WakeInv'
  BY WakeInvNext
<1> QED BY <1>1, <1>2, TypeInvariant, PTL DEF Spec

(* No wake-up of not_empty_ is ever lost, throwing constructors included. *)
THEOREM ConsumerWakeupsCorrect == Spec => []ConsumerWakeups
<1>1. WakeInv => ConsumerWakeups
  BY DEF WakeInv, Served, Credit, ConsumerWakeups
<1> QED BY <1>1, WakeInvariant, PTL

(* No wake-up of not_full_ is ever lost as long as no event constructor throws;
   the hypothesis is needed, see the run mutex_queue_throwing_copy. *)
THEOREM ProducerWakeupsCorrect == ASSUME ~CopyMayThrow PROVE Spec => []ProducerWakeups
<1>1. WakeInv => ProducerWakeups
  BY DEF WakeInv, Served, Credit, ProducerWakeups
<1> QED BY <1>1, WakeInvariant, PTL
-----------------------------------------------------------------------------
(* Closing.  Nobody goes to sleep on a closed queue, and a closer between the
   flag and its notify_all keeps its promise. *)
LEMMA CloseReleasesNext ==
    ASSUME TypeInv, CloseReleases, [Next]_vars PROVE CloseReleases'
<1> USE ThreadsAssumption
<1>1. ThreadsOK
  BY DEF TypeInv
<1>2. ASSUME closed_' = closed_, Parked(Consumers)' \subseteq Parked(Consumers),
             Parked(Producers)' \subseteq Parked(Producers), \A k \in Closers : pc'[k] = pc[k]
      PROVE  CloseReleases'
  BY <1>2 DEF CloseReleases
<1>3. ASSUME NEW t \in Waiters, NEW v, closed_' = closed_, pc' = [pc EXCEPT ![t] = v],
             v = "parked" => ~closed_
      PROVE  CloseReleases'
  <2>1. CASE v = "parked"
    BY <1>3, <2>1 DEF CloseReleases
  <2>2. CASE v # "parked"
    <3>1. Parked(Consumers)' \subseteq Parked(Consumers) /\ Parked(Producers)' \subseteq Parked(Producers)
          /\ \A k \in Closers : pc'[k] = pc[k]
      BY <1>1, <1>3, <2>2 DEF ThreadsOK, Parked, Threads, Waiters
    <3> QED BY <1>2, <1>3, <3>1
  <2> QED BY <2>1, <2>2
<1>4. ASSUME NEW t \in Waiters, NEW r, Refuse(t, r) PROVE CloseReleases'
  BY <1>3, <1>4 DEF Refuse, Leave
<1>5. ASSUME NEW t \in Waiters, NEW s, NEW d, Park(t, s, d), ~closed_ PROVE CloseReleases'
  BY <1>3, <1>5 DEF Park
<1>6. ASSUME NEW p \in Producers, Accept(p) PROVE CloseReleases'
  BY <1>3, <1>4, <1>6 DEF Accept, PushLocked, Leave, Waiters
<1>7. ASSUME NEW c \in Consumers, Take(c) PROVE CloseReleases'
  BY <1>3, <1>7 DEF Take, PopLocked, Leave, Waiters
<1>8. ASSUME NEW p \in Producers, TryPush(p) \/ WaitPush(p) \/ ResumePush(p) PROVE CloseReleases'
  <2>1. ASSUME NEW s, NEW d, PushAttempt(p, s, d) PROVE CloseReleases'
    BY <1>4, <1>5, <1>6, <2>1 DEF PushAttempt, PushReady, Waiters
  <2> QED BY <1>4, <1>6, <1>8, <2>1 DEF TryPush, WaitPush, ResumePush, Waiters
<1>9. ASSUME NEW c \in Consumers, TryPop(c) \/ WaitPop(c) \/ ResumePop(c) PROVE CloseReleases'
  <2>1. ASSUME NEW s, PopAttempt(c, s) PROVE CloseReleases'
    BY <1>4, <1>5, <1>7, <2>1 DEF PopAttempt, PopReady, Waiters
  <2> QED BY <1>4, <1>7, <1>9, <2>1 DEF TryPop, WaitPop, ResumePop, Waiters
<1>10. ASSUME NEW t \in Waiters, NEW S, NotifyOne(t, S), S = Producers \/ S = Consumers
       PROVE  CloseReleases'
  <2>1. Parked(Consumers)' \subseteq Parked(Consumers) /\ Parked(Producers)' \subseteq Parked(Producers)
        /\ (\A k \in Closers : pc'[k] = pc[k]) /\ closed_' = closed_
    BY <1>1, <1>10 DEF NotifyOne, ThreadsOK, Parked, Threads, Waiters
  <2> QED BY <1>2, <2>1
<1>11. ASSUME NEW k \in Closers, Close(k) \/ CloseAndDiscard(k) PROVE CloseReleases'
  <2>1. pc'[k] = "wake_consumers"
    BY <1>1, <1>11 DEF Close, CloseAndDiscard, ThreadsOK, Threads
  <2> QED BY <2>1 DEF CloseReleases
<1>12. ASSUME NEW k \in Closers, WakeConsumers(k) PROVE CloseReleases'
  <2>1. Parked(Consumers)' = {} /\ pc'[k] = "wake_producers"
    BY <1>1, <1>12 DEF WakeConsumers, NotifyAll, ThreadsOK, Parked, Threads, Waiters
  <2> QED BY <2>1 DEF CloseReleases
<1>13. ASSUME NEW k \in Closers, WakeProducers(k) PROVE CloseReleases'
  <2>1. Parked(Producers)' = {} /\ Parked(Consumers)' = Parked(Consumers) /\ closed_' = closed_
        /\ pc[k] = "wake_producers"
    BY <1>1, <1>13 DEF WakeProducers, NotifyAll, ThreadsOK, Parked, Threads, Waiters
  <2>2. \A j \in Closers \ {k} : pc'[j] = pc[j]
    BY <1>1, <1>13 DEF WakeProducers, NotifyAll, ThreadsOK, Parked, Threads, Waiters
  <2> QED BY <2>1, <2>2 DEF CloseReleases
<1>14. ASSUME NEW t \in Waiters, RequestStop(t) PROVE CloseReleases'
  <2>1. Parked(Consumers)' \subseteq Parked(Consumers) /\ Parked(Producers)' \subseteq Parked(Producers)
        /\ (\A k \in Closers : pc'[k] = pc[k]) /\ closed_' = closed_
    BY <1>1, <1>14 DEF RequestStop, SideOf, ThreadsOK, Parked, Threads, Waiters
  <2> QED BY <1>2, <2>1
<1>15. ASSUME NEW t \in Waiters, SpuriousWake(t) \/ (t \in Producers /\ Expire(t)) PROVE CloseReleases'
  BY <1>3, <1>15 DEF SpuriousWake, Expire
<1>16. CASE UNCHANGED vars
  BY <1>16 DEF vars, CloseReleases, Parked
<1> QED BY <1>8, <1>9, <1>10, <1>11, <1>12, <1>13, <1>14, <1>15, <1>16
        DEF Next, NotifyConsumer, NotifyProducer, Waiters

(* A thread asleep on a closed queue will be released by a close() that is
   still running: close() and close_and_discard() strand nobody. *)
THEOREM CloseReleasesCorrect == Spec => []CloseReleases
<1>1. Init => CloseReleases
  BY DEF Init, CloseReleases
<1>2. TypeInv /\ CloseReleases /\ [Next]_vars => CloseReleases'
  BY CloseReleasesNext
<1> QED BY <1>1, <1>2, TypeInvariant, PTL DEF Spec
=============================================================================
