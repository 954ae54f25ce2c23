------------------------- MODULE LockFreeQueueProofs -------------------------
(***************************************************************************)
(* Proofs about LockFreeQueue for every number of threads, every capacity  *)
(* and every program: the types, that every slot index is in one place and *)
(* no slot is shared or leaked, that no event is lost, duplicated or       *)
(* reordered, that quiescence is final, and that the queue implements the  *)
(* bounded FIFO up to what a pop says of the end of the stream.            *)
(*                                                                         *)
(* The gates carry the argument.  active counts exactly the threads inside *)
(* an operation (Counted); a closed gate whose count has reached zero      *)
(* therefore keeps everybody out for good, which is why a closer finds the *)
(* slots at rest when it discards (ClosersOK), and why nothing is popped   *)
(* after something was discarded (HistoriesOK).                            *)
(***************************************************************************)
EXTENDS LockFreeQueue, SequenceFacts, TLAPS, FiniteSetTheorems

(* The labels of a waiter outside the gate, inside it without an index, inside
   it with one; of a closer that signals; and of a closer inside close. *)
OutLabels == {"idle", "enter", "retry", "load", "park", "parked"}
InLabels == {"reserve", "dequeue", "check", "move_data", "notify_data", "move_capacity",
             "notify_capacity", "exit"}
HolderLabels == {"construct", "publish", "take", "release"}
SignalLabels == {"move_data", "notify_data", "move_capacity", "notify_capacity", "signalled"}
ClosingLabels == SignalLabels \cup {"await_producers", "await_consumers", "discard"}

Entered(t) == pc[t] \in InLabels \cup HolderLabels
Holders == {t \in Waiters : index[t] # NoIndex}

(* Who holds an index. *)
HoldersOK == \A t \in Waiters : index[t] # NoIndex <=> pc[t] \in HolderLabels

(* The gates count the operations inside. *)
Counted ==
    /\ producer_gate_.active = Cardinality({p \in Producers : Entered(p)})
    /\ consumer_gate_.active = Cardinality({c \in Consumers : Entered(c)})

(* One closer at a time; what it has reached when. *)
ClosersOK ==
    /\ \A k \in Closers : pc[k] \in ClosingLabels <=> close_mutex_ = k
    /\ close_mutex_ # NoThread \/ producer_quiesced_ => producer_gate_.closed
    /\ \A k \in Closers : pc[k] \in ClosingLabels \ {"await_producers"} => producer_quiesced_
    /\ \A k \in Closers : pc[k] \in {"await_consumers", "discard"} => consumer_gate_.closed
    /\ producer_quiesced_ => \A p \in Producers : ~Entered(p)
    /\ consumer_gate_.closed =>
           /\ producer_quiesced_
           /\ \/ \E k \in Closers : pc[k] = "await_consumers"
              \/ /\ \A c \in Consumers : ~Entered(c)
                 /\ published_indices_ = <<>> \/ \E k \in Closers : pc[k] = "discard"
    /\ \A k \in Closers : pc[k] = "discard" => \A c \in Consumers : ~Entered(c)

(* Every index is free, published or held, and is so once. *)
OnePlace ==
    /\ Distinct(available_indices_) /\ Distinct(published_indices_)
    /\ Elements(available_indices_) \cap Elements(published_indices_) = {}
    /\ \A t \in Holders :
           index[t] \notin Elements(available_indices_) \cup Elements(published_indices_)
    /\ \A t, u \in Holders : index[t] = index[u] => t = u
    /\ Elements(available_indices_) \cup Elements(published_indices_) \cup Held = Indices
    /\ Len(available_indices_) + Len(published_indices_) + Cardinality(Holders) = Capacity

(* A slot has an event exactly while it is alive, and the events are counted. *)
SlotsOK ==
    /\ \A i \in Indices : slots_[i] # Empty <=> i \in Alive
    /\ occupied_count_ = Cardinality(Alive)

(* What a producer is about to publish is its next event; nothing is popped once
   something was discarded. *)
HistoriesOK ==
    /\ sent \in [Producers -> Nat]
    /\ accepted \in Seq(Events) /\ taken \in Seq(Events) /\ discarded \in Seq(Events)
    /\ \A p \in Producers : pc[p] = "publish" => slots_[index[p]] = NextEvent(p)
    /\ discarded # <<>> => consumer_gate_.closed /\ \A c \in Consumers : ~Entered(c)
    /\ Ledger(accepted, taken, discarded, Items)

(* TypeOK in three parts: threads, gates and data, the latter two without the
   ranges of the counters, which follow from what is counted. *)
ThreadTypes ==
    /\ producer_quiesced_ \in BOOLEAN /\ close_mutex_ \in Closers \cup {NoThread}
    /\ pc \in [Threads -> {"idle", "enter", "exit", "reserve", "construct", "publish", "dequeue",
                           "check", "take", "release", "move_data", "notify_data", "move_capacity",
                           "notify_capacity", "retry", "load", "park", "parked", "await_producers",
                           "signalled", "await_consumers", "discard", "returned"}]
    /\ call \in [Waiters -> {"try", "wait", "until"}] /\ round \in [Waiters -> {1, 2}]
    /\ outcome \in [Waiters -> {"none", "success", "full", "empty", "closed", "threw"}]
    /\ moved \in [Waiters -> BOOLEAN] /\ stop \in [Waiters -> {"no", "requested", "signalled"}]
    /\ discarding \in [Closers -> BOOLEAN]

GateTypes ==
    /\ producer_gate_ \in [closed : BOOLEAN, active : Int]
    /\ consumer_gate_ \in [closed : BOOLEAN, active : Int]

DataTypes ==
    /\ slots_ \in [Indices -> Events \cup {Empty}] /\ occupied_count_ \in Int
    /\ available_indices_ \in Seq(Indices) /\ published_indices_ \in Seq(Indices)
    /\ index \in [Waiters -> Indices \cup {NoIndex}]

(* The program counters keep to what their thread can do. *)
PcOK ==
    /\ ThreadTypes /\ program \in Programs
    /\ \A p \in Producers : pc[p] \in (OutLabels \cup InLabels \cup {"construct", "publish"}) \ {"dequeue", "check"}
    /\ \A c \in Consumers : pc[c] \in (OutLabels \cup InLabels \cup {"take", "release"}) \ {"reserve"}
    /\ \A k \in Closers : pc[k] \in ClosingLabels \cup {"idle", "returned"}

(* Slots and indices. *)
DataOK == DataTypes /\ HoldersOK /\ OnePlace /\ SlotsOK

(* The inductive invariant. *)
QueueInv == PcOK /\ GateTypes /\ Counted /\ ClosersOK /\ DataOK /\ HistoriesOK
-----------------------------------------------------------------------------
(* Threads. *)

LEMMA ThreadFacts ==
    /\ Waiters \subseteq Threads /\ Closers \subseteq Threads /\ Waiters \cap Closers = {}
    /\ Producers \subseteq Waiters /\ Consumers \subseteq Waiters /\ Producers \cap Consumers = {}
    /\ Waiters = Producers \cup Consumers /\ Threads = Waiters \cup Closers
    /\ NoThread \notin Closers
BY LockFreeThreadsAssumption DEF Waiters, Threads

LEMMA ReturnPc ==
    ASSUME PcOK, NEW t \in Waiters, Return(t), UNCHANGED <<program, producer_quiesced_, close_mutex_, discarding>>
    PROVE  PcOK'
BY ThreadFacts DEF Return, Goto, PcOK, ThreadTypes, OutLabels, InLabels, ClosingLabels, SignalLabels

LEMMA ThreadStep == ASSUME PcOK, Next PROVE PcOK'
<1> USE ThreadFacts DEF PcOK, OutLabels, InLabels, ClosingLabels, SignalLabels, Goto
<1>1. ASSUME NEW t \in Waiters, NEW kind \in program.calls, Start(t, kind) PROVE PcOK'
  <2>1. kind \in {"try", "wait", "until"}
    BY LockFreeThreadsAssumption
  <2> QED BY <1>1, <2>1 DEF Start, gates, ThreadTypes
<1>2. ASSUME NEW t \in Waiters, RequestStop(t) \/ StopCallback(t) \/ SpuriousWake(t) PROVE PcOK'
  <2>1. CASE RequestStop(t)
    BY <2>1 DEF RequestStop, gates, ThreadTypes
  <2>2. CASE StopCallback(t)
    <3>1. moved' \in [Waiters -> BOOLEAN]
      <4>1. CASE call[t] = "until"
        BY <2>2, <4>1 DEF StopCallback, ThreadTypes
      <4>2. CASE call[t] # "until"
        <5>1. moved' = [u \in Waiters |-> moved[u] \/ (u \in SideOf(t) /\ HasLoaded(u))]
          BY <2>2, <4>2 DEF StopCallback
        <5>2. \A u \in Waiters : moved'[u] \in BOOLEAN
          BY <5>1
        <5> QED BY <5>1, <5>2
      <4> QED BY <4>1, <4>2
    <3>2. /\ pc' \in [Threads -> {"idle", "enter", "exit", "reserve", "construct", "publish", "dequeue",
                           "check", "take", "release", "move_data", "notify_data", "move_capacity",
                           "notify_capacity", "retry", "load", "park", "parked", "await_producers",
                           "signalled", "await_consumers", "discard", "returned"}]
          /\ \A u \in Threads : pc'[u] = pc[u] \/ (pc[u] = "parked" /\ pc'[u] = "enter")
      BY <2>2 DEF StopCallback, ThreadTypes
    <3>3. stop' \in [Waiters -> {"no", "requested", "signalled"}]
      BY <2>2 DEF StopCallback, ThreadTypes
    <3> QED BY <2>2, <3>1, <3>2, <3>3 DEF StopCallback, gates, ThreadTypes
  <2>3. CASE SpuriousWake(t)
    BY <2>3 DEF SpuriousWake, gates, waits, ThreadTypes
  <2> QED BY <1>2, <2>1, <2>2, <2>3
<1>3. ASSUME NEW t \in Waiters, Enter(t) \/ Exit(t) \/ Retry(t) \/ LoadEpoch(t) \/ Park(t) PROVE PcOK'
  <2>1. CASE Enter(t)
    <3>1. CASE Return(t)
      BY <2>1, <3>1, ReturnPc DEF Enter
    <3>2. CASE Goto(t, "reserve") /\ t \in Producers /\ UNCHANGED <<call, round, outcome, moved, stop>>
      BY <2>1, <3>2 DEF Enter, ThreadTypes
    <3>3. CASE Goto(t, "dequeue") /\ t \in Consumers /\ UNCHANGED <<call, round, outcome, moved, stop>>
      BY <2>1, <3>3 DEF Enter, ThreadTypes
    <3> QED BY <2>1, <3>1, <3>2, <3>3 DEF Enter
  <2>2. CASE Exit(t)
    <3>1. CASE Return(t)
      BY <2>2, <3>1, ReturnPc DEF Exit
    <3>2. CASE Goto(t, "retry") /\ UNCHANGED <<call, round, outcome, moved, stop>>
      BY <2>2, <3>2 DEF Exit, ThreadTypes
    <3> QED BY <2>2, <3>1, <3>2 DEF Exit
  <2>3. CASE Retry(t)
    <3>1. CASE Return(t)
      BY <2>3, <3>1, ReturnPc DEF Retry, gates
    <3>2. CASE Goto(t, IF round[t] = 1 THEN "load" ELSE "park") /\ UNCHANGED <<call, round, outcome, moved, stop>>
      BY <2>3, <3>2 DEF Retry, gates, ThreadTypes
    <3>3. CASE round' \in {round, [round EXCEPT ![t] = 2]} /\ Goto(t, "enter") /\ UNCHANGED <<call, outcome, moved, stop>>
      BY <2>3, <3>3 DEF Retry, gates, ThreadTypes
    <3> QED BY <2>3, <3>1, <3>2, <3>3 DEF Retry
  <2>4. CASE LoadEpoch(t)
    BY <2>4 DEF LoadEpoch, gates, ThreadTypes
  <2>5. CASE Park(t)
    BY <2>5 DEF Park, gates, ThreadTypes
  <2> QED BY <1>3, <2>1, <2>2, <2>3, <2>4, <2>5
<1>4. ASSUME NEW t \in Producers, Reserve(t) \/ ConstructThrows(t) \/ Construct(t) \/ PublishIndex(t)
      PROVE  PcOK'
  BY <1>4 DEF Reserve, ConstructThrows, Construct, PublishIndex, gates, waits, ThreadTypes
<1>5. ASSUME NEW t \in Consumers, Dequeue(t) \/ CheckQuiesced(t) \/ TakeEvent(t) \/ ReleaseIndex(t)
      PROVE  PcOK'
  BY <1>5 DEF Dequeue, CheckQuiesced, TakeEvent, ReleaseIndex, gates, waits, ThreadTypes
<1>6. ASSUME NEW t \in Closers, AwaitProducers(t) \/ Signals(t) \/ AwaitConsumers(t) \/ Discard(t)
      PROVE  PcOK'
  <2>1. CASE AwaitProducers(t)
    BY <2>1 DEF AwaitProducers, waits, ThreadTypes
  <2>2. CASE Signals(t)
    BY <2>2 DEF Signals, waits, ThreadTypes
  <2>3. CASE AwaitConsumers(t)
    BY <2>3 DEF AwaitConsumers, gates, waits, ThreadTypes
  <2>4. CASE Discard(t)
    <3>1. CASE UNCHANGED <<pc, discarding>>
      BY <2>4, <3>1 DEF Discard, gates, ThreadTypes
    <3>2. CASE discarding' = [discarding EXCEPT ![t] = FALSE] /\ Goto(t, "move_data")
      BY <2>4, <3>2 DEF Discard, gates, ThreadTypes
    <3> QED BY <2>4, <3>1, <3>2 DEF Discard
  <2> QED BY <1>6, <2>1, <2>2, <2>3, <2>4
<1>7. ASSUME NEW t \in Threads, NEW side \in {"data", "capacity"}, MoveEpoch(t, side) \/ NotifyOne(t, side)
      PROVE  PcOK'
  <2>1. CASE MoveEpoch(t, side)
    <3>1. moved' \in [Waiters -> BOOLEAN]
      BY <2>1 DEF MoveEpoch, ThreadTypes
    <3> QED BY <2>1, <3>1 DEF MoveEpoch, gates, ThreadTypes
  <2>2. CASE NotifyOne(t, side)
    BY <2>2 DEF NotifyOne, Notifiable, Unblocked, Signalled, AfterNotify, gates, waits, ThreadTypes
  <2> QED BY <1>7, <2>1, <2>2
<1>8. ASSUME NEW t \in Closers, NEW discard \in BOOLEAN, Close(t, discard) PROVE PcOK'
  BY <1>8 DEF Close, ThreadTypes
<1>9. CASE Rest
  BY <1>9 DEF Rest, vars, ThreadTypes
<1> QED BY <1>1, <1>2, <1>3, <1>4, <1>5, <1>6, <1>7, <1>8, <1>9 DEF Next, Step
-----------------------------------------------------------------------------
(* Most steps only move threads between labels that the invariant does not tell
   apart.  Quiet is what they have in common. *)

Near(t) ==
    \/ pc'[t] = pc[t]
    \/ t \in Waiters /\ pc[t] \in OutLabels /\ pc'[t] \in OutLabels
    \/ t \in Waiters /\ pc[t] \in InLabels /\ pc'[t] \in InLabels
    \/ t \in Closers /\ pc[t] \in SignalLabels /\ pc'[t] \in SignalLabels

Quiet ==
    /\ UNCHANGED <<storage, gates, index, sent, accepted, taken, discarded>>
    /\ \A t \in Threads : Near(t)

(* The other steps. *)
Admit(t) == Enter(t) /\ ~(IF t \in Producers THEN producer_gate_.closed ELSE consumer_gate_.closed)

Loud ==
    \/ \E t \in Waiters : Admit(t) \/ Exit(t)
    \/ \E p \in Producers : Reserve(p) \/ ConstructThrows(p) \/ Construct(p) \/ PublishIndex(p)
    \/ \E c \in Consumers : Dequeue(c) \/ TakeEvent(c) \/ ReleaseIndex(c)
    \/ \E k \in Closers : AwaitProducers(k) \/ Signals(k) \/ AwaitConsumers(k) \/ Discard(k)
    \/ \E k \in Closers, discard \in BOOLEAN : Close(k, discard)

LEMMA ReturnNear ==
    ASSUME PcOK, NEW t \in Waiters, Return(t), pc[t] \in OutLabels
    PROVE  \A u \in Threads : Near(u)
BY ThreadFacts DEF Return, Goto, Near, OutLabels, PcOK, ThreadTypes

LEMMA QuietOrLoud == ASSUME PcOK, Next PROVE Quiet \/ Loud
<1> USE ThreadFacts DEF Goto
<1>1. ASSUME NEW t \in Waiters, NEW kind \in program.calls, Start(t, kind) PROVE Quiet
  BY <1>1 DEF Start, histories, Quiet, Near, PcOK, ThreadTypes, OutLabels
<1>2. ASSUME NEW t \in Waiters, RequestStop(t) \/ StopCallback(t) \/ SpuriousWake(t) PROVE Quiet
  <2>1. CASE RequestStop(t)
    BY <2>1 DEF RequestStop, histories, Quiet, Near
  <2>2. CASE StopCallback(t)
    <3>1. \A u \in Threads : pc'[u] = pc[u] \/ (u \in Waiters /\ pc[u] = "parked" /\ pc'[u] = "enter")
      BY <2>2 DEF StopCallback, SideOf
    <3> QED BY <2>2, <3>1 DEF StopCallback, histories, Quiet, Near, OutLabels
  <2>3. CASE SpuriousWake(t)
    BY <2>3 DEF SpuriousWake, Unblocked, histories, Quiet, Near, PcOK, ThreadTypes, OutLabels
  <2> QED BY <1>2, <2>1, <2>2, <2>3
<1>3. ASSUME NEW t \in Waiters, Enter(t), ~Admit(t) PROVE Quiet
  <2>1. Return(t) /\ pc[t] \in OutLabels /\ UNCHANGED <<producer_gate_, consumer_gate_>>
    BY <1>3 DEF Enter, Admit, OutLabels
  <2>2. \A u \in Threads : Near(u)
    BY <2>1, ReturnNear
  <2> QED BY <1>3, <2>1, <2>2 DEF Enter, gates, Quiet
<1>4. ASSUME NEW t \in Waiters, Retry(t) \/ LoadEpoch(t) \/ Park(t) PROVE Quiet
  <2>1. CASE Retry(t)
    <3>1. CASE Return(t)
      <4>1. \A u \in Threads : Near(u)
        BY <2>1, <3>1, ReturnNear DEF Retry, OutLabels
      <4> QED BY <2>1, <4>1 DEF Retry, histories, Quiet
    <3>2. CASE ~Return(t)
      <4>1. \E l \in {"load", "park", "enter"} : pc' = [pc EXCEPT ![t] = l]
        BY <2>1, <3>2 DEF Retry
      <4> QED BY <2>1, <4>1 DEF Retry, histories, Quiet, Near, OutLabels, PcOK, ThreadTypes
    <3> QED BY <3>1, <3>2
  <2>2. CASE LoadEpoch(t)
    BY <2>2 DEF LoadEpoch, histories, Quiet, Near, OutLabels, PcOK, ThreadTypes
  <2>3. CASE Park(t)
    BY <2>3 DEF Park, histories, Quiet, Near, OutLabels, PcOK, ThreadTypes
  <2> QED BY <1>4, <2>1, <2>2, <2>3
<1>5. ASSUME NEW c \in Consumers, CheckQuiesced(c) PROVE Quiet
  BY <1>5 DEF CheckQuiesced, Quiet, Near, InLabels, PcOK, ThreadTypes
<1>6. ASSUME NEW t \in Threads, NEW side \in {"data", "capacity"}, MoveEpoch(t, side) \/ NotifyOne(t, side)
      PROVE  Quiet
  <2>1. CASE MoveEpoch(t, side)
    <3>1. pc[t] \in InLabels \cap SignalLabels /\ \E l \in InLabels \cap SignalLabels : pc' = [pc EXCEPT ![t] = l]
      BY <2>1 DEF MoveEpoch, InLabels, SignalLabels
    <3> QED BY <2>1, <3>1 DEF MoveEpoch, histories, Quiet, Near, PcOK, ThreadTypes
  <2>2. CASE NotifyOne(t, side)
    <3>1. pc[t] \in InLabels \cap SignalLabels
      BY <2>2 DEF NotifyOne, InLabels, SignalLabels
    <3>2. IF t \in Closers THEN AfterNotify(t, side) \in SignalLabels ELSE AfterNotify(t, side) \in InLabels
      BY DEF AfterNotify, InLabels, SignalLabels
    <3> DEFINE l == AfterNotify(t, side)
    <3>3. CASE pc' = [pc EXCEPT ![t] = l]
      BY <2>2, <3>1, <3>2, <3>3 DEF NotifyOne, histories, Quiet, Near, PcOK, ThreadTypes
    <3>4. CASE \E u \in Notifiable(side) : pc' = [pc EXCEPT ![t] = l, ![u] = "enter"]
      <4>1. PICK u \in Notifiable(side) : pc' = [pc EXCEPT ![t] = l, ![u] = "enter"]
        BY <3>4
      <4>2. u \in Waiters /\ pc[u] = "parked"
        BY DEF Notifiable, Unblocked
      <4>3. u # t /\ pc[u] \in OutLabels /\ "enter" \in OutLabels
        BY <3>1, <4>2 DEF InLabels, OutLabels
      <4>4. \A v \in Threads : pc'[v] = IF v = u THEN "enter" ELSE IF v = t THEN l ELSE pc[v]
        BY <4>1, <4>2, <4>3 DEF PcOK, ThreadTypes
      <4>5. \A v \in Threads : Near(v)
        BY <3>1, <3>2, <4>2, <4>3, <4>4 DEF Near
      <4> QED BY <2>2, <4>5 DEF NotifyOne, histories, Quiet
    <3> QED BY <2>2, <3>3, <3>4 DEF NotifyOne
  <2> QED BY <1>6, <2>1, <2>2
<1>7. CASE Rest
  BY <1>7 DEF Rest, vars, storage, gates, Quiet, Near
<1> QED BY <1>1, <1>2, <1>3, <1>4, <1>5, <1>6, <1>7 DEF Next, Step, Loud
-----------------------------------------------------------------------------
(* The gates count who is inside. *)

LEMMA QuietFacts ==
    ASSUME PcOK, Quiet
    PROVE  /\ \A t \in Waiters : /\ Entered(t)' <=> Entered(t)
                                 /\ \A l \in HolderLabels : pc'[t] = l <=> pc[t] = l
           /\ \A k \in Closers :
                 /\ pc'[k] \in ClosingLabels <=> pc[k] \in ClosingLabels
                 /\ \A l \in {"await_producers", "await_consumers", "discard"} : pc'[k] = l <=> pc[k] = l
<1>1. \A t \in Threads : Near(t)
  BY DEF Quiet
<1>2. ASSUME NEW t \in Waiters PROVE (Entered(t)' <=> Entered(t)) /\ \A l \in HolderLabels : pc'[t] = l <=> pc[t] = l
  BY <1>1, ThreadFacts DEF Near, Entered, OutLabels, InLabels, HolderLabels
<1>3. ASSUME NEW k \in Closers
      PROVE  /\ pc'[k] \in ClosingLabels <=> pc[k] \in ClosingLabels
             /\ \A l \in {"await_producers", "await_consumers", "discard"} : pc'[k] = l <=> pc[k] = l
  BY <1>1, ThreadFacts DEF Near, ClosingLabels, SignalLabels
<1> QED BY <1>2, <1>3

(* Only entering and leaving a gate changes who is inside. *)
LEMMA EnteredStays ==
    ASSUME PcOK, PcOK', Next, \A t \in Waiters : ~Admit(t) /\ ~Exit(t)
    PROVE  /\ \A t \in Waiters : Entered(t)' <=> Entered(t)
           /\ GateTypes => GateTypes'
           /\ GateTypes => producer_gate_'.active = producer_gate_.active
                           /\ consumer_gate_'.active = consumer_gate_.active
<1> USE ThreadFacts DEF Goto
<1>1. CASE Quiet
  BY <1>1, QuietFacts DEF Quiet, gates, GateTypes
<1> DEFINE Same == UNCHANGED <<producer_gate_, consumer_gate_>>
<1>2. ASSUME NEW p \in Producers, Reserve(p) \/ ConstructThrows(p) \/ Construct(p) \/ PublishIndex(p)
      PROVE  Same /\ \A t \in Waiters : Entered(t)' <=> Entered(t)
  BY <1>2 DEF Reserve, ConstructThrows, Construct, PublishIndex, gates, PcOK, ThreadTypes, Entered, InLabels, HolderLabels
<1>3. ASSUME NEW c \in Consumers, Dequeue(c) \/ TakeEvent(c) \/ ReleaseIndex(c)
      PROVE  Same /\ \A t \in Waiters : Entered(t)' <=> Entered(t)
  BY <1>3 DEF Dequeue, TakeEvent, ReleaseIndex, gates, PcOK, ThreadTypes, Entered, InLabels, HolderLabels
<1>4. ASSUME NEW k \in Closers,
             AwaitProducers(k) \/ Signals(k) \/ AwaitConsumers(k) \/ Discard(k) \/ \E discard \in BOOLEAN : Close(k, discard)
      PROVE  \A t \in Waiters : pc'[t] = pc[t]
  BY <1>4 DEF AwaitProducers, Signals, AwaitConsumers, Discard, Close, PcOK, ThreadTypes
<1>5. ASSUME NEW k \in Closers,
             AwaitProducers(k) \/ Signals(k) \/ AwaitConsumers(k) \/ Discard(k) \/ \E discard \in BOOLEAN : Close(k, discard)
      PROVE  /\ producer_gate_' \in {producer_gate_, [producer_gate_ EXCEPT !.closed = TRUE]}
             /\ consumer_gate_' \in {consumer_gate_, [consumer_gate_ EXCEPT !.closed = TRUE]}
  BY <1>5 DEF AwaitProducers, Signals, AwaitConsumers, Discard, Close, gates
<1>6. ASSUME NEW k \in Closers,
             AwaitProducers(k) \/ Signals(k) \/ AwaitConsumers(k) \/ Discard(k) \/ \E discard \in BOOLEAN : Close(k, discard)
      PROVE  /\ \A t \in Waiters : Entered(t)' <=> Entered(t)
             /\ GateTypes => GateTypes' /\ producer_gate_'.active = producer_gate_.active
                             /\ consumer_gate_'.active = consumer_gate_.active
  <2>1. \A t \in Waiters : Entered(t)' <=> Entered(t)
    BY <1>4, <1>6 DEF Entered
  <2>2. /\ producer_gate_' \in {producer_gate_, [producer_gate_ EXCEPT !.closed = TRUE]}
        /\ consumer_gate_' \in {consumer_gate_, [consumer_gate_ EXCEPT !.closed = TRUE]}
    BY <1>5, <1>6
  <2>3. ASSUME GateTypes
        PROVE  GateTypes' /\ producer_gate_'.active = producer_gate_.active /\ consumer_gate_'.active = consumer_gate_.active
    BY <2>2, <2>3 DEF GateTypes
  <2> QED BY <2>1, <2>3
<1> QED BY <1>1, <1>2, <1>3, <1>6, QuietOrLoud DEF Loud, GateTypes

LEMMA Admission ==
    ASSUME PcOK, GateTypes, NEW t \in Waiters, Admit(t)
    PROVE  /\ ~Entered(t) /\ Entered(t)' /\ pc[t] = "enter" /\ pc'[t] \in {"reserve", "dequeue"}
           /\ \A u \in Threads \ {t} : pc'[u] = pc[u]
           /\ GateTypes'
           /\ t \in Producers => /\ ~producer_gate_.closed /\ UNCHANGED consumer_gate_
                                 /\ producer_gate_'.closed = producer_gate_.closed
                                 /\ producer_gate_'.active = producer_gate_.active + 1
           /\ t \in Consumers => /\ ~consumer_gate_.closed /\ UNCHANGED producer_gate_
                                 /\ consumer_gate_'.closed = consumer_gate_.closed
                                 /\ consumer_gate_'.active = consumer_gate_.active + 1
           /\ UNCHANGED <<program, storage, producer_quiesced_, close_mutex_, index, sent, accepted, taken, discarded>>
<1> USE ThreadFacts DEF Goto
<1>1. CASE t \in Producers
  BY <1>1 DEF Admit, Enter, PcOK, ThreadTypes, GateTypes, Entered, InLabels, HolderLabels
<1>2. CASE t \in Consumers
  BY <1>2 DEF Admit, Enter, PcOK, ThreadTypes, GateTypes, Entered, InLabels, HolderLabels
<1> QED BY <1>1, <1>2

LEMMA Leaving ==
    ASSUME PcOK, GateTypes, NEW t \in Waiters, Exit(t)
    PROVE  /\ Entered(t) /\ ~Entered(t)' /\ pc[t] = "exit" /\ pc'[t] \in {"idle", "retry"}
           /\ \A u \in Threads \ {t} : pc'[u] = pc[u]
           /\ GateTypes'
           /\ t \in Producers => /\ UNCHANGED consumer_gate_
                                 /\ producer_gate_'.closed = producer_gate_.closed
                                 /\ producer_gate_'.active = producer_gate_.active - 1
           /\ t \in Consumers => /\ UNCHANGED producer_gate_
                                 /\ consumer_gate_'.closed = consumer_gate_.closed
                                 /\ consumer_gate_'.active = consumer_gate_.active - 1
           /\ UNCHANGED <<program, storage, producer_quiesced_, close_mutex_, index, sent, accepted, taken, discarded>>
<1> USE ThreadFacts
<1>1. pc' \in {[pc EXCEPT ![t] = "retry"], [pc EXCEPT ![t] = "idle"]}
  BY DEF Exit, Return, Goto
<1>2. /\ Entered(t) /\ ~Entered(t)' /\ pc[t] = "exit" /\ pc'[t] \in {"idle", "retry"}
      /\ \A u \in Threads \ {t} : pc'[u] = pc[u]
  BY <1>1 DEF Exit, PcOK, ThreadTypes, Entered, InLabels, HolderLabels
<1>3. CASE t \in Producers
  BY <1>2, <1>3 DEF Exit, GateTypes, histories
<1>4. CASE t \in Consumers
  BY <1>2, <1>4 DEF Exit, GateTypes, histories
<1> QED BY <1>3, <1>4

InP == {p \in Producers : Entered(p)}
InC == {c \in Consumers : Entered(c)}

LEMMA GateStep ==
    ASSUME PcOK, PcOK', GateTypes, Counted, Next PROVE GateTypes' /\ Counted'
<1> USE ThreadFacts
<1>1. IsFiniteSet(InP) /\ IsFiniteSet(InC)
  BY LockFreeThreadsAssumption, FS_Subset DEF InP, InC
<1>2. ASSUME NEW t \in Waiters, Admit(t) PROVE GateTypes' /\ Counted'
  <2>1. CASE t \in Producers
    <3>1. InP' = InP \cup {t} /\ t \notin InP /\ InC' = InC
      BY <1>2, <2>1, Admission DEF InP, InC, Entered
    <3>2. Cardinality(InP') = Cardinality(InP) + 1
      BY <1>1, <3>1, FS_AddElement
    <3> QED BY <1>2, <2>1, <3>1, <3>2, Admission DEF Counted, InP, InC
  <2>2. CASE t \in Consumers
    <3>1. InC' = InC \cup {t} /\ t \notin InC /\ InP' = InP
      BY <1>2, <2>2, Admission DEF InP, InC, Entered
    <3>2. Cardinality(InC') = Cardinality(InC) + 1
      BY <1>1, <3>1, FS_AddElement
    <3> QED BY <1>2, <2>2, <3>1, <3>2, Admission DEF Counted, InP, InC
  <2> QED BY <2>1, <2>2
<1>3. ASSUME NEW t \in Waiters, Exit(t) PROVE GateTypes' /\ Counted'
  <2>1. CASE t \in Producers
    <3>1. InP' = InP \ {t} /\ t \in InP /\ InC' = InC
      BY <1>3, <2>1, Leaving DEF InP, InC, Entered
    <3>2. Cardinality(InP') = Cardinality(InP) - 1
      BY <1>1, <3>1, FS_RemoveElement
    <3> QED BY <1>3, <2>1, <3>1, <3>2, Leaving DEF Counted, InP, InC
  <2>2. CASE t \in Consumers
    <3>1. InC' = InC \ {t} /\ t \in InC /\ InP' = InP
      BY <1>3, <2>2, Leaving DEF InP, InC, Entered
    <3>2. Cardinality(InC') = Cardinality(InC) - 1
      BY <1>1, <3>1, FS_RemoveElement
    <3> QED BY <1>3, <2>2, <3>1, <3>2, Leaving DEF Counted, InP, InC
  <2> QED BY <2>1, <2>2
<1>4. CASE \A t \in Waiters : ~Admit(t) /\ ~Exit(t)
  <2>1. InP' = InP /\ InC' = InC
    BY <1>4, EnteredStays DEF InP, InC, Entered
  <2> QED BY <1>4, <2>1, EnteredStays DEF Counted, InP, InC
<1> QED BY <1>2, <1>3, <1>4

(* A gate whose count is zero has nobody inside. *)
LEMMA NobodyInside ==
    ASSUME Counted
    PROVE  /\ producer_gate_.active = 0 => \A p \in Producers : ~Entered(p)
           /\ consumer_gate_.active = 0 => \A c \in Consumers : ~Entered(c)
<1>1. IsFiniteSet({p \in Producers : Entered(p)}) /\ IsFiniteSet({c \in Consumers : Entered(c)})
  BY LockFreeThreadsAssumption, FS_Subset
<1> QED BY <1>1, FS_EmptySet DEF Counted
-----------------------------------------------------------------------------
(* What closers find. *)

LEMMA CloserStep ==
    ASSUME PcOK, PcOK', GateTypes, GateTypes', Counted, ClosersOK, Next PROVE ClosersOK'
<1> USE ThreadFacts
<1>1. CASE Quiet
  <2>1. UNCHANGED <<published_indices_, producer_gate_, consumer_gate_, producer_quiesced_, close_mutex_>>
    BY <1>1 DEF Quiet, gates, storage
  <2> QED BY <1>1, <2>1, QuietFacts DEF ClosersOK
<1>2. ASSUME NEW t \in Waiters, Admit(t) PROVE ClosersOK'
  <2>1. \A k \in Closers : pc'[k] = pc[k]
    BY <1>2, Admission
  <2>2. UNCHANGED <<published_indices_, producer_quiesced_, close_mutex_>>
    BY <1>2, Admission DEF storage
  <2>3. \A u \in Waiters \ {t} : Entered(u)' <=> Entered(u)
    BY <1>2, Admission DEF Entered
  <2>4. CASE t \in Producers
    BY <1>2, <2>1, <2>2, <2>3, <2>4, Admission DEF ClosersOK
  <2>5. CASE t \in Consumers
    BY <1>2, <2>1, <2>2, <2>3, <2>5, Admission DEF ClosersOK
  <2> QED BY <2>4, <2>5
<1>3. ASSUME NEW t \in Waiters, Exit(t) PROVE ClosersOK'
  <2>1. \A k \in Closers : pc'[k] = pc[k]
    BY <1>3, Leaving
  <2>2. UNCHANGED <<published_indices_, producer_quiesced_, close_mutex_>>
    BY <1>3, Leaving DEF storage
  <2>3. \A u \in Waiters : Entered(u)' => Entered(u)
    BY <1>3, Leaving DEF Entered
  <2>4. producer_gate_'.closed = producer_gate_.closed /\ consumer_gate_'.closed = consumer_gate_.closed
    BY <1>3, Leaving
  <2> QED BY <2>1, <2>2, <2>3, <2>4 DEF ClosersOK
<1>4. ASSUME NEW p \in Producers, Reserve(p) \/ ConstructThrows(p) \/ Construct(p) \/ PublishIndex(p)
      PROVE  ClosersOK'
  <2>1. /\ \A k \in Closers : pc'[k] = pc[k]
        /\ \A t \in Waiters : Entered(t)' <=> Entered(t)
        /\ Entered(p)
        /\ UNCHANGED <<producer_gate_, consumer_gate_, producer_quiesced_, close_mutex_>>
    BY <1>4 DEF Reserve, ConstructThrows, Construct, PublishIndex, gates, Goto, PcOK, ThreadTypes, Entered,
                InLabels, HolderLabels
  <2>2. ~producer_quiesced_ /\ ~consumer_gate_.closed
    BY <2>1 DEF ClosersOK
  <2> QED BY <2>1, <2>2 DEF ClosersOK
<1>5. ASSUME NEW c \in Consumers, Dequeue(c) \/ TakeEvent(c) \/ ReleaseIndex(c) PROVE ClosersOK'
  <2>1. /\ \A k \in Closers : pc'[k] = pc[k]
        /\ \A t \in Waiters : Entered(t)' <=> Entered(t)
        /\ Entered(c)
        /\ UNCHANGED <<producer_gate_, consumer_gate_, producer_quiesced_, close_mutex_>>
    BY <1>5 DEF Dequeue, TakeEvent, ReleaseIndex, gates, Goto, PcOK, ThreadTypes, Entered, InLabels, HolderLabels
  <2>2. consumer_gate_.closed => \E k \in Closers : pc[k] = "await_consumers"
    BY <2>1 DEF ClosersOK
  <2> QED BY <2>1, <2>2 DEF ClosersOK
<1>6. ASSUME NEW k \in Closers,
             AwaitProducers(k) \/ Signals(k) \/ AwaitConsumers(k) \/ Discard(k)
      PROVE  ClosersOK'
  <2>1. pc[k] \in ClosingLabels
    BY <1>6 DEF AwaitProducers, Signals, AwaitConsumers, Discard, ClosingLabels, SignalLabels
  <2>2. close_mutex_ = k /\ \A j \in Closers \ {k} : pc[j] \notin ClosingLabels
    BY <2>1 DEF ClosersOK
  <2>3. pc[k] = "await_producers" \/ producer_quiesced_
    BY <2>1 DEF ClosersOK
  <2>4. \A j \in Threads \ {k} : pc'[j] = pc[j]
    BY <1>6 DEF AwaitProducers, Signals, AwaitConsumers, Discard, Goto, PcOK, ThreadTypes
  <2>5. \A t \in Waiters : Entered(t)' <=> Entered(t)
    BY <2>4 DEF Entered
  <2>6. \A j \in Closers \ {k} : /\ pc'[j] \notin ClosingLabels
                                 /\ pc[j] \notin {"await_producers", "await_consumers", "discard"}
                                 /\ pc'[j] \notin {"await_producers", "await_consumers", "discard"}
    BY <2>2, <2>4 DEF ClosingLabels
  <2> USE DEF Goto, PcOK, ThreadTypes
  <2>7. CASE AwaitProducers(k)
    <3>1. pc'[k] = "move_data" /\ producer_quiesced_' /\ \A p \in Producers : ~Entered(p)
      BY <2>7, NobodyInside DEF AwaitProducers, ProducersGone
    <3>2. UNCHANGED <<published_indices_, producer_gate_, consumer_gate_, close_mutex_>>
      BY <2>7 DEF AwaitProducers, storage
    <3>3. pc'[k] \in ClosingLabels /\ pc[k] = "await_producers" /\ pc'[k] \notin {"await_producers", "await_consumers", "discard"}
      BY <2>7, <3>1 DEF AwaitProducers, ClosingLabels, SignalLabels
    <3>4. pc[k] \notin {"await_consumers", "discard"}
      BY <3>3
    <3> QED BY <2>1, <2>2, <2>5, <2>6, <3>1, <3>2, <3>3, <3>4 DEF ClosersOK
  <2>8. CASE Signals(k) /\ discarding[k]
    <3>1. /\ pc'[k] = "await_consumers" /\ pc'[k] \in ClosingLabels /\ consumer_gate_'.closed /\ producer_quiesced_
          /\ UNCHANGED <<published_indices_, producer_gate_, producer_quiesced_, close_mutex_>>
          /\ pc'[k] # "discard"
      BY <2>3, <2>8 DEF Signals, storage, GateTypes, ClosingLabels
    <3> QED BY <2>1, <2>2, <2>5, <2>6, <3>1 DEF ClosersOK
  <2>9. CASE Signals(k) /\ ~discarding[k]
    <3>1. /\ pc[k] = "signalled" /\ pc'[k] = "returned" /\ pc'[k] \notin ClosingLabels /\ producer_quiesced_
          /\ UNCHANGED <<published_indices_, producer_gate_, consumer_gate_, producer_quiesced_>>
          /\ close_mutex_' = NoThread
          /\ pc'[k] \notin {"await_producers", "await_consumers", "discard"}
          /\ pc[k] \notin {"await_producers", "await_consumers", "discard"}
      BY <2>3, <2>9 DEF Signals, storage, ClosingLabels, SignalLabels
    <3> QED BY <2>1, <2>2, <2>5, <2>6, <3>1 DEF ClosersOK
  <2>10. CASE AwaitConsumers(k)
    <3>1. /\ pc[k] = "await_consumers" /\ pc'[k] = "discard" /\ pc'[k] \in ClosingLabels /\ producer_quiesced_
          /\ UNCHANGED <<published_indices_, producer_gate_, consumer_gate_, producer_quiesced_, close_mutex_>>
          /\ \A c \in Consumers : ~Entered(c)
      BY <2>3, <2>10, NobodyInside DEF AwaitConsumers, ConsumersGone, storage, gates, ClosingLabels
    <3>2. consumer_gate_.closed
      BY <3>1 DEF ClosersOK
    <3> QED BY <2>1, <2>2, <2>5, <2>6, <3>1, <3>2 DEF ClosersOK
  <2>11. CASE Discard(k)
    <3>1. /\ pc[k] = "discard" /\ producer_quiesced_
          /\ UNCHANGED <<producer_gate_, consumer_gate_, producer_quiesced_, close_mutex_>>
      BY <2>3, <2>11 DEF Discard, gates
    <3>2. \A c \in Consumers : ~Entered(c)
      BY <3>1 DEF ClosersOK
    <3>3. CASE pc'[k] = "discard"
      BY <2>1, <2>2, <2>5, <2>6, <3>1, <3>2, <3>3 DEF ClosersOK
    <3>4. CASE pc'[k] = "move_data" /\ published_indices_' = <<>>
      <4>1. pc'[k] \in ClosingLabels /\ pc'[k] \notin {"await_producers", "await_consumers", "discard"}
        BY <3>4 DEF ClosingLabels, SignalLabels
      <4> QED BY <2>1, <2>2, <2>5, <2>6, <3>1, <3>2, <3>4, <4>1 DEF ClosersOK
    <3>5. pc'[k] = "discard" \/ (pc'[k] = "move_data" /\ published_indices_' = <<>>)
      BY <2>11 DEF Discard, storage
    <3> QED BY <3>3, <3>4, <3>5
  <2> QED BY <1>6, <2>7, <2>8, <2>9, <2>10, <2>11
<1>7. ASSUME NEW k \in Closers, NEW discard \in BOOLEAN, Close(k, discard) PROVE ClosersOK'
  <2>1. \A j \in Closers : pc[j] \notin ClosingLabels
    BY <1>7 DEF Close, ClosersOK
  <2>2. \A j \in Threads \ {k} : pc'[j] = pc[j]
    BY <1>7 DEF Close, Goto, PcOK, ThreadTypes
  <2>3. \A t \in Waiters : Entered(t)' <=> Entered(t)
    BY <2>2 DEF Entered
  <2>4. /\ pc'[k] = "await_producers" /\ pc'[k] \in ClosingLabels /\ close_mutex_' = k /\ producer_gate_'.closed
        /\ UNCHANGED <<published_indices_, consumer_gate_, producer_quiesced_>>
    BY <1>7 DEF Close, Goto, PcOK, ThreadTypes, GateTypes, storage, ClosingLabels
  <2>5. \A j \in Closers \ {k} : /\ pc'[j] \notin ClosingLabels
                                 /\ pc'[j] \notin {"await_producers", "await_consumers", "discard"}
    BY <2>1, <2>2 DEF ClosingLabels
  <2>6. \A j \in Closers : pc[j] \notin {"await_producers", "await_consumers", "discard"}
    BY <2>1 DEF ClosingLabels
  <2> QED BY <2>3, <2>4, <2>5, <2>6 DEF ClosersOK
<1> QED BY <1>1, <1>2, <1>3, <1>4, <1>5, <1>6, <1>7, QuietOrLoud DEF Loud
-----------------------------------------------------------------------------
(* Slots and indices. *)

LEMMA IndexFacts == NoIndex \notin Indices /\ IsFiniteSet(Indices) /\ Cardinality(Indices) = Capacity /\ Indices # {}
<1>1. 0 \in Int /\ Capacity - 1 \in Int /\ Capacity \in Nat /\ 0 \in 0..(Capacity - 1)
  BY LockFreeCapacityAssumption
<1>2. IsFiniteSet(0..(Capacity - 1)) /\ Cardinality(0..(Capacity - 1)) = (Capacity - 1) - 0 + 1
  BY <1>1, FS_Interval
<1> QED BY <1>1, <1>2 DEF Indices, NoIndex

(* The slots that are alive in the hands of a thread. *)
InHand == {t \in Waiters : pc[t] \in {"publish", "take"}}

LEMMA SlotFacts ==
    ASSUME DataOK
    PROVE  /\ IsFiniteSet(Holders) /\ InHand \subseteq Holders
           /\ Held = {index[t] : t \in Holders}
           /\ Alive = Elements(published_indices_) \cup {index[t] : t \in InHand}
           /\ Alive \subseteq Indices /\ IsFiniteSet(Alive)
           /\ \A t \in Holders : index[t] \in Indices
           /\ Elements(published_indices_) \subseteq Indices /\ Elements(available_indices_) \subseteq Indices
<1>1. IsFiniteSet(Holders)
  BY LockFreeThreadsAssumption, FS_Subset, FS_Union DEF Holders, Waiters
<1>2. InHand \subseteq Holders
  BY DEF InHand, Holders, DataOK, HoldersOK, HolderLabels
<1>3. Held = {index[t] : t \in Holders}
  BY DEF Held, Holders
<1>4. Alive = Elements(published_indices_) \cup {index[t] : t \in InHand}
  BY DEF Alive, InHand, Members, Elements
<1>5. \A t \in Holders : index[t] \in Indices
  BY DEF Holders, DataOK, DataTypes
<1>6. Elements(published_indices_) \subseteq Indices /\ Elements(available_indices_) \subseteq Indices
  BY DEF DataOK, OnePlace
<1>7. Alive \subseteq Indices
  BY <1>2, <1>4, <1>5, <1>6
<1> QED BY <1>1, <1>2, <1>3, <1>4, <1>5, <1>6, <1>7, IndexFacts, FS_Subset

(* Steps that leave the storage and the holders alone. *)
LEMMA DataFrame ==
    ASSUME DataOK, UNCHANGED <<storage, index>>,
           \A t \in Waiters : \A l \in HolderLabels : pc'[t] = l <=> pc[t] = l
    PROVE  DataOK'
<1>1. UNCHANGED <<slots_, available_indices_, published_indices_, occupied_count_, index>>
  BY DEF storage
<1>2. InHand' = InHand /\ Holders' = Holders /\ Held' = Held
  BY <1>1 DEF InHand, Holders, Held, HolderLabels
<1>3. Alive' = Alive
  BY <1>1, <1>2 DEF Alive, InHand, Members
<1>4. HoldersOK'
  BY <1>1 DEF DataOK, HoldersOK, HolderLabels
<1> QED BY <1>1, <1>2, <1>3, <1>4 DEF DataOK, DataTypes, OnePlace, SlotsOK

(* A producer takes a free index. *)
LEMMA ReserveData ==
    ASSUME PcOK, DataOK, NEW p \in Producers, Reserve(p), available_indices_ # <<>>
    PROVE  DataOK'
<1> USE ThreadFacts, IndexFacts
<1> DEFINE i == Head(available_indices_)
<1>0. /\ available_indices_' = Tail(available_indices_) /\ UNCHANGED <<slots_, published_indices_, occupied_count_>>
      /\ pc[p] = "reserve" /\ pc' = [pc EXCEPT ![p] = "construct"] /\ index' = [index EXCEPT ![p] = i]
  BY DEF Reserve, WithoutHead, Goto
<1>1. /\ i \in Indices /\ i \in Elements(available_indices_) /\ available_indices_' \in Seq(Indices)
      /\ Len(available_indices_') = Len(available_indices_) - 1
      /\ Elements(available_indices_') = Elements(available_indices_) \ {i} /\ Distinct(available_indices_')
  BY <1>0, TailElements DEF DataOK, DataTypes, OnePlace
<1> HIDE DEF i
<1>2. /\ pc'[p] = "construct" /\ \A t \in Waiters \ {p} : pc'[t] = pc[t]
      /\ index'[p] = i /\ \A t \in Waiters \ {p} : index'[t] = index[t]
      /\ index' \in [Waiters -> Indices \cup {NoIndex}]
  BY <1>0, <1>1 DEF PcOK, ThreadTypes, DataOK, DataTypes
<1>3. HoldersOK' /\ p \notin Holders /\ Holders' = Holders \cup {p}
  BY <1>0, <1>1, <1>2 DEF DataOK, HoldersOK, Holders, HolderLabels
<1>4. Held' = Held \cup {i}
  BY <1>2, <1>3 DEF Held, Holders
<1>4a. Cardinality(Holders') = Cardinality(Holders) + 1
  BY <1>3, SlotFacts, FS_AddElement
<1>5. InHand' = InHand /\ p \notin InHand
  BY <1>0, <1>2 DEF InHand
<1>6. Alive' = Alive
  BY <1>0, <1>2, <1>5 DEF Alive, InHand, Members
<1>7. OnePlace'
  <2>1. Len(available_indices_) \in Nat /\ Len(published_indices_) \in Nat /\ Cardinality(Holders) \in Nat
    BY SlotFacts, FS_CardinalityType, LenProperties DEF DataOK, DataTypes
  <2>2. Len(available_indices_') + Len(published_indices_') + Cardinality(Holders') = Capacity
    BY <1>0, <1>1, <1>4a, <2>1 DEF DataOK, OnePlace
  <2>3. \A t \in Holders' : index'[t] \notin Elements(available_indices_') \cup Elements(published_indices_')
    BY <1>0, <1>1, <1>2, <1>3 DEF DataOK, OnePlace, Holders
  <2>4. \A t, u \in Holders' : index'[t] = index'[u] => t = u
    BY <1>1, <1>2, <1>3 DEF DataOK, OnePlace, Holders
  <2> QED BY <1>0, <1>1, <1>2, <1>4, <2>2, <2>3, <2>4 DEF DataOK, OnePlace
<1> QED BY <1>0, <1>1, <1>2, <1>3, <1>6, <1>7 DEF DataOK, DataTypes, SlotsOK

(* A thread gives its index back: a constructor that throws, a consumer that is
   done. *)
LEMMA ReleaseData ==
    ASSUME PcOK, DataOK, NEW t \in Waiters,
           (t \in Producers /\ ConstructThrows(t)) \/ (t \in Consumers /\ ReleaseIndex(t))
    PROVE  DataOK'
<1> USE ThreadFacts, IndexFacts
<1> DEFINE i == index[t]
<1>1. t \in Holders /\ i \in Indices /\ i \notin Elements(available_indices_) \cup Elements(published_indices_)
  <2>1. t \in Holders
    BY DEF ConstructThrows, ReleaseIndex, DataOK, HoldersOK, Holders, HolderLabels
  <2> QED BY <2>1, SlotFacts DEF DataOK, OnePlace
<1>2. /\ available_indices_' = Append(available_indices_, i) /\ UNCHANGED <<slots_, published_indices_, occupied_count_>>
      /\ pc[t] \in {"construct", "release"} /\ pc'[t] = "move_capacity" /\ \A u \in Waiters \ {t} : pc'[u] = pc[u]
      /\ index'[t] = NoIndex /\ \A u \in Waiters \ {t} : index'[u] = index[u]
      /\ index' \in [Waiters -> Indices \cup {NoIndex}]
  BY DEF ConstructThrows, ReleaseIndex, Released, Goto, PcOK, ThreadTypes, DataOK, DataTypes
<1>3. /\ available_indices_' \in Seq(Indices)
      /\ Len(available_indices_') = Len(available_indices_) + 1
      /\ Elements(available_indices_') = Elements(available_indices_) \cup {i} /\ Distinct(available_indices_')
  BY <1>1, <1>2, AppendElements DEF DataOK, DataTypes, OnePlace
<1> HIDE DEF i
<1>4. HoldersOK' /\ Holders' = Holders \ {t}
  BY <1>1, <1>2 DEF DataOK, HoldersOK, Holders, HolderLabels
<1>5. Held' = Held \ {i}
  <2>1. Held' = {index[u] : u \in Holders \ {t}}
    BY <1>2, <1>4 DEF Held, Holders
  <2> QED BY <1>1, <2>1, SlotFacts DEF DataOK, OnePlace, i
<1>6. Cardinality(Holders') = Cardinality(Holders) - 1
  BY <1>1, <1>4, SlotFacts, FS_RemoveElement
<1>7. InHand' = InHand /\ t \notin InHand
  BY <1>2 DEF InHand
<1>8. Alive' = Alive
  BY <1>2, <1>7, SlotFacts DEF Alive, InHand, Members
<1>9. OnePlace'
  <2>1. Len(available_indices_) \in Nat /\ Len(published_indices_) \in Nat /\ Cardinality(Holders) \in Nat
    BY SlotFacts, FS_CardinalityType, LenProperties DEF DataOK, DataTypes
  <2>2. Len(available_indices_') + Len(published_indices_') + Cardinality(Holders') = Capacity
    BY <1>2, <1>3, <1>6, <2>1 DEF DataOK, OnePlace
  <2>3. \A u \in Holders' : index'[u] \notin Elements(available_indices_') \cup Elements(published_indices_')
    BY <1>1, <1>2, <1>3, <1>4 DEF DataOK, OnePlace, i, Holders
  <2>4. \A u, v \in Holders' : index'[u] = index'[v] => u = v
    BY <1>2, <1>4 DEF DataOK, OnePlace, Holders
  <2>5. i \in Held
    BY <1>1, SlotFacts DEF i
  <2> QED BY <1>1, <1>2, <1>3, <1>5, <2>2, <2>3, <2>4, <2>5 DEF DataOK, OnePlace
<1> QED BY <1>2, <1>3, <1>4, <1>8, <1>9 DEF DataOK, DataTypes, SlotsOK

(* A producer constructs its event in its slot. *)
LEMMA ConstructData ==
    ASSUME PcOK, DataOK, sent \in [Producers -> Nat], NEW p \in Producers, Construct(p)
    PROVE  DataOK' /\ slots_' = [slots_ EXCEPT ![index[p]] = NextEvent(p)] /\ NextEvent(p) \in Events
<1> USE ThreadFacts, IndexFacts
<1> DEFINE i == index[p]
<1>1. /\ UNCHANGED <<available_indices_, published_indices_, index>>
      /\ slots_' = [slots_ EXCEPT ![i] = NextEvent(p)] /\ occupied_count_' = occupied_count_ + 1
      /\ pc[p] = "construct" /\ pc' = [pc EXCEPT ![p] = "publish"]
  BY DEF Construct, Goto
<1>2. p \in Holders /\ i \in Indices /\ i \notin Elements(available_indices_) \cup Elements(published_indices_)
  <2>1. p \in Holders
    BY <1>1 DEF DataOK, HoldersOK, Holders, HolderLabels
  <2> QED BY <2>1, SlotFacts DEF DataOK, OnePlace
<1>3. NextEvent(p) \in Events /\ NextEvent(p) # Empty
  BY LockFreeEmptyAssumption DEF NextEvent, Events
<1> HIDE DEF i
<1>4. pc'[p] = "publish" /\ \A t \in Waiters \ {p} : pc'[t] = pc[t]
  BY <1>1 DEF PcOK, ThreadTypes
<1>5. Holders' = Holders /\ Held' = Held /\ HoldersOK'
  BY <1>1, <1>4 DEF Holders, Held, DataOK, HoldersOK, HolderLabels
<1>6. InHand' = InHand \cup {p} /\ p \notin InHand
  BY <1>1, <1>4 DEF InHand
<1>7. Alive' = Alive \cup {i} /\ i \notin Alive
  <2>1. Alive' = Elements(published_indices_) \cup {index[t] : t \in InHand'}
    BY <1>1 DEF Alive, InHand, Members, Elements
  <2>2. \A t \in InHand : index[t] # i
    BY <1>2, <1>6, SlotFacts DEF DataOK, OnePlace, i
  <2> QED BY <1>2, <1>6, <2>1, <2>2, SlotFacts DEF i
<1>8. SlotsOK'
  <2>1. Cardinality(Alive') = Cardinality(Alive) + 1
    BY <1>7, SlotFacts, FS_AddElement
  <2>2. \A j \in Indices : slots_'[j] # Empty <=> j \in Alive'
    BY <1>1, <1>2, <1>3, <1>7 DEF DataOK, DataTypes, SlotsOK
  <2> QED BY <1>1, <2>1, <2>2 DEF DataOK, SlotsOK
<1>9. DataTypes'
  BY <1>1, <1>2, <1>3 DEF DataOK, DataTypes
<1>10. OnePlace'
  BY <1>1, <1>5 DEF DataOK, OnePlace
<1> QED BY <1>1, <1>3, <1>5, <1>8, <1>9, <1>10 DEF DataOK, i

(* A producer publishes its index. *)
LEMMA PublishData ==
    ASSUME PcOK, DataOK, NEW p \in Producers, PublishIndex(p)
    PROVE  DataOK' /\ index[p] \in Indices /\ slots_[index[p]] # Empty
<1> USE ThreadFacts, IndexFacts
<1> DEFINE i == index[p]
<1>1. /\ published_indices_' = Append(published_indices_, i)
      /\ UNCHANGED <<slots_, available_indices_, occupied_count_>>
      /\ pc[p] = "publish" /\ pc' = [pc EXCEPT ![p] = "move_data"] /\ index' = [index EXCEPT ![p] = NoIndex]
  BY DEF PublishIndex, Goto
<1>2. p \in Holders /\ i \in Indices /\ i \notin Elements(available_indices_) \cup Elements(published_indices_)
  <2>1. p \in Holders
    BY <1>1 DEF DataOK, HoldersOK, Holders, HolderLabels
  <2> QED BY <2>1, SlotFacts DEF DataOK, OnePlace
<1>3. /\ published_indices_' \in Seq(Indices)
      /\ Len(published_indices_') = Len(published_indices_) + 1
      /\ Elements(published_indices_') = Elements(published_indices_) \cup {i} /\ Distinct(published_indices_')
  BY <1>1, <1>2, AppendElements DEF DataOK, DataTypes, OnePlace
<1> HIDE DEF i
<1>4. /\ pc'[p] = "move_data" /\ \A t \in Waiters \ {p} : pc'[t] = pc[t]
      /\ index'[p] = NoIndex /\ \A t \in Waiters \ {p} : index'[t] = index[t]
      /\ index' \in [Waiters -> Indices \cup {NoIndex}]
  BY <1>1 DEF PcOK, ThreadTypes, DataOK, DataTypes
<1>5. HoldersOK' /\ Holders' = Holders \ {p}
  BY <1>1, <1>2, <1>4 DEF DataOK, HoldersOK, Holders, HolderLabels
<1>6. Held' = Held \ {i} /\ i \in Held
  <2>1. Held' = {index[u] : u \in Holders \ {p}}
    BY <1>4, <1>5 DEF Held, Holders
  <2> QED BY <1>2, <2>1, SlotFacts DEF DataOK, OnePlace, i
<1>7. Cardinality(Holders') = Cardinality(Holders) - 1
  BY <1>2, <1>5, SlotFacts, FS_RemoveElement
<1>8. InHand' = InHand \ {p} /\ p \in InHand
  BY <1>1, <1>4 DEF InHand
<1>9. Alive' = Alive /\ i \in Alive
  <2>1. Alive' = Elements(published_indices_') \cup {index[t] : t \in InHand'}
    BY <1>4, <1>8 DEF Alive, InHand, Members, Elements
  <2> QED BY <1>2, <1>3, <1>8, <2>1, SlotFacts DEF i
<1>10. OnePlace'
  <2>1. Len(available_indices_) \in Nat /\ Len(published_indices_) \in Nat /\ Cardinality(Holders) \in Nat
    BY SlotFacts, FS_CardinalityType, LenProperties DEF DataOK, DataTypes
  <2>2. Len(available_indices_') + Len(published_indices_') + Cardinality(Holders') = Capacity
    BY <1>1, <1>3, <1>7, <2>1 DEF DataOK, OnePlace
  <2>3. \A u \in Holders' : index'[u] \notin Elements(available_indices_') \cup Elements(published_indices_')
    BY <1>1, <1>2, <1>3, <1>4, <1>5 DEF DataOK, OnePlace, i, Holders
  <2>4. \A u, v \in Holders' : index'[u] = index'[v] => u = v
    BY <1>4, <1>5 DEF DataOK, OnePlace, Holders
  <2> QED BY <1>1, <1>2, <1>3, <1>6, <2>2, <2>3, <2>4 DEF DataOK, OnePlace
<1>11. DataTypes' /\ SlotsOK'
  BY <1>1, <1>3, <1>4, <1>9 DEF DataOK, DataTypes, SlotsOK
<1>12. i \in Indices /\ slots_[i] # Empty
  BY <1>2, <1>9 DEF DataOK, SlotsOK
<1> QED BY <1>5, <1>10, <1>11, <1>12 DEF DataOK, i

(* A consumer takes a published index. *)
LEMMA DequeueData ==
    ASSUME PcOK, DataOK, NEW c \in Consumers, Dequeue(c), published_indices_ # <<>>
    PROVE  DataOK'
<1> USE ThreadFacts, IndexFacts
<1> DEFINE i == Head(published_indices_)
<1>1. /\ published_indices_' = Tail(published_indices_) /\ UNCHANGED <<slots_, available_indices_, occupied_count_>>
      /\ pc[c] = "dequeue" /\ pc' = [pc EXCEPT ![c] = "take"] /\ index' = [index EXCEPT ![c] = i]
  BY DEF Dequeue, WithoutHead, Goto
<1>2. /\ i \in Indices /\ i \in Elements(published_indices_) /\ published_indices_' \in Seq(Indices)
      /\ Len(published_indices_') = Len(published_indices_) - 1
      /\ Elements(published_indices_') = Elements(published_indices_) \ {i} /\ Distinct(published_indices_')
  BY <1>1, TailElements DEF DataOK, DataTypes, OnePlace
<1> HIDE DEF i
<1>3. /\ pc'[c] = "take" /\ \A t \in Waiters \ {c} : pc'[t] = pc[t]
      /\ index'[c] = i /\ \A t \in Waiters \ {c} : index'[t] = index[t]
      /\ index' \in [Waiters -> Indices \cup {NoIndex}]
  BY <1>1, <1>2 DEF PcOK, ThreadTypes, DataOK, DataTypes
<1>4. HoldersOK' /\ c \notin Holders /\ Holders' = Holders \cup {c}
  BY <1>1, <1>2, <1>3 DEF DataOK, HoldersOK, Holders, HolderLabels
<1>5. Held' = Held \cup {i}
  BY <1>3, <1>4 DEF Held, Holders
<1>6. Cardinality(Holders') = Cardinality(Holders) + 1
  BY <1>4, SlotFacts, FS_AddElement
<1>7. InHand' = InHand \cup {c} /\ c \notin InHand
  BY <1>1, <1>3 DEF InHand
<1>8. Alive' = Alive
  <2>1. Alive' = Elements(published_indices_') \cup {index'[t] : t \in InHand'}
    BY DEF Alive, InHand, Members, Elements
  <2>2. {index'[t] : t \in InHand'} = {index[t] : t \in InHand} \cup {i}
    BY <1>3, <1>7 DEF InHand
  <2> QED BY <1>2, <2>1, <2>2, SlotFacts
<1>9. OnePlace'
  <2>1. Len(available_indices_) \in Nat /\ Len(published_indices_) \in Nat /\ Cardinality(Holders) \in Nat
    BY SlotFacts, FS_CardinalityType, LenProperties DEF DataOK, DataTypes
  <2>2. Len(available_indices_') + Len(published_indices_') + Cardinality(Holders') = Capacity
    BY <1>1, <1>2, <1>6, <2>1 DEF DataOK, OnePlace
  <2>3. \A t \in Holders' : index'[t] \notin Elements(available_indices_') \cup Elements(published_indices_')
    BY <1>1, <1>2, <1>3, <1>4 DEF DataOK, OnePlace, Holders
  <2>4. \A t, u \in Holders' : index'[t] = index'[u] => t = u
    BY <1>2, <1>3, <1>4 DEF DataOK, OnePlace, Holders
  <2> QED BY <1>1, <1>2, <1>5, <2>2, <2>3, <2>4 DEF DataOK, OnePlace
<1> QED BY <1>1, <1>2, <1>3, <1>4, <1>8, <1>9 DEF DataOK, DataTypes, SlotsOK

(* A consumer destroys the event of its slot. *)
LEMMA TakeData ==
    ASSUME PcOK, DataOK, NEW c \in Consumers, TakeEvent(c)
    PROVE  DataOK' /\ index[c] \notin Elements(published_indices_) /\ \A t \in Holders \ {c} : index[t] # index[c]
<1> USE ThreadFacts, IndexFacts
<1> DEFINE i == index[c]
<1>1. /\ UNCHANGED <<available_indices_, published_indices_, index>>
      /\ slots_' = [slots_ EXCEPT ![i] = Empty] /\ occupied_count_' = occupied_count_ - 1
      /\ pc[c] = "take" /\ pc' = [pc EXCEPT ![c] = "release"]
  BY DEF TakeEvent, Goto
<1>2. c \in Holders /\ i \in Indices /\ i \notin Elements(available_indices_) \cup Elements(published_indices_)
  <2>1. c \in Holders
    BY <1>1 DEF DataOK, HoldersOK, Holders, HolderLabels
  <2> QED BY <2>1, SlotFacts DEF DataOK, OnePlace
<1>3. \A t \in Holders \ {c} : index[t] # i
  BY <1>2 DEF DataOK, OnePlace
<1> HIDE DEF i
<1>4. pc'[c] = "release" /\ \A t \in Waiters \ {c} : pc'[t] = pc[t]
  BY <1>1 DEF PcOK, ThreadTypes
<1>5. Holders' = Holders /\ Held' = Held /\ HoldersOK'
  BY <1>1, <1>4 DEF Holders, Held, DataOK, HoldersOK, HolderLabels
<1>6. InHand' = InHand \ {c} /\ c \in InHand
  BY <1>1, <1>4 DEF InHand
<1>7. Alive' = Alive \ {i} /\ i \in Alive
  <2>1. Alive' = Elements(published_indices_) \cup {index[t] : t \in InHand'}
    BY <1>1 DEF Alive, InHand, Members, Elements
  <2>2. \A t \in InHand \ {c} : index[t] # i
    BY <1>3, SlotFacts
  <2> QED BY <1>2, <1>6, <2>1, <2>2, SlotFacts DEF i
<1>8. SlotsOK'
  <2>1. Cardinality(Alive') = Cardinality(Alive) - 1
    BY <1>7, SlotFacts, FS_RemoveElement
  <2>2. \A j \in Indices : slots_'[j] # Empty <=> j \in Alive'
    BY <1>1, <1>2, <1>7 DEF DataOK, DataTypes, SlotsOK
  <2> QED BY <1>1, <2>1, <2>2 DEF DataOK, SlotsOK
<1>9. DataTypes' /\ OnePlace'
  BY <1>1, <1>2, <1>5 DEF DataOK, DataTypes, OnePlace
<1> QED BY <1>2, <1>3, <1>5, <1>8, <1>9 DEF DataOK, i

(* A closer discards the event of a published slot and frees it. *)
LEMMA DiscardData ==
    ASSUME PcOK, DataOK, NEW k \in Closers, Discard(k), published_indices_ # <<>>
    PROVE  DataOK'
<1> USE ThreadFacts, IndexFacts
<1> DEFINE i == Head(published_indices_)
<1>1. /\ published_indices_' = Tail(published_indices_) /\ available_indices_' = Append(available_indices_, i)
      /\ slots_' = [slots_ EXCEPT ![i] = Empty] /\ occupied_count_' = occupied_count_ - 1
      /\ UNCHANGED <<pc, index>>
  BY DEF Discard, WithoutHead, Released
<1>2. /\ i \in Indices /\ i \in Elements(published_indices_) /\ published_indices_' \in Seq(Indices)
      /\ Len(published_indices_') = Len(published_indices_) - 1
      /\ Elements(published_indices_') = Elements(published_indices_) \ {i} /\ Distinct(published_indices_')
  BY <1>1, TailElements DEF DataOK, DataTypes, OnePlace
<1>3. i \notin Elements(available_indices_) /\ \A t \in Holders : index[t] # i
  BY <1>2 DEF DataOK, OnePlace
<1>4. /\ available_indices_' \in Seq(Indices)
      /\ Len(available_indices_') = Len(available_indices_) + 1
      /\ Elements(available_indices_') = Elements(available_indices_) \cup {i} /\ Distinct(available_indices_')
  BY <1>1, <1>2, <1>3, AppendElements DEF DataOK, DataTypes, OnePlace
<1> HIDE DEF i
<1>5. Holders' = Holders /\ Held' = Held /\ HoldersOK' /\ InHand' = InHand
  BY <1>1 DEF Holders, Held, DataOK, HoldersOK, InHand
<1>6. Alive' = Alive \ {i} /\ i \in Alive
  <2>1. Alive' = Elements(published_indices_') \cup {index[t] : t \in InHand}
    BY <1>1 DEF Alive, InHand, Members, Elements
  <2> QED BY <1>2, <1>3, <2>1, SlotFacts
<1>7. SlotsOK'
  <2>1. Cardinality(Alive') = Cardinality(Alive) - 1
    BY <1>6, SlotFacts, FS_RemoveElement
  <2>2. \A j \in Indices : slots_'[j] # Empty <=> j \in Alive'
    BY <1>1, <1>2, <1>6 DEF DataOK, DataTypes, SlotsOK
  <2> QED BY <1>1, <2>1, <2>2 DEF DataOK, SlotsOK
<1>8. OnePlace'
  <2>1. Len(available_indices_) \in Nat /\ Len(published_indices_) \in Nat /\ Cardinality(Holders) \in Nat
    BY SlotFacts, FS_CardinalityType, LenProperties DEF DataOK, DataTypes
  <2>2. Len(available_indices_') + Len(published_indices_') + Cardinality(Holders') = Capacity
    BY <1>2, <1>4, <1>5, <2>1 DEF DataOK, OnePlace
  <2>3. \A t \in Holders' : index'[t] \notin Elements(available_indices_') \cup Elements(published_indices_')
    BY <1>1, <1>2, <1>3, <1>4, <1>5 DEF DataOK, OnePlace
  <2> QED BY <1>1, <1>2, <1>3, <1>4, <1>5, <2>2, <2>3 DEF DataOK, OnePlace
<1> QED BY <1>1, <1>2, <1>4, <1>5, <1>7, <1>8 DEF DataOK, DataTypes

LEMMA DataStep ==
    ASSUME PcOK, PcOK', GateTypes, DataOK, sent \in [Producers -> Nat], Next PROVE DataOK'
<1> USE ThreadFacts
<1>1. CASE Quiet
  BY <1>1, QuietFacts, DataFrame DEF Quiet
<1>2. ASSUME NEW t \in Waiters, Admit(t) \/ Exit(t) PROVE DataOK'
  <2>1. UNCHANGED <<storage, index>>
    BY <1>2, Admission, Leaving
  <2>2. \A u \in Waiters : \A l \in HolderLabels : pc'[u] = l <=> pc[u] = l
    BY <1>2, Admission, Leaving DEF HolderLabels
  <2> QED BY <2>1, <2>2, DataFrame
<1>3. ASSUME NEW p \in Producers, Reserve(p), available_indices_ = <<>> PROVE DataOK'
  <2>1. UNCHANGED <<storage, index>>
    BY <1>3 DEF Reserve, storage
  <2>2. \A u \in Waiters : \A l \in HolderLabels : pc'[u] = l <=> pc[u] = l
    BY <1>3 DEF Reserve, Goto, HolderLabels, PcOK, ThreadTypes
  <2> QED BY <2>1, <2>2, DataFrame
<1>4. ASSUME NEW c \in Consumers, Dequeue(c), published_indices_ = <<>> PROVE DataOK'
  <2>1. UNCHANGED <<storage, index>>
    BY <1>4 DEF Dequeue, storage
  <2>2. \A u \in Waiters : \A l \in HolderLabels : pc'[u] = l <=> pc[u] = l
    BY <1>4 DEF Dequeue, Goto, HolderLabels, PcOK, ThreadTypes
  <2> QED BY <2>1, <2>2, DataFrame
<1>5. ASSUME NEW k \in Closers,
             AwaitProducers(k) \/ Signals(k) \/ AwaitConsumers(k) \/ (Discard(k) /\ published_indices_ = <<>>)
                \/ \E discard \in BOOLEAN : Close(k, discard)
      PROVE  DataOK'
  <2>1. UNCHANGED <<storage, index>>
    BY <1>5 DEF AwaitProducers, Signals, AwaitConsumers, Discard, Close
  <2>2. \A u \in Waiters : pc'[u] = pc[u]
    BY <1>5 DEF AwaitProducers, Signals, AwaitConsumers, Discard, Close, Goto, PcOK, ThreadTypes
  <2> QED BY <2>1, <2>2, DataFrame
<1> QED BY <1>1, <1>2, <1>3, <1>4, <1>5, QuietOrLoud, ReserveData, ReleaseData, ConstructData, PublishData,
           DequeueData, TakeData, DiscardData DEF Loud
-----------------------------------------------------------------------------
(* The events. *)

ItemsOK ==
    /\ Items \in Seq(Events) /\ Len(Items) = Len(published_indices_)
    /\ \A i \in 1..Len(published_indices_) : published_indices_[i] \in Indices /\ Items[i] = slots_[published_indices_[i]]
    /\ Items = <<>> <=> published_indices_ = <<>>

LEMMA ItemsAreEvents == DataOK => ItemsOK
<1> SUFFICES ASSUME DataOK PROVE ItemsOK
  OBVIOUS
<1> DEFINE n == Len(published_indices_)
<1>1. n \in Nat /\ DOMAIN published_indices_ = 1..n /\ \A i \in 1..n : published_indices_[i] \in Indices
  BY LenProperties DEF DataOK, DataTypes
<1>2. \A i \in 1..n : published_indices_[i] \in Alive
  BY <1>1 DEF Alive, Members
<1>3. \A i \in 1..n : slots_[published_indices_[i]] \in Events
  BY <1>1, <1>2 DEF DataOK, DataTypes, SlotsOK
<1>4. Items = [i \in 1..n |-> slots_[published_indices_[i]]]
  BY <1>1 DEF Items
<1> HIDE DEF n
<1>5. Items \in [1..n -> Events]
  BY <1>3, <1>4
<1>6. Items \in Seq(Events)
  BY <1>1, <1>5
<1>7. Len(Items) = n
  BY <1>1, <1>5, <1>6, LenProperties
<1>8. Items = <<>> <=> published_indices_ = <<>>
  BY <1>6, <1>7, EmptySeq DEF n, DataOK, DataTypes
<1> QED BY <1>1, <1>4, <1>6, <1>7, <1>8 DEF n, ItemsOK

LEMMA ItemsStayEvents == DataOK' => ItemsOK'
BY ItemsAreEvents, PTL

(* Slots outside the published ones do not matter. *)
LEMMA ItemsFrame ==
    ASSUME DataOK, UNCHANGED published_indices_,
           \A i \in Elements(published_indices_) : slots_'[i] = slots_[i]
    PROVE  Items' = Items
BY DEF Items, Elements

LEMMA ItemsPush ==
    ASSUME DataOK, DataOK', NEW i \in Indices, published_indices_' = Append(published_indices_, i), UNCHANGED slots_,
           slots_[i] \in Events
    PROVE  Items' = Append(Items, slots_[i])
<1>1. Len(published_indices_) \in Nat /\ Len(published_indices_') = Len(published_indices_) + 1
  BY AppendElements, LenProperties DEF DataOK, DataTypes
<1>2. \A j \in 1..(Len(published_indices_) + 1) :
          published_indices_'[j] = IF j = Len(published_indices_) + 1 THEN i ELSE published_indices_[j]
  BY AppendAsFunction DEF DataOK, DataTypes
<1>3. /\ Items' \in Seq(Events) /\ Len(Items') = Len(published_indices_')
      /\ \A j \in 1..Len(published_indices_') : Items'[j] = slots_'[published_indices_'[j]]
  BY ItemsStayEvents DEF ItemsOK
<1>4. /\ Append(Items, slots_[i]) \in Seq(Events) /\ Len(Append(Items, slots_[i])) = Len(Items) + 1
      /\ \A j \in 1..(Len(Items) + 1) : Append(Items, slots_[i])[j] = IF j = Len(Items) + 1 THEN slots_[i] ELSE Items[j]
  BY ItemsAreEvents, AppendElements, AppendAsFunction DEF ItemsOK
<1>5. \A j \in 1..(Len(Items) + 1) : Items'[j] = Append(Items, slots_[i])[j]
  BY <1>1, <1>2, <1>3, <1>4, ItemsAreEvents DEF ItemsOK
<1> QED BY <1>1, <1>3, <1>4, <1>5, ItemsAreEvents, SeqEqual DEF ItemsOK

LEMMA ItemsPop ==
    ASSUME DataOK, DataOK', published_indices_ # <<>>, published_indices_' = Tail(published_indices_),
           \A i \in Elements(Tail(published_indices_)) : slots_'[i] = slots_[i]
    PROVE  Items # <<>> /\ Items' = Tail(Items) /\ Head(Items) = slots_[Head(published_indices_)]
<1>1. /\ Len(published_indices_) \in Nat /\ Len(published_indices_) >= 1
      /\ published_indices_' \in Seq(Indices) /\ Len(published_indices_') = Len(published_indices_) - 1
      /\ Head(published_indices_) = published_indices_[1]
  BY TailElements, LenProperties, EmptySeq DEF DataOK, DataTypes
<1>2. \A j \in 1..(Len(published_indices_) - 1) : published_indices_'[j] = published_indices_[j + 1]
  BY TailAsFunction DEF DataOK, DataTypes
<1>3. \A j \in 1..(Len(published_indices_) - 1) : slots_'[published_indices_'[j]] = slots_[published_indices_'[j]]
  <2>1. DOMAIN published_indices_' = 1..(Len(published_indices_) - 1)
    BY <1>1, LenProperties
  <2> QED BY <2>1 DEF Elements
<1>4. /\ Items' \in Seq(Events) /\ Len(Items') = Len(published_indices_')
      /\ \A j \in 1..Len(published_indices_') : Items'[j] = slots_'[published_indices_'[j]]
  BY ItemsStayEvents DEF ItemsOK
<1>5. Items # <<>> /\ Items[1] = slots_[Head(published_indices_)] /\ Len(Items) = Len(published_indices_)
  BY <1>1, ItemsAreEvents DEF ItemsOK
<1>6. /\ Tail(Items) \in Seq(Events) /\ Len(Tail(Items)) = Len(Items) - 1 /\ Head(Items) = Items[1]
      /\ \A j \in 1..(Len(Items) - 1) : Tail(Items)[j] = Items[j + 1]
  BY <1>5, ItemsAreEvents, TailElements, TailAsFunction DEF ItemsOK
<1>7. \A j \in 1..(Len(Items) - 1) : Items'[j] = Tail(Items)[j]
  <2> SUFFICES ASSUME NEW j \in 1..(Len(published_indices_) - 1) PROVE Items'[j] = Tail(Items)[j]
    BY <1>5
  <2>1. Items'[j] = slots_[published_indices_[j + 1]]
    BY <1>1, <1>2, <1>3, <1>4
  <2>2. j + 1 \in 1..Len(published_indices_)
    BY <1>1
  <2>3. Items[j + 1] = slots_[published_indices_[j + 1]]
    BY <2>2, ItemsAreEvents DEF ItemsOK
  <2> QED BY <1>5, <1>6, <2>1, <2>3
<1> QED BY <1>1, <1>4, <1>5, <1>6, <1>7, SeqEqual

(* Steps that leave the histories, the published indices and their slots alone,
   and bring no producer to "publish". *)
LEMMA HistoryFrame ==
    ASSUME PcOK, GateTypes, DataOK, HistoriesOK, UNCHANGED <<sent, accepted, taken, discarded, published_indices_>>,
           \A i \in Elements(published_indices_) : slots_'[i] = slots_[i],
           \A p \in Producers : pc'[p] = "publish" =>
               pc[p] = "publish" /\ index'[p] = index[p] /\ slots_'[index[p]] = slots_[index[p]],
           discarded # <<>> => consumer_gate_'.closed /\ \A c \in Consumers : ~Entered(c)'
    PROVE  HistoriesOK'
<1>1. Items' = Items
  BY ItemsFrame
<1>2. \A p \in Producers : pc'[p] = "publish" => slots_'[index'[p]] = NextEvent(p)'
  BY DEF HistoriesOK, NextEvent
<1> QED BY <1>1, <1>2 DEF HistoriesOK, Ledger

LEMMA HistoryStep ==
    ASSUME PcOK, PcOK', GateTypes, GateTypes', ClosersOK, DataOK, DataOK', HistoriesOK, Next PROVE HistoriesOK'
<1> USE ThreadFacts
<1>1. CASE Quiet
  <2>1. UNCHANGED <<slots_, published_indices_, index, sent, accepted, taken, discarded, consumer_gate_>>
    BY <1>1 DEF Quiet, storage, gates
  <2>2. \A p \in Producers : pc'[p] = "publish" <=> pc[p] = "publish"
    BY <1>1, QuietFacts DEF HolderLabels
  <2>3. \A c \in Consumers : Entered(c)' <=> Entered(c)
    BY <1>1, QuietFacts
  <2>4. discarded # <<>> => consumer_gate_'.closed /\ \A c \in Consumers : ~Entered(c)'
    BY <2>1, <2>3 DEF HistoriesOK
  <2> QED BY <2>1, <2>2, <2>4, HistoryFrame
<1>2. ASSUME NEW t \in Waiters, Admit(t) PROVE HistoriesOK'
  <2>1. UNCHANGED <<slots_, published_indices_, index, sent, accepted, taken, discarded>>
    BY <1>2, Admission DEF storage
  <2>2. \A p \in Producers : pc'[p] = "publish" => pc[p] = "publish"
    BY <1>2, Admission
  <2>3. CASE t \in Producers
    <3>1. UNCHANGED consumer_gate_ /\ \A c \in Consumers : Entered(c)' <=> Entered(c)
      BY <1>2, <2>3, Admission DEF Entered
    <3>2. discarded # <<>> => consumer_gate_'.closed /\ \A c \in Consumers : ~Entered(c)'
      BY <3>1 DEF HistoriesOK
    <3> QED BY <2>1, <2>2, <3>2, HistoryFrame
  <2>4. CASE t \in Consumers
    <3>1. discarded = <<>>
      BY <1>2, <2>4, Admission DEF HistoriesOK
    <3> QED BY <2>1, <2>2, <3>1, HistoryFrame
  <2> QED BY <2>3, <2>4
<1>3. ASSUME NEW t \in Waiters, Exit(t) PROVE HistoriesOK'
  <2>1. UNCHANGED <<slots_, published_indices_, index, sent, accepted, taken, discarded>>
    BY <1>3, Leaving DEF storage
  <2>2. \A p \in Producers : pc'[p] = "publish" => pc[p] = "publish"
    BY <1>3, Leaving
  <2>3. consumer_gate_'.closed = consumer_gate_.closed /\ \A c \in Consumers : Entered(c)' => Entered(c)
    BY <1>3, Leaving DEF Entered
  <2>4. discarded # <<>> => consumer_gate_'.closed /\ \A c \in Consumers : ~Entered(c)'
    BY <2>3 DEF HistoriesOK
  <2> QED BY <2>1, <2>2, <2>4, HistoryFrame
<1>4. ASSUME NEW p \in Producers, Reserve(p) \/ ConstructThrows(p) PROVE HistoriesOK'
  <2>1. /\ UNCHANGED <<slots_, published_indices_, sent, accepted, taken, discarded, consumer_gate_>>
        /\ pc'[p] # "publish" /\ \A t \in Waiters \ {p} : pc'[t] = pc[t] /\ index'[t] = index[t]
    BY <1>4 DEF Reserve, ConstructThrows, histories, gates, Goto, PcOK, ThreadTypes, DataOK, DataTypes
  <2>2. \A c \in Consumers : Entered(c)' <=> Entered(c)
    BY <2>1 DEF Entered
  <2>3. discarded # <<>> => consumer_gate_'.closed /\ \A c \in Consumers : ~Entered(c)'
    BY <2>1, <2>2 DEF HistoriesOK
  <2>4. \A q \in Producers : pc'[q] = "publish" => pc[q] = "publish" /\ index'[q] = index[q]
    BY <2>1
  <2> QED BY <2>1, <2>3, <2>4, HistoryFrame
<1>5. ASSUME NEW p \in Producers, Construct(p) PROVE HistoriesOK'
  <2>1. sent \in [Producers -> Nat]
    BY DEF HistoriesOK
  <2>2. /\ UNCHANGED <<published_indices_, index, sent, accepted, taken, discarded, consumer_gate_>>
        /\ pc[p] = "construct" /\ \A t \in Waiters \ {p} : pc'[t] = pc[t]
        /\ slots_' = [slots_ EXCEPT ![index[p]] = NextEvent(p)]
    BY <1>5 DEF Construct, histories, gates, Goto, PcOK, ThreadTypes
  <2>3. p \in Holders
    BY <2>2 DEF DataOK, HoldersOK, Holders, HolderLabels
  <2>4. index[p] \in Indices /\ index[p] \notin Elements(published_indices_)
    BY <2>3, SlotFacts DEF DataOK, OnePlace
  <2>5. Items' = Items
    <3>1. \A i \in Elements(published_indices_) : slots_'[i] = slots_[i]
      BY <2>2, <2>4, SlotFacts DEF DataOK, DataTypes
    <3> QED BY <2>2, <3>1, ItemsFrame
  <2>6. \A q \in Producers : pc'[q] = "publish" => slots_'[index'[q]] = NextEvent(q)'
    <3> SUFFICES ASSUME NEW q \in Producers, pc'[q] = "publish" PROVE slots_'[index[q]] = NextEvent(q)
      BY <2>2 DEF NextEvent
    <3>1. CASE q = p
      BY <2>2, <2>4, <3>1 DEF DataOK, DataTypes
    <3>2. CASE q # p
      <4>1. pc[q] = "publish" /\ q \in Holders
        BY <2>2, <3>2 DEF DataOK, HoldersOK, Holders, HolderLabels
      <4>2. index[q] # index[p] /\ index[q] \in Indices
        BY <2>3, <3>2, <4>1, SlotFacts DEF DataOK, OnePlace
      <4> QED BY <2>2, <4>1, <4>2 DEF HistoriesOK, DataOK, DataTypes
    <3> QED BY <3>1, <3>2
  <2>7. discarded # <<>> => consumer_gate_'.closed /\ \A c \in Consumers : ~Entered(c)'
    BY <2>2 DEF HistoriesOK, Entered
  <2> QED BY <2>2, <2>5, <2>6, <2>7 DEF HistoriesOK
<1>6. ASSUME NEW p \in Producers, PublishIndex(p) PROVE HistoriesOK'
  <2>1. /\ UNCHANGED <<slots_, taken, discarded, consumer_gate_>>
        /\ published_indices_' = Append(published_indices_, index[p])
        /\ accepted' = Append(accepted, NextEvent(p)) /\ sent' = [sent EXCEPT ![p] = @ + 1]
        /\ pc[p] = "publish" /\ pc'[p] # "publish"
        /\ \A t \in Waiters \ {p} : pc'[t] = pc[t] /\ index'[t] = index[t]
    BY <1>6 DEF PublishIndex, gates, Goto, PcOK, ThreadTypes, DataOK, DataTypes
  <2>2. index[p] \in Indices /\ slots_[index[p]] = NextEvent(p)
    BY <1>6, <2>1, PublishData DEF HistoriesOK
  <2>3. NextEvent(p) \in Events
    BY DEF NextEvent, Events, HistoriesOK
  <2>4. Items' = Append(Items, NextEvent(p)) /\ Items \in Seq(Events)
    BY <2>1, <2>2, <2>3, ItemsPush, ItemsAreEvents DEF ItemsOK
  <2>5. Ledger(accepted', taken', discarded', Items')
    <3>1. Ledger(accepted, taken, discarded, Items) /\ accepted \in Seq(Events) /\ taken \in Seq(Events) /\ discarded \in Seq(Events)
      BY DEF HistoriesOK
    <3>2. Ledger(Append(accepted, NextEvent(p)), taken, discarded, Append(Items, NextEvent(p)))
      BY <2>3, <2>4, <3>1, LedgerPush
    <3> QED BY <2>1, <2>4, <3>2
  <2>6. \A q \in Producers : pc'[q] = "publish" => slots_'[index'[q]] = NextEvent(q)'
    BY <2>1 DEF HistoriesOK, NextEvent
  <2>7. accepted' \in Seq(Events) /\ sent' \in [Producers -> Nat]
    BY <2>1, <2>3, AppendElements DEF HistoriesOK
  <2>8. discarded' # <<>> => consumer_gate_'.closed /\ \A c \in Consumers : ~Entered(c)'
    BY <2>1 DEF HistoriesOK, Entered
  <2> QED BY <2>1, <2>5, <2>6, <2>7, <2>8 DEF HistoriesOK
<1>7. ASSUME NEW c \in Consumers, Dequeue(c), published_indices_ # <<>> PROVE HistoriesOK'
  <2>1. /\ UNCHANGED <<slots_, sent, accepted, discarded>>
        /\ published_indices_' = Tail(published_indices_) /\ taken' = Append(taken, slots_[Head(published_indices_)])
        /\ pc[c] = "dequeue" /\ \A p \in Producers : pc'[p] = pc[p] /\ index'[p] = index[p]
    BY <1>7 DEF Dequeue, WithoutHead, Goto, PcOK, ThreadTypes, DataOK, DataTypes
  <2>2. discarded = <<>>
    BY <2>1 DEF HistoriesOK, Entered, InLabels
  <2>3. Items # <<>> /\ Items' = Tail(Items) /\ taken' = Append(taken, Head(Items)) /\ Items \in Seq(Events)
    BY <1>7, <2>1, ItemsPop, ItemsAreEvents DEF ItemsOK
  <2>4. Ledger(accepted', taken', discarded', Items') /\ taken' \in Seq(Events)
    <3>1. Ledger(accepted, taken, <<>>, Items) /\ taken \in Seq(Events)
      BY <2>2 DEF HistoriesOK
    <3>2. Ledger(accepted, Append(taken, Head(Items)), <<>>, Tail(Items))
      BY <2>3, <3>1, LedgerPop
    <3>3. Append(taken, Head(Items)) \in Seq(Events)
      BY <2>3, <3>1, TailElements, AppendElements
    <3> QED BY <2>1, <2>2, <2>3, <3>2, <3>3
  <2>5. \A q \in Producers : pc'[q] = "publish" => slots_'[index'[q]] = NextEvent(q)'
    BY <2>1 DEF HistoriesOK, NextEvent
  <2> QED BY <2>1, <2>2, <2>4, <2>5 DEF HistoriesOK
<1>8. ASSUME NEW c \in Consumers, (Dequeue(c) /\ published_indices_ = <<>>) \/ ReleaseIndex(c) PROVE HistoriesOK'
  <2>1. /\ UNCHANGED <<slots_, published_indices_, sent, accepted, taken, discarded, consumer_gate_>>
        /\ pc[c] \in {"dequeue", "release"}
        /\ \A p \in Producers : pc'[p] = pc[p] /\ index'[p] = index[p]
    BY <1>8 DEF Dequeue, ReleaseIndex, histories, gates, Goto, PcOK, ThreadTypes, DataOK, DataTypes
  <2>2. discarded = <<>>
    BY <2>1 DEF HistoriesOK, Entered, InLabels, HolderLabels
  <2> QED BY <2>1, <2>2, HistoryFrame
<1>9. ASSUME NEW c \in Consumers, TakeEvent(c) PROVE HistoriesOK'
  <2>1. /\ UNCHANGED <<index, published_indices_, sent, accepted, taken, discarded, consumer_gate_>>
        /\ slots_' = [slots_ EXCEPT ![index[c]] = Empty]
        /\ pc[c] = "take" /\ \A p \in Producers : pc'[p] = pc[p]
    BY <1>9 DEF TakeEvent, histories, gates, Goto, PcOK, ThreadTypes
  <2>2. discarded = <<>>
    BY <2>1 DEF HistoriesOK, Entered, HolderLabels
  <2>3. \A i \in Elements(published_indices_) : slots_'[i] = slots_[i]
    BY <1>9, <2>1, TakeData, SlotFacts DEF DataOK, DataTypes
  <2>4. \A p \in Producers : pc'[p] = "publish" =>
            pc[p] = "publish" /\ index'[p] = index[p] /\ slots_'[index[p]] = slots_[index[p]]
    <3> SUFFICES ASSUME NEW p \in Producers, pc[p] = "publish" PROVE slots_'[index[p]] = slots_[index[p]]
      BY <2>1
    <3>1. p \in Holders \ {c}
      BY DEF DataOK, HoldersOK, Holders, HolderLabels
    <3>2. index[p] # index[c] /\ index[p] \in Indices
      BY <1>9, <3>1, TakeData, SlotFacts
    <3> QED BY <2>1, <3>2 DEF DataOK, DataTypes
  <2> QED BY <2>1, <2>2, <2>3, <2>4, HistoryFrame
<1>10. ASSUME NEW k \in Closers, Discard(k), published_indices_ # <<>> PROVE HistoriesOK'
  <2>1. /\ UNCHANGED <<pc, index, sent, accepted, taken, consumer_gate_>>
        /\ slots_' = [slots_ EXCEPT ![Head(published_indices_)] = Empty]
        /\ published_indices_' = Tail(published_indices_)
        /\ discarded' = Append(discarded, slots_[Head(published_indices_)])
        /\ pc[k] = "discard"
    BY <1>10 DEF Discard, WithoutHead, gates
  <2>2. consumer_gate_.closed /\ (\A c \in Consumers : ~Entered(c)) /\ \A p \in Producers : ~Entered(p)
    BY <2>1 DEF ClosersOK
  <2>3. \A i \in Elements(Tail(published_indices_)) : slots_'[i] = slots_[i]
    <3>1. Elements(Tail(published_indices_)) = Elements(published_indices_) \ {Head(published_indices_)}
      BY <1>10, TailElements DEF DataOK, DataTypes, OnePlace
    <3> QED BY <2>1, <3>1, SlotFacts DEF DataOK, DataTypes
  <2>4. Items # <<>> /\ Items' = Tail(Items) /\ discarded' = Append(discarded, Head(Items)) /\ Items \in Seq(Events)
    BY <1>10, <2>1, <2>3, ItemsPop, ItemsAreEvents DEF ItemsOK
  <2>5. Ledger(accepted', taken', discarded', Items') /\ discarded' \in Seq(Events)
    <3>1. Ledger(accepted, taken, discarded, Items) /\ taken \in Seq(Events) /\ discarded \in Seq(Events)
      BY DEF HistoriesOK
    <3>2. Ledger(accepted, taken, Append(discarded, Head(Items)), Tail(Items))
      BY <2>4, <3>1, LedgerDiscard
    <3>3. Append(discarded, Head(Items)) \in Seq(Events)
      BY <2>4, <3>1, TailElements, AppendElements
    <3> QED BY <2>1, <2>4, <3>2, <3>3
  <2>6. \A q \in Producers : pc'[q] # "publish"
    BY <2>1, <2>2 DEF Entered, HolderLabels
  <2> QED BY <2>1, <2>2, <2>5, <2>6 DEF HistoriesOK, Entered
<1>11. ASSUME NEW k \in Closers,
             AwaitProducers(k) \/ Signals(k) \/ AwaitConsumers(k) \/ (Discard(k) /\ published_indices_ = <<>>)
                \/ \E discard \in BOOLEAN : Close(k, discard)
      PROVE  HistoriesOK'
  <2>1. UNCHANGED <<slots_, published_indices_, index, sent, accepted, taken, discarded>>
    BY <1>11 DEF AwaitProducers, Signals, AwaitConsumers, Discard, Close, storage, histories
  <2>2. \A u \in Waiters : pc'[u] = pc[u]
    BY <1>11 DEF AwaitProducers, Signals, AwaitConsumers, Discard, Close, Goto, PcOK, ThreadTypes
  <2>3. consumer_gate_' \in {consumer_gate_, [consumer_gate_ EXCEPT !.closed = TRUE]}
    BY <1>11 DEF AwaitProducers, Signals, AwaitConsumers, Discard, Close, gates
  <2>4. consumer_gate_.closed => consumer_gate_'.closed
    BY <2>3 DEF GateTypes
  <2>5. discarded # <<>> => consumer_gate_'.closed /\ \A c \in Consumers : ~Entered(c)'
    BY <2>2, <2>4 DEF HistoriesOK, Entered
  <2> QED BY <2>1, <2>2, <2>5, HistoryFrame
<1> QED BY <1>1, <1>2, <1>3, <1>4, <1>5, <1>6, <1>7, <1>8, <1>9, <1>10, <1>11, QuietOrLoud DEF Loud
-----------------------------------------------------------------------------
(* The inductive invariant. *)

LEMMA QueueInvInit == ASSUME Init PROVE QueueInv
<1> USE ThreadFacts, IndexFacts
<1>1. PcOK
  BY DEF Init, PcOK, ThreadTypes, OutLabels
<1>2. \A t \in Threads : pc[t] = "idle"
  BY DEF Init
<1>3. GateTypes /\ Counted
  <2>1. {p \in Producers : Entered(p)} = {} /\ {c \in Consumers : Entered(c)} = {}
    BY <1>2 DEF Entered, InLabels, HolderLabels
  <2>2. Cardinality({}) = 0
    BY FS_EmptySet
  <2>3. /\ producer_gate_ = [closed |-> FALSE, active |-> 0]
        /\ consumer_gate_ = [closed |-> FALSE, active |-> 0]
    BY DEF Init
  <2> QED BY <2>1, <2>2, <2>3 DEF GateTypes, Counted
<1>4. ClosersOK
  BY <1>2 DEF Init, ClosersOK, ClosingLabels, SignalLabels, Entered, InLabels, HolderLabels
<1>5. DataTypes /\ Len(available_indices_) = Capacity /\ DOMAIN available_indices_ = 1..Capacity
  <2>1. Capacity \in Nat /\ available_indices_ = [i \in 1..Capacity |-> i - 1]
    BY LockFreeCapacityAssumption DEF Init
  <2>2. \A i \in 1..Capacity : i - 1 \in Indices
    BY <2>1 DEF Indices
  <2>3. available_indices_ \in [1..Capacity -> Indices]
    BY <2>1, <2>2
  <2>4. available_indices_ \in Seq(Indices)
    BY <2>1, <2>3
  <2>5. Len(available_indices_) = Capacity
    BY <2>1, <2>3, <2>4, LenProperties
  <2>6. /\ slots_ = [i \in Indices |-> Empty] /\ occupied_count_ = 0 /\ published_indices_ = <<>>
        /\ index = [t \in Waiters |-> NoIndex]
    BY DEF Init
  <2>7. published_indices_ \in Seq(Indices)
    BY <2>6
  <2> QED BY <2>3, <2>4, <2>5, <2>6, <2>7 DEF DataTypes
<1>6. Holders = {} /\ Held = {} /\ Alive = {} /\ HoldersOK
  BY <1>2 DEF Init, Holders, Held, Alive, Members, HoldersOK, HolderLabels
<1>7. OnePlace
  <2>1. Capacity \in Nat /\ \A i \in 1..Capacity : available_indices_[i] = i - 1
    BY LockFreeCapacityAssumption DEF Init
  <2>2. Distinct(available_indices_)
    BY <1>5, <2>1 DEF Distinct
  <2>3. Elements(available_indices_) = Indices
    <3>1. \A j \in Indices : j + 1 \in 1..Capacity /\ (j + 1) - 1 = j
      BY <2>1 DEF Indices
    <3>2. \A i \in 1..Capacity : i - 1 \in Indices
      BY <2>1 DEF Indices
    <3>3. \A j \in Indices : \E i \in 1..Capacity : available_indices_[i] = j
      BY <2>1, <3>1
    <3>4. Elements(available_indices_) \subseteq Indices
      BY <1>5, <2>1, <3>2 DEF Elements
    <3>5. ASSUME NEW j \in Indices PROVE j \in Elements(available_indices_)
      BY <1>5, <3>3 DEF Elements
    <3> QED BY <3>4, <3>5
  <2>4. Elements(published_indices_) = {} /\ Distinct(published_indices_) /\ Len(published_indices_) = 0
    BY EmptySeq DEF Init, Elements, Distinct
  <2>5. Cardinality(Holders) = 0
    BY <1>6, FS_EmptySet
  <2> QED BY <1>5, <1>6, <2>1, <2>2, <2>3, <2>4, <2>5 DEF OnePlace
<1>8. SlotsOK
  BY <1>6, FS_EmptySet DEF Init, SlotsOK
<1>9. HistoriesOK
  <2>1. Items = <<>>
    BY <1>5, <1>6, <1>7, <1>8, ItemsAreEvents DEF Init, DataOK, ItemsOK
  <2>2. (<<>> \o <<>>) \o <<>> = <<>>
    BY ConcatEmptySeq, EmptySeq
  <2> QED BY <1>2, <2>1, <2>2 DEF Init, HistoriesOK, Ledger
<1> QED BY <1>1, <1>3, <1>4, <1>5, <1>6, <1>7, <1>8, <1>9 DEF QueueInv, DataOK

LEMMA QueueInvNext == ASSUME QueueInv, [Next]_vars PROVE QueueInv'
<1>1. CASE Next
  <2>1. PcOK'
    BY <1>1, ThreadStep DEF QueueInv
  <2>2. GateTypes' /\ Counted'
    BY <1>1, <2>1, GateStep DEF QueueInv
  <2>3. ClosersOK'
    BY <1>1, <2>1, <2>2, CloserStep DEF QueueInv
  <2>4. DataOK'
    BY <1>1, <2>1, DataStep DEF QueueInv, HistoriesOK
  <2>5. HistoriesOK'
    BY <1>1, <2>1, <2>2, <2>4, HistoryStep DEF QueueInv
  <2> QED BY <2>1, <2>2, <2>3, <2>4, <2>5 DEF QueueInv
<1>2. CASE UNCHANGED vars
  <2> USE <1>2 DEF vars, QueueInv
  <2>1. PcOK' /\ GateTypes'
    BY DEF PcOK, ThreadTypes, GateTypes
  <2>2. \A t \in Threads : Entered(t)' <=> Entered(t)
    BY DEF Entered
  <2>3. Counted' /\ ClosersOK'
    <3>1. InP' = InP /\ InC' = InC
      BY <2>2, ThreadFacts DEF InP, InC
    <3> QED BY <2>2, <3>1, ThreadFacts DEF Counted, ClosersOK, InP, InC
  <2>4. DataOK'
    <3>1. UNCHANGED <<storage, index, pc>>
      BY DEF storage
    <3> QED BY <3>1, DataFrame
  <2>5. HistoriesOK'
    <3>1. discarded # <<>> => consumer_gate_'.closed /\ \A c \in Consumers : ~Entered(c)'
      BY <2>2, ThreadFacts DEF HistoriesOK
    <3> QED BY <3>1, HistoryFrame
  <2> QED BY <2>1, <2>3, <2>4, <2>5
<1> QED BY <1>1, <1>2

(* The invariant holds in every reachable state, whatever the threads, the
   capacity and the programs. *)
THEOREM QueueInvariant == Spec => []QueueInv
<1>1. Init => QueueInv
  BY QueueInvInit
<1>2. QueueInv /\ [Next]_vars => QueueInv'
  BY QueueInvNext
<1> QED BY <1>1, <1>2, PTL DEF Spec
-----------------------------------------------------------------------------
(* The properties. *)

LEMMA TypesFollow == QueueInv => TypeOK
<1> SUFFICES ASSUME QueueInv PROVE TypeOK
  OBVIOUS
<1>1. IsFiniteSet(Producers) /\ IsFiniteSet(Consumers)
  BY LockFreeThreadsAssumption
<1>2. {p \in Producers : Entered(p)} \subseteq Producers /\ {c \in Consumers : Entered(c)} \subseteq Consumers
  OBVIOUS
<1>3. producer_gate_.active \in 0..Cardinality(Producers)
  <2>1. /\ Cardinality({p \in Producers : Entered(p)}) \in Nat /\ Cardinality(Producers) \in Nat
        /\ Cardinality({p \in Producers : Entered(p)}) <= Cardinality(Producers)
    BY <1>1, <1>2, FS_Subset, FS_CardinalityType
  <2> QED BY <2>1 DEF QueueInv, Counted
<1>4. consumer_gate_.active \in 0..Cardinality(Consumers)
  <2>1. /\ Cardinality({c \in Consumers : Entered(c)}) \in Nat /\ Cardinality(Consumers) \in Nat
        /\ Cardinality({c \in Consumers : Entered(c)}) <= Cardinality(Consumers)
    BY <1>1, <1>2, FS_Subset, FS_CardinalityType
  <2> QED BY <2>1 DEF QueueInv, Counted
<1>5. occupied_count_ \in 0..Capacity
  <2>1. Alive \subseteq Indices /\ IsFiniteSet(Alive) /\ IsFiniteSet(Indices) /\ Cardinality(Indices) = Capacity
    BY SlotFacts, IndexFacts DEF QueueInv
  <2>2. Cardinality(Alive) \in Nat /\ Cardinality(Alive) <= Cardinality(Indices) /\ Capacity \in Nat
    BY <2>1, FS_Subset, FS_CardinalityType
  <2> QED BY <2>1, <2>2 DEF QueueInv, DataOK, SlotsOK
<1>6. /\ producer_gate_ \in [closed : BOOLEAN, active : 0..Cardinality(Producers)]
      /\ consumer_gate_ \in [closed : BOOLEAN, active : 0..Cardinality(Consumers)]
  BY <1>3, <1>4 DEF QueueInv, GateTypes
<1> QED BY <1>5, <1>6 DEF QueueInv, PcOK, ThreadTypes, DataOK, DataTypes, TypeOK

(* Every field and every thread's local state keeps its type; no gate counts
   below zero or past its side, and size() stays within the capacity. *)
THEOREM TypeCorrect == Spec => []TypeOK
BY QueueInvariant, TypesFollow, PTL

LEMMA SlotsFollow == QueueInv => SlotsOwned
<1> SUFFICES ASSUME QueueInv PROVE SlotsOwned
  OBVIOUS
<1>1. Members(available_indices_) = Elements(available_indices_) /\ Members(published_indices_) = Elements(published_indices_)
  BY DEF Members, Elements
<1>2. ASSUME consumer_gate_.closed, close_mutex_ = NoThread PROVE Members(available_indices_) = Indices
  <2>1. \A k \in Closers : pc[k] \notin ClosingLabels
    BY <1>2, ThreadFacts DEF QueueInv, ClosersOK
  <2>2. \A k \in Closers : pc[k] # "await_consumers" /\ pc[k] # "discard"
    BY <2>1 DEF ClosingLabels
  <2>3. (\A t \in Waiters : ~Entered(t)) /\ published_indices_ = <<>>
    BY <1>2, <2>2, ThreadFacts DEF QueueInv, ClosersOK
  <2>4. Holders = {}
    BY <2>3 DEF Holders, QueueInv, DataOK, HoldersOK, Entered
  <2>5. Held = {} /\ Elements(published_indices_) = {}
    BY <2>3, <2>4, SlotFacts DEF Elements, QueueInv
  <2> QED BY <1>1, <2>5 DEF QueueInv, DataOK, OnePlace
<1> QED BY <1>1, <1>2 DEF QueueInv, DataOK, OnePlace, SlotsOK, SlotsOwned, Holders

(* Every slot index is free, published or held by one thread, and is so once; a
   slot has an event exactly while somebody will destroy it; close_and_discard
   leaves every slot free. *)
THEOREM SlotsAlwaysOwned == Spec => []SlotsOwned
BY QueueInvariant, SlotsFollow, PTL

LEMMA LedgerFollows == QueueInv => NothingLost
BY DEF QueueInv, HistoriesOK, Ledger, Items, NothingLost, Contract!NothingLost

(* No accepted event is lost, duplicated or reordered, whatever the pops, pushes
   and closes that overlap. *)
THEOREM NothingIsLost == Spec => []NothingLost
BY QueueInvariant, LedgerFollows, PTL

LEMMA QuiescedStep == QueueInv /\ [Next]_vars => [producer_quiesced_ => accepted' = accepted]_vars
<1> SUFFICES ASSUME QueueInv, Next, producer_quiesced_ PROVE accepted' = accepted
  BY DEF vars
<1>1. \A p \in Producers : ~PublishIndex(p)
  BY DEF QueueInv, ClosersOK, Entered, HolderLabels, PublishIndex
<1>2. CASE Quiet
  BY <1>2 DEF Quiet
<1>3. ASSUME NEW t \in Waiters, Admit(t) \/ Exit(t) PROVE accepted' = accepted
  BY <1>3, Admission, Leaving DEF QueueInv
<1>4. ASSUME NEW p \in Producers, Reserve(p) \/ ConstructThrows(p) \/ Construct(p) PROVE accepted' = accepted
  BY <1>4 DEF Reserve, ConstructThrows, Construct, histories
<1>5. ASSUME NEW c \in Consumers, Dequeue(c) \/ TakeEvent(c) \/ ReleaseIndex(c) PROVE accepted' = accepted
  BY <1>5 DEF Dequeue, TakeEvent, ReleaseIndex, histories
<1>6. ASSUME NEW k \in Closers,
             AwaitProducers(k) \/ Signals(k) \/ AwaitConsumers(k) \/ Discard(k) \/ \E discard \in BOOLEAN : Close(k, discard)
      PROVE  accepted' = accepted
  BY <1>6 DEF AwaitProducers, Signals, AwaitConsumers, Discard, Close, histories
<1> QED BY <1>1, <1>2, <1>3, <1>4, <1>5, <1>6, QuietOrLoud DEF Loud, QueueInv

(* Once a closer has set producer_quiesced_, no push takes effect any more: the
   flag is set only when the closed producer gate has been seen empty. *)
THEOREM QuiescenceIsFinal == Spec => QuiescedIsQuiet
BY QueueInvariant, QuiescedStep, PTL DEF Spec, QuiescedIsQuiet
-----------------------------------------------------------------------------
(* The bounded FIFO. *)

LEMMA DiscardingFacts ==
    ASSUME QueueInv
    PROVE  /\ Discarding => producer_quiesced_ /\ \A t \in Waiters : ~Entered(t)
           /\ \A k, l \in Closers : pc[k] \in ClosingLabels /\ pc[l] = "discard" => k = l
<1>1. ASSUME NEW k \in Closers, pc[k] = "discard" PROVE producer_quiesced_ /\ \A t \in Waiters : ~Entered(t)
  BY <1>1, ThreadFacts DEF QueueInv, ClosersOK, ClosingLabels
<1>2. \A k, l \in Closers : pc[k] \in ClosingLabels /\ pc[l] = "discard" => k = l
  BY DEF QueueInv, ClosersOK, ClosingLabels
<1> QED BY <1>1, <1>2 DEF Discarding

LEMMA FifoKept ==
    ASSUME Items' = Items, UNCHANGED <<producer_quiesced_, accepted, taken, discarded>>,
           \A k \in Closers : pc'[k] = "discard" <=> pc[k] = "discard"
    PROVE  UNCHANGED Fifo!vars
<1>1. Discarding' = Discarding
  BY DEF Discarding
<1> QED BY <1>1 DEF Fifo!vars

(* The steps of producers and consumers. *)
LEMMA FifoWaiters ==
    ASSUME QueueInv, QueueInv', NEW t \in Waiters,
           \/ Admit(t) \/ Exit(t)
           \/ t \in Producers /\ (Reserve(t) \/ ConstructThrows(t) \/ Construct(t) \/ PublishIndex(t))
           \/ t \in Consumers /\ (Dequeue(t) \/ TakeEvent(t) \/ ReleaseIndex(t))
    PROVE  FifoStep \/ UNCHANGED Fifo!vars
<1> USE ThreadFacts
<1>0. PcOK /\ GateTypes /\ DataOK /\ DataOK' /\ HistoriesOK
  BY DEF QueueInv
<1>1. CASE Admit(t) \/ Exit(t)
  <2>1. /\ UNCHANGED <<storage, producer_quiesced_, accepted, taken, discarded>>
        /\ \A k \in Closers : pc'[k] = pc[k]
    BY <1>0, <1>1, Admission, Leaving
  <2>2. Items' = Items
    BY <2>1 DEF Items, storage
  <2> QED BY <2>1, <2>2, FifoKept
<1>p. ASSUME t \in Producers, Reserve(t) \/ ConstructThrows(t) \/ Construct(t) \/ PublishIndex(t)
      PROVE  \A k \in Closers : pc'[k] = pc[k]
  BY <1>0, <1>p DEF Reserve, ConstructThrows, Construct, PublishIndex, Goto, PcOK, ThreadTypes
<1>c. ASSUME t \in Consumers, Dequeue(t) \/ TakeEvent(t) \/ ReleaseIndex(t)
      PROVE  \A k \in Closers : pc'[k] = pc[k]
  BY <1>0, <1>c DEF Dequeue, TakeEvent, ReleaseIndex, Goto, PcOK, ThreadTypes
<1>2. CASE t \in Producers /\ (Reserve(t) \/ ConstructThrows(t))
  <2>1. UNCHANGED <<slots_, published_indices_, producer_quiesced_, accepted, taken, discarded>>
    BY <1>2 DEF Reserve, ConstructThrows, gates, histories
  <2>2. Items' = Items
    BY <2>1 DEF Items
  <2> QED BY <1>2, <1>p, <2>1, <2>2, FifoKept
<1>3. CASE t \in Producers /\ Construct(t)
  <2>1. /\ UNCHANGED <<published_indices_, producer_quiesced_, accepted, taken, discarded>>
        /\ pc[t] = "construct" /\ slots_' = [slots_ EXCEPT ![index[t]] = NextEvent(t)]
    BY <1>3 DEF Construct, gates, histories
  <2>2. t \in Holders
    BY <1>0, <2>1 DEF DataOK, HoldersOK, Holders, HolderLabels
  <2>3. index[t] \notin Elements(published_indices_)
    BY <1>0, <2>2 DEF DataOK, OnePlace
  <2>4. \A i \in Elements(published_indices_) : slots_'[i] = slots_[i]
    BY <1>0, <2>1, <2>3, SlotFacts DEF DataOK, DataTypes
  <2>5. Items' = Items
    BY <1>0, <2>1, <2>4, ItemsFrame
  <2> QED BY <1>3, <1>p, <2>1, <2>5, FifoKept
<1>4. CASE t \in Producers /\ PublishIndex(t)
  <2>1. /\ UNCHANGED <<slots_, producer_quiesced_, taken, discarded>>
        /\ published_indices_' = Append(published_indices_, index[t])
        /\ accepted' = Append(accepted, NextEvent(t)) /\ pc[t] = "publish"
    BY <1>4 DEF PublishIndex, gates
  <2>2. index[t] \in Indices /\ slots_[index[t]] = NextEvent(t) /\ NextEvent(t) \in Events
    BY <1>0, <1>4, <2>1, PublishData DEF HistoriesOK, NextEvent, Events
  <2>3. Items' = Append(Items, NextEvent(t))
    BY <1>0, <2>1, <2>2, ItemsPush
  <2>4. Entered(t) /\ ~producer_quiesced_
    BY <1>4, <2>1 DEF Entered, HolderLabels, QueueInv, ClosersOK
  <2>5. ~Discarding /\ ~Discarding'
    BY <1>4, <1>p, <2>4, DiscardingFacts DEF Discarding
  <2>6. Len(Items) < Capacity
    <3>1. t \in Holders /\ IsFiniteSet(Holders)
      BY <1>0, <2>1, SlotFacts DEF DataOK, HoldersOK, Holders, HolderLabels
    <3>2. Cardinality(Holders) \in Nat /\ Cardinality(Holders) # 0
      BY <3>1, FS_CardinalityType, FS_EmptySet
    <3>3. Len(available_indices_) \in Nat /\ Len(published_indices_) \in Nat
      BY <1>0, LenProperties DEF DataOK, DataTypes
    <3>4. Len(available_indices_) + Len(published_indices_) + Cardinality(Holders) = Capacity
      BY <1>0 DEF DataOK, OnePlace
    <3>5. Len(Items) = Len(published_indices_)
      BY <1>0, ItemsAreEvents DEF ItemsOK
    <3> QED BY <3>2, <3>3, <3>4, <3>5, LockFreeCapacityAssumption
  <2>7. Fifo!Push(NextEvent(t))
    BY <2>1, <2>3, <2>4, <2>5, <2>6 DEF Fifo!Push
  <2> QED BY <1>4, <2>7 DEF FifoStep
<1>5. CASE t \in Consumers /\ Dequeue(t) /\ published_indices_ # <<>>
  <2>1. /\ UNCHANGED <<slots_, producer_quiesced_, accepted, discarded>> /\ pc[t] = "dequeue"
        /\ published_indices_' = Tail(published_indices_)
        /\ taken' = Append(taken, slots_[Head(published_indices_)])
    BY <1>5 DEF Dequeue, WithoutHead, gates
  <2>2. Items # <<>> /\ Items' = Tail(Items) /\ taken' = Append(taken, Head(Items))
    BY <1>0, <1>5, <2>1, ItemsPop
  <2>3. Entered(t)
    BY <2>1 DEF Entered, InLabels
  <2>4. ~Discarding /\ ~Discarding'
    BY <1>5, <1>c, <2>3, DiscardingFacts DEF Discarding
  <2>5. Fifo!Pop
    BY <2>1, <2>2, <2>4 DEF Fifo!Pop
  <2> QED BY <2>5 DEF FifoStep
<1>6. CASE t \in Consumers /\ (ReleaseIndex(t) \/ (Dequeue(t) /\ published_indices_ = <<>>))
  <2>1. UNCHANGED <<slots_, published_indices_, producer_quiesced_, accepted, taken, discarded>>
    BY <1>6 DEF ReleaseIndex, Dequeue, gates, histories
  <2>2. Items' = Items
    BY <2>1 DEF Items
  <2> QED BY <1>6, <1>c, <2>1, <2>2, FifoKept
<1>7. CASE t \in Consumers /\ TakeEvent(t)
  <2>1. /\ UNCHANGED <<published_indices_, producer_quiesced_, accepted, taken, discarded>>
        /\ slots_' = [slots_ EXCEPT ![index[t]] = Empty]
    BY <1>7 DEF TakeEvent, gates, histories
  <2>2. \A i \in Elements(published_indices_) : slots_'[i] = slots_[i]
    BY <1>0, <1>7, <2>1, TakeData, SlotFacts DEF DataOK, DataTypes
  <2>3. Items' = Items
    BY <1>0, <2>1, <2>2, ItemsFrame
  <2> QED BY <1>7, <1>c, <2>1, <2>3, FifoKept
<1> QED BY <1>1, <1>2, <1>3, <1>4, <1>5, <1>6, <1>7

(* The steps of closers. *)
LEMMA FifoClosers ==
    ASSUME QueueInv, QueueInv', NEW k \in Closers,
           \/ AwaitProducers(k) \/ Signals(k) \/ AwaitConsumers(k) \/ Discard(k)
           \/ \E discard \in BOOLEAN : Close(k, discard)
    PROVE  FifoStep \/ UNCHANGED Fifo!vars
<1> USE ThreadFacts
<1>0. PcOK /\ GateTypes /\ DataOK /\ DataOK' /\ HistoriesOK
  BY DEF QueueInv
<1>1. CASE AwaitProducers(k)
  <2>1. /\ UNCHANGED <<slots_, published_indices_, accepted, taken, discarded>> /\ producer_quiesced_' = TRUE
        /\ pc[k] = "await_producers" /\ pc'[k] = "move_data" /\ \A l \in Closers \ {k} : pc'[l] = pc[l]
    BY <1>0, <1>1 DEF AwaitProducers, storage, histories, Goto, PcOK, ThreadTypes
  <2>2. Items' = Items /\ Discarding' = Discarding
    BY <2>1 DEF Items, Discarding
  <2>3. Fifo!Close
    BY <2>1, <2>2 DEF Fifo!Close
  <2> QED BY <2>3 DEF FifoStep
<1>2. CASE Signals(k) \/ \E discard \in BOOLEAN : Close(k, discard)
  <2>1. /\ UNCHANGED <<slots_, published_indices_, producer_quiesced_, accepted, taken, discarded>>
        /\ pc[k] # "discard" /\ pc'[k] # "discard" /\ \A l \in Closers \ {k} : pc'[l] = pc[l]
    BY <1>0, <1>2 DEF Signals, Close, storage, histories, Goto, PcOK, ThreadTypes
  <2>2. Items' = Items
    BY <2>1 DEF Items
  <2> QED BY <2>1, <2>2, FifoKept
<1>3. CASE AwaitConsumers(k)
  <2>1. /\ UNCHANGED <<slots_, published_indices_, producer_quiesced_, accepted, taken, discarded>>
        /\ pc[k] = "await_consumers" /\ pc'[k] = "discard"
    BY <1>0, <1>3 DEF AwaitConsumers, gates, storage, histories, Goto, PcOK, ThreadTypes
  <2>2. Items' = Items
    BY <2>1 DEF Items
  <2>3. producer_quiesced_ /\ ~Discarding /\ Discarding'
    <3>1. pc[k] \in ClosingLabels \ {"await_producers"}
      BY <2>1 DEF ClosingLabels
    <3>2. producer_quiesced_
      BY <3>1 DEF QueueInv, ClosersOK
    <3>3. ~Discarding
      BY <2>1, <3>1, DiscardingFacts DEF Discarding
    <3> QED BY <2>1, <3>2, <3>3 DEF Discarding
  <2>4. producer_quiesced_' = TRUE
    BY <1>0, <2>1, <2>3 DEF PcOK, ThreadTypes
  <2>5. Fifo!CloseAndDiscard
    BY <2>1, <2>2, <2>3, <2>4 DEF Fifo!CloseAndDiscard
  <2> QED BY <2>5 DEF FifoStep
<1>4. CASE Discard(k) /\ published_indices_ # <<>>
  <2>1. /\ UNCHANGED <<pc, producer_quiesced_, accepted, taken>> /\ pc[k] = "discard"
        /\ slots_' = [slots_ EXCEPT ![Head(published_indices_)] = Empty]
        /\ published_indices_' = Tail(published_indices_)
        /\ discarded' = Append(discarded, slots_[Head(published_indices_)])
    BY <1>4 DEF Discard, WithoutHead, gates
  <2>2. \A i \in Elements(Tail(published_indices_)) : slots_'[i] = slots_[i]
    <3>1. Elements(Tail(published_indices_)) = Elements(published_indices_) \ {Head(published_indices_)}
      BY <1>0, <1>4, TailElements DEF DataOK, DataTypes, OnePlace
    <3> QED BY <1>0, <2>1, <3>1, SlotFacts DEF DataOK, DataTypes
  <2>3. Items # <<>> /\ Items' = Tail(Items) /\ discarded' = Append(discarded, Head(Items)) /\ Items \in Seq(Events)
    BY <1>0, <1>4, <2>1, <2>2, ItemsPop, ItemsAreEvents DEF ItemsOK
  <2>4. discarded' \o Items' = discarded \o Items
    BY <1>0, <2>3, MoveHead DEF HistoriesOK
  <2>5. Discarding /\ Discarding'
    BY <2>1 DEF Discarding
  <2> QED BY <2>1, <2>4, <2>5 DEF Fifo!vars
<1>5. CASE Discard(k) /\ published_indices_ = <<>>
  <2>1. /\ UNCHANGED <<slots_, published_indices_, producer_quiesced_, accepted, taken, discarded>>
        /\ pc[k] = "discard" /\ pc'[k] = "move_data" /\ \A l \in Closers \ {k} : pc'[l] = pc[l]
    BY <1>0, <1>5 DEF Discard, gates, storage, Goto, PcOK, ThreadTypes
  <2>2. Items' = Items /\ Items = <<>>
    BY <1>0, <1>5, <2>1, ItemsAreEvents DEF Items, ItemsOK
  <2>3. Discarding /\ ~Discarding'
    <3>1. pc[k] \in ClosingLabels
      BY <2>1 DEF ClosingLabels
    <3> QED BY <2>1, <3>1, DiscardingFacts DEF Discarding
  <2>4. discarded \o <<>> = discarded
    BY <1>0, ConcatEmptySeq DEF HistoriesOK
  <2> QED BY <2>1, <2>2, <2>3, <2>4 DEF Fifo!vars
<1> QED BY <1>1, <1>2, <1>3, <1>4, <1>5

LEMMA FifoNext == QueueInv /\ QueueInv' /\ [Next]_vars => [FifoStep]_(Fifo!vars)
<1> SUFFICES ASSUME QueueInv, QueueInv', [Next]_vars PROVE FifoStep \/ UNCHANGED Fifo!vars
  OBVIOUS
<1>1. CASE UNCHANGED vars
  <2>1. Items' = Items
    BY <1>1 DEF vars, Items
  <2> QED BY <1>1, <2>1, FifoKept DEF vars
<1>2. CASE Quiet
  <2>1. Items' = Items /\ UNCHANGED <<producer_quiesced_, accepted, taken, discarded>>
    BY <1>2 DEF Quiet, storage, gates, Items
  <2>2. \A k \in Closers : pc'[k] = "discard" <=> pc[k] = "discard"
    BY <1>2, QuietFacts DEF QueueInv
  <2> QED BY <2>1, <2>2, FifoKept
<1>3. CASE Loud
  BY <1>3, FifoWaiters, FifoClosers, ThreadFacts DEF Loud
<1> QED BY <1>1, <1>2, <1>3, QuietOrLoud DEF QueueInv

LEMMA FifoInit == Init => Fifo!Init
<1> SUFFICES ASSUME Init PROVE Fifo!Init
  OBVIOUS
<1>1. Items = <<>>
  BY QueueInvInit, ItemsAreEvents DEF Init, QueueInv, ItemsOK
<1>2. ~Discarding
  BY ThreadFacts DEF Init, Discarding
<1> QED BY <1>1, <1>2 DEF Init, Fifo!Init

(* Apart from what it says of the end of the stream, the lock-free queue
   implements the bounded FIFO: every step of every thread is a push of its
   producer's next event, a pop, a close, a close_and_discard, or leaves the FIFO
   alone. *)
THEOREM FifoRefinement == Spec => ImplementsFifo
BY FifoInit, FifoNext, QueueInvariant, PTL DEF Spec, ImplementsFifo

(* In particular it implements the contract, where any event may be pushed. *)
THEOREM ContractRefinement == Spec => Fifo!Spec
<1>1. QueueInv /\ FifoStep => Fifo!Next
  <2>1. QueueInv => \A p \in Producers : NextEvent(p) \in Events
    BY DEF QueueInv, HistoriesOK, NextEvent, Events
  <2> QED BY <2>1 DEF FifoStep, Fifo!Next
<1>2. QueueInv /\ QueueInv' /\ [Next]_vars => [Fifo!Next]_(Fifo!vars)
  BY <1>1, FifoNext
<1> QED BY <1>2, FifoInit, QueueInvariant, PTL DEF Spec, Fifo!Spec
=============================================================================
