------------------------ MODULE SubscriberStateProofs ------------------------
(***************************************************************************)
(* Proofs about SubscriberState for every number of workers, every mailbox *)
(* capacity and every set of subscriptions: the types, that unsubscribe    *)
(* leaves silence behind it, that every offered event is accounted for,    *)
(* that the mailbox implements the queue contract, and what a shutdown     *)
(* leaves behind.                                                          *)
(*                                                                         *)
(* A step moves one thread; the others at most wake up (Near).  The sets   *)
(* the properties count (who is inside an invocation, who carries an       *)
(* offer) therefore change by the moving thread only, which CountMove      *)
(* turns into arithmetic.                                                  *)
(***************************************************************************)
EXTENDS SubscriberState, SequenceFacts, TLAPS, FiniteSetTheorems

(* Where each kind of thread can be, under a direct and the isolated policy. *)
DirectLabels == {"idle", "begin", "serial", "callback", "finish", "notify_idle", "retire", "stop"}
PostLabels == {"idle", "post", "parked", "woken", "notify_ready"}
ExecutorLabels == {"loop", "asleep", "notify_space", "begin", "callback", "finish", "notify_idle",
                   "retire", "stop", "stop_notify", "lock_join", "done"}
LeavingLabels == {"retire", "stop", "stop_notify", "lock_join", "joining", "await", "waiting", "returned"}
StopperLabels == {"idle", "stop", "stop_notify", "lock_join", "joining", "join_workers", "stopped"}

LabelsOf(t) ==
    IF t \in Workers THEN IF Isolated THEN PostLabels ELSE DirectLabels
    ELSE IF t = Executor THEN IF Isolated THEN ExecutorLabels ELSE {"done"}
    ELSE IF t = Owner THEN LeavingLabels \cup {"idle"} ELSE StopperLabels

LabelsOK == \A t \in Threads : pc[t] \in LabelsOf(t)

Labels == {"idle", "begin", "serial", "callback", "finish", "notify_idle", "post", "parked", "woken",
           "notify_ready", "loop", "asleep", "notify_space", "done", "retire", "stop", "stop_notify",
           "lock_join", "joining", "await", "waiting", "returned", "join_workers", "stopped"}

(* TypeOK without the ranges of in_flight_ and the mailbox, which follow. *)
Types ==
    /\ options_ \in Subscriptions
    /\ active_ \in BOOLEAN /\ in_flight_ \in Int /\ mailbox_ \in Seq(Events)
    /\ mailbox_accepting_ \in BOOLEAN /\ executor_stopping_ \in BOOLEAN /\ drain_mailbox_ \in BOOLEAN
    /\ serial_owner \in Workers \cup {NoThread} /\ join_owner \in Threads \cup {NoThread}
    /\ joined \in BOOLEAN /\ retired \in BOOLEAN /\ handle \in {"owner", "callback", "reset"}
    /\ shutdown \in {"none", "drain", "discard"}
    /\ pc \in [Threads -> Labels]
    /\ event \in [Callers -> 0..MaxOffers]
    /\ offered_ \in 0..MaxOffers /\ delivered_ \in Nat /\ dropped_ \in Nat /\ rejected_ \in Nat
    /\ posted \in Seq(Events) /\ taken \in Seq(Events) /\ discarded \in Seq(Events)

(* The handle, the registry, shutdown and the join. *)
MembersOK ==
    /\ active_ <=> handle # "reset"
    /\ \A t \in Callers \cup {Owner} : pc[t] \in LeavingLabels => handle = "reset"
    /\ retired => handle = "reset"
    /\ shutdown = "none" <=> pc[Stopper] = "idle"
    /\ pc[Stopper] = "stopped" => \A w \in Workers : pc[w] = "idle"
    /\ joined => pc[Executor] = "done"
    /\ pc[Stopper] \in {"join_workers", "stopped"} /\ Isolated /\ handle # "reset" => pc[Executor] = "done"

(* in_flight_ counts the invocations; after unsubscribe there are none. *)
InFlightOK ==
    /\ in_flight_ = Cardinality(Inside)
    /\ pc[Owner] = "returned" => Inside = {}

(* The mailbox and its flags: it is empty whenever it was cleared, and once the
   executor is gone. *)
MailOK ==
    /\ executor_stopping_ <=> ~mailbox_accepting_
    /\ Len(mailbox_) <= MailboxCapacity
    /\ ~drain_mailbox_ \/ discarded # <<>> \/ (Isolated /\ pc[Executor] = "done") =>
           ~mailbox_accepting_ /\ mailbox_ = <<>>
    /\ \A w \in Workers : pc[w] \in {"post", "parked", "woken"} => event[w] \in Events
    /\ handle # "reset" /\ shutdown # "discard" => discarded = <<>>
    /\ Ledger(posted, taken, discarded, mailbox_)

One(b) == IF b THEN 1 ELSE 0

(* What the executor has taken it has delivered, but for the entry in its hands. *)
DeliveriesOK ==
    Isolated /\ handle # "reset" =>
        Len(taken) = delivered_ + One(pc[Executor] \in {"notify_space", "begin", "callback"})

(* The callers that have an event in their hands, and the account of events. *)
CarrierLabels == {"begin", "post", "parked", "woken", "notify_space", "serial", "callback", "retire",
                  "stop", "stop_notify", "lock_join", "joining"}
Carriers == {t \in Callers : pc[t] \in CarrierLabels}
Accounted == offered_ = delivered_ + dropped_ + rejected_ + Len(mailbox_) + Cardinality(Carriers)

(* The inductive invariant. *)
SubInv == Types /\ LabelsOK /\ MembersOK /\ InFlightOK /\ MailOK /\ DeliveriesOK /\ Accounted
-----------------------------------------------------------------------------
(* Threads and their moves. *)

LEMMA ThreadFacts ==
    /\ Workers \subseteq Callers /\ Executor \in Callers /\ Callers \subseteq Threads
    /\ Callers = Workers \cup {Executor} /\ Threads = Callers \cup {Owner, Stopper}
    /\ Executor \notin Workers /\ Owner \notin Callers /\ Stopper \notin Callers /\ Owner # Stopper
    /\ NoThread \notin Threads /\ IsFiniteSet(Callers)
<1>1. IsFiniteSet(Workers \cup {Executor})
  BY SubscriberThreadsAssumption, FS_AddElement
<1> QED BY <1>1, SubscriberThreadsAssumption DEF Callers, Threads

(* While another thread moves, a thread at most wakes up. *)
Near(u) ==
    \/ pc'[u] = pc[u]
    \/ pc[u] = "asleep" /\ pc'[u] = "loop"
    \/ pc[u] = "parked" /\ pc'[u] = "woken"
    \/ pc[u] = "waiting" /\ pc'[u] = "await"

Others(t) == \A u \in Threads \ {t} : Near(u)

(* Thread t goes from one label to another. *)
Move(t, l, m) == pc[t] = l /\ pc'[t] = m /\ Others(t)

LEMMA GotoMoves ==
    ASSUME Types, NEW t \in Threads, NEW l \in Labels, Goto(t, l)
    PROVE  Move(t, pc[t], l) /\ (\A u \in Threads \ {t} : pc'[u] = pc[u]) /\ pc' \in [Threads -> Labels]
BY DEF Types, Goto, Move, Others, Near

LEMMA WakingMoves ==
    ASSUME Types, LabelsOK
    PROVE  /\ \A t \in Callers : NotifyIdle(t) => Move(t, "notify_idle", IF t = Executor THEN "loop" ELSE "idle")
           /\ \A w \in Workers : NotifyReady(w) => Move(w, "notify_ready", "idle")
           /\ NotifySpace => Move(Executor, "notify_space", "begin")
           /\ \A t \in Threads : StopNotify(t) => Move(t, "stop_notify", "lock_join")
<1> USE ThreadFacts DEF Move, Others, Near
<1>1. ASSUME NEW t \in Callers, NotifyIdle(t)
      PROVE  Move(t, "notify_idle", IF t = Executor THEN "loop" ELSE "idle")
  BY <1>1 DEF NotifyIdle, Awaiting
<1>2. ASSUME NEW w \in Workers, NotifyReady(w) PROVE Move(w, "notify_ready", "idle")
  BY <1>2 DEF NotifyReady, Types
<1>3. ASSUME NotifySpace PROVE Move(Executor, "notify_space", "begin")
  <2>1. CASE Goto(Executor, "begin")
    BY <1>3, <2>1 DEF NotifySpace, Goto, Types
  <2>2. CASE \E w \in Parked : pc' = [pc EXCEPT ![Executor] = "begin", ![w] = "woken"]
    <3>1. PICK w \in Parked : pc' = [pc EXCEPT ![Executor] = "begin", ![w] = "woken"]
      BY <2>2
    <3>2. w \in Workers /\ pc[w] = "parked" /\ w # Executor
      BY DEF Parked
    <3> QED BY <1>3, <3>1, <3>2 DEF NotifySpace, Types
  <2> QED BY <1>3, <2>1, <2>2 DEF NotifySpace
<1>4. ASSUME NEW t \in Threads, StopNotify(t) PROVE Move(t, "stop_notify", "lock_join")
  BY <1>4 DEF StopNotify, Roused
<1> QED BY <1>1, <1>2, <1>3, <1>4

LEMMA CountMove ==
    ASSUME NEW A, NEW B, IsFiniteSet(A), NEW t, \A u : u # t => (u \in A <=> u \in B)
    PROVE  /\ IsFiniteSet(B) /\ Cardinality(A) \in Nat /\ Cardinality(B) \in Nat
           /\ Cardinality(B) = Cardinality(A) + One(t \in B) - One(t \in A)
<1>1. Cardinality(A) \in Nat
  BY FS_CardinalityType
<1>2. CASE t \in A /\ t \notin B
  <2>1. B = A \ {t}
    BY <1>2
  <2> QED BY <1>1, <1>2, <2>1, FS_RemoveElement, FS_CardinalityType DEF One
<1>3. CASE t \notin A /\ t \in B
  <2>1. B = A \cup {t}
    BY <1>3
  <2> QED BY <1>1, <1>3, <2>1, FS_AddElement, FS_CardinalityType DEF One
<1>4. CASE t \in A <=> t \in B
  <2>1. B = A
    BY <1>4
  <2> QED BY <1>1, <2>1 DEF One
<1> QED BY <1>2, <1>3, <1>4

InsideLabels == {"callback", "retire", "stop", "stop_notify", "lock_join", "joining", "serial", "finish"}

LEMMA InsideIs == Inside = {t \in Callers : pc[t] \in InsideLabels}
BY DEF Inside, Running, InsideLabels

(* How a move changes the two counts. *)
LEMMA Counts ==
    ASSUME NEW t \in Threads, Others(t)
    PROVE  /\ IsFiniteSet(Inside) /\ IsFiniteSet(Inside') /\ IsFiniteSet(Carriers)
           /\ Cardinality(Inside) \in Nat /\ Cardinality(Inside') \in Nat
           /\ Cardinality(Carriers) \in Nat /\ Cardinality(Carriers') \in Nat
           /\ Cardinality(Inside') = Cardinality(Inside) + One(t \in Inside') - One(t \in Inside)
           /\ Cardinality(Carriers') = Cardinality(Carriers) + One(t \in Carriers') - One(t \in Carriers)
           /\ \A u \in Threads \ {t} : u \in Inside' <=> u \in Inside
<1> USE ThreadFacts
<1>1. IsFiniteSet(Inside) /\ IsFiniteSet(Carriers)
  BY InsideIs, FS_Subset DEF Carriers
<1>2. Inside' = {u \in Callers : pc'[u] \in InsideLabels}
  BY DEF Inside, Running, InsideLabels
<1>3. \A u : u # t => (u \in Inside <=> u \in Inside')
  <2> SUFFICES ASSUME NEW u \in Callers, u # t PROVE pc[u] \in InsideLabels <=> pc'[u] \in InsideLabels
    BY <1>2, InsideIs
  <2> QED BY DEF Others, Near, InsideLabels
<1>4. \A u : u # t => (u \in Carriers <=> u \in Carriers')
  <2> SUFFICES ASSUME NEW u \in Callers, u # t PROVE pc[u] \in CarrierLabels <=> pc'[u] \in CarrierLabels
    BY DEF Carriers
  <2> QED BY DEF Others, Near, CarrierLabels
<1>5. /\ IsFiniteSet(Inside') /\ Cardinality(Inside) \in Nat /\ Cardinality(Inside') \in Nat
      /\ Cardinality(Inside') = Cardinality(Inside) + One(t \in Inside') - One(t \in Inside)
  BY <1>1, <1>3, CountMove
<1>6. /\ Cardinality(Carriers) \in Nat /\ Cardinality(Carriers') \in Nat
      /\ Cardinality(Carriers') = Cardinality(Carriers) + One(t \in Carriers') - One(t \in Carriers)
  BY <1>1, <1>4, CountMove
<1> QED BY <1>1, <1>3, <1>5, <1>6
-----------------------------------------------------------------------------
(* Types and labels. *)

LEMMA StopLabels == \A t \in Threads : AfterStop(t) \in {"await", "join_workers", "callback"}
BY DEF AfterStop

LEMMA PcStep == ASSUME Types, Next PROVE pc' \in [Threads -> Labels]
<1> USE ThreadFacts DEF Labels, Goto
<1>0. pc \in [Threads -> Labels]
  BY DEF Types
<1>1. ASSUME NEW w \in Workers, Offer(w) \/ LockSerial(w) PROVE pc' \in [Threads -> Labels]
  BY <1>0, <1>1 DEF Offer, LockSerial
<1>2. ASSUME NEW w \in Workers, Post(w) PROVE pc' \in [Threads -> Labels]
  <2>1. \E l \in Labels : pc' = [pc EXCEPT ![w] = l]
    BY <1>2 DEF Post
  <2> QED BY <1>0, <2>1
<1>3. ASSUME NEW w \in Workers, NotifyReady(w) PROVE pc' \in [Threads -> Labels]
  BY <1>0, <1>3 DEF NotifyReady
<1>4. ASSUME NEW t \in Callers, BeginInvocation(t) \/ CallbackReturns(t) PROVE pc' \in [Threads -> Labels]
  <2>1. \E l \in Labels : pc' = [pc EXCEPT ![t] = l]
    BY <1>4 DEF BeginInvocation, CallbackReturns
  <2> QED BY <1>0, <2>1
<1>5. ASSUME NEW t \in Callers, FinishInvocation(t) PROVE pc' \in [Threads -> Labels]
  BY <1>0, <1>5 DEF FinishInvocation, Leave
<1>6. ASSUME NEW t \in Callers, NotifyIdle(t) PROVE pc' \in [Threads -> Labels]
  BY <1>0, <1>6 DEF NotifyIdle
<1>7. ASSUME ExecutorLoop \/ NotifySpace PROVE pc' \in [Threads -> Labels]
  BY <1>0, <1>7 DEF ExecutorLoop, NotifySpace, Parked
<1>8. ASSUME NEW t \in Threads, StopMailbox(t) \/ StopDirect(t) \/ LockJoin(t) \/ Join(t)
      PROVE  pc' \in [Threads -> Labels]
  <2>1. \E l \in Labels : pc' = [pc EXCEPT ![t] = l]
    BY <1>8, StopLabels DEF StopMailbox, StopDirect, LockJoin, Join
  <2> QED BY <1>0, <2>1
<1>9. ASSUME NEW t \in Threads, StopNotify(t) PROVE pc' \in [Threads -> Labels]
  <2>1. \A u \in Threads : Roused(u) \in Labels
    BY <1>0 DEF Roused
  <2> QED BY <1>9, <2>1 DEF StopNotify
<1>10. ASSUME NEW t \in Threads, Retire(t) \/ Unsubscribe(t) \/ AwaitIdle(t) \/ SpuriousWake(t)
       PROVE  pc' \in [Threads -> Labels]
  <2>1. \E l \in Labels : pc' = [pc EXCEPT ![t] = l]
    BY <1>10 DEF Retire, Unsubscribe, AwaitIdle, SpuriousWake
  <2> QED BY <1>0, <2>1
<1>11. ASSUME NEW policy, Shutdown(policy) PROVE pc' \in [Threads -> Labels]
  BY <1>0, <1>11 DEF Shutdown
<1>12. CASE Stopped
  BY <1>0, <1>12 DEF Stopped
<1>13. CASE Rest
  BY <1>0, <1>13 DEF Rest, vars
<1> QED BY <1>1, <1>2, <1>3, <1>4, <1>5, <1>6, <1>7, <1>8, <1>9, <1>10, <1>11, <1>12, <1>13 DEF Next, Step, StopStep

LEMMA TypesStep == ASSUME SubInv, Next PROVE Types'
<1> USE ThreadFacts, PcStep DEF SubInv, Types
<1>0. MaxOffers \in Nat /\ Events = 1..MaxOffers
  BY OptionsAssumption DEF Events
<1>1. ASSUME NEW w \in Workers, Offer(w) PROVE Types'
  <2>1. offered_' \in 0..MaxOffers /\ offered_ + 1 \in 0..MaxOffers
    BY <1>0, <1>1 DEF Offer
  <2> QED BY <1>1, <2>1 DEF Offer, mailbox, membership, log
<1>2. ASSUME NEW t \in Callers, BeginInvocation(t) \/ CallbackReturns(t) PROVE Types'
  <2>1. CASE BeginInvocation(t) /\ ~active_
    <3>1. dropped_' \in Nat /\ rejected_' \in Nat
      BY <2>1 DEF BeginInvocation
    <3>2. UNCHANGED <<active_, in_flight_, mailbox, serial_owner, join_owner, joined, membership, event,
                      offered_, delivered_, log>>
      BY <2>1 DEF BeginInvocation
    <3> QED BY <3>1, <3>2 DEF mailbox, membership, log
  <2>2. CASE BeginInvocation(t) /\ active_
    BY <2>2 DEF BeginInvocation, mailbox, membership, log
  <2>3. CASE CallbackReturns(t)
    BY <2>3 DEF CallbackReturns, mailbox, membership, log
  <2> QED BY <1>2, <2>1, <2>2, <2>3 DEF BeginInvocation
<1>3. ASSUME NEW t \in Callers, FinishInvocation(t) \/ NotifyIdle(t) PROVE Types'
  <2>1. CASE FinishInvocation(t)
    <3>1. in_flight_' \in Int /\ serial_owner' \in Workers \cup {NoThread} /\ event' \in [Callers -> 0..MaxOffers]
      BY <1>0, <2>1 DEF FinishInvocation, Leave
    <3> QED BY <2>1, <3>1 DEF FinishInvocation, Leave, mailbox, membership, metrics, log
  <2>2. CASE NotifyIdle(t)
    BY <2>2 DEF NotifyIdle, mailbox, membership, metrics, log
  <2> QED BY <1>3, <2>1, <2>2
<1>4. ASSUME NEW w \in Workers, LockSerial(w) \/ NotifyReady(w) PROVE Types'
  <2>1. CASE LockSerial(w)
    BY <2>1 DEF LockSerial, mailbox, membership, metrics, log
  <2>2. CASE NotifyReady(w)
    <3>1. UNCHANGED <<active_, in_flight_, mailbox, serial_owner, join_owner, joined, membership,
                      event, metrics, log>>
      BY <2>2 DEF NotifyReady
    <3> QED BY <3>1 DEF mailbox, membership, metrics, log
  <2> QED BY <1>4, <2>1, <2>2
<1>5. ASSUME NEW w \in Workers, Post(w) PROVE Types'
  <2>1. CASE UNCHANGED <<mailbox_, posted>>
    <3>1. dropped_' \in Nat /\ rejected_' \in Nat
      BY <1>5, <2>1 DEF Post
    <3>2. UNCHANGED <<options_, active_, in_flight_, mailbox_accepting_, executor_stopping_, drain_mailbox_, serial_owner,
                      join_owner, joined, retired, handle, shutdown, event, offered_, delivered_, taken, discarded>>
      BY <1>5 DEF Post, membership
    <3> QED BY <2>1, <3>1, <3>2
  <2>2. CASE mailbox_' = Append(mailbox_, event[w]) /\ posted' = Append(posted, event[w])
             /\ Goto(w, "notify_ready") /\ UNCHANGED <<dropped_, rejected_>>
    <3>1. event[w] \in Events
      BY <1>5 DEF Post, MailOK
    <3>2. mailbox_' \in Seq(Events) /\ posted' \in Seq(Events)
      BY <2>2, <3>1, AppendElements
    <3> QED BY <1>5, <2>2, <3>2 DEF Post, membership
  <2> QED BY <1>5, <2>1, <2>2 DEF Post
<1>6. ASSUME ExecutorLoop PROVE Types'
  <2>1. CASE UNCHANGED <<mailbox_, event, taken>>
    BY <1>6, <2>1 DEF ExecutorLoop, membership, metrics
  <2>2. CASE ~UNCHANGED <<mailbox_, event, taken>>
    <3>1. /\ MailReady /\ ~ExecutorExits
          /\ event' = [event EXCEPT ![Executor] = Head(mailbox_)]
          /\ taken' = Append(taken, Head(mailbox_)) /\ mailbox_' = Tail(mailbox_)
          /\ Goto(Executor, "notify_space")
      BY <1>6, <2>2 DEF ExecutorLoop
    <3>2. mailbox_ # <<>>
      BY <3>1 DEF MailReady, ExecutorExits
    <3>3. Head(mailbox_) \in Events /\ mailbox_' \in Seq(Events)
      BY <3>1, <3>2, TailElements
    <3>4. taken' \in Seq(Events) /\ event' \in [Callers -> 0..MaxOffers]
      <4>1. taken' \in Seq(Events)
        BY <3>1, <3>3, AppendElements
      <4>2. event' \in [Callers -> 0..MaxOffers]
        BY <1>0, <3>1, <3>3
      <4> QED BY <4>1, <4>2
    <3>5. UNCHANGED <<options_, active_, in_flight_, mailbox_accepting_, executor_stopping_, drain_mailbox_, serial_owner,
                      join_owner, joined, retired, handle, shutdown, offered_, delivered_, dropped_, rejected_, posted,
                      discarded>>
      BY <1>6 DEF ExecutorLoop, membership, metrics
    <3> QED BY <3>3, <3>4, <3>5
  <2> QED BY <2>1, <2>2
<1>7. ASSUME NotifySpace PROVE Types'
  BY <1>7 DEF NotifySpace, Parked, mailbox, membership, metrics, log
<1>8. ASSUME NEW t \in Threads, StopMailbox(t) PROVE Types'
  <2>1. Len(mailbox_) \in Nat /\ discarded \o mailbox_ \in Seq(Events) /\ <<>> \in Seq(Events)
    BY LenProperties, ConcatProperties
  <2>2. dropped_' \in Nat
    BY <1>8, <2>1 DEF StopMailbox, Cleared
  <2>3. mailbox_' \in Seq(Events) /\ discarded' \in Seq(Events)
    <3>1. CASE Drains(t)
      BY <1>8, <3>1 DEF StopMailbox
    <3>2. CASE ~Drains(t)
      BY <1>8, <2>1, <3>2 DEF StopMailbox
    <3> QED BY <3>1, <3>2
  <2>4. drain_mailbox_' \in BOOLEAN
    BY <1>8 DEF StopMailbox
  <2> QED BY <1>8, <2>2, <2>3, <2>4 DEF StopMailbox, membership
<1>9. ASSUME NEW t \in Threads, StopDirect(t) \/ StopNotify(t) \/ LockJoin(t) \/ Join(t) PROVE Types'
  <2>1. CASE StopDirect(t)
    BY <2>1 DEF StopDirect, mailbox, membership, metrics, log
  <2>2. CASE StopNotify(t)
    BY <2>2 DEF StopNotify, mailbox, membership, metrics, log
  <2>3. CASE LockJoin(t)
    <3>1. join_owner' \in Threads \cup {NoThread}
      BY <2>3 DEF LockJoin
    <3> QED BY <2>3, <3>1 DEF LockJoin, mailbox, membership, metrics, log
  <2>4. CASE Join(t)
    BY <2>4 DEF Join, mailbox, membership, metrics, log
  <2> QED BY <1>9, <2>1, <2>2, <2>3, <2>4
<1>10. ASSUME NEW t \in Threads, Retire(t) \/ Unsubscribe(t) \/ AwaitIdle(t) \/ SpuriousWake(t) PROVE Types'
  <2>1. CASE Retire(t)
    BY <2>1 DEF Retire, mailbox, metrics, log
  <2>2. CASE Unsubscribe(t)
    BY <2>2 DEF Unsubscribe, mailbox, metrics, log
  <2>3. CASE AwaitIdle(t)
    BY <2>3 DEF AwaitIdle, mailbox, membership, metrics, log
  <2>4. CASE SpuriousWake(t)
    BY <2>4 DEF SpuriousWake, mailbox, membership, metrics, log
  <2> QED BY <1>10, <2>1, <2>2, <2>3, <2>4
<1>11. ASSUME NEW policy \in {"drain", "discard"}, Shutdown(policy) PROVE Types'
  BY <1>11 DEF Shutdown, mailbox, metrics, log
<1>12. ASSUME Stopped PROVE Types'
  BY <1>12 DEF Stopped, mailbox, membership, metrics, log
<1>13. CASE Rest
  BY <1>13 DEF Rest, vars
<1> QED BY <1>1, <1>2, <1>3, <1>4, <1>5, <1>6, <1>7, <1>8, <1>9, <1>10, <1>11, <1>12, <1>13 DEF Next, Step, StopStep

(* The moves of the other actions. *)
LEMMA Moved ==
    ASSUME Types
    PROVE  /\ \A w \in Workers : Offer(w) => Move(w, "idle", IF Isolated THEN "post" ELSE "begin")
           /\ \A t \in Callers : BeginInvocation(t) =>
                  Move(t, "begin", IF active_ THEN IF options_.delivery = "serialized" THEN "serial" ELSE "callback"
                                   ELSE IF t = Executor THEN "loop" ELSE "idle")
           /\ \A w \in Workers : LockSerial(w) => Move(w, "serial", "callback")
           /\ \A t \in Callers : CallbackReturns(t) => Move(t, "callback", "finish")
           /\ \A t \in Callers : FinishInvocation(t) =>
                  \E l \in {"notify_idle", IF t = Executor THEN "loop" ELSE "idle"} : Move(t, "finish", l)
           /\ \A w \in Workers : Post(w) => Move(w, pc[w], pc'[w]) /\ pc[w] \in {"post", "woken"}
                                            /\ pc'[w] \in {"parked", "idle", "notify_ready"}
           /\ ExecutorLoop => \E l \in {"asleep", "done", "notify_space"} : Move(Executor, "loop", l)
           /\ \A t \in Threads : SpuriousWake(t) => \A u \in Threads : Near(u)
           /\ \A t \in Threads : StopMailbox(t) => Move(t, "stop", "stop_notify")
           /\ \A t \in Threads : StopDirect(t) => Move(t, "stop", AfterStop(t))
           /\ \A t \in Threads : LockJoin(t) =>
                  Move(t, "lock_join", IF joined \/ t = Executor THEN AfterStop(t) ELSE "joining")
           /\ \A t \in Threads : Join(t) => Move(t, "joining", AfterStop(t))
           /\ \A t \in Threads : Unsubscribe(t) => Move(t, pc[t], "retire")
           /\ \A t \in Threads : Retire(t) => Move(t, "retire", "stop")
           /\ \A t \in Threads : AwaitIdle(t) => Move(t, "await", IF NoCallbacks THEN "returned" ELSE "waiting")
           /\ \A policy : Shutdown(policy) => Move(Stopper, "idle", IF retired THEN "join_workers" ELSE "stop")
           /\ Stopped => Move(Stopper, "join_workers", "stopped")
<1> USE ThreadFacts, GotoMoves DEF Labels
<1>1. \A w \in Workers : Offer(w) => Move(w, "idle", IF Isolated THEN "post" ELSE "begin")
  BY DEF Offer
<1>2. \A t \in Callers : BeginInvocation(t) =>
                  Move(t, "begin", IF active_ THEN IF options_.delivery = "serialized" THEN "serial" ELSE "callback"
                                   ELSE IF t = Executor THEN "loop" ELSE "idle")
  BY DEF BeginInvocation
<1>3. \A w \in Workers : LockSerial(w) => Move(w, "serial", "callback")
  BY DEF LockSerial
<1>4. \A t \in Callers : CallbackReturns(t) => Move(t, "callback", "finish")
  BY DEF CallbackReturns
<1>5. \A t \in Callers : FinishInvocation(t) =>
                  \E l \in {"notify_idle", IF t = Executor THEN "loop" ELSE "idle"} : Move(t, "finish", l)
  BY DEF FinishInvocation, Leave
<1>6. ASSUME NEW w \in Workers, Post(w)
      PROVE  Move(w, pc[w], pc'[w]) /\ pc[w] \in {"post", "woken"} /\ pc'[w] \in {"parked", "idle", "notify_ready"}
  <2>1. \E l \in {"parked", "idle", "notify_ready"} : Goto(w, l)
    BY <1>6 DEF Post
  <2> QED BY <1>6, <2>1 DEF Post, Move
<1>7. ExecutorLoop => \E l \in {"asleep", "done", "notify_space"} : Move(Executor, "loop", l)
  BY DEF ExecutorLoop
<1>8. ASSUME NEW t \in Threads, SpuriousWake(t) PROVE \A u \in Threads : Near(u)
  BY <1>8 DEF SpuriousWake, Move, Others, Near
<1>9. \A t \in Threads : StopMailbox(t) => Move(t, "stop", "stop_notify")
  BY DEF StopMailbox
<1>10. \A t \in Threads : StopDirect(t) => Move(t, "stop", AfterStop(t))
  BY StopLabels DEF StopDirect
<1>11. \A t \in Threads : LockJoin(t) =>
                  Move(t, "lock_join", IF joined \/ t = Executor THEN AfterStop(t) ELSE "joining")
  BY StopLabels DEF LockJoin
<1>12. \A t \in Threads : Join(t) => Move(t, "joining", AfterStop(t))
  BY StopLabels DEF Join
<1>13. \A t \in Threads : Unsubscribe(t) => Move(t, pc[t], "retire")
  BY DEF Unsubscribe
<1>14. \A t \in Threads : Retire(t) => Move(t, "retire", "stop")
  BY DEF Retire
<1>15. \A t \in Threads : AwaitIdle(t) => Move(t, "await", IF NoCallbacks THEN "returned" ELSE "waiting")
  BY DEF AwaitIdle
<1>16. \A policy : Shutdown(policy) => Move(Stopper, "idle", IF retired THEN "join_workers" ELSE "stop")
  BY DEF Shutdown
<1>17. Stopped => Move(Stopper, "join_workers", "stopped")
  BY DEF Stopped
<1> QED BY <1>1, <1>2, <1>3, <1>4, <1>5, <1>6, <1>7, <1>8, <1>9, <1>10, <1>11, <1>12, <1>13, <1>14, <1>15, <1>16, <1>17

LEMMA LabelsMove ==
    ASSUME LabelsOK, UNCHANGED options_, NEW t \in Threads, Others(t), pc'[t] \in LabelsOf(t)
    PROVE  LabelsOK'
<1>1. \A u \in Threads : LabelsOf(u)' = LabelsOf(u)
  BY DEF LabelsOf, Isolated
<1>2. ASSUME NEW u \in Threads \ {t} PROVE pc'[u] \in LabelsOf(u)
  BY ThreadFacts DEF LabelsOK, LabelsOf, Others, Near, PostLabels, DirectLabels, ExecutorLabels, LeavingLabels, StopperLabels
<1> QED BY <1>1, <1>2 DEF LabelsOK

LEMMA LabelsStep == ASSUME SubInv, Next PROVE LabelsOK' /\ UNCHANGED options_
<1> USE ThreadFacts DEF SubInv, Move
<1>0. options_' = options_
  BY DEF Next, Offer, Step, Unsubscribe, SpuriousWake, Shutdown, Rest, vars, LockSerial, Post, NotifyReady, BeginInvocation,
         CallbackReturns, FinishInvocation, NotifyIdle, ExecutorLoop, NotifySpace, Stopped, Retire, StopStep,
         StopMailbox, StopDirect, StopNotify, LockJoin, Join, AwaitIdle, membership
<1> DEFINE Lab == LabelsOK'
<1> USE LabelsMove, <1>0
<1>1. ASSUME NEW w \in Workers, Offer(w) \/ LockSerial(w) \/ Post(w) \/ NotifyReady(w) PROVE Lab
  <2>1. Others(w) /\ pc[w] \in LabelsOf(w)
    BY <1>1, Moved, WakingMoves DEF LabelsOK
  <2>2. pc'[w] \in LabelsOf(w)
    BY <1>1, <2>1, Moved, WakingMoves DEF LabelsOf, PostLabels, DirectLabels
  <2> QED BY <2>1, <2>2
<1>2. ASSUME NEW t \in Callers, BeginInvocation(t) \/ CallbackReturns(t) \/ FinishInvocation(t) \/ NotifyIdle(t) PROVE Lab
  <2>1. Others(t) /\ pc[t] \in LabelsOf(t)
    BY <1>2, Moved, WakingMoves DEF LabelsOK
  <2>2. t = Executor /\ Isolated => options_.delivery # "serialized"
    BY DEF Isolated
  <2>3. pc'[t] \in LabelsOf(t)
    BY <1>2, <2>1, <2>2, Moved, WakingMoves DEF LabelsOf, PostLabels, DirectLabels, ExecutorLabels
  <2> QED BY <2>1, <2>3
<1>3. ASSUME ExecutorLoop \/ NotifySpace PROVE Lab
  <2>1. Others(Executor) /\ pc[Executor] \in LabelsOf(Executor)
    BY <1>3, Moved, WakingMoves DEF LabelsOK
  <2>2. pc'[Executor] \in LabelsOf(Executor)
    BY <1>3, <2>1, Moved, WakingMoves DEF LabelsOf, ExecutorLabels
  <2> QED BY <2>1, <2>2
<1>4. ASSUME NEW t \in Threads, StopMailbox(t) \/ StopDirect(t) \/ StopNotify(t) \/ LockJoin(t) \/ Join(t) PROVE Lab
  <2>1. Others(t) /\ pc[t] \in LabelsOf(t)
    BY <1>4, Moved, WakingMoves DEF LabelsOK
  <2>2. pc[t] \in {"stop", "stop_notify", "lock_join", "joining"}
    BY <1>4 DEF StopMailbox, StopDirect, StopNotify, LockJoin, Join
  <2>3. \/ Isolated /\ pc'[t] = "stop_notify"
        \/ pc'[t] = AfterStop(t)
        \/ pc[t] \in {"stop_notify", "lock_join"} /\ pc'[t] \in {"lock_join", "joining"} /\ (t = Executor => pc'[t] # "joining")
    <3>1. CASE StopMailbox(t)
      BY <3>1, Moved DEF StopMailbox
    <3>2. CASE StopDirect(t) \/ Join(t)
      BY <3>2, Moved
    <3>3. CASE StopNotify(t)
      BY <3>3, WakingMoves
    <3>4. CASE LockJoin(t)
      BY <3>4, Moved
    <3> QED BY <1>4, <3>1, <3>2, <3>3, <3>4
  <2>4. pc'[t] \in LabelsOf(t)
    BY <2>1, <2>2, <2>3 DEF LabelsOf, AfterStop, PostLabels, DirectLabels, ExecutorLabels, LeavingLabels, StopperLabels
  <2> QED BY <2>1, <2>4
<1>5. ASSUME NEW t \in Threads, Retire(t) \/ Unsubscribe(t) \/ AwaitIdle(t) PROVE Lab
  <2>1. Others(t) /\ pc[t] \in LabelsOf(t)
    BY <1>5, Moved DEF LabelsOK
  <2>2. t # Stopper /\ (AwaitIdle(t) => t = Owner)
    BY <1>5, <2>1 DEF Retire, Unsubscribe, AwaitIdle, LabelsOf, PostLabels, DirectLabels, ExecutorLabels, StopperLabels
  <2>3. Unsubscribe(t) => t = Owner \/ pc[t] = "callback"
    BY DEF Unsubscribe
  <2>4. pc'[t] \in LabelsOf(t)
    BY <1>5, <2>1, <2>2, <2>3, Moved DEF LabelsOf, PostLabels, DirectLabels, ExecutorLabels, LeavingLabels
  <2> QED BY <2>1, <2>4
<1>6. ASSUME NEW policy, Shutdown(policy) PROVE Lab
  BY <1>6, Moved DEF LabelsOf, StopperLabels
<1>7. CASE Stopped
  BY <1>7, Moved DEF LabelsOf, StopperLabels
<1>8. ASSUME NEW t \in Threads, SpuriousWake(t) \/ Rest PROVE Lab
  <2>1. \A u \in Threads : Near(u)
    BY <1>8, Moved DEF Rest, vars, Near
  <2>2. pc'[t] \in LabelsOf(t)
    BY <2>1 DEF LabelsOK, LabelsOf, Near, PostLabels, DirectLabels, ExecutorLabels, LeavingLabels, StopperLabels
  <2> QED BY <2>1, <2>2 DEF Others
<1> QED BY <1>0, <1>1, <1>2, <1>3, <1>4, <1>5, <1>6, <1>7, <1>8 DEF Next, Step, StopStep
-----------------------------------------------------------------------------
(* The handle, shutdown and the join. *)

LEMMA MembersMove ==
    ASSUME MembersOK, LabelsOK, UNCHANGED <<options_, active_, handle, retired, shutdown, joined>>,
           NEW t \in Threads, Others(t),
           t # Stopper /\ pc'[t] \in LeavingLabels => handle = "reset",
           t = Stopper => /\ pc[t] # "idle" /\ pc'[t] # "idle"
                          /\ pc'[t] = "stopped" => \A w \in Workers : pc[w] = "idle"
                          /\ pc'[t] \in {"join_workers", "stopped"} /\ Isolated /\ handle # "reset" =>
                                 pc[Executor] = "done",
           t \in Workers => pc[t] # "idle" \/ pc[Stopper] # "stopped",
           t = Executor => pc[t] # "done"
    PROVE  MembersOK'
<1> USE ThreadFacts
<1>1. Isolated' = Isolated
  BY DEF Isolated
<1>2. \A u \in Threads \ {t} : /\ pc'[u] \in LeavingLabels <=> pc[u] \in LeavingLabels
                               /\ \A l \in {"idle", "done", "join_workers", "stopped"} : pc'[u] = l <=> pc[u] = l
  BY DEF Others, Near, LeavingLabels
<1>3. \A u \in Callers \cup {Owner} : pc'[u] \in LeavingLabels => handle' = "reset"
  BY <1>2 DEF MembersOK
<1>4. shutdown' = "none" <=> pc'[Stopper] = "idle"
  BY <1>2 DEF MembersOK
<1>5. pc[Executor] = "done" => pc'[Executor] = "done"
  BY <1>2
<1>6. pc'[Stopper] = "stopped" => \A w \in Workers : pc'[w] = "idle"
  BY <1>2 DEF MembersOK
<1>7. pc'[Stopper] \in {"join_workers", "stopped"} /\ Isolated /\ handle # "reset" => pc'[Executor] = "done"
  BY <1>2, <1>5 DEF MembersOK
<1> QED BY <1>1, <1>3, <1>4, <1>5, <1>6, <1>7 DEF MembersOK

LEMMA MembersStep == ASSUME SubInv, Next PROVE MembersOK'
<1> USE ThreadFacts DEF SubInv
<1> DEFINE Fixed == UNCHANGED <<options_, active_, handle, retired, shutdown, joined>>
<1>0. \A t \in Threads : pc[t] \in LabelsOf(t)
  BY DEF LabelsOK
<1>1. ASSUME NEW w \in Workers, Offer(w) \/ LockSerial(w) \/ Post(w) \/ NotifyReady(w) PROVE MembersOK'
  <2>1. Fixed
    BY <1>1 DEF Offer, LockSerial, Post, NotifyReady, membership
  <2>2. Others(w) /\ pc'[w] \notin LeavingLabels
    BY <1>1, Moved, WakingMoves DEF Move, LeavingLabels
  <2>3. pc[w] # "idle" \/ pc[Stopper] # "stopped"
    BY <1>1 DEF Offer, LockSerial, Post, NotifyReady
  <2> QED BY <2>1, <2>2, <2>3, MembersMove
<1>2. ASSUME NEW t \in Callers, BeginInvocation(t) \/ CallbackReturns(t) \/ FinishInvocation(t) \/ NotifyIdle(t)
      PROVE  MembersOK'
  <2>1. Fixed
    BY <1>2 DEF BeginInvocation, CallbackReturns, FinishInvocation, NotifyIdle, membership
  <2>2. Others(t) /\ pc'[t] \notin LeavingLabels
    BY <1>2, Moved, WakingMoves DEF Move, LeavingLabels
  <2>3. pc[t] # "idle" /\ pc[t] # "done"
    BY <1>2 DEF BeginInvocation, CallbackReturns, FinishInvocation, NotifyIdle
  <2> QED BY <2>1, <2>2, <2>3, MembersMove
<1>3. ASSUME ExecutorLoop \/ NotifySpace PROVE MembersOK'
  <2>1. Fixed
    BY <1>3 DEF ExecutorLoop, NotifySpace, membership
  <2>2. Others(Executor) /\ pc'[Executor] \notin LeavingLabels
    BY <1>3, Moved, WakingMoves DEF Move, LeavingLabels
  <2>3. pc[Executor] # "done"
    BY <1>3 DEF ExecutorLoop, NotifySpace
  <2> QED BY <2>1, <2>2, <2>3, MembersMove
<1>4. ASSUME NEW t \in Threads, StopMailbox(t) \/ StopDirect(t) \/ StopNotify(t) \/ LockJoin(t) PROVE MembersOK'
  <2>1. Fixed
    BY <1>4 DEF StopMailbox, StopDirect, StopNotify, LockJoin, membership
  <2>2. Others(t) /\ pc[t] \in {"stop", "stop_notify", "lock_join"}
    BY <1>4, Moved, WakingMoves DEF Move
  <2>3. t # Stopper => handle = "reset"
    BY <2>2 DEF MembersOK, LeavingLabels
  <2>4. pc'[t] \in {"stop_notify", "lock_join", "joining", AfterStop(t)}
    BY <1>4, Moved, WakingMoves DEF Move
  <2>5. pc'[t] # "idle" /\ pc'[t] # "stopped" /\ pc[t] # "idle" /\ pc[t] # "done"
    BY <2>2, <2>4, StopLabels
  <2>6. ASSUME t = Stopper, pc'[t] = "join_workers", Isolated PROVE pc[Executor] = "done"
    <3>1. LockJoin(t) /\ joined
      <4>1. CASE LockJoin(t)
        BY <2>6, <4>1, Moved DEF Move
      <4>2. CASE StopDirect(t)
        BY <2>6, <4>2 DEF StopDirect
      <4>3. CASE StopMailbox(t) \/ StopNotify(t)
        BY <2>6, <4>3, Moved, WakingMoves DEF Move
      <4> QED BY <1>4, <4>1, <4>2, <4>3
    <3> QED BY <3>1 DEF MembersOK
  <2> QED BY <2>1, <2>2, <2>3, <2>5, <2>6, MembersMove
<1>5. ASSUME NEW t \in Threads, Join(t) PROVE MembersOK'
  <2>1. UNCHANGED <<options_, active_, handle, retired, shutdown>> /\ joined' = TRUE /\ pc[Executor] = "done"
    BY <1>5 DEF Join, membership
  <2>2. Others(t) /\ pc[t] = "joining" /\ pc'[t] = AfterStop(t)
    BY <1>5, Moved DEF Move
  <2>3. t \in {Owner, Stopper}
    BY <1>0, <2>2 DEF LabelsOf, PostLabels, DirectLabels, ExecutorLabels
  <2>4. pc'[Executor] = "done"
    BY <2>1, <2>3, <2>2 DEF Others, Near
  <2>5. \A u \in Threads \ {t} : /\ pc'[u] \in LeavingLabels <=> pc[u] \in LeavingLabels
                                 /\ \A l \in {"idle", "done", "join_workers", "stopped"} : pc'[u] = l <=> pc[u] = l
    BY <2>2 DEF Others, Near, LeavingLabels
  <2>6. t # Stopper => handle = "reset"
    BY <2>2, <2>3 DEF MembersOK, LeavingLabels
  <2>7. pc'[t] # "idle" /\ pc'[t] # "stopped" /\ pc[t] # "idle"
    BY <2>2, StopLabels
  <2> QED BY <2>1, <2>3, <2>4, <2>5, <2>6, <2>7 DEF MembersOK
<1>6. ASSUME NEW t \in Threads, Unsubscribe(t) PROVE MembersOK'
  <2>1. UNCHANGED <<options_, retired, shutdown, joined>> /\ handle' = "reset" /\ active_' = FALSE
    BY <1>6 DEF Unsubscribe
  <2>2. Others(t) /\ pc[t] \in {"idle", "callback"} /\ pc'[t] = "retire" /\ (t # Owner => pc[t] = "callback")
    <3>1. pc[t] \in {"idle", "callback"} /\ (t # Owner => pc[t] = "callback")
      BY <1>6 DEF Unsubscribe
    <3>2. Move(t, pc[t], "retire")
      BY <1>6, Moved
    <3> QED BY <3>1, <3>2 DEF Move
  <2>3. t # Stopper
    BY <1>0, <2>2 DEF LabelsOf, StopperLabels
  <2>4. \A u \in Threads \ {t} : \A l \in {"idle", "done", "stopped"} : pc'[u] = l <=> pc[u] = l
    BY <2>2 DEF Others, Near
  <2>5. pc[Stopper] = "stopped" => t \notin Workers
    BY <2>2 DEF MembersOK
  <2>6. pc[Executor] = "done" => t # Executor
    BY <2>2
  <2> QED BY <2>1, <2>2, <2>3, <2>4, <2>5, <2>6 DEF MembersOK
<1>7. ASSUME NEW t \in Threads, Retire(t) PROVE MembersOK'
  <2>1. UNCHANGED <<options_, active_, handle, shutdown, joined>>
    BY <1>7 DEF Retire
  <2>2. Others(t) /\ pc[t] = "retire" /\ pc'[t] = "stop"
    BY <1>7, Moved DEF Move
  <2>3. t # Stopper
    BY <1>0, <2>2 DEF LabelsOf, StopperLabels
  <2>4. handle = "reset"
    BY <2>2, <2>3 DEF MembersOK, LeavingLabels
  <2>5. \A u \in Threads \ {t} : \A l \in {"idle", "done", "stopped"} : pc'[u] = l <=> pc[u] = l
    BY <2>2 DEF Others, Near
  <2>6. pc[Stopper] = "stopped" => t \notin Workers
    BY <2>2 DEF MembersOK
  <2>7. pc[Executor] = "done" => t # Executor
    BY <2>2
  <2> QED BY <2>1, <2>2, <2>3, <2>4, <2>5, <2>6, <2>7 DEF MembersOK
<1>8. ASSUME NEW t \in Threads, AwaitIdle(t) PROVE MembersOK'
  <2>1. Fixed
    BY <1>8 DEF AwaitIdle, membership
  <2>2. Others(t) /\ pc[t] = "await"
    BY <1>8, Moved DEF Move
  <2>3. t = Owner
    BY <1>0, <2>2 DEF LabelsOf, PostLabels, DirectLabels, ExecutorLabels, StopperLabels
  <2>4. handle = "reset"
    BY <2>2, <2>3 DEF MembersOK, LeavingLabels
  <2> QED BY <2>1, <2>2, <2>3, <2>4, MembersMove
<1>9. ASSUME NEW policy \in {"drain", "discard"}, Shutdown(policy) PROVE MembersOK'
  <2>1. UNCHANGED <<options_, active_, handle, retired, joined>> /\ shutdown' = policy
    BY <1>9 DEF Shutdown
  <2>2. Others(Stopper) /\ pc[Stopper] = "idle" /\ pc'[Stopper] = IF retired THEN "join_workers" ELSE "stop"
    BY <1>9, Moved DEF Move
  <2>3. \A u \in Threads \ {Stopper} : /\ pc'[u] \in LeavingLabels <=> pc[u] \in LeavingLabels
                                       /\ pc'[u] = "done" <=> pc[u] = "done"
    BY <2>2 DEF Others, Near, LeavingLabels
  <2> QED BY <2>1, <2>2, <2>3 DEF MembersOK
<1>10. CASE Stopped
  <2>1. Fixed
    BY <1>10 DEF Stopped, membership
  <2>2. Others(Stopper) /\ pc[Stopper] = "join_workers" /\ pc'[Stopper] = "stopped"
    BY <1>10, Moved DEF Move
  <2>3. \A w \in Workers : pc[w] = "idle"
    BY <1>10 DEF Stopped, WorkersIdle
  <2>4. Isolated /\ handle # "reset" => pc[Executor] = "done"
    BY <2>2 DEF MembersOK
  <2> QED BY <2>1, <2>2, <2>3, <2>4, MembersMove
<1>11. ASSUME NEW t \in Threads, SpuriousWake(t) \/ Rest PROVE MembersOK'
  <2>1. Fixed
    BY <1>11 DEF SpuriousWake, Rest, vars, membership
  <2>2. \A u \in Threads : Near(u)
    BY <1>11, Moved DEF Rest, vars, Near
  <2>3. \A u \in Threads : /\ pc'[u] \in LeavingLabels <=> pc[u] \in LeavingLabels
                           /\ \A l \in {"idle", "done", "join_workers", "stopped"} : pc'[u] = l <=> pc[u] = l
    BY <2>2 DEF Near, LeavingLabels
  <2>4. Isolated' = Isolated
    BY <2>1 DEF Isolated
  <2> QED BY <2>1, <2>3, <2>4 DEF MembersOK
<1> QED BY <1>1, <1>2, <1>3, <1>4, <1>5, <1>6, <1>7, <1>8, <1>9, <1>10, <1>11 DEF Next, Step, StopStep
-----------------------------------------------------------------------------
(* The two counts. *)

LEMMA InFlightMove ==
    ASSUME MembersOK, InFlightOK, NEW t \in Threads, Others(t), in_flight_ \in Int,
           in_flight_' = in_flight_ + One(t \in Inside') - One(t \in Inside),
           t \in Inside' /\ t \notin Inside => active_,
           t = Owner /\ pc'[t] = "returned" => in_flight_ = 0
    PROVE  InFlightOK'
<1> USE ThreadFacts
<1>1. in_flight_' = Cardinality(Inside')
  BY Counts DEF InFlightOK
<1>2. ASSUME pc'[Owner] = "returned" PROVE Inside' = {}
  <2>1. Inside = {}
    <3>1. CASE t = Owner
      <4>1. Cardinality(Inside) = 0 /\ IsFiniteSet(Inside)
        BY <1>2, <3>1, Counts DEF InFlightOK
      <4> QED BY <4>1, FS_EmptySet
    <3>2. CASE t # Owner
      BY <1>2, <3>2 DEF Others, Near, InFlightOK
    <3> QED BY <3>1, <3>2
  <2>2. t \notin Inside'
    <3>1. CASE t = Owner
      BY <3>1 DEF Inside, Running
    <3>2. CASE t # Owner
      <4>1. pc[Owner] = "returned"
        BY <1>2, <3>2 DEF Others, Near
      <4>2. ~active_
        BY <4>1 DEF MembersOK, LeavingLabels
      <4> QED BY <2>1, <4>2
    <3> QED BY <3>1, <3>2
  <2>3. Inside' \subseteq Threads
    BY DEF Inside, Running
  <2> QED BY <2>1, <2>2, <2>3, Counts
<1> QED BY <1>1, <1>2 DEF InFlightOK

(* The events whose fate is counted or that lie in the mailbox. *)
Settled == delivered_ + dropped_ + rejected_ + Len(mailbox_)

LEMMA SettledType ==
    /\ Types => Settled \in Nat /\ (Accounted <=> offered_ = Settled + Cardinality(Carriers))
    /\ Types => offered_ \in Nat /\ delivered_ \in Nat /\ dropped_ \in Nat /\ rejected_ \in Nat /\ Len(mailbox_) \in Nat
<1>1. ASSUME Types PROVE Len(mailbox_) \in Nat
  BY <1>1, LenProperties DEF Types
<1> QED BY <1>1 DEF Types, Settled, Accounted

LEMMA SettledTypeNext ==
    /\ Types' => Settled' \in Nat /\ (Accounted' <=> offered_' = Settled' + Cardinality(Carriers'))
    /\ Types' => offered_' \in Nat /\ delivered_' \in Nat /\ dropped_' \in Nat /\ rejected_' \in Nat /\ Len(mailbox_') \in Nat
<1>1. ASSUME Types' PROVE Len(mailbox_') \in Nat
  BY <1>1, LenProperties DEF Types
<1> QED BY <1>1 DEF Types, Settled, Accounted

LEMMA SettledMove ==
    ASSUME Types, Types', NEW k \in Nat, UNCHANGED delivered_,
           dropped_' + rejected_' + Len(mailbox_') = dropped_ + rejected_ + Len(mailbox_) + k
    PROVE  Settled' = Settled + k
<1>1. delivered_ \in Nat /\ dropped_ \in Nat /\ rejected_ \in Nat /\ Len(mailbox_) \in Nat
  BY SettledType
<1>2. dropped_' \in Nat /\ rejected_' \in Nat /\ Len(mailbox_') \in Nat
  BY SettledTypeNext
<1>3. PICK u \in Nat : u = dropped_'
  BY <1>2
<1>4. PICK v \in Nat : v = rejected_'
  BY <1>2
<1>5. PICK w \in Nat : w = Len(mailbox_')
  BY <1>2
<1>6. u + v + w = dropped_ + rejected_ + Len(mailbox_) + k
  BY <1>3, <1>4, <1>5
<1>7. delivered_ + u + v + w = delivered_ + dropped_ + rejected_ + Len(mailbox_) + k
  BY <1>1, <1>6
<1> QED BY <1>3, <1>4, <1>5, <1>7 DEF Settled

LEMMA AccountMove ==
    ASSUME Types, Types', Accounted, NEW t \in Threads, Others(t),
           offered_' + Settled + One(t \in Carriers) = offered_ + Settled' + One(t \in Carriers')
    PROVE  Accounted'
<1>1. One(t \in Carriers') \in Nat /\ One(t \in Carriers) \in Nat
  BY DEF One
<1>2. /\ Cardinality(Carriers) \in Nat /\ Cardinality(Carriers') \in Nat
      /\ Cardinality(Carriers') = Cardinality(Carriers) + One(t \in Carriers') - One(t \in Carriers)
  BY Counts
<1>3. Settled \in Nat /\ Settled' \in Nat /\ offered_ \in Nat /\ offered_' \in Nat
      /\ offered_ = Settled + Cardinality(Carriers)
  BY SettledType, SettledTypeNext
<1>4. offered_' = Settled' + Cardinality(Carriers')
  BY <1>1, <1>2, <1>3
<1> QED BY <1>4, SettledTypeNext

(* Membership in the counted sets by label. *)
LEMMA InCounts ==
    ASSUME NEW t
    PROVE  /\ t \in Inside <=> t \in Callers /\ pc[t] \in InsideLabels
           /\ t \in Inside' <=> t \in Callers /\ pc'[t] \in InsideLabels
           /\ t \in Carriers <=> t \in Callers /\ pc[t] \in CarrierLabels
           /\ t \in Carriers' <=> t \in Callers /\ pc'[t] \in CarrierLabels
BY DEF Inside, Running, InsideLabels, Carriers

(* Moves that neither enter nor leave, nor touch an event. *)
LEMMA PlainMove ==
    ASSUME Types, Types', MembersOK, InFlightOK, Accounted, NEW t \in Threads, Others(t),
           UNCHANGED <<in_flight_, metrics, mailbox_>>,
           t \in Callers => /\ pc'[t] \in InsideLabels <=> pc[t] \in InsideLabels
                            /\ pc'[t] \in CarrierLabels <=> pc[t] \in CarrierLabels,
           t = Owner /\ pc'[t] = "returned" => in_flight_ = 0
    PROVE  InFlightOK' /\ Accounted'
<1>1. (t \in Inside' <=> t \in Inside) /\ (t \in Carriers' <=> t \in Carriers)
  BY InCounts
<1>2. in_flight_ \in Int
  BY DEF Types
<1>3. in_flight_' = in_flight_ + One(t \in Inside') - One(t \in Inside)
  BY <1>1, <1>2 DEF One
<1>4. offered_' + Settled + One(t \in Carriers) = offered_ + Settled' + One(t \in Carriers')
  BY <1>1 DEF One, metrics, Settled
<1> QED BY <1>1, <1>2, <1>3, <1>4, InFlightMove, AccountMove

LEMMA CountStep == ASSUME SubInv, Types', Next PROVE InFlightOK' /\ Accounted'
<1> USE ThreadFacts DEF SubInv
<1> DEFINE Goal == InFlightOK' /\ Accounted'
<1>0. /\ in_flight_ \in Int /\ Len(mailbox_) \in Nat /\ Len(mailbox_') \in Nat
      /\ Settled \in Nat /\ offered_ \in Nat /\ delivered_ \in Nat /\ dropped_ \in Nat /\ rejected_ \in Nat
      /\ dropped_' \in Nat /\ rejected_' \in Nat
  BY SettledType, SettledTypeNext DEF Types
<1>1. ASSUME NEW w \in Workers, Offer(w) PROVE Goal
  <2>1. Others(w) /\ pc[w] = "idle" /\ pc'[w] \in {"post", "begin"}
    BY <1>1, Moved DEF Move
  <2>2. w \notin Inside /\ w \notin Inside' /\ w \notin Carriers /\ w \in Carriers'
    BY <2>1, InCounts DEF InsideLabels, CarrierLabels
  <2>3. UNCHANGED <<in_flight_, mailbox_, delivered_, dropped_, rejected_>> /\ offered_' = offered_ + 1
    BY <1>1 DEF Offer, mailbox
  <2>4. in_flight_' = in_flight_ + One(w \in Inside') - One(w \in Inside)
    BY <1>0, <2>2, <2>3 DEF One
  <2>5. offered_' + Settled + One(w \in Carriers) = offered_ + Settled' + One(w \in Carriers')
    BY <1>0, <2>2, <2>3 DEF One, Settled
  <2> QED BY <1>0, <2>1, <2>2, <2>4, <2>5, InFlightMove, AccountMove
<1>2. ASSUME NEW t \in Callers, BeginInvocation(t) PROVE Goal
  <2>1. Others(t) /\ pc[t] = "begin"
    BY <1>2, Moved DEF Move
  <2>2. CASE active_
    <3>1. pc'[t] \in {"serial", "callback"}
      BY <1>2, <2>2, Moved DEF Move
    <3>2. t \notin Inside /\ t \in Inside' /\ t \in Carriers /\ t \in Carriers'
      BY <2>1, <3>1, InCounts DEF InsideLabels, CarrierLabels
    <3>3. UNCHANGED <<offered_, mailbox_, delivered_, dropped_, rejected_>> /\ in_flight_' = in_flight_ + 1
      BY <1>2, <2>2 DEF BeginInvocation, mailbox
    <3>4. in_flight_' = in_flight_ + One(t \in Inside') - One(t \in Inside)
      BY <1>0, <3>2, <3>3 DEF One
    <3>5. offered_' + Settled + One(t \in Carriers) = offered_ + Settled' + One(t \in Carriers')
      BY <1>0, <3>2, <3>3 DEF One, Settled
    <3> QED BY <1>0, <2>1, <2>2, <3>4, <3>5, InFlightMove, AccountMove
  <2>3. CASE ~active_
    <3>1. pc'[t] \in {"loop", "idle"}
      BY <1>2, <2>3, Moved DEF Move
    <3>2. t \notin Inside /\ t \notin Inside' /\ t \in Carriers /\ t \notin Carriers'
      BY <2>1, <3>1, InCounts DEF InsideLabels, CarrierLabels
    <3>3. /\ UNCHANGED <<offered_, mailbox_, delivered_, in_flight_>>
          /\ \/ dropped_' = dropped_ + 1 /\ rejected_' = rejected_
             \/ rejected_' = rejected_ + 1 /\ dropped_' = dropped_
      BY <1>2, <2>3 DEF BeginInvocation, mailbox
    <3>4. in_flight_' = in_flight_ + One(t \in Inside') - One(t \in Inside)
      BY <1>0, <3>2, <3>3 DEF One
    <3>5. Settled' = Settled + 1
      <4>1. CASE dropped_' = dropped_ + 1 /\ rejected_' = rejected_
        BY <1>0, <3>3, <4>1 DEF Settled
      <4>2. CASE rejected_' = rejected_ + 1 /\ dropped_' = dropped_
        BY <1>0, <3>3, <4>2 DEF Settled
      <4> QED BY <3>3, <4>1, <4>2
    <3>6. offered_' + Settled + One(t \in Carriers) = offered_ + Settled' + One(t \in Carriers')
      BY <1>0, <3>2, <3>3, <3>5 DEF One
    <3> QED BY <1>0, <2>1, <3>2, <3>4, <3>6, InFlightMove, AccountMove
  <2> QED BY <2>2, <2>3
<1>3. ASSUME NEW t \in Callers, CallbackReturns(t) PROVE Goal
  <2>1. Others(t) /\ pc[t] = "callback" /\ pc'[t] = "finish"
    BY <1>3, Moved DEF Move
  <2>2. t \in Inside /\ t \in Inside' /\ t \in Carriers /\ t \notin Carriers'
    BY <2>1, InCounts DEF InsideLabels, CarrierLabels
  <2>3. UNCHANGED <<offered_, mailbox_, dropped_, rejected_, in_flight_>> /\ delivered_' = delivered_ + 1
    BY <1>3 DEF CallbackReturns, mailbox
  <2>4. in_flight_' = in_flight_ + One(t \in Inside') - One(t \in Inside)
    BY <1>0, <2>2, <2>3 DEF One
  <2>5. offered_' + Settled + One(t \in Carriers) = offered_ + Settled' + One(t \in Carriers')
    BY <1>0, <2>2, <2>3 DEF One, Settled
  <2> QED BY <1>0, <2>1, <2>2, <2>4, <2>5, InFlightMove, AccountMove
<1>4. ASSUME NEW t \in Callers, FinishInvocation(t) PROVE Goal
  <2>1. Others(t) /\ pc[t] = "finish" /\ pc'[t] \in {"notify_idle", "loop", "idle"}
    BY <1>4, Moved DEF Move
  <2>2. t \in Inside /\ t \notin Inside' /\ t \notin Carriers /\ t \notin Carriers'
    BY <2>1, InCounts DEF InsideLabels, CarrierLabels
  <2>3. UNCHANGED <<offered_, mailbox_, dropped_, rejected_, delivered_>> /\ in_flight_' = in_flight_ - 1
    BY <1>4 DEF FinishInvocation, mailbox, metrics
  <2>4. in_flight_' = in_flight_ + One(t \in Inside') - One(t \in Inside)
    BY <1>0, <2>2, <2>3 DEF One
  <2>5. offered_' + Settled + One(t \in Carriers) = offered_ + Settled' + One(t \in Carriers')
    BY <1>0, <2>2, <2>3 DEF One, Settled
  <2> QED BY <1>0, <2>1, <2>2, <2>4, <2>5, InFlightMove, AccountMove
<1>5. ASSUME NEW t \in Callers, NotifyIdle(t) PROVE Goal
  <2>1. Others(t) /\ pc[t] = "notify_idle" /\ pc'[t] \in {"loop", "idle"}
    BY <1>5, WakingMoves DEF Move
  <2>2. UNCHANGED <<in_flight_, metrics, mailbox_>>
    BY <1>5 DEF NotifyIdle, mailbox
  <2> QED BY <2>1, <2>2, PlainMove DEF InsideLabels, CarrierLabels
<1>6. ASSUME NEW w \in Workers, LockSerial(w) \/ NotifyReady(w) PROVE Goal
  <2>1. /\ Others(w)
        /\ pc'[w] \in InsideLabels <=> pc[w] \in InsideLabels
        /\ pc'[w] \in CarrierLabels <=> pc[w] \in CarrierLabels
    BY <1>6, Moved, WakingMoves DEF Move, InsideLabels, CarrierLabels
  <2>2. UNCHANGED <<in_flight_, metrics, mailbox_>>
    BY <1>6 DEF LockSerial, NotifyReady, mailbox
  <2> QED BY <2>1, <2>2, PlainMove
<1>7. ASSUME NEW w \in Workers, Post(w) PROVE Goal
  <2>1. Others(w) /\ pc[w] \in {"post", "woken"} /\ pc'[w] \in {"parked", "idle", "notify_ready"}
    BY <1>7, Moved DEF Move
  <2>2. /\ w \notin Inside /\ w \notin Inside' /\ w \in Carriers
        /\ w \in Carriers' <=> pc'[w] = "parked"
    BY <2>1, InCounts DEF InsideLabels, CarrierLabels
  <2>3. UNCHANGED <<offered_, delivered_, in_flight_>>
    BY <1>7 DEF Post
  <2>4. \/ pc'[w] = "parked" /\ UNCHANGED <<mailbox_, dropped_, rejected_>>
        \/ pc'[w] # "parked" /\ dropped_' + rejected_' + Len(mailbox_') = dropped_ + rejected_ + Len(mailbox_) + 1
    <3>1. event[w] \in Events
      BY <2>1 DEF MailOK
    <3>2. Len(Append(mailbox_, event[w])) = Len(mailbox_) + 1
      BY <3>1, AppendElements DEF Types
    <3>3. \A l : Goto(w, l) => pc'[w] = l
      BY DEF Goto, Types
    <3>4. \/ pc'[w] = "parked" /\ UNCHANGED <<mailbox_, dropped_, rejected_>>
          \/ pc'[w] # "parked" /\ dropped_' = dropped_ + 1 /\ UNCHANGED <<mailbox_, rejected_>>
          \/ pc'[w] # "parked" /\ rejected_' = rejected_ + 1 /\ UNCHANGED <<mailbox_, dropped_>>
          \/ pc'[w] # "parked" /\ mailbox_' = Append(mailbox_, event[w]) /\ UNCHANGED <<dropped_, rejected_>>
      BY <1>7, <3>3 DEF Post
    <3>5. CASE pc'[w] = "parked"
      BY <3>4, <3>5
    <3>6. CASE dropped_' = dropped_ + 1 /\ UNCHANGED <<mailbox_, rejected_>> /\ pc'[w] # "parked"
      BY <1>0, <3>6
    <3>7. CASE rejected_' = rejected_ + 1 /\ UNCHANGED <<mailbox_, dropped_>> /\ pc'[w] # "parked"
      BY <1>0, <3>7
    <3>8. CASE mailbox_' = Append(mailbox_, event[w]) /\ UNCHANGED <<dropped_, rejected_>> /\ pc'[w] # "parked"
      BY <1>0, <3>2, <3>8
    <3> QED BY <3>4, <3>5, <3>6, <3>7, <3>8
  <2>5. in_flight_' = in_flight_ + One(w \in Inside') - One(w \in Inside)
    BY <1>0, <2>2, <2>3 DEF One
  <2>6. One(w \in Carriers) = 1 /\ One(w \in Carriers') = One(pc'[w] = "parked")
    BY <2>2 DEF One
  <2>7. offered_' + Settled + One(w \in Carriers) = offered_ + Settled' + One(w \in Carriers')
    <3>1. CASE pc'[w] = "parked"
      <4>1. Settled' = Settled /\ One(w \in Carriers') = 1
        BY <2>3, <2>4, <2>6, <3>1 DEF Settled, One
      <4> QED BY <1>0, <2>3, <2>6, <4>1
    <3>2. CASE pc'[w] # "parked"
      <4>1. Settled' = Settled + 1 /\ One(w \in Carriers') = 0
        BY <2>3, <2>4, <2>6, <3>2, SettledMove DEF One
      <4> QED BY <1>0, <2>3, <2>6, <4>1
    <3> QED BY <3>1, <3>2
  <2> QED BY <1>0, <2>1, <2>2, <2>5, <2>7, InFlightMove, AccountMove
<1>8. ASSUME ExecutorLoop PROVE Goal
  <2>1. Others(Executor) /\ pc[Executor] = "loop" /\ pc'[Executor] \in {"asleep", "done", "notify_space"}
    BY <1>8, Moved DEF Move
  <2>2. UNCHANGED <<in_flight_, metrics>>
    BY <1>8 DEF ExecutorLoop
  <2>3. \A l : Goto(Executor, l) => pc'[Executor] = l
    BY DEF Goto, Types
  <2>4. CASE pc'[Executor] # "notify_space"
    <3>1. UNCHANGED mailbox_
      BY <1>8, <2>3, <2>4 DEF ExecutorLoop
    <3> QED BY <2>1, <2>2, <2>4, <3>1, PlainMove DEF InsideLabels, CarrierLabels
  <2>5. CASE pc'[Executor] = "notify_space"
    <3>1. mailbox_ # <<>> /\ mailbox_' = Tail(mailbox_)
      BY <1>8, <2>3, <2>5 DEF ExecutorLoop, MailReady, ExecutorExits
    <3>2. Len(mailbox_) = Len(mailbox_') + 1
      BY <1>0, <3>1, TailElements DEF Types
    <3>3. Executor \notin Inside /\ Executor \notin Inside' /\ Executor \notin Carriers /\ Executor \in Carriers'
      BY <2>1, <2>5, InCounts DEF InsideLabels, CarrierLabels
    <3>4. in_flight_' = in_flight_ + One(Executor \in Inside') - One(Executor \in Inside)
      BY <1>0, <2>2, <3>3 DEF One
    <3>5. offered_' + Settled + One(Executor \in Carriers) = offered_ + Settled' + One(Executor \in Carriers')
      BY <1>0, <2>2, <3>2, <3>3 DEF One, Settled, metrics
    <3> QED BY <1>0, <2>1, <3>3, <3>4, <3>5, InFlightMove, AccountMove
  <2> QED BY <2>4, <2>5
<1>9. ASSUME NotifySpace PROVE Goal
  <2>1. Others(Executor) /\ pc[Executor] = "notify_space" /\ pc'[Executor] = "begin"
    BY <1>9, WakingMoves DEF Move
  <2>2. UNCHANGED <<in_flight_, metrics, mailbox_>>
    BY <1>9 DEF NotifySpace, mailbox
  <2> QED BY <2>1, <2>2, PlainMove DEF InsideLabels, CarrierLabels
<1>10. ASSUME NEW t \in Threads, StopMailbox(t) PROVE Goal
  <2>1. Others(t) /\ pc[t] = "stop" /\ pc'[t] = "stop_notify"
    BY <1>10, Moved DEF Move
  <2>2. (t \in Inside' <=> t \in Inside) /\ (t \in Carriers' <=> t \in Carriers)
    BY <2>1, InCounts DEF InsideLabels, CarrierLabels
  <2>3. UNCHANGED <<in_flight_, offered_, delivered_, rejected_>>
    BY <1>10 DEF StopMailbox
  <2>4. Settled' = Settled
    <3>1. CASE Drains(t)
      BY <1>0, <1>10, <2>3, <3>1 DEF StopMailbox, Cleared, Settled
    <3>2. CASE ~Drains(t)
      <4>1. dropped_' = dropped_ + Len(mailbox_) /\ Len(mailbox_') = 0
        BY <1>10, <3>2 DEF StopMailbox, Cleared
      <4> QED BY <1>0, <2>3, <4>1 DEF Settled
    <3> QED BY <3>1, <3>2
  <2>5. in_flight_' = in_flight_ + One(t \in Inside') - One(t \in Inside)
    BY <1>0, <2>2, <2>3 DEF One
  <2>6. offered_' + Settled + One(t \in Carriers) = offered_ + Settled' + One(t \in Carriers')
    BY <1>0, <2>2, <2>3, <2>4
  <2> QED BY <1>0, <2>1, <2>2, <2>5, <2>6, InFlightMove, AccountMove
<1>11. ASSUME NEW t \in Threads, StopDirect(t) \/ StopNotify(t) \/ LockJoin(t) \/ Join(t) \/ Retire(t) PROVE Goal
  <2>1. Others(t) /\ pc[t] \in {"stop", "stop_notify", "lock_join", "joining", "retire"}
    BY <1>11, Moved, WakingMoves DEF Move
  <2>2. pc'[t] \in {"stop", "lock_join", "joining", AfterStop(t)}
    BY <1>11, Moved, WakingMoves DEF Move
  <2>3. (t \in Callers => AfterStop(t) = "callback") /\ AfterStop(t) # "returned"
    BY DEF AfterStop
  <2>4. UNCHANGED <<in_flight_, metrics, mailbox_>>
    BY <1>11 DEF StopDirect, StopNotify, LockJoin, Join, Retire, mailbox
  <2> QED BY <2>1, <2>2, <2>3, <2>4, PlainMove DEF InsideLabels, CarrierLabels
<1>12. ASSUME NEW t \in Threads, Unsubscribe(t) PROVE Goal
  <2>1. Others(t) /\ pc'[t] = "retire" /\ (t # Owner => pc[t] = "callback")
    <3>1. pc[t] \in {"idle", "callback"} /\ (t # Owner => pc[t] = "callback")
      BY <1>12 DEF Unsubscribe
    <3>2. Move(t, pc[t], "retire")
      BY <1>12, Moved
    <3> QED BY <3>1, <3>2 DEF Move
  <2>2. UNCHANGED <<in_flight_, metrics, mailbox_>>
    BY <1>12 DEF Unsubscribe, mailbox
  <2> QED BY <2>1, <2>2, PlainMove DEF InsideLabels, CarrierLabels
<1>13. ASSUME NEW t \in Threads, AwaitIdle(t) PROVE Goal
  <2>1. Others(t) /\ pc[t] = "await" /\ pc'[t] \in {"returned", "waiting"} /\ (pc'[t] = "returned" => in_flight_ = 0)
    BY <1>13, Moved DEF Move, NoCallbacks
  <2>2. UNCHANGED <<in_flight_, metrics, mailbox_>>
    BY <1>13 DEF AwaitIdle, mailbox
  <2> QED BY <2>1, <2>2, PlainMove DEF InsideLabels, CarrierLabels
<1>14. ASSUME NEW policy, Shutdown(policy) \/ Stopped PROVE Goal
  <2>1. Others(Stopper)
    BY <1>14, Moved DEF Move
  <2>2. UNCHANGED <<in_flight_, metrics, mailbox_>>
    BY <1>14 DEF Shutdown, Stopped, mailbox
  <2> QED BY <2>1, <2>2, PlainMove
<1>15. ASSUME NEW t \in Threads, SpuriousWake(t) \/ Rest PROVE Goal
  <2>1. \A u \in Threads : Near(u)
    BY <1>15, Moved DEF Rest, vars, Near
  <2>2. UNCHANGED <<in_flight_, metrics, mailbox_>>
    BY <1>15 DEF SpuriousWake, Rest, vars, mailbox, metrics
  <2>3. Others(Stopper)
    BY <2>1 DEF Others
  <2> QED BY <2>2, <2>3, PlainMove
<1> QED BY <1>1, <1>2, <1>3, <1>4, <1>5, <1>6, <1>7, <1>8, <1>9, <1>10, <1>11, <1>12, <1>13, <1>14, <1>15 DEF Next, Step, StopStep
-----------------------------------------------------------------------------
(* The mailbox. *)

PosterLabels == {"post", "parked", "woken"}

LEMMA MailMove ==
    ASSUME MailOK, UNCHANGED <<options_, mailbox, log>>, NEW t \in Threads, Others(t),
           \A w \in Workers : pc[w] \in PosterLabels => event'[w] = event[w],
           t \in Workers /\ pc'[t] \in PosterLabels => pc[t] \in PosterLabels,
           t = Executor => pc'[t] # "done",
           handle' # "reset" /\ shutdown' # "discard" => handle # "reset" /\ shutdown # "discard"
    PROVE  MailOK'
<1> USE ThreadFacts
<1>1. UNCHANGED <<mailbox_, mailbox_accepting_, executor_stopping_, drain_mailbox_, posted, taken, discarded, Isolated>>
  BY DEF mailbox, log, Isolated
<1>2. \A u \in Threads \ {t} : (pc'[u] \in PosterLabels <=> pc[u] \in PosterLabels) /\ (pc'[u] = "done" <=> pc[u] = "done")
  BY DEF Others, Near, PosterLabels
<1>3. \A w \in Workers : pc'[w] \in PosterLabels => event'[w] \in Events
  BY <1>2 DEF MailOK, PosterLabels
<1>4. pc'[Executor] = "done" => pc[Executor] = "done"
  BY <1>2
<1> QED BY <1>1, <1>3, <1>4 DEF MailOK, PosterLabels

LEMMA MailStep == ASSUME SubInv, Types', Next PROVE MailOK'
<1> USE ThreadFacts DEF SubInv
<1>0. UNCHANGED options_ /\ Isolated' = Isolated
  BY LabelsStep DEF Isolated
<1>1. ASSUME NEW w \in Workers, Offer(w) PROVE MailOK'
  <2>1. Others(w) /\ pc[w] = "idle" /\ pc'[w] \in {"post", "begin"}
    BY <1>1, Moved DEF Move
  <2>2. /\ UNCHANGED <<mailbox_, mailbox_accepting_, executor_stopping_, drain_mailbox_, posted, taken, discarded, handle, shutdown>>
        /\ event' = [event EXCEPT ![w] = offered_ + 1] /\ offered_ < MaxOffers
    BY <1>1 DEF Offer, mailbox, log, membership
  <2>3. offered_ + 1 \in Events
    BY <2>2, OptionsAssumption DEF Types, Events
  <2>4. \A u \in Workers : pc'[u] \in PosterLabels => event'[u] \in Events
    <3>1. event'[w] \in Events /\ \A u \in Workers \ {w} : event'[u] = event[u]
      BY <2>2, <2>3 DEF Types
    <3>2. \A u \in Workers \ {w} : pc'[u] \in PosterLabels => pc[u] \in PosterLabels
      BY <2>1 DEF Others, Near, PosterLabels
    <3> QED BY <3>1, <3>2 DEF MailOK, PosterLabels
  <2>5. pc'[Executor] = "done" => pc[Executor] = "done"
    BY <2>1 DEF Others, Near
  <2> QED BY <1>0, <2>2, <2>4, <2>5 DEF MailOK, PosterLabels
<1>2. ASSUME NEW t \in Callers, BeginInvocation(t) \/ CallbackReturns(t) \/ FinishInvocation(t) \/ NotifyIdle(t) PROVE MailOK'
  <2>1. UNCHANGED <<mailbox, log, event, handle, shutdown>>
    BY <1>2 DEF BeginInvocation, CallbackReturns, FinishInvocation, NotifyIdle, membership
  <2>2. Others(t) /\ pc'[t] \notin PosterLabels /\ pc'[t] # "done"
    BY <1>2, Moved, WakingMoves DEF Move, PosterLabels
  <2> QED BY <1>0, <2>1, <2>2, MailMove
<1>3. ASSUME NEW w \in Workers, LockSerial(w) \/ NotifyReady(w) PROVE MailOK'
  <2>1. UNCHANGED <<mailbox, log, event, handle, shutdown>>
    BY <1>3 DEF LockSerial, NotifyReady, membership
  <2>2. Others(w) /\ pc'[w] \notin PosterLabels
    BY <1>3, Moved, WakingMoves DEF Move, PosterLabels
  <2> QED BY <1>0, <2>1, <2>2, MailMove
<1>4. ASSUME NEW w \in Workers, Post(w) PROVE MailOK'
  <2>1. Others(w) /\ pc[w] \in PosterLabels
    BY <1>4, Moved DEF Move, PosterLabels
  <2>2. UNCHANGED <<mailbox_accepting_, executor_stopping_, drain_mailbox_, taken, discarded, event, handle, shutdown>>
    BY <1>4 DEF Post, membership
  <2>3. CASE UNCHANGED <<mailbox_, posted>>
    <3>1. UNCHANGED <<mailbox, log>>
      BY <2>2, <2>3 DEF mailbox, log
    <3> QED BY <1>0, <2>1, <2>2, <3>1, MailMove
  <2>4. CASE Accepting /\ ~Full /\ mailbox_' = Append(mailbox_, event[w]) /\ posted' = Append(posted, event[w])
    <3>1. event[w] \in Events
      BY <2>1 DEF MailOK, PosterLabels
    <3>2. Ledger(posted', taken', discarded', mailbox_')
      BY <2>2, <2>4, <3>1, LedgerPush DEF MailOK, Types
    <3>3. Len(mailbox_') = Len(mailbox_) + 1 /\ Len(mailbox_) \in Nat
      BY <2>4, <3>1, AppendElements, LenProperties DEF Types
    <3>4. Len(mailbox_') <= MailboxCapacity
      BY <2>4, <3>3, OptionsAssumption DEF Full, MailOK
    <3>5. mailbox_accepting_ /\ drain_mailbox_ /\ discarded = <<>> /\ ~(Isolated /\ pc[Executor] = "done")
      BY <2>4 DEF Accepting, MailOK
    <3>6. \A u \in Workers : pc'[u] \in PosterLabels => event'[u] \in Events
      <4>1. \A u \in Workers \ {w} : pc'[u] \in PosterLabels => pc[u] \in PosterLabels
        BY <2>1 DEF Others, Near, PosterLabels
      <4> QED BY <2>2, <3>1, <4>1 DEF MailOK, PosterLabels
    <3>7. pc'[Executor] = "done" => pc[Executor] = "done"
      BY <2>1 DEF Others, Near
    <3> QED BY <1>0, <2>2, <3>2, <3>4, <3>5, <3>6, <3>7 DEF MailOK, PosterLabels
  <2> QED BY <1>4, <2>3, <2>4 DEF Post
<1>5. ASSUME ExecutorLoop PROVE MailOK'
  <2>1. Others(Executor) /\ pc[Executor] = "loop" /\ pc'[Executor] \in {"asleep", "done", "notify_space"}
    BY <1>5, Moved DEF Move
  <2>2. UNCHANGED <<mailbox_accepting_, executor_stopping_, drain_mailbox_, posted, discarded, handle, shutdown>>
    BY <1>5 DEF ExecutorLoop, membership
  <2>3. \A l : Goto(Executor, l) => pc'[Executor] = l
    BY DEF Goto, Types
  <2>4. \A w \in Workers : event'[w] = event[w]
    BY <1>5 DEF ExecutorLoop, Types
  <2>5. \A w \in Workers : pc'[w] \in PosterLabels => pc[w] \in PosterLabels
    BY <2>1 DEF Others, Near, PosterLabels
  <2>6. \A w \in Workers : pc'[w] \in PosterLabels => event'[w] \in Events
    BY <2>4, <2>5 DEF MailOK, PosterLabels
  <2>7. CASE pc'[Executor] = "asleep"
    <3>1. UNCHANGED <<mailbox, log>>
      BY <1>5, <2>2, <2>3, <2>7 DEF ExecutorLoop, mailbox, log
    <3> QED BY <1>0, <2>1, <2>2, <2>4, <2>7, <3>1, MailMove
  <2>8. CASE pc'[Executor] = "done"
    <3>1. UNCHANGED <<mailbox_, taken>> /\ ExecutorExits
      BY <1>5, <2>3, <2>8 DEF ExecutorLoop
    <3>2. ~mailbox_accepting_ /\ mailbox_ = <<>>
      BY <3>1 DEF ExecutorExits, MailOK
    <3> QED BY <1>0, <2>2, <2>6, <3>1, <3>2 DEF MailOK, PosterLabels
  <2>9. CASE pc'[Executor] = "notify_space"
    <3>1. mailbox_ # <<>> /\ mailbox_' = Tail(mailbox_) /\ taken' = Append(taken, Head(mailbox_))
      BY <1>5, <2>3, <2>9 DEF ExecutorLoop, MailReady, ExecutorExits
    <3>2. drain_mailbox_ /\ discarded = <<>>
      BY <3>1 DEF MailOK
    <3>3. Ledger(posted', taken', discarded', mailbox_')
      BY <2>2, <3>1, <3>2, LedgerPop DEF MailOK, Types
    <3>4. Len(mailbox_') = Len(mailbox_) - 1 /\ Len(mailbox_) \in Nat
      BY <3>1, TailElements, LenProperties DEF Types
    <3>5. Len(mailbox_') <= MailboxCapacity
      BY <3>4, OptionsAssumption DEF MailOK
    <3> QED BY <1>0, <2>2, <2>6, <2>9, <3>2, <3>3, <3>5 DEF MailOK, PosterLabels
  <2> QED BY <2>1, <2>7, <2>8, <2>9
<1>6. ASSUME NotifySpace PROVE MailOK'
  <2>1. UNCHANGED <<mailbox, log, event, handle, shutdown>>
    BY <1>6 DEF NotifySpace, membership
  <2>2. Others(Executor) /\ pc'[Executor] = "begin"
    BY <1>6, WakingMoves DEF Move
  <2> QED BY <1>0, <2>1, <2>2, MailMove
<1>7. ASSUME NEW t \in Threads, StopMailbox(t) PROVE MailOK'
  <2>1. Others(t) /\ pc[t] = "stop" /\ pc'[t] = "stop_notify"
    BY <1>7, Moved DEF Move
  <2>2. /\ UNCHANGED <<posted, taken, event, handle, shutdown>>
        /\ mailbox_accepting_' = FALSE /\ executor_stopping_' = TRUE
        /\ drain_mailbox_' = (drain_mailbox_ /\ Drains(t))
    BY <1>7 DEF StopMailbox, membership
  <2>3. \A w \in Workers : pc'[w] \in PosterLabels => event'[w] \in Events
    <3>1. \A w \in Workers : pc'[w] \in PosterLabels => pc[w] \in PosterLabels
      BY <2>1 DEF Others, Near, PosterLabels
    <3> QED BY <2>2, <3>1 DEF MailOK, PosterLabels
  <2>4. pc'[Executor] = "done" => pc[Executor] = "done"
    BY <2>1 DEF Others, Near
  <2>5. CASE Drains(t)
    <3>1. UNCHANGED <<mailbox_, discarded>>
      BY <1>7, <2>5 DEF StopMailbox
    <3>2. drain_mailbox_' <=> drain_mailbox_
      BY <2>2, <2>5
    <3> QED BY <1>0, <2>2, <2>3, <2>4, <3>1, <3>2 DEF MailOK, PosterLabels
  <2>6. CASE ~Drains(t)
    <3>1. discarded' = discarded \o mailbox_ /\ mailbox_' = <<>>
      BY <1>7, <2>6 DEF StopMailbox
    <3>2. Ledger(posted', taken', discarded', mailbox_')
      BY <2>2, <3>1, LedgerClear DEF MailOK, Types
    <3>3. handle = "reset" \/ shutdown = "discard"
      <4>1. CASE t = Stopper
        BY <2>1, <2>6, <4>1 DEF Drains, MembersOK, Types
      <4>2. CASE t # Stopper
        BY <2>1, <4>2 DEF MembersOK, LeavingLabels
      <4> QED BY <4>1, <4>2
    <3>4. Len(mailbox_') <= MailboxCapacity
      BY <3>1, OptionsAssumption
    <3> QED BY <1>0, <2>2, <2>3, <3>1, <3>2, <3>3, <3>4 DEF MailOK, PosterLabels
  <2> QED BY <2>5, <2>6
<1>8. ASSUME NEW t \in Threads, StopDirect(t) \/ StopNotify(t) \/ LockJoin(t) \/ Join(t) PROVE MailOK'
  <2>1. UNCHANGED <<mailbox, log, event, handle, shutdown>>
    BY <1>8 DEF StopDirect, StopNotify, LockJoin, Join, membership
  <2>2. Others(t) /\ pc'[t] \in {"lock_join", "joining", AfterStop(t)}
    BY <1>8, Moved, WakingMoves DEF Move
  <2> QED BY <1>0, <2>1, <2>2, StopLabels, MailMove DEF PosterLabels
<1>9. ASSUME NEW t \in Threads, Unsubscribe(t) \/ Retire(t) \/ AwaitIdle(t) PROVE MailOK'
  <2>1. UNCHANGED <<mailbox, log, event, shutdown>> /\ (handle' = handle \/ handle' = "reset")
    BY <1>9 DEF Unsubscribe, Retire, AwaitIdle, membership
  <2>2. Others(t) /\ pc'[t] \in {"retire", "stop", "returned", "waiting"}
    BY <1>9, Moved DEF Move
  <2> QED BY <1>0, <2>1, <2>2, MailMove DEF PosterLabels
<1>10. ASSUME NEW policy \in {"drain", "discard"}, Shutdown(policy) \/ Stopped PROVE MailOK'
  <2>1. UNCHANGED <<mailbox, log, event, handle>> /\ (shutdown' = shutdown \/ pc[Stopper] = "idle")
    BY <1>10 DEF Shutdown, Stopped, membership
  <2>2. pc[Stopper] = "idle" => shutdown # "discard"
    BY DEF MembersOK
  <2>3. Others(Stopper)
    BY <1>10, Moved DEF Move
  <2> QED BY <1>0, <2>1, <2>2, <2>3, MailMove
<1>11. ASSUME NEW t \in Threads, SpuriousWake(t) \/ Rest PROVE MailOK'
  <2>1. UNCHANGED <<mailbox, log, event, handle, shutdown>>
    BY <1>11 DEF SpuriousWake, Rest, vars, mailbox, log, membership
  <2>2. \A u \in Threads : Near(u)
    BY <1>11, Moved DEF Rest, vars, Near
  <2>3. Others(Stopper)
    BY <2>2 DEF Others
  <2> QED BY <1>0, <2>1, <2>3, MailMove
<1> QED BY <1>1, <1>2, <1>3, <1>4, <1>5, <1>6, <1>7, <1>8, <1>9, <1>10, <1>11 DEF Next, Step, StopStep
-----------------------------------------------------------------------------
(* What the executor delivers. *)

HoldingLabels == {"notify_space", "begin", "callback"}

LEMMA DeliveriesMove ==
    ASSUME DeliveriesOK, UNCHANGED <<options_, taken, delivered_>>,
           handle' # "reset" /\ Isolated =>
               handle # "reset" /\ (pc'[Executor] \in HoldingLabels <=> pc[Executor] \in HoldingLabels)
    PROVE  DeliveriesOK'
BY DEF DeliveriesOK, Isolated, HoldingLabels, One

LEMMA DeliveriesStep == ASSUME SubInv, Types', Next PROVE DeliveriesOK'
<1> USE ThreadFacts DEF SubInv
<1>0. UNCHANGED options_ /\ Isolated' = Isolated
  BY LabelsStep DEF Isolated
<1>00. Len(taken) \in Nat /\ delivered_ \in Nat /\ taken \in Seq(Events)
  BY LenProperties DEF Types
<1>1. \A u \in Threads : Near(u) => (pc'[u] \in HoldingLabels <=> pc[u] \in HoldingLabels)
  BY DEF Near, HoldingLabels
<1>2. ASSUME NEW t \in Threads, t # Executor, Others(t), UNCHANGED <<taken, delivered_>>, handle' = handle \/ handle' = "reset"
      PROVE  DeliveriesOK'
  BY <1>0, <1>1, <1>2, DeliveriesMove DEF Others
<1>3. ASSUME NEW w \in Workers, Offer(w) \/ LockSerial(w) \/ NotifyReady(w) \/ Post(w) PROVE DeliveriesOK'
  <2>1. Others(w) /\ w # Executor
    BY <1>3, Moved, WakingMoves DEF Move
  <2>2. UNCHANGED <<taken, delivered_, handle>>
    BY <1>3 DEF Offer, LockSerial, NotifyReady, Post, metrics, log, membership
  <2> QED BY <1>2, <2>1, <2>2
<1>4. ASSUME NEW t \in Callers, BeginInvocation(t) \/ FinishInvocation(t) \/ NotifyIdle(t) PROVE DeliveriesOK'
  <2>1. Others(t)
    BY <1>4, Moved, WakingMoves DEF Move
  <2>2. UNCHANGED <<taken, delivered_, handle, active_>>
    BY <1>4 DEF BeginInvocation, FinishInvocation, NotifyIdle, metrics, log, membership
  <2>3. CASE t # Executor
    BY <1>2, <2>1, <2>2, <2>3
  <2>4. CASE t = Executor
    <3>1. ASSUME handle # "reset", Isolated PROVE pc'[t] \in HoldingLabels <=> pc[t] \in HoldingLabels
      <4>1. active_ /\ options_.delivery # "serialized"
        BY <3>1 DEF MembersOK, Isolated
      <4> QED BY <1>4, <2>4, <4>1, Moved, WakingMoves DEF Move, HoldingLabels
    <3> QED BY <1>0, <2>2, <2>4, <3>1, DeliveriesMove
  <2> QED BY <2>3, <2>4
<1>5. ASSUME NEW t \in Callers, CallbackReturns(t) PROVE DeliveriesOK'
  <2>1. pc[t] = "callback" /\ pc'[t] = "finish"
    BY <1>5, Moved DEF Move
  <2>2. delivered_' = delivered_ + 1 /\ UNCHANGED <<taken, handle>>
    BY <1>5 DEF CallbackReturns, log, membership
  <2>3. Isolated => t = Executor
    BY <2>1 DEF LabelsOK, LabelsOf, PostLabels
  <2> QED BY <1>0, <1>00, <2>1, <2>2, <2>3 DEF DeliveriesOK, One
<1>6. ASSUME ExecutorLoop PROVE DeliveriesOK'
  <2>1. pc[Executor] = "loop" /\ pc'[Executor] \in {"asleep", "done", "notify_space"}
    BY <1>6, Moved DEF Move
  <2>2. UNCHANGED <<delivered_, handle>>
    BY <1>6 DEF ExecutorLoop, metrics, membership
  <2>3. \A l : Goto(Executor, l) => pc'[Executor] = l
    BY DEF Goto, Types
  <2>4. CASE pc'[Executor] # "notify_space"
    <3>1. UNCHANGED taken
      BY <1>6, <2>3, <2>4 DEF ExecutorLoop
    <3> QED BY <1>0, <2>1, <2>2, <2>4, <3>1, DeliveriesMove DEF HoldingLabels
  <2>5. CASE pc'[Executor] = "notify_space"
    <3>1. mailbox_ # <<>> /\ taken' = Append(taken, Head(mailbox_))
      BY <1>6, <2>3, <2>5 DEF ExecutorLoop, MailReady, ExecutorExits
    <3>2. Len(taken') = Len(taken) + 1
      BY <1>00, <3>1, TailElements, AppendElements DEF Types
    <3> QED BY <1>0, <1>00, <2>1, <2>2, <2>5, <3>2 DEF DeliveriesOK, One
  <2> QED BY <2>4, <2>5
<1>7. ASSUME NotifySpace PROVE DeliveriesOK'
  <2>1. pc[Executor] = "notify_space" /\ pc'[Executor] = "begin"
    BY <1>7, WakingMoves DEF Move
  <2>2. UNCHANGED <<taken, delivered_, handle>>
    BY <1>7 DEF NotifySpace, metrics, log, membership
  <2> QED BY <1>0, <2>1, <2>2, DeliveriesMove DEF HoldingLabels
<1>8. ASSUME NEW t \in Threads, StopStep(t) \/ Retire(t) \/ AwaitIdle(t) PROVE DeliveriesOK'
  <2>1. Others(t) /\ pc[t] \in LeavingLabels
    BY <1>8, Moved, WakingMoves DEF Move, StopStep, LeavingLabels
  <2>2. UNCHANGED <<taken, delivered_, handle>>
    BY <1>8 DEF StopStep, StopMailbox, StopDirect, StopNotify, LockJoin, Join, Retire, AwaitIdle, metrics, log, membership
  <2>3. t = Executor => handle = "reset"
    BY <2>1 DEF MembersOK
  <2> QED BY <1>0, <1>2, <2>1, <2>2, <2>3, DeliveriesMove
<1>9. ASSUME NEW t \in Threads, Unsubscribe(t) PROVE DeliveriesOK'
  <2>1. handle' = "reset"
    BY <1>9 DEF Unsubscribe
  <2> QED BY <2>1 DEF DeliveriesOK
<1>10. ASSUME NEW policy, Shutdown(policy) \/ Stopped PROVE DeliveriesOK'
  <2>1. Others(Stopper)
    BY <1>10, Moved DEF Move
  <2>2. UNCHANGED <<taken, delivered_, handle>>
    BY <1>10 DEF Shutdown, Stopped, metrics, log, membership
  <2> QED BY <1>2, <2>1, <2>2
<1>11. ASSUME NEW t \in Threads, SpuriousWake(t) \/ Rest PROVE DeliveriesOK'
  <2>1. UNCHANGED <<taken, delivered_, handle>>
    BY <1>11 DEF SpuriousWake, Rest, vars, metrics, log, membership
  <2>2. \A u \in Threads : Near(u)
    BY <1>11, Moved DEF Rest, vars, Near
  <2> QED BY <1>2, <2>1, <2>2 DEF Others
<1> QED BY <1>3, <1>4, <1>5, <1>6, <1>7, <1>8, <1>9, <1>10, <1>11 DEF Next, Step
-----------------------------------------------------------------------------
(* The invariant. *)

LEMMA SubInvInit == Init => SubInv
<1> SUFFICES ASSUME Init PROVE SubInv
  OBVIOUS
<1> USE ThreadFacts
<1>1. /\ options_ \in Subscriptions /\ handle = options_.handle /\ active_ = TRUE /\ in_flight_ = 0
      /\ mailbox_ = <<>> /\ mailbox_accepting_ = TRUE /\ executor_stopping_ = FALSE /\ drain_mailbox_ = TRUE
      /\ serial_owner = NoThread /\ join_owner = NoThread /\ joined = ~Isolated /\ retired = FALSE /\ shutdown = "none"
      /\ event = [t \in Callers |-> 0] /\ offered_ = 0 /\ delivered_ = 0 /\ dropped_ = 0 /\ rejected_ = 0
      /\ posted = <<>> /\ taken = <<>> /\ discarded = <<>>
  BY DEF Init
<1>2. /\ \A t \in Threads \ {Executor} : pc[t] = "idle"
      /\ pc[Executor] = IF Isolated THEN "loop" ELSE "done"
      /\ pc \in [Threads -> Labels]
  BY DEF Init, Labels
<1>3. handle # "reset" /\ handle \in {"owner", "callback"}
  BY <1>1, OptionsAssumption
<1>4. <<>> \in Seq(Events) /\ Len(<<>>) = 0
  OBVIOUS
<1>5. Types
  <2>1. joined \in BOOLEAN /\ MaxOffers \in Nat
    BY <1>1, OptionsAssumption DEF Isolated
  <2>2. event \in [Callers -> 0..MaxOffers] /\ offered_ \in 0..MaxOffers
    BY <1>1, <2>1
  <2>3. delivered_ \in Nat /\ dropped_ \in Nat /\ rejected_ \in Nat /\ in_flight_ \in Int
    BY <1>1
  <2>4. mailbox_ \in Seq(Events) /\ posted \in Seq(Events) /\ taken \in Seq(Events) /\ discarded \in Seq(Events)
    BY <1>1, <1>4
  <2> QED BY <1>1, <1>2, <1>3, <2>1, <2>2, <2>3, <2>4 DEF Types
<1>6. LabelsOK
  BY <1>2 DEF LabelsOK, LabelsOf, PostLabels, DirectLabels, ExecutorLabels, LeavingLabels, StopperLabels
<1>7. MembersOK
  BY <1>1, <1>2, <1>3 DEF MembersOK, LeavingLabels
<1>8. Inside = {} /\ Carriers = {}
  BY <1>2 DEF Inside, Running, Carriers, CarrierLabels
<1>9. InFlightOK /\ Accounted
  BY <1>1, <1>2, <1>4, <1>8, FS_EmptySet DEF InFlightOK, Accounted
<1>10. MailOK
  <2>1. Ledger(posted, taken, discarded, mailbox_)
    BY <1>1, <1>4, ConcatEmptySeq DEF Ledger
  <2> QED BY <1>1, <1>2, <1>4, <2>1, OptionsAssumption DEF MailOK
<1>11. DeliveriesOK
  BY <1>1, <1>2, <1>4 DEF DeliveriesOK, One
<1> QED BY <1>5, <1>6, <1>7, <1>9, <1>10, <1>11 DEF SubInv

LEMMA SubInvStutter == SubInv /\ UNCHANGED vars => SubInv'
<1> SUFFICES ASSUME SubInv, UNCHANGED vars PROVE SubInv'
  OBVIOUS
<1> USE DEF vars
<1>1. Types'
  BY DEF SubInv, Types
<1>2. LabelsOK' /\ MembersOK'
  BY DEF SubInv, LabelsOK, LabelsOf, MembersOK, Isolated
<1>3. InFlightOK' /\ Accounted'
  BY DEF SubInv, InFlightOK, Inside, Running, Accounted, Carriers
<1>4. MailOK' /\ DeliveriesOK'
  BY DEF SubInv, MailOK, DeliveriesOK, Isolated
<1> QED BY <1>1, <1>2, <1>3, <1>4 DEF SubInv

(* The inductive invariant holds in every reachable state. *)
THEOREM SubscriberInvariant == Spec => []SubInv
<1>1. SubInv /\ Next => SubInv'
  <2> SUFFICES ASSUME SubInv, Next PROVE SubInv'
    OBVIOUS
  <2>1. Types'
    BY TypesStep
  <2>2. LabelsOK' /\ MembersOK' /\ InFlightOK' /\ Accounted' /\ MailOK' /\ DeliveriesOK'
    BY <2>1, LabelsStep, MembersStep, CountStep, MailStep, DeliveriesStep
  <2> QED BY <2>1, <2>2 DEF SubInv
<1> QED BY <1>1, SubInvInit, SubInvStutter, PTL DEF Spec
-----------------------------------------------------------------------------
(* What follows. *)

LEMMA TypesFollow == SubInv => TypeOK
<1> SUFFICES ASSUME SubInv PROVE TypeOK
  OBVIOUS
<1>1. in_flight_ \in 0..Cardinality(Callers)
  <2>1. Cardinality(Inside) \in Nat /\ Cardinality(Callers) \in Nat /\ Cardinality(Inside) <= Cardinality(Callers)
    BY InsideIs, ThreadFacts, FS_Subset, FS_CardinalityType
  <2> QED BY <2>1 DEF SubInv, InFlightOK
<1> QED BY <1>1 DEF SubInv, Types, MailOK, TypeOK, Labels

(* Every field, lock and label has its type; in_flight_ never exceeds the number
   of callers nor does it underflow, and the mailbox keeps its bound. *)
THEOREM TypeCorrect == Spec => []TypeOK
BY SubscriberInvariant, TypesFollow, PTL

LEMMA SilenceFollows == SubInv => SilentAfterUnsubscribe
BY DEF SubInv, MembersOK, LeavingLabels, InFlightOK, SilentAfterUnsubscribe

(* When unsubscribe has returned to the owner's thread no callback runs, on a
   worker or on the executor, and none will start. *)
THEOREM UnsubscribeLeavesSilence == Spec => []SilentAfterUnsubscribe
BY SubscriberInvariant, SilenceFollows, PTL

(* The carriers, by where EveryOfferAccounted counts them. *)
Offering == {w \in Workers : pc[w] \in {"begin", "post", "parked", "woken"}}
Called == {t \in Callers : pc[t] = "serial"} \cup Running
Taking == IF pc[Executor] \in {"notify_space", "begin"} THEN {Executor} ELSE {}

LEMMA DisjointCount ==
    ASSUME NEW A, NEW B, IsFiniteSet(A), IsFiniteSet(B), A \cap B = {}
    PROVE  IsFiniteSet(A \cup B) /\ Cardinality(A \cup B) = Cardinality(A) + Cardinality(B)
<1>1. Cardinality(A) \in Nat /\ Cardinality(B) \in Nat
  BY FS_CardinalityType
<1>2. Cardinality(A \cap B) = 0
  BY FS_EmptySet
<1>3. IsFiniteSet(A \cup B) /\ Cardinality(A \cup B) = Cardinality(A) + Cardinality(B) - Cardinality(A \cap B)
  BY FS_Union
<1> QED BY <1>1, <1>2, <1>3

LEMMA AccountFollows == SubInv => EveryOfferAccounted
<1> SUFFICES ASSUME SubInv PROVE EveryOfferAccounted
  OBVIOUS
<1> USE ThreadFacts
<1>1. /\ \A w \in Workers : pc[w] # "notify_space"
      /\ pc[Executor] \notin {"post", "parked", "woken"}
  BY DEF SubInv, LabelsOK, LabelsOf, PostLabels, DirectLabels, ExecutorLabels
<1>2. Carriers = (Offering \cup Called) \cup Taking
  <2>1. ASSUME NEW t PROVE t \in Carriers <=> t \in Offering \/ t \in Called \/ t \in Taking
    <3>1. CASE t \in Workers
      BY <1>1, <3>1 DEF Carriers, CarrierLabels, Offering, Called, Running, Taking
    <3>2. CASE t = Executor
      BY <1>1, <3>2 DEF Carriers, CarrierLabels, Offering, Called, Running, Taking
    <3>3. CASE t \notin Callers
      BY <3>3 DEF Carriers, Offering, Called, Running, Taking
    <3> QED BY <3>1, <3>2, <3>3
  <2> QED BY <2>1
<1>3. Offering \cap Called = {} /\ (Offering \cup Called) \cap Taking = {}
  BY DEF Offering, Called, Running, Taking
<1>4. IsFiniteSet(Offering) /\ IsFiniteSet(Called) /\ IsFiniteSet(Taking)
  BY FS_Subset DEF Offering, Called, Running, Taking
<1>5. /\ Cardinality(Offering \cup Called) = Cardinality(Offering) + Cardinality(Called)
      /\ IsFiniteSet(Offering \cup Called)
  BY <1>3, <1>4, DisjointCount
<1>6. Cardinality(Carriers) = Cardinality(Offering \cup Called) + Cardinality(Taking)
  BY <1>2, <1>3, <1>4, <1>5, DisjointCount
<1>7. Cardinality(Taking) = IF pc[Executor] \in {"notify_space", "begin"} THEN 1 ELSE 0
  BY FS_EmptySet, FS_Singleton DEF Taking
<1>8. Cardinality(Offering) \in Nat /\ Cardinality(Called) \in Nat /\ Cardinality(Taking) \in Nat
  BY <1>4, FS_CardinalityType
<1>9. offered_ = Settled + Cardinality(Offering) + Cardinality(Called) + Cardinality(Taking)
  BY <1>5, <1>6, <1>8, SettledType DEF SubInv
<1> QED BY <1>7, <1>9 DEF EveryOfferAccounted, Settled, Offering, Called

(* Every offered event is on its way or counted once as delivered, dropped or
   rejected, whatever the delivery policy and whoever stops delivery when. *)
THEOREM OffersAreAccounted == Spec => []EveryOfferAccounted
BY SubscriberInvariant, AccountFollows, PTL

LEMMA StoppedFollows == SubInv => StoppedUnlessLeaving
<1> SUFFICES ASSUME SubInv, pc[Stopper] = "stopped"
             PROVE  Running \subseteq (IF handle = "reset" /\ Isolated THEN {Executor} ELSE {})
  BY DEF StoppedUnlessLeaving
<1>1. Running \subseteq {Executor}
  BY ThreadFacts DEF SubInv, MembersOK, Running
<1>2. ~Isolated => pc[Executor] = "done"
  BY ThreadFacts DEF SubInv, LabelsOK, LabelsOf
<1>3. handle # "reset" /\ Isolated => pc[Executor] = "done"
  BY DEF SubInv, MembersOK
<1>4. pc[Executor] = "done" => Executor \notin Running
  BY DEF Running
<1> QED BY <1>1, <1>2, <1>3, <1>4

(* Once shutdown has returned no callback runs, but for the executor of an
   isolated subscriber that had already been unsubscribed. *)
THEOREM ShutdownSilences == Spec => []StoppedUnlessLeaving
BY SubscriberInvariant, StoppedFollows, PTL

LEMMA DrainFollows == SubInv => DrainDelivers
<1> SUFFICES ASSUME SubInv, pc[Stopper] = "stopped", shutdown = "drain", handle # "reset", Isolated
             PROVE  /\ taken = posted /\ mailbox_ = <<>> /\ pc[Executor] = "done"
                    /\ delivered_ = Len(posted)
  BY DEF DrainDelivers
<1>1. pc[Executor] = "done"
  BY DEF SubInv, MembersOK
<1>2. mailbox_ = <<>> /\ discarded = <<>> /\ posted = (taken \o discarded) \o mailbox_
  BY <1>1 DEF SubInv, MailOK, Ledger
<1>3. taken = posted
  <2>1. taken \in Seq(Events)
    BY DEF SubInv, Types
  <2> QED BY <1>2, <2>1, ConcatEmptySeq
<1>4. Len(taken) = delivered_ /\ delivered_ \in Nat
  BY <1>1 DEF SubInv, DeliveriesOK, One, Types
<1> QED BY <1>1, <1>2, <1>3, <1>4

(* A drain shutdown that nobody unsubscribes from has handed every posted event
   to the callback by the time it returns. *)
THEOREM DrainLosesNothing == Spec => []DrainDelivers
BY SubscriberInvariant, DrainFollows, PTL
-----------------------------------------------------------------------------
(* The mailbox as a queue. *)

LEMMA MailboxStep == SubInv /\ [Next]_vars => [Mailbox!Next]_(Mailbox!vars)
<1> SUFFICES ASSUME SubInv, [Next]_vars PROVE Mailbox!Next \/ UNCHANGED Mailbox!vars
  OBVIOUS
<1> USE ThreadFacts DEF SubInv
<1> DEFINE Ended == Isolated /\ pc[Executor] = "done"
<1> DEFINE Quiet == UNCHANGED <<mailbox_, mailbox_accepting_, posted, taken, discarded>>
<1> DEFINE Goal == Mailbox!Next \/ UNCHANGED Mailbox!vars
<1>0. ASSUME Quiet, Ended' = Ended PROVE Goal
  BY <1>0 DEF Mailbox!vars
<1>1. CASE UNCHANGED vars
  BY <1>0, <1>1 DEF vars, Isolated
<1>2. SUFFICES ASSUME Next PROVE Goal
  BY <1>1
<1>3. Isolated' = Isolated
  BY <1>2, LabelsStep DEF Isolated
<1>4. ASSUME NEW t \in Threads, Others(t), t # Executor \/ (pc[t] # "done" /\ pc'[t] # "done") PROVE Ended' = Ended
  BY <1>3, <1>4 DEF Others, Near
<1>5. ASSUME NEW w \in Workers, Offer(w) \/ LockSerial(w) \/ NotifyReady(w) PROVE Goal
  <2>1. Others(w) /\ w # Executor
    BY <1>5, Moved, WakingMoves DEF Move
  <2>2. Quiet
    BY <1>5 DEF Offer, LockSerial, NotifyReady, mailbox, log
  <2> QED BY <1>0, <1>4, <2>1, <2>2
<1>6. ASSUME NEW w \in Workers, Post(w) PROVE Goal
  <2>1. Others(w) /\ w # Executor /\ pc[w] \in {"post", "woken"}
    BY <1>6, Moved DEF Move
  <2>2. UNCHANGED <<mailbox_accepting_, taken, discarded>>
    BY <1>6 DEF Post
  <2>3. Ended' = Ended
    BY <1>4, <2>1
  <2>4. CASE UNCHANGED <<mailbox_, posted>>
    BY <1>0, <2>2, <2>3, <2>4
  <2>5. CASE Accepting /\ ~Full /\ mailbox_' = Append(mailbox_, event[w]) /\ posted' = Append(posted, event[w])
    <3>1. event[w] \in Events
      BY <2>1 DEF MailOK
    <3>2. Len(mailbox_) < MailboxCapacity
      <4>1. Len(mailbox_) \in Nat
        BY LenProperties DEF Types
      <4> QED BY <2>5, <4>1, OptionsAssumption DEF Full, MailOK
    <3>3. Mailbox!Push(event[w])
      BY <2>2, <2>3, <2>5, <3>2 DEF Mailbox!Push, Accepting
    <3> QED BY <3>1, <3>3 DEF Mailbox!Next
  <2> QED BY <1>6, <2>4, <2>5 DEF Post
<1>7. ASSUME NEW t \in Callers, BeginInvocation(t) \/ CallbackReturns(t) \/ FinishInvocation(t) \/ NotifyIdle(t) PROVE Goal
  <2>1. Others(t) /\ pc[t] # "done" /\ pc'[t] # "done"
    BY <1>7, Moved, WakingMoves DEF Move
  <2>2. Quiet
    BY <1>7 DEF BeginInvocation, CallbackReturns, FinishInvocation, NotifyIdle, mailbox, log
  <2> QED BY <1>0, <1>4, <2>1, <2>2
<1>8. ASSUME ExecutorLoop PROVE Goal
  <2>1. Others(Executor) /\ pc[Executor] = "loop" /\ pc'[Executor] \in {"asleep", "done", "notify_space"}
    BY <1>8, Moved DEF Move
  <2>2. UNCHANGED <<mailbox_accepting_, posted, discarded>>
    BY <1>8 DEF ExecutorLoop
  <2>3. \A l : Goto(Executor, l) => pc'[Executor] = l
    BY DEF Goto, Types
  <2>4. CASE pc'[Executor] = "asleep"
    <3>1. Quiet
      BY <1>8, <2>2, <2>3, <2>4 DEF ExecutorLoop
    <3> QED BY <1>0, <1>4, <2>1, <2>4, <3>1
  <2>5. CASE pc'[Executor] = "done"
    <3>1. UNCHANGED <<mailbox_, taken>> /\ ExecutorExits
      BY <1>8, <2>3, <2>5 DEF ExecutorLoop
    <3>2. ~mailbox_accepting_ /\ mailbox_ = <<>>
      BY <3>1 DEF ExecutorExits, MailOK
    <3>3. Isolated
      BY <2>1 DEF LabelsOK, LabelsOf
    <3>4. Ended'
      BY <1>3, <2>5, <3>3
    <3>5. Mailbox!PopClosed
      BY <2>2, <3>1, <3>2, <3>4 DEF Mailbox!PopClosed
    <3> QED BY <3>5 DEF Mailbox!Next
  <2>6. CASE pc'[Executor] = "notify_space"
    <3>1. mailbox_ # <<>> /\ mailbox_' = Tail(mailbox_) /\ taken' = Append(taken, Head(mailbox_))
      BY <1>8, <2>3, <2>6 DEF ExecutorLoop, MailReady, ExecutorExits
    <3>2. Ended' = Ended
      BY <1>4, <2>1, <2>6
    <3>3. Mailbox!Pop
      BY <2>2, <3>1, <3>2 DEF Mailbox!Pop
    <3> QED BY <3>3 DEF Mailbox!Next
  <2> QED BY <2>1, <2>4, <2>5, <2>6
<1>9. ASSUME NotifySpace PROVE Goal
  <2>1. Others(Executor) /\ pc[Executor] # "done" /\ pc'[Executor] # "done"
    BY <1>9, WakingMoves DEF Move
  <2>2. Quiet
    BY <1>9 DEF NotifySpace, mailbox, log
  <2> QED BY <1>0, <1>4, <2>1, <2>2
<1>10. ASSUME NEW t \in Threads, StopMailbox(t) PROVE Goal
  <2>1. Others(t) /\ pc[t] # "done" /\ pc'[t] # "done"
    BY <1>10, Moved DEF Move
  <2>2. Ended' = Ended
    BY <1>4, <2>1
  <2>3. UNCHANGED <<posted, taken>> /\ mailbox_accepting_' = FALSE
    BY <1>10 DEF StopMailbox
  <2>4. CASE Drains(t)
    <3>1. Mailbox!Close
      BY <1>10, <2>2, <2>3, <2>4 DEF StopMailbox, Mailbox!Close
    <3> QED BY <3>1 DEF Mailbox!Next
  <2>5. CASE ~Drains(t)
    <3>1. Mailbox!CloseAndDiscard
      BY <1>10, <2>2, <2>3, <2>5 DEF StopMailbox, Mailbox!CloseAndDiscard
    <3> QED BY <3>1 DEF Mailbox!Next
  <2> QED BY <2>4, <2>5
<1>11. ASSUME NEW t \in Threads, StopDirect(t) \/ StopNotify(t) \/ LockJoin(t) \/ Join(t) PROVE Goal
  <2>1. Others(t) /\ pc[t] # "done" /\ pc'[t] # "done"
    BY <1>11, Moved, WakingMoves, StopLabels DEF Move
  <2>2. Quiet
    BY <1>11 DEF StopDirect, StopNotify, LockJoin, Join, mailbox, log
  <2> QED BY <1>0, <1>4, <2>1, <2>2
<1>12. ASSUME NEW t \in Threads, Unsubscribe(t) \/ Retire(t) \/ AwaitIdle(t) PROVE Goal
  <2>1. Others(t) /\ pc[t] # "done" /\ pc'[t] # "done"
    <3>1. CASE Unsubscribe(t)
      <4>1. pc[t] # "done"
        BY <3>1 DEF Unsubscribe
      <4>2. Move(t, pc[t], "retire")
        BY <3>1, Moved
      <4> QED BY <4>1, <4>2 DEF Move
    <3>2. CASE Retire(t)
      BY <3>2, Moved DEF Move
    <3>3. CASE AwaitIdle(t)
      BY <3>3, Moved DEF Move
    <3> QED BY <1>12, <3>1, <3>2, <3>3
  <2>2. Quiet
    BY <1>12 DEF Unsubscribe, Retire, AwaitIdle, mailbox, log
  <2> QED BY <1>0, <1>4, <2>1, <2>2
<1>13. ASSUME NEW policy, Shutdown(policy) \/ Stopped PROVE Goal
  <2>1. Others(Stopper) /\ Stopper # Executor
    BY <1>13, Moved DEF Move
  <2>2. Quiet
    BY <1>13 DEF Shutdown, Stopped, mailbox, log
  <2> QED BY <1>0, <1>4, <2>1, <2>2
<1>14. ASSUME NEW t \in Threads, SpuriousWake(t) \/ Rest PROVE Goal
  <2>1. \A u \in Threads : Near(u)
    BY <1>14, Moved DEF Rest, vars, Near
  <2>2. Others(Stopper) /\ Stopper # Executor
    BY <2>1 DEF Others
  <2>3. Quiet
    BY <1>14 DEF SpuriousWake, Rest, vars, mailbox, log
  <2> QED BY <1>0, <1>4, <2>2, <2>3
<1> QED BY <1>2, <1>5, <1>6, <1>7, <1>8, <1>9, <1>10, <1>11, <1>12, <1>13, <1>14 DEF Next, Step, StopStep

(* The mailbox implements the contract of a queue policy: a bounded FIFO that
   closes, or closes and discards, and whose consumer ends on an empty one. *)
THEOREM MailboxRefinesQueue == Spec => MailboxIsQueue
<1>1. Init => Mailbox!Init
  <2> SUFFICES ASSUME Init PROVE Mailbox!Init
    OBVIOUS
  <2>1. pc[Executor] = IF Isolated THEN "loop" ELSE "done"
    BY ThreadFacts DEF Init
  <2>2. (Isolated /\ pc[Executor] = "done") = FALSE
    BY <2>1
  <2>3. mailbox_ = <<>> /\ posted = <<>> /\ taken = <<>> /\ discarded = <<>> /\ mailbox_accepting_ = TRUE
    BY DEF Init
  <2> QED BY <2>2, <2>3 DEF Mailbox!Init
<1> QED BY <1>1, MailboxStep, SubscriberInvariant, PTL DEF Spec, MailboxIsQueue, Mailbox!Spec
=============================================================================
