--------------------------- MODULE DispatcherProofs ---------------------------
(***************************************************************************)
(* Proofs about Dispatcher for every number of threads and subscribers,    *)
(* every queue capacity, batch size and program: the types, that no        *)
(* subscriber misses an event accepted while it was subscribed, that       *)
(* unsubscribe leaves silence behind it, that no subscriber joins once     *)
(* shutdown has begun, that a completed shutdown has handled every event,  *)
(* and that the metrics are exact then.                                    *)
(*                                                                         *)
(* The invariant has one part per concern; each part is kept by a step     *)
(* that changes nothing it speaks of, so that only the actions of that     *)
(* concern need an argument.                                               *)
(***************************************************************************)
EXTENDS Dispatcher, SequenceFacts, TLAPS, FiniteSetTheorems, FunctionTheorems

(* Where each kind of thread can be. *)
PublishLabels == {"check", "push", "count_accepted", "count_rejected"}
MemberLabels == {"register", "registered", "retire", "retired", "await"}
ClosingLabels == {"close", "count_dropped", "join", "stop"}
ShutdownLabels == ClosingLabels \cup {"notify", "waiting", "woken", "returned"}
WorkerLabels == {"loop", "fill", "snapshot", "offer", "callback", "done"}
OwnerLabels == {"construct", "abandon", "gone"}

LabelsOf(t) ==
    IF t \in Workers THEN WorkerLabels \cup PublishLabels \cup MemberLabels
    ELSE IF t \in Publishers THEN {"idle"} \cup PublishLabels
    ELSE IF t \in Clients THEN {"idle"} \cup MemberLabels
    ELSE IF t \in Stoppers THEN {"idle"} \cup ShutdownLabels
    ELSE {"idle"} \cup OwnerLabels \cup ShutdownLabels

LabelsOK == \A t \in Threads : pc[t] \in LabelsOf(t)

Labels == {"idle"} \cup PublishLabels \cup MemberLabels \cup ShutdownLabels \cup WorkerLabels \cup OwnerLabels

Lifecycles == {"created", "running", "drain_stopping", "discard_stopping", "stopped"}

(* TypeOK without the bounds of the queue and of the batches. *)
Types ==
    /\ program \in Programs /\ lifecycle \in Lifecycles
    /\ lifecycle_mutex_ \in Registrants \cup {NoThread} /\ stop_requested \in BOOLEAN
    /\ items \in Seq(Nat) /\ closed \in BOOLEAN /\ ended \in BOOLEAN
    /\ pushed \in Seq(Nat) /\ taken \in Seq(Nat) /\ discarded \in Seq(Nat)
    /\ accepted \in Nat /\ rejected \in Nat /\ dropped \in Nat /\ tried \in Nat
    /\ current \in Seq(Subscribers) /\ next \in Seq(Subscribers)
    /\ writer_mutex \in Registrants \cup {NoThread}
    /\ active \in [Subscribers -> BOOLEAN]
    /\ handle \in [Subscribers -> {"none", "held", "reset", "gone"}]
    /\ target \in [Registrants -> Subscribers \cup {NoThread}]
    /\ pc \in [Threads -> Labels]
    /\ call \in [Callers -> Kinds] /\ left \in [Callers -> 0..BatchLength] /\ event \in [Callers -> Nat]
    /\ batch \in [Workers -> Seq(Nat)]
    /\ snapshot \in [Workers -> Seq(Subscribers)] /\ todo \in [Workers -> Seq(Subscribers)]
    /\ audience \in Seq(SUBSET Subscribers) /\ heard \in [Subscribers -> Seq(Nat)]

(* Publications: how much of a batch is left; events are numbered, and a number
   is pushed at most once. *)
PublishOK ==
    /\ \A t \in Callers : pc[t] \in PublishLabels => left[t] # 0
    /\ Distinct(pushed) /\ \A e \in Elements(pushed) : e <= tried
    /\ \A t \in Callers : pc[t] = "push" => event[t] <= tried /\ event[t] \notin Elements(pushed)
    /\ \A t, u \in Callers : pc[t] = "push" /\ pc[u] = "push" /\ event[t] = event[u] => t = u

(* The queue, as its contract has it. *)
QueueOK ==
    /\ Len(items) <= QueueCapacity
    /\ Ledger(pushed, taken, discarded, items)
    /\ ended \/ discarded # <<>> => closed /\ items = <<>>

(* The workers' batches. *)
BatchOK ==
    \A w \in Workers :
        /\ batch[w] = <<>> <=> pc[w] \in {"loop", "done"}
        /\ Len(batch[w]) <= WorkerBatchSize
        /\ Elements(batch[w]) \subseteq Elements(taken)
        /\ InCallback(w) => todo[w] # <<>>

(* Before Construct nothing happens; what the constructor leaves when it throws. *)
CreatedOK ==
    /\ lifecycle = "created" =>
           /\ pc[Owner] \in OwnerLabels /\ pushed = <<>> /\ items = <<>>
           /\ \A w \in Workers : pc[w] \in {"loop", "done"}
           /\ \A t \in Threads \ (Workers \cup {Owner}) : pc[t] = "idle"
           /\ \A s \in Subscribers : handle[s] = "none"
    /\ pc[Owner] \in {"construct", "abandon"} => lifecycle = "created"
    /\ pc[Owner] = "construct" => ~stop_requested /\ \A w \in Workers \cap program.threads : pc[w] # "done"
    /\ pc[Owner] = "gone" => lifecycle = "stopped" \/ (lifecycle = "created" /\ WorkersDone)
    /\ stop_requested => lifecycle \in {"created", "stopped"}

(* Shutdown: one thread closes the queue and joins the workers; the queue is
   closed by nobody else, and a worker of the program ends on a closed queue. *)
ShutdownOK ==
    /\ \A t, u \in Threads : pc[t] \in ClosingLabels /\ pc[u] \in ClosingLabels => t = u
    /\ \A t \in Threads :
           /\ pc[t] \in ClosingLabels => lifecycle \in {"drain_stopping", "discard_stopping"}
           /\ pc[t] \in {"notify", "returned"} => lifecycle = "stopped"
           /\ pc[t] = "close" => ~closed
           /\ pc[t] \in ClosingLabels \ {"close"} => closed
           /\ pc[t] = "stop" => WorkersDone
    /\ lifecycle \in {"created", "running"} => ~closed
    /\ lifecycle = "stopped" => closed /\ WorkersDone
    /\ \A w \in Workers \cap program.threads : pc[w] = "done" => ended \/ lifecycle = "created"

Counting == {t \in Callers : pc[t] = "count_accepted"}

(* accepted lags behind the queue by the calls that are about to count. *)
AcceptedOK == Len(pushed) = accepted + Cardinality(Counting)

Trying == {t \in Callers : pc[t] \in {"push", "count_rejected"}}

(* An event that was tried is in the queue's history, counted as rejected or in the
   hands of a call that has yet to do one of them, unless its constructor threw. *)
RejectedOK ==
    /\ Len(pushed) + rejected + Cardinality(Trying) <= tried
    /\ program.throws \/ Len(pushed) + rejected + Cardinality(Trying) = tried

(* What was discarded is counted once, by the thread that closed the queue. *)
DroppedOK ==
    /\ ~closed => dropped = 0 /\ discarded = <<>>
    /\ \A t \in Threads : /\ pc[t] = "count_dropped" => dropped = 0
                          /\ pc[t] \in {"join", "stop"} => dropped = Len(discarded)
    /\ lifecycle = "stopped" => dropped = Len(discarded)

(* The metrics. *)
CountsOK == AcceptedOK /\ RejectedOK /\ DroppedOK

(* Handles and the threads that subscribe and unsubscribe. *)
HandlesOK ==
    /\ \A t \in Registrants : target[t] \in Subscribers <=> pc[t] \in MemberLabels
    /\ \A t, u \in Registrants : target[t] = target[u] /\ target[t] # NoThread => t = u
    /\ \A t \in Registrants :
           /\ pc[t] \in {"register", "registered"} =>
                  handle[target[t]] = "none" /\ lifecycle_mutex_ = t /\ lifecycle = "running"
           /\ pc[t] = "registered" => active[target[t]]
           /\ pc[t] \in {"retire", "retired", "await"} => handle[target[t]] = "reset"
    /\ \A s \in Subscribers : /\ handle[s] \in {"reset", "gone"} => ~active[s]
                              /\ handle[s] = "held" => active[s]
                              /\ handle[s] = "gone" => InFlight(s) = {}

HeldIn(list) == \A s \in Subscribers : handle[s] = "held" => s \in Elements(list)

(* The registry: the list has every held subscriber once, and so has the list a
   writer is about to publish. *)
RegistryOK ==
    /\ Distinct(current) /\ HeldIn(current)
    /\ \A s \in Elements(current) : handle[s] # "none"
    /\ \A t \in Registrants : pc[t] \in {"registered", "retired"} =>
           /\ writer_mutex = t /\ Distinct(next) /\ HeldIn(next)
           /\ pc[t] = "registered" => Elements(next) \subseteq Elements(current) \cup {target[t]}
                                      /\ target[t] \in Elements(next)
           /\ pc[t] = "retired" => Elements(next) \subseteq Elements(current)

(* Workers at broadcast_batch. *)
Broadcasting(w) == pc[w] = "offer" \/ InCallback(w)

(* Subscriber s is still to be given event e in the round of worker w, or has been. *)
Due(w, e, s) == s \in Elements(todo[w]) \/ e \in Elements(heard[s])

(* What worker w owes the audience of the events of its batch. *)
Owes(w) ==
    Broadcasting(w) =>
        \A i \in DOMAIN pushed : \A s \in audience[i] : handle[s] = "held" =>
            /\ pushed[i] \in Elements(batch[w]) => s \in Elements(snapshot[w])
            /\ pushed[i] = Head(batch[w]) => Due(w, pushed[i], s)

(* The callback that worker w runs has been given the event. *)
Gives(w) == InCallback(w) => Head(batch[w]) \in Elements(heard[Head(todo[w])])

(* Broadcasts reach whoever was subscribed when the event was accepted. *)
AudienceOK ==
    /\ Len(audience) = Len(pushed)
    /\ \A i \in DOMAIN pushed : \A s \in audience[i] : handle[s] # "none"
    /\ \A w \in Workers : Owes(w) /\ Gives(w)
    /\ EveryAudienceHears

(* The inductive invariant. *)
DispInv ==
    /\ Types /\ LabelsOK /\ PublishOK /\ QueueOK /\ BatchOK /\ CreatedOK /\ ShutdownOK
    /\ CountsOK /\ HandlesOK /\ RegistryOK /\ AudienceOK
-----------------------------------------------------------------------------
(* Lists of subscribers. *)

LEMMA MembersAreElements == \A list : Members(list) = Elements(list)
BY DEF Members, Elements

Rank(list, S) == [i \in Kept(list, S) |-> Cardinality({j \in Kept(list, S) : j <= i})]

LEMMA KeptFacts ==
    ASSUME NEW T, NEW list \in Seq(T), NEW S
    PROVE  /\ Kept(list, S) \subseteq 1..Len(list) /\ DOMAIN list = 1..Len(list) /\ Len(list) \in Nat
           /\ IsFiniteSet(Kept(list, S)) /\ Cardinality(Kept(list, S)) \in Nat
<1>1. DOMAIN list = 1..Len(list) /\ Len(list) \in Nat
  BY LenProperties
<1>2. IsFiniteSet(1..Len(list)) /\ Kept(list, S) \in SUBSET (1..Len(list))
  BY <1>1, FS_Interval DEF Kept
<1> QED BY <1>1, <1>2, FS_Subset, FS_CardinalityType

(* Ranks number the kept positions from 1, each number once. *)
LEMMA RankBijects ==
    ASSUME NEW T, NEW list \in Seq(T), NEW S
    PROVE  /\ \A n \in 1..Cardinality(Kept(list, S)) : \E i \in Kept(list, S) : Rank(list, S)[i] = n
           /\ \A i \in Kept(list, S) : Rank(list, S)[i] \in 1..Cardinality(Kept(list, S))
           /\ \A i, j \in Kept(list, S) : i < j => Rank(list, S)[i] < Rank(list, S)[j]
<1> DEFINE K == Kept(list, S)
           U(i) == {j \in K : j <= i}
           R == Rank(list, S)
<1>1. K \subseteq 1..Len(list) /\ Len(list) \in Nat /\ IsFiniteSet(K) /\ Cardinality(K) \in Nat
  BY KeptFacts
<1>2. R = [i \in K |-> Cardinality(U(i))]
  BY DEF Rank
<1> HIDE DEF K, R
<1>3. ASSUME NEW i \in K
      PROVE  IsFiniteSet(U(i)) /\ Cardinality(U(i)) \in 1..Cardinality(K)
  <2>1. U(i) \in SUBSET K /\ i \in U(i)
    BY <1>1
  <2>2. IsFiniteSet(U(i)) /\ Cardinality(U(i)) <= Cardinality(K) /\ Cardinality(U(i)) \in Nat
    BY <1>1, <2>1, FS_Subset, FS_CardinalityType
  <2>3. Cardinality(U(i)) # 0
    BY <2>1, <2>2, FS_EmptySet
  <2> HIDE DEF U
  <2> QED BY <1>1, <2>2, <2>3
<1>4. ASSUME NEW i \in K, NEW j \in K, i < j PROVE Cardinality(U(i)) < Cardinality(U(j))
  <2>0. \A k \in K : k \in Int
    BY <1>1
  <2>1. U(i) \in SUBSET U(j) /\ j \in U(j) /\ j \notin U(i)
    <3>1. \A k \in K : k <= i => k <= j
      BY <1>4, <2>0
    <3>2. j <= j /\ ~(j <= i)
      BY <1>4, <2>0
    <3> QED BY <3>1, <3>2
  <2>2. IsFiniteSet(U(j)) /\ Cardinality(U(j)) \in Nat /\ Cardinality(U(i)) \in Nat
    BY <1>3, FS_CardinalityType
  <2>3. Cardinality(U(i)) <= Cardinality(U(j)) /\ Cardinality(U(j)) # Cardinality(U(i))
    <3> HIDE DEF U
    <3> QED BY <2>1, <2>2, FS_Subset
  <2> HIDE DEF U
  <2> QED BY <2>2, <2>3
<1>5. R \in [K -> 1..Cardinality(K)]
  <2> HIDE DEF U
  <2> QED BY <1>2, <1>3
<1>6. \A i, j \in K : i < j => R[i] < R[j]
  <2> HIDE DEF U
  <2> QED BY <1>2, <1>4
<1>7. \A i, j \in K : R[i] = R[j] => i = j
  <2> SUFFICES ASSUME NEW i \in K, NEW j \in K, R[i] = R[j] PROVE i = j
    OBVIOUS
  <2>1. R[i] \in Nat /\ R[j] \in Nat /\ i \in Nat /\ j \in Nat
    BY <1>1, <1>5
  <2>2. ~(i < j) /\ ~(j < i)
    BY <1>6, <2>1
  <2> QED BY <2>1, <2>2
<1>8. R \in Injection(K, 1..Cardinality(K))
  BY <1>5, <1>7 DEF Injection, IsInjective
<1>9. IsFiniteSet(1..Cardinality(K)) /\ Cardinality(1..Cardinality(K)) = Cardinality(K)
  BY <1>1, FS_Interval
<1>10. R \in Surjection(K, 1..Cardinality(K))
  BY <1>8, <1>9, FS_Injection
<1>11. \A n \in 1..Cardinality(K) : \E i \in K : R[i] = n
  BY <1>10 DEF Surjection
<1> QED BY <1>5, <1>6, <1>11 DEF K, R

(* What a registry writer keeps of a list: its members that are in S, none of them
   twice if the list had none twice. *)
LEMMA FilteredFacts ==
    ASSUME NEW T, NEW list \in Seq(T), NEW S
    PROVE  /\ Filtered(list, S) \in Seq(T)
           /\ Elements(Filtered(list, S)) = Elements(list) \cap S
           /\ Distinct(list) => Distinct(Filtered(list, S))
<1> DEFINE K == Kept(list, S)
           R == Rank(list, S)
           N == Cardinality(K)
           F == Filtered(list, S)
           At(n) == CHOOSE i \in K : Cardinality({j \in K : j <= i}) = n
<1>1. K \subseteq DOMAIN list /\ N \in Nat /\ K = {i \in DOMAIN list : list[i] \in S}
  BY KeptFacts DEF Kept
<1>2. F = [n \in 1..N |-> list[At(n)]]
  BY DEF Filtered
<1>3. \A i \in K : R[i] = Cardinality({j \in K : j <= i})
  BY DEF Rank
<1>4. (\A n \in 1..N : \E i \in K : R[i] = n) /\ (\A i \in K : R[i] \in 1..N)
      /\ (\A i, j \in K : i < j => R[i] < R[j])
  BY RankBijects
<1>5. \A i \in DOMAIN list : list[i] \in T /\ i \in Nat
  BY LenProperties, ElementOfSeq
<1> HIDE DEF K, R, N, F
<1>6. ASSUME NEW n \in 1..N PROVE At(n) \in K /\ R[At(n)] = n
  <2>1. \E i \in K : Cardinality({j \in K : j <= i}) = n
    BY <1>3, <1>4
  <2>2. At(n) \in K /\ Cardinality({j \in K : j <= At(n)}) = n
    BY <2>1
  <2> QED BY <1>3, <2>2
<1> HIDE DEF At
<1>7. F \in [1..N -> T] /\ DOMAIN F = 1..N /\ \A n \in 1..N : F[n] = list[At(n)]
  BY <1>1, <1>2, <1>5, <1>6
<1>8. F \in Seq(T)
  BY <1>1, <1>7, SeqDef
<1>9. ASSUME NEW x \in Elements(F) PROVE x \in Elements(list) /\ x \in S
  BY <1>1, <1>6, <1>7, <1>9 DEF Elements
<1>10. ASSUME NEW x \in Elements(list), x \in S PROVE x \in Elements(F)
  <2>1. PICK i \in DOMAIN list : list[i] = x
    BY <1>10 DEF Elements
  <2>2. i \in K /\ R[i] \in 1..N
    BY <1>1, <1>4, <1>10, <2>1
  <2>3. At(R[i]) \in K /\ R[At(R[i])] = R[i]
    BY <1>6, <2>2
  <2>4. i \in Nat /\ At(R[i]) \in Nat /\ R[i] \in Nat
    BY <1>1, <1>5, <2>2, <2>3
  <2>5. ~(i < At(R[i])) /\ ~(At(R[i]) < i)
    BY <1>4, <2>2, <2>3, <2>4
  <2>6. At(R[i]) = i
    BY <2>4, <2>5
  <2> QED BY <1>7, <2>1, <2>2, <2>6 DEF Elements
<1>11. ASSUME Distinct(list) PROVE Distinct(F)
  <2> SUFFICES ASSUME NEW m \in 1..N, NEW n \in 1..N, F[m] = F[n] PROVE m = n
    BY <1>7 DEF Distinct
  <2>1. At(m) = At(n)
    BY <1>1, <1>6, <1>7, <1>11 DEF Distinct
  <2> QED BY <1>6, <2>1
<1> QED BY <1>8, <1>9, <1>10, <1>11 DEF F
-----------------------------------------------------------------------------
(* Threads, and what the steps of each concern leave alone. *)

LEMMA ThreadFacts ==
    /\ Threads = Publishers \cup Workers \cup Clients \cup Stoppers \cup {Owner}
    /\ Callers = Publishers \cup Workers /\ Registrants = Clients \cup Workers
    /\ Callers \subseteq Threads /\ Registrants \subseteq Threads
    /\ \A t \in Publishers : t \notin Workers /\ t \notin Clients /\ t \notin Stoppers /\ t # Owner
    /\ \A t \in Workers : t \notin Publishers /\ t \notin Clients /\ t \notin Stoppers /\ t # Owner
    /\ \A t \in Clients : t \notin Publishers /\ t \notin Workers /\ t \notin Stoppers /\ t # Owner
    /\ \A t \in Stoppers : t \notin Publishers /\ t \notin Workers /\ t \notin Clients /\ t # Owner
    /\ Owner \in Threads /\ NoThread \notin Threads /\ NoThread \notin Subscribers
BY DispatcherThreadsAssumption DEF Threads, Callers, Registrants

LEMMA CallersFinite == IsFiniteSet(Callers)
<1>1. IsFiniteSet(Publishers) /\ IsFiniteSet(Workers)
  BY DispatcherThreadsAssumption
<1> QED BY <1>1, FS_Union DEF Callers

(* Thread t is at one label of L and goes to another; the rest stay. *)
Moves(t, L) ==
    /\ pc' = [u \in Threads |-> pc'[u]] /\ pc[t] \in L /\ pc'[t] \in L
    /\ \A u \in Threads \ {t} : pc'[u] = pc[u]

(* ... or, in NotifyStopped, at most wake up. *)
Wakes(t, L) ==
    /\ pc' = [u \in Threads |-> pc'[u]] /\ pc[t] \in L /\ pc'[t] \in L
    /\ \A u \in Threads \ {t} : pc'[u] = pc[u] \/ (pc[u] = "waiting" /\ pc'[u] = "woken")

LEMMA GotoMoves ==
    ASSUME Types, NEW t \in Threads, NEW L, NEW l, Goto(t, l), pc[t] \in L, l \in L
    PROVE  Moves(t, L) /\ pc'[t] = l
BY DEF Types, Goto, Moves

(* A step of a publication. *)
PublishFrame(t) ==
    /\ lifecycle # "created"
    /\ Moves(t, PublishLabels \cup {Home(t)})
    /\ UNCHANGED <<life, closed, taken, discarded, ended, dropped, registry, working, heard>>

(* A step of a worker outside callbacks and calls. *)
WorkFrame(w) ==
    /\ Moves(w, WorkerLabels) /\ pc[w] # "done"
    /\ UNCHANGED <<life, closed, pushed, discarded, metrics, registry, publishing, audience>>

(* A step of a subscribe or an unsubscribe. *)
MemberFrame(t) ==
    /\ lifecycle # "created"
    /\ Moves(t, MemberLabels \cup {Home(t)})
    /\ UNCHANGED <<program, lifecycle, stop_requested, queue, metrics, publishing, working, histories>>

(* A step of a shutdown. *)
StopFrame(t) ==
    /\ lifecycle # "created" /\ lifecycle' # "created"
    /\ Wakes(t, ShutdownLabels \cup {"idle", "gone"}) /\ pc[t] # "gone"
    /\ UNCHANGED <<program, lifecycle_mutex_, pushed, taken, ended, accepted, rejected, registry, publishing,
                   working, histories>>

(* A step of the constructor. *)
OwnerFrame ==
    /\ lifecycle = "created"
    /\ UNCHANGED <<program, lifecycle_mutex_, queue, metrics, registry, publishing, working, histories>>

(* The steps of each concern. *)
Publication(t) == PublishFrame(t) /\ ((\E kind \in Kinds : Publish(t, kind)) \/ PublishStep(t))
Work(w) == WorkFrame(w) /\ WorkerStep(w)
Membership(t) ==
    MemberFrame(t) /\ ((\E s \in Subscribers : Subscribe(t, s) \/ Unsubscribe(t, s)) \/ MemberStep(t))
Stopping(t) ==
    /\ StopFrame(t)
    /\ \/ \E policy \in Policies : Shutdown(t, policy) /\ pc[t] = "idle"
       \/ StopStep(t)
       \/ SpuriousWake(t)
       \/ t = Owner /\ Dispose
Construction == OwnerFrame /\ (Construct \/ ConstructFails \/ Abandon)

LEMMA InPublish ==
    ASSUME DispInv, NEW t \in Callers
    PROVE  /\ \A kind \in Kinds : Publish(t, kind) => PublishFrame(t)
           /\ PublishStep(t) => PublishFrame(t)
<1> USE ThreadFacts DEF DispInv
<1> DEFINE L == PublishLabels \cup {Home(t)}
<1>0. t \in Threads /\ Home(t) \in L /\ PublishLabels \subseteq L
  OBVIOUS
<1>1. pc[t] \in PublishLabels => lifecycle # "created"
  BY DEF CreatedOK, PublishLabels
<1>2. ASSUME NEW kind \in Kinds, Publish(t, kind) PROVE PublishFrame(t)
  <2>1. lifecycle # "created"
    <3>1. CASE t \in Workers
      BY <1>2, <3>1 DEF Publish, MayCall, Home, CreatedOK
    <3>2. CASE t \notin Workers
      BY <1>2, <3>2 DEF Publish, Alive, CreatedOK, OwnerLabels
    <3> QED BY <3>1, <3>2
  <2>2. Goto(t, "check") /\ pc[t] = Home(t)
    BY <1>2 DEF Publish, MayCall
  <2>3. Moves(t, L)
    BY <1>0, <2>2, GotoMoves DEF PublishLabels
  <2> QED BY <1>2, <2>1, <2>3 DEF Publish, PublishFrame, queue, metrics, histories
<1>3. ASSUME CheckLifecycle(t) PROVE PublishFrame(t)
  <2>1. PICK l \in L : Goto(t, l)
    BY <1>3 DEF CheckLifecycle, PublishLabels
  <2>2. pc[t] \in PublishLabels
    BY <1>3 DEF CheckLifecycle, PublishLabels
  <2>3. Moves(t, L)
    BY <1>0, <2>1, <2>2, GotoMoves
  <2> QED BY <1>1, <1>3, <2>2, <2>3 DEF CheckLifecycle, PublishFrame, queue, metrics, histories
<1>4. ASSUME Push(t) PROVE PublishFrame(t)
  <2>1. pc[t] \in PublishLabels /\ Goto(t, "count_accepted")
    BY <1>4 DEF Push, PublishLabels
  <2>2. Moves(t, L)
    BY <1>0, <2>1, GotoMoves DEF PublishLabels
  <2> QED BY <1>1, <1>4, <2>1, <2>2 DEF Push, Queue!Push, PublishFrame, metrics
<1>5. ASSUME PushRefused(t) PROVE PublishFrame(t)
  <2>1. pc[t] \in PublishLabels /\ Goto(t, "count_rejected")
    BY <1>5 DEF PushRefused, PublishLabels
  <2>2. Moves(t, L)
    BY <1>0, <2>1, GotoMoves DEF PublishLabels
  <2> QED BY <1>1, <1>5, <2>1, <2>2 DEF PushRefused, PublishFrame, queue, metrics, histories
<1>6. ASSUME PushThrows(t) PROVE PublishFrame(t)
  <2>1. pc[t] \in PublishLabels /\ Goto(t, Home(t))
    BY <1>6 DEF PushThrows, Return, PublishLabels
  <2>2. Moves(t, L)
    BY <1>0, <2>1, GotoMoves DEF PublishLabels
  <2> QED BY <1>1, <1>6, <2>1, <2>2 DEF PushThrows, PublishFrame, queue, metrics, histories
<1>7. ASSUME Count(t) PROVE PublishFrame(t)
  <2>1. pc[t] \in PublishLabels
    BY <1>7 DEF Count, PublishLabels
  <2>2. PICK l \in L : Goto(t, l)
    BY <1>7 DEF Count, Return, PublishLabels
  <2>3. Moves(t, L)
    BY <1>0, <2>1, <2>2, GotoMoves
  <2> QED BY <1>1, <1>7, <2>1, <2>3 DEF Count, PublishFrame, queue, histories
<1> QED BY <1>2, <1>3, <1>4, <1>5, <1>6, <1>7 DEF PublishStep

LEMMA InWork ==
    ASSUME DispInv, NEW w \in Workers, WorkerStep(w)
    PROVE  WorkFrame(w)
<1> USE ThreadFacts DEF DispInv
<1>0. w \in Threads
  OBVIOUS
<1>1. CASE WaitPop(w)
  <2>1. PICK l \in WorkerLabels : Goto(w, l)
    BY <1>1 DEF WaitPop, WorkerLabels
  <2>2. pc[w] \in WorkerLabels /\ pc[w] # "done"
    BY <1>1 DEF WaitPop, WorkerLabels
  <2>3. Moves(w, WorkerLabels)
    BY <1>0, <2>1, <2>2, GotoMoves
  <2> QED BY <1>1, <2>2, <2>3 DEF WaitPop, Queue!Pop, EndOfStream, Queue!PopClosed, WorkFrame, queue, histories
<1>2. CASE FillBatch(w)
  <2>1. pc[w] \in WorkerLabels /\ pc[w] # "done"
    BY <1>2 DEF FillBatch, WorkerLabels
  <2>2. Moves(w, WorkerLabels)
    <3>1. CASE UNCHANGED pc
      BY <2>1, <3>1 DEF Moves, Types
    <3>2. CASE Goto(w, "snapshot")
      BY <1>0, <2>1, <3>2, GotoMoves DEF WorkerLabels
    <3> QED BY <1>2, <3>1, <3>2 DEF FillBatch
  <2> QED BY <1>2, <2>1, <2>2 DEF FillBatch, Queue!Pop, EndOfStream, Queue!PopClosed, WorkFrame, queue, histories
<1>3. CASE AcquireSnapshot(w)
  <2>1. Moves(w, WorkerLabels) /\ pc[w] # "done"
    BY <1>0, <1>3, GotoMoves DEF AcquireSnapshot, WorkerLabels
  <2> QED BY <1>3, <2>1 DEF AcquireSnapshot, WorkFrame, queue, histories
<1>4. CASE Invoke(w)
  <2>1. pc[w] \in WorkerLabels /\ pc[w] # "done"
    BY <1>4 DEF Invoke, WorkerLabels
  <2>2. Moves(w, WorkerLabels)
    <3>1. CASE UNCHANGED pc
      BY <2>1, <3>1 DEF Moves, Types
    <3>2. CASE Goto(w, "callback")
      BY <1>0, <2>1, <3>2, GotoMoves DEF WorkerLabels
    <3> QED BY <1>4, <3>1, <3>2 DEF Invoke
  <2> QED BY <1>4, <2>1, <2>2 DEF Invoke, WorkFrame, queue
<1>5. CASE CallbackReturns(w)
  <2>1. Moves(w, WorkerLabels) /\ pc[w] # "done"
    BY <1>0, <1>5, GotoMoves DEF CallbackReturns, WorkerLabels
  <2> QED BY <1>5, <2>1 DEF CallbackReturns, WorkFrame, queue, histories
<1>6. CASE NextEvent(w)
  <2>1. pc[w] \in WorkerLabels /\ pc[w] # "done"
    BY <1>6 DEF NextEvent, WorkerLabels
  <2>2. Moves(w, WorkerLabels)
    <3>1. CASE UNCHANGED pc
      BY <2>1, <3>1 DEF Moves, Types
    <3>2. CASE Goto(w, "loop")
      BY <1>0, <2>1, <3>2, GotoMoves DEF WorkerLabels
    <3> QED BY <1>6, <3>1, <3>2 DEF NextEvent
  <2> QED BY <1>6, <2>1, <2>2 DEF NextEvent, WorkFrame, queue, histories
<1> QED BY <1>1, <1>2, <1>3, <1>4, <1>5, <1>6 DEF WorkerStep

LEMMA InMember ==
    ASSUME DispInv, NEW t \in Registrants
    PROVE  /\ \A s \in Subscribers : Subscribe(t, s) \/ Unsubscribe(t, s) => MemberFrame(t)
           /\ MemberStep(t) => MemberFrame(t)
<1> USE ThreadFacts DEF DispInv
<1> DEFINE L == MemberLabels \cup {Home(t)}
<1>0. t \in Threads /\ Home(t) \in L /\ MemberLabels \subseteq L
  OBVIOUS
<1>1. pc[t] \in MemberLabels => lifecycle # "created"
  BY DEF CreatedOK, MemberLabels
<1>2. ASSUME NEW s \in Subscribers, Subscribe(t, s) PROVE MemberFrame(t)
  <2>1. Moves(t, L)
    BY <1>0, <1>2, GotoMoves DEF Subscribe, MayCall, MemberLabels
  <2> QED BY <1>2, <2>1 DEF Subscribe, MemberFrame
<1>3. ASSUME NEW s \in Subscribers, Unsubscribe(t, s) PROVE MemberFrame(t)
  <2>1. Moves(t, L)
    BY <1>0, <1>3, GotoMoves DEF Unsubscribe, MayCall, MemberLabels
  <2>2. lifecycle # "created"
    BY <1>3 DEF Unsubscribe, CreatedOK
  <2> QED BY <1>3, <2>1, <2>2 DEF Unsubscribe, MemberFrame, life
<1>4. ASSUME Register(t) PROVE MemberFrame(t)
  <2>1. pc[t] \in MemberLabels /\ Goto(t, "registered") /\ "registered" \in MemberLabels
    BY <1>4 DEF Register, MemberLabels
  <2>2. Moves(t, L)
    BY <1>0, <2>1, GotoMoves
  <2> QED BY <1>1, <1>4, <2>1, <2>2 DEF Register, MemberFrame, life
<1>5. ASSUME Registered(t) PROVE MemberFrame(t)
  <2>1. Moves(t, L) /\ pc[t] \in MemberLabels
    BY <1>0, <1>5, GotoMoves DEF Registered, MemberLabels
  <2> QED BY <1>1, <1>5, <2>1 DEF Registered, MemberFrame, life
<1>6. ASSUME pc[t] \in MemberLabels, AfterRetire(t) PROVE Moves(t, L)
  <2>1. PICK l \in L : Goto(t, l)
    <3>1. FromItself(t) => Home(t) = "callback"
      BY DEF FromItself, Invoking, Home
    <3> QED BY <1>6, <3>1 DEF AfterRetire, MemberLabels
  <2> QED BY <1>0, <1>6, <2>1, GotoMoves
<1>7. ASSUME Retire(t) PROVE MemberFrame(t)
  <2>1. pc[t] \in MemberLabels
    BY <1>7 DEF Retire, MemberLabels
  <2>2. Moves(t, L)
    BY <1>0, <1>6, <1>7, <2>1, GotoMoves DEF Retire, MemberLabels
  <2> QED BY <1>1, <1>7, <2>1, <2>2 DEF Retire, MemberFrame, life
<1>8. ASSUME Retired(t) PROVE MemberFrame(t)
  <2>1. pc[t] \in MemberLabels
    BY <1>8 DEF Retired, MemberLabels
  <2>2. Moves(t, L)
    BY <1>6, <1>8, <2>1 DEF Retired
  <2> QED BY <1>1, <1>8, <2>1, <2>2 DEF Retired, MemberFrame, life
<1>9. ASSUME AwaitIdle(t) PROVE MemberFrame(t)
  <2>1. Moves(t, L) /\ pc[t] \in MemberLabels
    BY <1>0, <1>9, GotoMoves DEF AwaitIdle, MemberLabels
  <2> QED BY <1>1, <1>9, <2>1 DEF AwaitIdle, MemberFrame, life
<1> QED BY <1>2, <1>3, <1>4, <1>5, <1>7, <1>8, <1>9 DEF MemberStep

LEMMA ShutdownMoves ==
    ASSUME DispInv, NEW t \in Stoppers \cup {Owner}, NEW policy \in Policies, pc[t] = "idle",
           lifecycle # "created", Shutdown(t, policy)
    PROVE  StopFrame(t)
<1> USE ThreadFacts DEF DispInv
<1> DEFINE L == ShutdownLabels \cup {"idle", "gone"}
<1>1. PICK l \in L : Goto(t, l)
  BY DEF Shutdown, Answer, ShutdownLabels, ClosingLabels
<1>2. t \in Threads /\ Moves(t, L)
  BY <1>1, GotoMoves
<1>3. Wakes(t, L) /\ pc[t] # "gone"
  BY <1>2 DEF Moves, Wakes
<1>4. lifecycle' # "created"
  BY DEF Shutdown
<1> QED BY <1>3, <1>4 DEF Shutdown, StopFrame, queue, metrics

LEMMA InStop ==
    ASSUME DispInv
    PROVE  /\ \A t \in Stoppers \cup Workers : \A policy \in Policies :
                  Stop(t, policy) => t \in Stoppers /\ StopFrame(t)
           /\ \A policy \in Policies : Destroy(policy) => StopFrame(Owner)
           /\ \A t \in Threads : StopStep(t) => t \in Stoppers \cup {Owner} /\ StopFrame(t)
           /\ \A t \in Stoppers : SpuriousWake(t) => StopFrame(t)
           /\ Dispose => StopFrame(Owner)
<1> USE ThreadFacts DEF DispInv
<1> DEFINE L == ShutdownLabels \cup {"idle", "gone"}
<1>1. ASSUME NEW t \in Stoppers \cup Workers, NEW policy \in Policies, Stop(t, policy)
      PROVE  t \in Stoppers /\ StopFrame(t)
  <2>1. t \in Stoppers /\ pc[t] = "idle" /\ Shutdown(t, policy)
    BY <1>1 DEF Stop, Shutdown, Rejected, MayCall, Home
  <2>2. lifecycle # "created"
    BY <1>1, <2>1 DEF Stop, Alive, CreatedOK, OwnerLabels
  <2> QED BY <2>1, <2>2, ShutdownMoves
<1>2. ASSUME NEW policy \in Policies, Destroy(policy) PROVE StopFrame(Owner)
  <2>1. pc[Owner] = "idle" /\ Shutdown(Owner, policy)
    BY <1>2 DEF Destroy
  <2>2. lifecycle # "created"
    BY <2>1 DEF CreatedOK, OwnerLabels
  <2> QED BY <2>1, <2>2, ShutdownMoves
<1>3. ASSUME NEW t \in Threads, pc[t] \in ShutdownLabels
      PROVE  t \in Stoppers \cup {Owner} /\ lifecycle # "created" /\ pc[t] \in L /\ pc[t] # "gone"
  <2>1. t \in Stoppers \cup {Owner}
    BY <1>3 DEF LabelsOK, LabelsOf, ShutdownLabels, ClosingLabels, WorkerLabels, PublishLabels, MemberLabels
  <2>2. lifecycle # "created"
    BY <1>3, <2>1 DEF CreatedOK, OwnerLabels, ShutdownLabels, ClosingLabels
  <2> QED BY <1>3, <2>1, <2>2 DEF ShutdownLabels, ClosingLabels
<1>4. ASSUME NEW t \in Threads, NEW l \in L, Goto(t, l), pc[t] \in L PROVE Wakes(t, L)
  <2>1. Moves(t, L)
    BY <1>4, GotoMoves
  <2> QED BY <2>1 DEF Moves, Wakes
<1>5. {"join", "count_dropped", "stop", "notify", "returned", "woken", "waiting", "gone", "close"} \subseteq L
      /\ L \ {"idle", "gone"} \subseteq ShutdownLabels
      /\ {"join", "count_dropped", "stop", "notify", "returned", "woken", "waiting", "close"} \subseteq ShutdownLabels
  BY DEF ShutdownLabels, ClosingLabels
<1>6. ASSUME NEW t \in Threads, CloseQueue(t) PROVE t \in Stoppers \cup {Owner} /\ StopFrame(t)
  <2>1. pc[t] \in ShutdownLabels
    BY <1>5, <1>6 DEF CloseQueue
  <2>2. PICK l \in L : Goto(t, l)
    BY <1>5, <1>6 DEF CloseQueue, AfterDiscard
  <2>3. Wakes(t, L)
    BY <1>3, <1>4, <2>1, <2>2
  <2> HIDE DEF L
  <2>4. UNCHANGED <<life, pushed, taken, ended, metrics, registry, publishing, working, histories>>
    BY <1>6 DEF CloseQueue, Queue!Close, Queue!CloseAndDiscard
  <2> QED BY <1>3, <2>1, <2>3, <2>4 DEF StopFrame, life, metrics, L
<1>7. ASSUME NEW t \in Threads, CountDropped(t) PROVE t \in Stoppers \cup {Owner} /\ StopFrame(t)
  <2>1. pc[t] \in ShutdownLabels /\ Goto(t, "join") /\ "join" \in L
    BY <1>5, <1>7 DEF CountDropped
  <2>2. Wakes(t, L)
    BY <1>3, <1>4, <2>1
  <2> QED BY <1>3, <1>7, <2>1, <2>2 DEF CountDropped, StopFrame, life, queue
<1>8. ASSUME NEW t \in Threads, JoinWorkers(t) PROVE t \in Stoppers \cup {Owner} /\ StopFrame(t)
  <2>1. pc[t] \in ShutdownLabels /\ Goto(t, "stop") /\ "stop" \in L
    BY <1>5, <1>8 DEF JoinWorkers
  <2>2. Wakes(t, L)
    BY <1>3, <1>4, <2>1
  <2> QED BY <1>3, <1>8, <2>1, <2>2 DEF JoinWorkers, StopFrame, life, queue, metrics
<1>9. ASSUME NEW t \in Threads, MarkStopped(t) PROVE t \in Stoppers \cup {Owner} /\ StopFrame(t)
  <2>1. pc[t] \in ShutdownLabels /\ Goto(t, "notify") /\ "notify" \in L
    BY <1>5, <1>9 DEF MarkStopped
  <2>2. Wakes(t, L)
    BY <1>3, <1>4, <2>1
  <2> QED BY <1>3, <1>9, <2>1, <2>2 DEF MarkStopped, StopFrame, queue, metrics
<1>10. ASSUME NEW t \in Threads, NotifyStopped(t) PROVE t \in Stoppers \cup {Owner} /\ StopFrame(t)
  <2>1. pc[t] \in ShutdownLabels
    BY <1>5, <1>10 DEF NotifyStopped
  <2>2. pc'[t] = "returned" /\ \A u \in Threads \ {t} : pc'[u] = pc[u] \/ (pc[u] = "waiting" /\ pc'[u] = "woken")
    BY <1>10 DEF NotifyStopped
  <2>3. pc' = [u \in Threads |-> pc'[u]]
    BY <1>10 DEF NotifyStopped
  <2>4. Wakes(t, L)
    BY <1>3, <1>5, <2>1, <2>2, <2>3 DEF Wakes
  <2> QED BY <1>3, <1>10, <2>1, <2>4 DEF NotifyStopped, StopFrame, life, queue, metrics
<1>11. ASSUME NEW t \in Threads, AwaitStopped(t) PROVE t \in Stoppers \cup {Owner} /\ StopFrame(t)
  <2>1. pc[t] \in ShutdownLabels /\ Goto(t, Answer) /\ Answer \in L
    BY <1>5, <1>11 DEF AwaitStopped, Answer
  <2>2. Wakes(t, L)
    BY <1>3, <1>4, <2>1
  <2> QED BY <1>3, <1>11, <2>1, <2>2 DEF AwaitStopped, StopFrame, life, queue, metrics
<1>12. ASSUME NEW t \in Stoppers, SpuriousWake(t) PROVE StopFrame(t)
  <2>1. t \in Threads /\ pc[t] \in ShutdownLabels /\ Goto(t, "woken") /\ "woken" \in L
    BY <1>5, <1>12 DEF SpuriousWake
  <2>2. Wakes(t, L)
    BY <1>3, <1>4, <2>1
  <2> QED BY <1>3, <1>12, <2>1, <2>2 DEF SpuriousWake, StopFrame, life, queue, metrics
<1>13. ASSUME Dispose PROVE StopFrame(Owner)
  <2>1. pc[Owner] \in ShutdownLabels /\ Goto(Owner, "gone") /\ "gone" \in L
    BY <1>5, <1>13 DEF Dispose
  <2>2. Wakes(Owner, L)
    BY <1>3, <1>4, <2>1
  <2> QED BY <1>3, <1>13, <2>1, <2>2 DEF Dispose, StopFrame, queue, metrics
<1> QED BY <1>1, <1>2, <1>6, <1>7, <1>8, <1>9, <1>10, <1>11, <1>12, <1>13 DEF StopStep

LEMMA InConstruct ==
    ASSUME DispInv, Construct \/ ConstructFails \/ Abandon
    PROVE  OwnerFrame
<1>1. pc[Owner] \in {"construct", "abandon"}
  BY DEF Construct, ConstructFails, Abandon
<1>2. lifecycle = "created"
  BY <1>1 DEF DispInv, CreatedOK
<1> QED BY <1>2 DEF Construct, ConstructFails, Abandon, OwnerFrame, life

(* Every step belongs to one of the concerns. *)
LEMMA StepKinds ==
    ASSUME DispInv, Next
    PROVE  \/ \E t \in Callers : Publication(t)
           \/ \E w \in Workers : Work(w)
           \/ \E t \in Registrants : Membership(t)
           \/ \E t \in Stoppers \cup {Owner} : Stopping(t)
           \/ Construction
           \/ Rest
<1> USE ThreadFacts
<1>1. ASSUME NEW t \in Threads, t \in Callers, PublishStep(t)
      PROVE  PublishFrame(t)
  BY <1>1, InPublish
<1>2. ASSUME NEW t \in Callers, NEW kind \in Kinds, Publish(t, kind) PROVE PublishFrame(t)
  BY <1>2, InPublish
<1>3. ASSUME NEW t \in Threads, t \in Workers, WorkerStep(t) PROVE WorkFrame(t)
  BY <1>3, InWork
<1>4. ASSUME NEW t \in Registrants, MemberStep(t) PROVE MemberFrame(t)
  BY <1>4, InMember
<1>5. ASSUME NEW t \in Registrants, NEW s \in Subscribers, Subscribe(t, s) \/ Unsubscribe(t, s)
      PROVE  MemberFrame(t)
  BY <1>5, InMember
<1>6. ASSUME NEW t \in Threads, StopStep(t) PROVE t \in Stoppers \cup {Owner} /\ StopFrame(t)
  BY <1>6, InStop
<1>7. ASSUME NEW t \in Stoppers \cup Workers, NEW policy \in Policies, Stop(t, policy)
      PROVE  t \in Stoppers /\ StopFrame(t) /\ Shutdown(t, policy) /\ pc[t] = "idle"
  BY <1>7, InStop DEF Stop, MayCall, Home
<1>8. ASSUME NEW policy \in Policies, Destroy(policy)
      PROVE  StopFrame(Owner) /\ Shutdown(Owner, policy) /\ pc[Owner] = "idle"
  BY <1>8, InStop DEF Destroy
<1>9. ASSUME NEW t \in Stoppers, SpuriousWake(t) PROVE StopFrame(t)
  BY <1>9, InStop
<1>10. ASSUME OwnerStep PROVE (Dispose /\ StopFrame(Owner)) \/ (OwnerFrame /\ (Construct \/ ConstructFails \/ Abandon))
  BY <1>10, InStop, InConstruct DEF OwnerStep
<1>11. CASE \E t \in Threads : Step(t)
  BY <1>1, <1>3, <1>4, <1>6, <1>10, <1>11 DEF Step, Publication, Work, Membership, Stopping, Construction
<1> QED BY <1>2, <1>5, <1>7, <1>8, <1>9, <1>11 DEF Next, Publication, Membership, Stopping
-----------------------------------------------------------------------------
(* Types and labels. *)

LEMMA LabelFacts ==
    /\ PublishLabels \subseteq Labels /\ MemberLabels \subseteq Labels /\ WorkerLabels \subseteq Labels
    /\ ShutdownLabels \cup {"idle", "gone"} \subseteq Labels /\ \A t : Home(t) \in Labels
    /\ {"idle", "done", "abandon", "gone", "woken"} \subseteq Labels
    /\ PublishLabels \cap MemberLabels = {} /\ PublishLabels \cap (WorkerLabels \cup ShutdownLabels) = {}
    /\ MemberLabels \cap (WorkerLabels \cup ShutdownLabels) = {}
BY DEF Labels, PublishLabels, MemberLabels, WorkerLabels, ShutdownLabels, ClosingLabels, OwnerLabels, Home

LEMMA PcStep == ASSUME DispInv, Next PROVE pc' \in [Threads -> Labels]
<1> USE ThreadFacts, LabelFacts
<1>0. pc \in [Threads -> Labels]
  BY DEF DispInv, Types
<1>1. ASSUME NEW t \in Threads, NEW L, L \subseteq Labels, Wakes(t, L) \/ Moves(t, L)
      PROVE  pc' \in [Threads -> Labels]
  <2>1. \A u \in Threads : pc'[u] \in Labels
    BY <1>0, <1>1 DEF Moves, Wakes
  <2>2. pc' = [u \in Threads |-> pc'[u]]
    BY <1>1 DEF Moves, Wakes
  <2> QED BY <2>1, <2>2
<1>2. ASSUME NEW t \in Callers, PublishFrame(t) PROVE pc' \in [Threads -> Labels]
  <2>1. t \in Threads /\ PublishLabels \cup {Home(t)} \subseteq Labels
    OBVIOUS
  <2> QED BY <1>1, <1>2, <2>1 DEF PublishFrame
<1>3. ASSUME NEW t \in Registrants, MemberFrame(t) PROVE pc' \in [Threads -> Labels]
  <2>1. t \in Threads /\ MemberLabels \cup {Home(t)} \subseteq Labels
    OBVIOUS
  <2> QED BY <1>1, <1>3, <2>1 DEF MemberFrame
<1>4. ASSUME NEW w \in Workers, WorkFrame(w) PROVE pc' \in [Threads -> Labels]
  BY <1>1, <1>4 DEF WorkFrame
<1>5. ASSUME NEW t \in Stoppers \cup {Owner}, StopFrame(t) PROVE pc' \in [Threads -> Labels]
  BY <1>1, <1>5 DEF StopFrame
<1>6. ASSUME Construct \/ Abandon PROVE pc' \in [Threads -> Labels]
  BY <1>0, <1>6 DEF Construct, Abandon, Goto
<1>7. ASSUME ConstructFails PROVE pc' \in [Threads -> Labels]
  BY <1>0, <1>7 DEF ConstructFails
<1>8. ASSUME Rest PROVE pc' \in [Threads -> Labels]
  BY <1>0, <1>8 DEF Rest, vars
<1> QED BY <1>2, <1>3, <1>4, <1>5, <1>6, <1>7, <1>8, StepKinds DEF Publication, Work, Membership, Stopping, Construction

LEMMA LabelsStep == ASSUME DispInv, Next PROVE LabelsOK'
<1> USE ThreadFacts DEF DispInv, LabelsOK
<1>0. pc \in [Threads -> Labels]
  BY DEF Types
<1>1. ASSUME NEW t \in Callers, PublishFrame(t) PROVE LabelsOK'
  <2>1. PublishLabels \cup {Home(t)} \subseteq LabelsOf(t)
    BY DEF LabelsOf, Home, WorkerLabels
  <2> QED BY <1>1, <2>1 DEF PublishFrame, Moves
<1>2. ASSUME NEW t \in Registrants, MemberFrame(t) PROVE LabelsOK'
  <2>1. MemberLabels \cup {Home(t)} \subseteq LabelsOf(t)
    BY DEF LabelsOf, Home, WorkerLabels
  <2> QED BY <1>2, <2>1 DEF MemberFrame, Moves
<1>3. ASSUME NEW w \in Workers, WorkFrame(w) PROVE LabelsOK'
  <2>1. WorkerLabels \subseteq LabelsOf(w)
    BY DEF LabelsOf
  <2> QED BY <1>3, <2>1 DEF WorkFrame, Moves
<1>4. ASSUME NEW t \in Stoppers \cup {Owner}, StopFrame(t), pc'[t] = "gone" => t = Owner PROVE LabelsOK'
  <2>1. pc'[t] \in LabelsOf(t)
    BY <1>4 DEF StopFrame, Wakes, LabelsOf, OwnerLabels
  <2>2. ASSUME NEW u \in Threads, pc[u] = "waiting" PROVE "woken" \in LabelsOf(u)
    BY <2>2 DEF LabelsOf, ShutdownLabels, ClosingLabels, WorkerLabels, PublishLabels, MemberLabels
  <2> QED BY <1>4, <2>1, <2>2 DEF StopFrame, Wakes
<1>5. ASSUME NEW t \in Stoppers,
             \/ \E policy \in Policies : Shutdown(t, policy)
             \/ StopStep(t)
             \/ SpuriousWake(t)
      PROVE  pc'[t] # "gone"
  <2>1. \A l : Goto(t, l) => pc'[t] = l
    BY <1>0 DEF Goto
  <2>2. ASSUME NEW policy \in Policies, Shutdown(t, policy) PROVE pc'[t] # "gone"
    BY <2>1, <2>2 DEF Shutdown, Answer
  <2>3. ASSUME StopStep(t) PROVE pc'[t] # "gone"
    <3>1. ASSUME NotifyStopped(t) PROVE pc'[t] # "gone"
      BY <3>1 DEF NotifyStopped
    <3>2. ASSUME CloseQueue(t) \/ CountDropped(t) \/ JoinWorkers(t) PROVE pc'[t] # "gone"
      BY <2>1, <3>2 DEF CloseQueue, CountDropped, JoinWorkers, AfterDiscard
    <3>3. ASSUME MarkStopped(t) \/ AwaitStopped(t) PROVE pc'[t] # "gone"
      BY <2>1, <3>3 DEF MarkStopped, AwaitStopped, Answer
    <3> QED BY <2>3, <3>1, <3>2, <3>3 DEF StopStep
  <2> QED BY <1>5, <2>1, <2>2, <2>3 DEF SpuriousWake
<1>6. ASSUME Construct \/ Abandon PROVE LabelsOK'
  <2>1. pc' = [pc EXCEPT ![Owner] = "idle"] \/ pc' = [pc EXCEPT ![Owner] = "gone"]
    BY <1>6 DEF Construct, Abandon, Goto
  <2>2. pc'[Owner] \in LabelsOf(Owner)
    BY <1>0, <2>1 DEF LabelsOf, OwnerLabels
  <2>3. \A u \in Threads \ {Owner} : pc'[u] = pc[u]
    BY <1>0, <2>1
  <2> QED BY <2>2, <2>3
<1>7. ASSUME ConstructFails PROVE LabelsOK'
  BY <1>0, <1>7 DEF ConstructFails, LabelsOf, OwnerLabels, WorkerLabels
<1>8. ASSUME Rest PROVE LabelsOK'
  BY <1>8 DEF Rest, vars
<1>9. ASSUME NEW t \in Stoppers \cup {Owner}, Stopping(t) PROVE LabelsOK'
  BY <1>4, <1>5, <1>9 DEF Stopping
<1> QED BY <1>1, <1>2, <1>3, <1>6, <1>7, <1>8, <1>9, StepKinds DEF Publication, Work, Membership, Construction

(* The parts of Types that the steps of one concern leave alone. *)
LifeTypes ==
    /\ program \in Programs /\ lifecycle \in Lifecycles
    /\ lifecycle_mutex_ \in Registrants \cup {NoThread} /\ stop_requested \in BOOLEAN
QueueTypes ==
    /\ items \in Seq(Nat) /\ closed \in BOOLEAN /\ ended \in BOOLEAN
    /\ pushed \in Seq(Nat) /\ taken \in Seq(Nat) /\ discarded \in Seq(Nat)
MetricTypes == accepted \in Nat /\ rejected \in Nat /\ dropped \in Nat
RegistryTypes ==
    /\ current \in Seq(Subscribers) /\ next \in Seq(Subscribers)
    /\ writer_mutex \in Registrants \cup {NoThread}
    /\ active \in [Subscribers -> BOOLEAN]
    /\ handle \in [Subscribers -> {"none", "held", "reset", "gone"}]
    /\ target \in [Registrants -> Subscribers \cup {NoThread}]
PublishingTypes ==
    /\ tried \in Nat
    /\ call \in [Callers -> Kinds] /\ left \in [Callers -> 0..BatchLength] /\ event \in [Callers -> Nat]
WorkingTypes ==
    /\ batch \in [Workers -> Seq(Nat)]
    /\ snapshot \in [Workers -> Seq(Subscribers)] /\ todo \in [Workers -> Seq(Subscribers)]
HistoryTypes == audience \in Seq(SUBSET Subscribers) /\ heard \in [Subscribers -> Seq(Nat)]

LEMMA TypesKept ==
    /\ Types /\ UNCHANGED life => LifeTypes'
    /\ Types /\ UNCHANGED queue => QueueTypes'
    /\ Types /\ UNCHANGED metrics => MetricTypes'
    /\ Types /\ UNCHANGED registry => RegistryTypes'
    /\ Types /\ UNCHANGED publishing => PublishingTypes'
    /\ Types /\ UNCHANGED working => WorkingTypes'
    /\ Types /\ UNCHANGED histories => HistoryTypes'
BY DEF Types, LifeTypes, QueueTypes, MetricTypes, RegistryTypes, PublishingTypes, WorkingTypes, HistoryTypes,
       life, queue, metrics, registry, publishing, working, histories

LEMMA PublishTypes ==
    ASSUME DispInv, NEW t \in Callers, Publication(t)
    PROVE  LifeTypes' /\ QueueTypes' /\ MetricTypes' /\ RegistryTypes' /\ PublishingTypes' /\ WorkingTypes' /\ HistoryTypes'
<1> USE TypesKept
<1>0. Types
  BY DEF DispInv
<1>1. LifeTypes' /\ RegistryTypes' /\ WorkingTypes'
  BY <1>0 DEF Publication, PublishFrame
<1>2. ASSUME NEW kind \in Kinds, Publish(t, kind)
      PROVE  QueueTypes' /\ MetricTypes' /\ PublishingTypes' /\ HistoryTypes'
  <2>1. PublishingTypes'
    <3>1. (IF kind = "batch" THEN BatchLength ELSE 1) \in 0..BatchLength
      BY ConfigAssumption
    <3>2. left' \in [Callers -> 0..BatchLength]
      <4>1. left \in [Callers -> 0..BatchLength]
        BY <1>0 DEF Types
      <4>2. left' = [left EXCEPT ![t] = IF kind = "batch" THEN BatchLength ELSE 1]
        BY <1>2 DEF Publish
      <4> QED BY <3>1, <4>1, <4>2
    <3>3. call' \in [Callers -> Kinds] /\ UNCHANGED <<event, tried>>
      BY <1>0, <1>2 DEF Publish, Types
    <3> QED BY <1>0, <3>2, <3>3 DEF Types, PublishingTypes
  <2> QED BY <1>0, <1>2, <2>1 DEF Publish
<1>3. ASSUME CheckLifecycle(t) PROVE QueueTypes' /\ MetricTypes' /\ PublishingTypes' /\ HistoryTypes'
  <2>1. PublishingTypes'
    <3>1. tried \in Nat /\ event \in [Callers -> Nat]
      BY <1>0 DEF Types
    <3>2. tried' \in Nat /\ event' \in [Callers -> Nat] /\ UNCHANGED <<call, left>>
      BY <1>3, <3>1 DEF CheckLifecycle
    <3> QED BY <1>0, <3>2 DEF Types, PublishingTypes
  <2> QED BY <1>0, <1>3, <2>1 DEF CheckLifecycle
<1>4. ASSUME Push(t) PROVE QueueTypes' /\ MetricTypes' /\ PublishingTypes' /\ HistoryTypes'
  <2>1. event[t] \in Nat
    BY <1>0 DEF Types
  <2>2. items' \in Seq(Nat) /\ pushed' \in Seq(Nat)
    BY <1>0, <1>4, <2>1, AppendElements DEF Push, Queue!Push, Types
  <2>3. QueueTypes'
    BY <1>0, <1>4, <2>2 DEF Push, Queue!Push, Types, QueueTypes
  <2>4. {s \in Subscribers : handle[s] = "held"} \in SUBSET Subscribers
    OBVIOUS
  <2>5. HistoryTypes'
    BY <1>0, <1>4, <2>4, AppendElements DEF Push, Types, HistoryTypes
  <2> QED BY <1>0, <1>4, <2>3, <2>5 DEF Push
<1>5. ASSUME PushRefused(t) PROVE QueueTypes' /\ MetricTypes' /\ PublishingTypes' /\ HistoryTypes'
  BY <1>0, <1>5 DEF PushRefused
<1>6. ASSUME Return(t), UNCHANGED tried PROVE PublishingTypes'
  <2>1. 0 \in 0..BatchLength
    BY ConfigAssumption
  <2> QED BY <1>0, <1>6, <2>1 DEF Return, Types, PublishingTypes, Kinds
<1>7. ASSUME PushThrows(t) PROVE QueueTypes' /\ MetricTypes' /\ PublishingTypes' /\ HistoryTypes'
  BY <1>0, <1>6, <1>7 DEF PushThrows
<1>8. ASSUME Count(t) PROVE QueueTypes' /\ MetricTypes' /\ PublishingTypes' /\ HistoryTypes'
  <2>1. MetricTypes'
    <3>1. /\ accepted' = accepted + 1 \/ accepted' = accepted
          /\ rejected' = rejected + 1 \/ rejected' = rejected
          /\ dropped' = dropped
      BY <1>8 DEF Count
    <3>2. accepted \in Nat /\ rejected \in Nat /\ dropped \in Nat
      BY <1>0 DEF Types
    <3> QED BY <3>1, <3>2 DEF MetricTypes
  <2>2. PublishingTypes'
    <3>1. CASE Return(t)
      BY <1>6, <1>8, <3>1 DEF Count
    <3>2. CASE pc[t] = "count_accepted" /\ ~Return(t)
      <4>1. left' = [left EXCEPT ![t] = @ - 1] /\ left[t] # 1 /\ UNCHANGED <<call, event, tried>>
        BY <1>8, <3>2 DEF Count
      <4>2. left[t] # 0
        BY <3>2 DEF DispInv, PublishOK, PublishLabels
      <4>3. left[t] \in 0..BatchLength /\ BatchLength \in Nat
        BY <1>0, ConfigAssumption DEF Types
      <4>4. left[t] - 1 \in 0..BatchLength
        BY <4>2, <4>3
      <4> QED BY <1>0, <4>1, <4>4 DEF Types, PublishingTypes
    <3> QED BY <1>8, <3>1, <3>2 DEF Count
  <2> QED BY <1>0, <1>8, <2>1, <2>2 DEF Count
<1> QED BY <1>1, <1>2, <1>3, <1>4, <1>5, <1>7, <1>8 DEF Publication, PublishStep

LEMMA PopTypes ==
    ASSUME Types, Queue!Pop
    PROVE  QueueTypes' /\ Head(items) \in Nat /\ <<Head(items)>> \in Seq(Nat)
<1>1. items # <<>> /\ items \in Seq(Nat)
  BY DEF Types, Queue!Pop
<1>2. Head(items) \in Nat /\ Tail(items) \in Seq(Nat)
  BY <1>1, TailElements
<1>3. Append(taken, Head(items)) \in Seq(Nat)
  BY <1>2, AppendElements DEF Types
<1> QED BY <1>2, <1>3 DEF Types, QueueTypes, Queue!Pop

LEMMA PopClosedTypes == Types /\ Queue!PopClosed => QueueTypes'
BY DEF Types, QueueTypes, Queue!PopClosed

LEMMA WorkTypes ==
    ASSUME DispInv, NEW w \in Workers, Work(w)
    PROVE  LifeTypes' /\ QueueTypes' /\ MetricTypes' /\ RegistryTypes' /\ PublishingTypes' /\ WorkingTypes' /\ HistoryTypes'
<1> USE TypesKept
<1>0. Types
  BY DEF DispInv
<1>1. LifeTypes' /\ MetricTypes' /\ RegistryTypes' /\ PublishingTypes'
  BY <1>0 DEF Work, WorkFrame
<1>2. CASE WaitPop(w)
  <2>1. HistoryTypes'
    BY <1>0, <1>2 DEF WaitPop
  <2>2. CASE Queue!Pop /\ batch' = [batch EXCEPT ![w] = <<Head(items)>>]
    <3>1. QueueTypes' /\ <<Head(items)>> \in Seq(Nat)
      BY <1>0, <2>2, PopTypes
    <3>2. WorkingTypes'
      BY <1>0, <1>2, <2>2, <3>1 DEF WaitPop, WorkingTypes, Types
    <3> QED BY <1>1, <2>1, <3>1, <3>2
  <2>3. CASE EndOfStream /\ UNCHANGED batch
    <3>1. WorkingTypes'
      BY <1>0, <1>2, <2>3 DEF WaitPop, WorkingTypes, Types
    <3> QED BY <1>0, <1>1, <2>1, <2>3, <3>1, PopClosedTypes DEF EndOfStream
  <2>4. CASE UNCHANGED <<queue, batch>>
    <3>1. WorkingTypes'
      BY <1>0, <1>2, <2>4 DEF WaitPop, WorkingTypes, Types
    <3> QED BY <1>0, <1>1, <2>1, <2>4, <3>1
  <2> QED BY <1>2, <2>2, <2>3, <2>4 DEF WaitPop
<1>3. CASE FillBatch(w)
  <2>1. HistoryTypes'
    BY <1>0, <1>3 DEF FillBatch
  <2>2. CASE Queue!Pop /\ batch' = [batch EXCEPT ![w] = Extended(w)]
    <3>1. QueueTypes' /\ Head(items) \in Nat /\ batch[w] \in Seq(Nat)
      BY <1>0, <2>2, PopTypes DEF Types
    <3>2. Extended(w) \in Seq(Nat)
      BY <3>1, AppendElements DEF Extended
    <3>3. WorkingTypes'
      BY <1>0, <1>3, <2>2, <3>2 DEF FillBatch, WorkingTypes, Types
    <3> QED BY <1>1, <2>1, <3>1, <3>3
  <2>3. CASE (EndOfStream \/ UNCHANGED queue) /\ UNCHANGED batch
    <3>1. WorkingTypes'
      BY <1>0, <1>3, <2>3 DEF FillBatch, WorkingTypes, Types
    <3> QED BY <1>0, <1>1, <2>1, <2>3, <3>1, PopClosedTypes DEF EndOfStream
  <2> QED BY <1>3, <2>2, <2>3 DEF FillBatch
<1>4. CASE AcquireSnapshot(w)
  <2>1. WorkingTypes'
    BY <1>0, <1>4 DEF AcquireSnapshot, WorkingTypes, Types
  <2> QED BY <1>0, <1>1, <1>4, <2>1 DEF AcquireSnapshot
<1>5. ASSUME pc[w] \in {"offer", "callback"}
      PROVE  /\ batch[w] # <<>> /\ batch[w] \in Seq(Nat) /\ Head(batch[w]) \in Nat /\ Tail(batch[w]) \in Seq(Nat)
             /\ todo[w] # <<>> => Head(todo[w]) \in Subscribers /\ Tail(todo[w]) \in Seq(Subscribers)
  <2>1. batch[w] # <<>> /\ batch[w] \in Seq(Nat) /\ todo[w] \in Seq(Subscribers)
    BY <1>0, <1>5 DEF DispInv, BatchOK, Types
  <2> QED BY <2>1, TailElements
<1>6. CASE Invoke(w)
  <2>1. todo[w] # <<>> /\ pc[w] = "offer"
    BY <1>6 DEF Invoke
  <2>2. QueueTypes'
    BY <1>0, <1>6 DEF Invoke
  <2>3. CASE heard' = [heard EXCEPT ![Head(todo[w])] = Append(@, Head(batch[w]))] /\ UNCHANGED todo
    <3>1. Append(heard[Head(todo[w])], Head(batch[w])) \in Seq(Nat)
      BY <1>0, <1>5, <2>1, AppendElements DEF Types
    <3>2. HistoryTypes' /\ WorkingTypes'
      BY <1>0, <1>6, <2>3, <3>1 DEF Invoke, Types, HistoryTypes, WorkingTypes
    <3> QED BY <1>1, <2>2, <3>2
  <2>4. CASE todo' = [todo EXCEPT ![w] = Tail(@)] /\ UNCHANGED heard
    <3>1. HistoryTypes' /\ WorkingTypes'
      BY <1>0, <1>5, <1>6, <2>1, <2>4 DEF Invoke, Types, HistoryTypes, WorkingTypes
    <3> QED BY <1>1, <2>2, <3>1
  <2> QED BY <1>6, <2>3, <2>4 DEF Invoke
<1>7. CASE CallbackReturns(w)
  <2>1. todo[w] # <<>>
    BY <1>7 DEF CallbackReturns, DispInv, BatchOK, InCallback
  <2>2. WorkingTypes'
    BY <1>0, <1>5, <1>7, <2>1 DEF CallbackReturns, Types, WorkingTypes
  <2> QED BY <1>0, <1>1, <1>7, <2>2 DEF CallbackReturns
<1>8. CASE NextEvent(w)
  <2>1. Tail(batch[w]) \in Seq(Nat) /\ <<>> \in Seq(Subscribers) /\ snapshot[w] \in Seq(Subscribers)
    BY <1>0, <1>5, <1>8 DEF NextEvent, Types
  <2>2. WorkingTypes'
    BY <1>0, <1>8, <2>1 DEF NextEvent, Types, WorkingTypes
  <2> QED BY <1>0, <1>1, <1>8, <2>2 DEF NextEvent
<1> QED BY <1>2, <1>3, <1>4, <1>6, <1>7, <1>8 DEF Work, WorkerStep

LEMMA TargetFacts ==
    ASSUME DispInv, NEW t \in Registrants, pc[t] \in MemberLabels
    PROVE  target[t] \in Subscribers
BY DEF DispInv, HandlesOK

LEMMA MemberTypes ==
    ASSUME DispInv, NEW t \in Registrants, Membership(t)
    PROVE  LifeTypes' /\ QueueTypes' /\ MetricTypes' /\ RegistryTypes' /\ PublishingTypes' /\ WorkingTypes' /\ HistoryTypes'
<1> USE TypesKept
<1>0. Types
  BY DEF DispInv
<1>1. QueueTypes' /\ MetricTypes' /\ PublishingTypes' /\ WorkingTypes' /\ HistoryTypes'
  BY <1>0 DEF Membership, MemberFrame
<1>2. <<>> \in Seq(Subscribers) /\ current \in Seq(Subscribers) /\ next \in Seq(Subscribers)
  BY <1>0 DEF Types
<1>3. ASSUME NEW s \in Subscribers, Subscribe(t, s) PROVE LifeTypes' /\ RegistryTypes'
  <2>1. LifeTypes'
    BY <1>0, <1>3 DEF Subscribe, Types, LifeTypes
  <2>2. RegistryTypes'
    BY <1>0, <1>3 DEF Subscribe, Types, RegistryTypes, lists
  <2> QED BY <2>1, <2>2
<1>4. ASSUME NEW s \in Subscribers, Unsubscribe(t, s) PROVE LifeTypes' /\ RegistryTypes'
  <2>1. RegistryTypes'
    BY <1>0, <1>4 DEF Unsubscribe, Types, RegistryTypes, lists
  <2> QED BY <1>0, <1>4, <2>1 DEF Unsubscribe
<1>5. ASSUME Register(t) PROVE LifeTypes' /\ RegistryTypes'
  <2>1. target[t] \in Subscribers
    BY <1>5, TargetFacts DEF Register, MemberLabels
  <2>2. Filtered(current, Active) \in Seq(Subscribers)
    BY <1>2, FilteredFacts
  <2>3. next' \in Seq(Subscribers)
    BY <1>5, <2>1, <2>2, AppendElements DEF Register
  <2>4. RegistryTypes'
    BY <1>0, <1>5, <2>1, <2>3 DEF Register, Types, RegistryTypes
  <2> QED BY <1>0, <1>5, <2>4 DEF Register
<1>6. ASSUME Registered(t) PROVE LifeTypes' /\ RegistryTypes'
  <2>1. LifeTypes'
    BY <1>0, <1>6 DEF Registered, Types, LifeTypes
  <2>2. handle' \in [Subscribers -> {"none", "held", "reset", "gone"}] /\ active' \in [Subscribers -> BOOLEAN]
    BY <1>0, <1>6 DEF Registered, Types
  <2>3. current' \in Seq(Subscribers) /\ next' \in Seq(Subscribers)
    BY <1>2, <1>6 DEF Registered
  <2>4. target' \in [Registrants -> Subscribers \cup {NoThread}] /\ writer_mutex' \in Registrants \cup {NoThread}
    BY <1>0, <1>6 DEF Registered, Types
  <2> QED BY <2>1, <2>2, <2>3, <2>4 DEF RegistryTypes
<1>7. ASSUME AfterRetire(t) PROVE target' \in [Registrants -> Subscribers \cup {NoThread}]
  BY <1>0, <1>7 DEF AfterRetire, Types
<1>8. ASSUME Retire(t) PROVE LifeTypes' /\ RegistryTypes'
  <2>1. Filtered(current, Active \ {target[t]}) \in Seq(Subscribers)
    BY <1>2, FilteredFacts
  <2>2. next' \in Seq(Subscribers) /\ writer_mutex' \in Registrants \cup {NoThread}
    BY <1>0, <1>8, <2>1 DEF Retire, Types
  <2>3. target' \in [Registrants -> Subscribers \cup {NoThread}]
    BY <1>0, <1>7, <1>8 DEF Retire, Types
  <2>4. RegistryTypes'
    BY <1>0, <1>8, <2>2, <2>3 DEF Retire, Types, RegistryTypes
  <2> QED BY <1>0, <1>8, <2>4 DEF Retire
<1>9. ASSUME Retired(t) PROVE LifeTypes' /\ RegistryTypes'
  <2>1. RegistryTypes'
    BY <1>0, <1>2, <1>7, <1>9 DEF Retired, Types, RegistryTypes
  <2> QED BY <1>0, <1>9, <2>1 DEF Retired
<1>10. ASSUME AwaitIdle(t) PROVE LifeTypes' /\ RegistryTypes'
  <2>1. RegistryTypes'
    BY <1>0, <1>10 DEF AwaitIdle, Types, RegistryTypes, lists
  <2> QED BY <1>0, <1>10, <2>1 DEF AwaitIdle
<1> QED BY <1>1, <1>3, <1>4, <1>5, <1>6, <1>8, <1>9, <1>10 DEF Membership, MemberStep

LEMMA StopTypes ==
    ASSUME DispInv, NEW t \in Stoppers \cup {Owner}, Stopping(t)
    PROVE  LifeTypes' /\ QueueTypes' /\ MetricTypes' /\ RegistryTypes' /\ PublishingTypes' /\ WorkingTypes' /\ HistoryTypes'
<1> USE TypesKept
<1>0. Types
  BY DEF DispInv
<1>1. RegistryTypes' /\ PublishingTypes' /\ WorkingTypes' /\ HistoryTypes'
  BY <1>0 DEF Stopping, StopFrame
<1>2. ASSUME NEW policy \in Policies, Shutdown(t, policy) PROVE LifeTypes' /\ QueueTypes' /\ MetricTypes'
  <2>1. LifeTypes'
    BY <1>0, <1>2 DEF Shutdown, Types, LifeTypes, Lifecycles
  <2> QED BY <1>0, <1>2, <2>1 DEF Shutdown
<1>3. ASSUME CloseQueue(t) PROVE LifeTypes' /\ QueueTypes' /\ MetricTypes'
  <2>1. discarded \o items \in Seq(Nat) /\ <<>> \in Seq(Nat)
    BY <1>0, ConcatProperties DEF Types
  <2>2. QueueTypes'
    BY <1>0, <1>3, <2>1 DEF CloseQueue, Queue!Close, Queue!CloseAndDiscard, Types, QueueTypes
  <2> QED BY <1>0, <1>3, <2>2 DEF CloseQueue
<1>4. ASSUME CountDropped(t) PROVE LifeTypes' /\ QueueTypes' /\ MetricTypes'
  <2>1. Len(discarded) \in Nat
    BY <1>0, LenProperties DEF Types
  <2>2. MetricTypes'
    BY <1>0, <1>4, <2>1 DEF CountDropped, Types, MetricTypes
  <2> QED BY <1>0, <1>4, <2>2 DEF CountDropped
<1>5. ASSUME MarkStopped(t) PROVE LifeTypes' /\ QueueTypes' /\ MetricTypes'
  <2>1. LifeTypes'
    BY <1>0, <1>5 DEF MarkStopped, Types, LifeTypes, Lifecycles
  <2> QED BY <1>0, <1>5, <2>1 DEF MarkStopped
<1>6. ASSUME JoinWorkers(t) \/ NotifyStopped(t) \/ AwaitStopped(t) \/ SpuriousWake(t)
      PROVE  LifeTypes' /\ QueueTypes' /\ MetricTypes'
  BY <1>0, <1>6 DEF JoinWorkers, NotifyStopped, AwaitStopped, SpuriousWake
<1>7. ASSUME Dispose PROVE LifeTypes' /\ QueueTypes' /\ MetricTypes'
  <2>1. LifeTypes'
    BY <1>0, <1>7 DEF Dispose, Types, LifeTypes
  <2> QED BY <1>0, <1>7, <2>1 DEF Dispose
<1> QED BY <1>1, <1>2, <1>3, <1>4, <1>5, <1>6, <1>7 DEF Stopping, StopStep

LEMMA TypesStep == ASSUME DispInv, Next PROVE Types'
<1> USE TypesKept
<1>0. Types
  BY DEF DispInv
<1>1. Types' <=> /\ LifeTypes' /\ QueueTypes' /\ MetricTypes' /\ RegistryTypes' /\ PublishingTypes' /\ WorkingTypes'
                 /\ HistoryTypes' /\ pc' \in [Threads -> Labels]
  BY DEF Types, LifeTypes, QueueTypes, MetricTypes, RegistryTypes, PublishingTypes, WorkingTypes, HistoryTypes
<1>2. ASSUME Construction
      PROVE  LifeTypes' /\ QueueTypes' /\ MetricTypes' /\ RegistryTypes' /\ PublishingTypes' /\ WorkingTypes' /\ HistoryTypes'
  <2>1. LifeTypes'
    BY <1>0, <1>2 DEF Construction, Construct, ConstructFails, Abandon, life, Types, LifeTypes, Lifecycles
  <2> QED BY <1>0, <1>2, <2>1 DEF Construction, OwnerFrame
<1>3. ASSUME Rest PROVE LifeTypes' /\ QueueTypes' /\ MetricTypes' /\ RegistryTypes' /\ PublishingTypes' /\ WorkingTypes' /\ HistoryTypes'
  BY <1>0, <1>3 DEF Rest, vars, life, queue, metrics, registry, publishing, working, histories
<1> QED BY <1>1, <1>2, <1>3, PcStep, StepKinds, PublishTypes, WorkTypes, MemberTypes, StopTypes
-----------------------------------------------------------------------------
(* Publications. *)

LEMMA PublishKept ==
    ASSUME PublishOK, UNCHANGED <<left, pushed, tried, event>>,
           \A t \in Callers : pc'[t] \in PublishLabels => pc'[t] = pc[t]
    PROVE  PublishOK'
BY DEF PublishOK, PublishLabels

LEMMA PublishPublishes ==
    ASSUME DispInv, NEW t \in Callers, Publication(t)
    PROVE  PublishOK'
<1> USE ThreadFacts DEF DispInv
<1>0. /\ Types /\ PublishOK /\ pc \in [Threads -> Labels] /\ t \in Threads
      /\ \A u \in Callers \ {t} : pc'[u] = pc[u]
  BY DEF Types, Publication, PublishFrame, Moves
<1>1. Home(t) \notin PublishLabels /\ Home(t) # "push" /\ {"check", "push", "count_accepted", "count_rejected"} = PublishLabels
  BY DEF Home, PublishLabels
<1>2. \A l : Goto(t, l) => pc'[t] = l
  BY <1>0 DEF Goto
<1>3. ASSUME NEW kind \in Kinds, Publish(t, kind) PROVE PublishOK'
  <2>1. pc'[t] = "check" /\ left'[t] # 0 /\ \A u \in Callers \ {t} : left'[u] = left[u]
    BY <1>0, <1>2, <1>3, ConfigAssumption DEF Publish, Types
  <2>2. UNCHANGED <<pushed, tried, event>>
    BY <1>3 DEF Publish, queue
  <2>3. \A u \in Callers : pc'[u] \in PublishLabels => left'[u] # 0
    BY <1>0, <2>1 DEF PublishOK
  <2> QED BY <1>0, <2>1, <2>2, <2>3 DEF PublishOK
<1>4. ASSUME CheckLifecycle(t) PROVE PublishOK'
  <2>1. /\ pc[t] = "check" /\ tried \in Nat /\ tried' = tried + 1 /\ event'[t] = tried + 1
        /\ \A u \in Callers \ {t} : event'[u] = event[u]
        /\ UNCHANGED <<left, pushed>>
    <3>1. event \in [Callers -> Nat] /\ tried \in Nat
      BY <1>0 DEF Types
    <3>2. event' = [event EXCEPT ![t] = tried + 1]
      BY <1>4 DEF CheckLifecycle
    <3>3. pc[t] = "check" /\ tried' = tried + 1 /\ UNCHANGED <<left, pushed>>
      BY <1>4 DEF CheckLifecycle, queue
    <3> QED BY <3>1, <3>2, <3>3
  <2>2. \A e \in Elements(pushed) : e \in Nat
    BY <1>0, ElementOfSeq DEF Types, Elements
  <2>3. (\A e \in Elements(pushed) : e <= tried') /\ event'[t] \notin Elements(pushed) /\ event'[t] <= tried'
    BY <1>0, <2>1, <2>2 DEF PublishOK
  <2>4. \A u \in Callers : event[u] \in Nat
    BY <1>0 DEF Types
  <2>5. \A u \in Callers \ {t} : pc[u] = "push" => event'[u] <= tried' /\ event'[u] # event'[t]
    BY <1>0, <2>1, <2>4 DEF PublishOK
  <2>6. \A u \in Callers : pc'[u] \in PublishLabels => left'[u] # 0
    BY <1>0, <1>1, <2>1 DEF PublishOK
  <2> QED BY <1>0, <2>1, <2>3, <2>5, <2>6 DEF PublishOK
<1>5. ASSUME Push(t) PROVE PublishOK'
  <2>1. /\ pc[t] = "push" /\ pc'[t] = "count_accepted" /\ pushed' = Append(pushed, event[t])
        /\ UNCHANGED <<left, tried, event>> /\ event[t] \in Nat /\ pushed \in Seq(Nat)
    BY <1>0, <1>2, <1>5 DEF Push, Queue!Push, publishing, Types
  <2>2. event[t] <= tried /\ event[t] \notin Elements(pushed) /\ Distinct(pushed)
    BY <1>0, <2>1 DEF PublishOK
  <2>3. Elements(pushed') = Elements(pushed) \cup {event[t]} /\ Distinct(pushed')
    BY <2>1, <2>2, AppendElements
  <2>4. \A u \in Callers : pc'[u] = "push" => u # t /\ pc[u] = "push" /\ event[u] # event[t]
    BY <1>0, <2>1 DEF PublishOK
  <2>5. \A u \in Callers : pc'[u] \in PublishLabels => left'[u] # 0
    BY <1>0, <1>1, <2>1 DEF PublishOK
  <2> QED BY <1>0, <2>1, <2>2, <2>3, <2>4, <2>5 DEF PublishOK
<1>6. ASSUME PushRefused(t) PROVE PublishOK'
  <2>1. pc[t] = "push" /\ pc'[t] = "count_rejected" /\ UNCHANGED <<left, tried, event, pushed>>
    BY <1>0, <1>2, <1>6 DEF PushRefused, publishing, queue
  <2> QED BY <1>0, <1>1, <2>1 DEF PublishOK
<1>7. ASSUME Return(t), UNCHANGED <<tried, pushed>> PROVE PublishOK'
  <2>1. pc'[t] = Home(t) /\ \A u \in Callers \ {t} : left'[u] = left[u] /\ event'[u] = event[u]
    BY <1>0, <1>2, <1>7 DEF Return, Types
  <2>2. \A u \in Callers : pc'[u] \in PublishLabels => left'[u] # 0
    BY <1>0, <1>1, <2>1 DEF PublishOK
  <2> QED BY <1>0, <1>1, <1>7, <2>1, <2>2 DEF PublishOK
<1>8. ASSUME PushThrows(t) PROVE PublishOK'
  BY <1>7, <1>8 DEF PushThrows, queue
<1>9. ASSUME Count(t) PROVE PublishOK'
  <2>1. CASE Return(t)
    BY <1>7, <1>9, <2>1 DEF Count, queue
  <2>2. CASE ~Return(t)
    <3>1. pc[t] = "count_accepted" /\ left[t] # 1 /\ pc'[t] = "check" /\ left' = [left EXCEPT ![t] = @ - 1]
          /\ UNCHANGED <<event, tried, pushed>>
      BY <1>2, <1>9, <2>2 DEF Count, queue
    <3>2. left[t] \in Nat /\ left'[t] = left[t] - 1 /\ \A u \in Callers \ {t} : left'[u] = left[u]
      BY <1>0, <3>1, ConfigAssumption DEF Types
    <3>3. left'[t] # 0
      BY <3>1, <3>2
    <3>4. \A u \in Callers : pc'[u] \in PublishLabels => left'[u] # 0
      BY <1>0, <1>1, <3>1, <3>2, <3>3 DEF PublishOK
    <3> QED BY <1>0, <3>1, <3>4 DEF PublishOK
  <2> QED BY <2>1, <2>2
<1> QED BY <1>3, <1>4, <1>5, <1>6, <1>8, <1>9 DEF Publication, PublishStep

LEMMA PublishOKStep == ASSUME DispInv, Next PROVE PublishOK'
<1> USE ThreadFacts, LabelFacts DEF DispInv
<1>0. pc \in [Threads -> Labels]
  BY DEF Types
<1>1. ASSUME NEW w \in Workers, Work(w) PROVE PublishOK'
  <2>1. \A t \in Callers : pc'[t] \in PublishLabels => pc'[t] = pc[t]
    BY <1>1 DEF Work, WorkFrame, Moves
  <2> QED BY <1>1, <2>1, PublishKept DEF Work, WorkFrame, publishing
<1>2. ASSUME NEW t \in Registrants, Membership(t) PROVE PublishOK'
  <2>1. \A u \in Callers : pc'[u] \in PublishLabels => pc'[u] = pc[u]
    BY <1>2 DEF Membership, MemberFrame, Moves, Home, PublishLabels
  <2> QED BY <1>2, <2>1, PublishKept DEF Membership, MemberFrame, publishing, queue
<1>3. ASSUME NEW t \in Stoppers \cup {Owner}, Stopping(t) PROVE PublishOK'
  <2>1. \A u \in Callers : pc'[u] \in PublishLabels => pc'[u] = pc[u]
    BY <1>3 DEF Stopping, StopFrame, Wakes, PublishLabels
  <2> QED BY <1>3, <2>1, PublishKept DEF Stopping, StopFrame, publishing
<1>4. ASSUME Construction PROVE PublishOK'
  <2>1. \A u \in Callers : pc'[u] \in PublishLabels => pc'[u] = pc[u]
    BY <1>0, <1>4 DEF Construction, Construct, ConstructFails, Abandon, Goto, PublishLabels
  <2> QED BY <1>4, <2>1, PublishKept DEF Construction, OwnerFrame, publishing, queue
<1>5. ASSUME Rest PROVE PublishOK'
  BY <1>5, PublishKept DEF Rest, vars
<1> QED BY <1>1, <1>2, <1>3, <1>4, <1>5, StepKinds, PublishPublishes
-----------------------------------------------------------------------------
(* The queue. *)

LEMMA PopKeepsQueue ==
    ASSUME DispInv, Queue!Pop
    PROVE  QueueOK' /\ discarded = <<>> /\ ~ended
<1>1. /\ items # <<>> /\ taken' = Append(taken, Head(items)) /\ items' = Tail(items)
      /\ UNCHANGED <<closed, pushed, discarded, ended>>
  BY DEF Queue!Pop
<1>2. discarded = <<>> /\ ~ended /\ Ledger(pushed, taken, discarded, items)
  BY <1>1 DEF DispInv, QueueOK
<1>3. items \in Seq(Nat) /\ taken \in Seq(Nat)
  BY DEF DispInv, Types
<1>4. Ledger(pushed, Append(taken, Head(items)), <<>>, Tail(items))
  BY <1>1, <1>2, <1>3, LedgerPop
<1>5. Ledger(pushed', taken', discarded', items')
  BY <1>1, <1>2, <1>4
<1>6. Len(items') = Len(items) - 1 /\ Len(items) \in Nat /\ Len(items) <= QueueCapacity
  BY <1>1, <1>3, TailElements, LenProperties DEF DispInv, QueueOK
<1>7. Len(items') <= QueueCapacity
  BY <1>6, ConfigAssumption
<1> QED BY <1>1, <1>2, <1>5, <1>7 DEF QueueOK

LEMMA QueueOKStep == ASSUME DispInv, Next PROVE QueueOK'
<1> USE DEF DispInv
<1>0. ASSUME UNCHANGED queue PROVE QueueOK'
  BY <1>0 DEF queue, QueueOK
<1>1. ASSUME Queue!PopClosed PROVE QueueOK'
  BY <1>1 DEF Queue!PopClosed, QueueOK
<1>2. ASSUME NEW t \in Callers, Push(t) PROVE QueueOK'
  <2>1. /\ ~closed /\ Len(items) < QueueCapacity /\ event[t] \in Nat
        /\ items' = Append(items, event[t]) /\ pushed' = Append(pushed, event[t])
        /\ UNCHANGED <<closed, taken, discarded, ended>>
    BY <1>2 DEF Push, Queue!Push, Types
  <2>2. items \in Seq(Nat) /\ pushed \in Seq(Nat) /\ taken \in Seq(Nat) /\ discarded \in Seq(Nat)
    BY DEF Types
  <2>3. Len(items') = Len(items) + 1 /\ Len(items) \in Nat
    BY <2>1, <2>2, AppendElements, LenProperties
  <2>4. Len(items') <= QueueCapacity
    BY <2>1, <2>3, ConfigAssumption
  <2>5. Ledger(pushed, taken, discarded, items) /\ ~(ended \/ discarded # <<>>)
    BY <2>1 DEF QueueOK
  <2>6. Ledger(Append(pushed, event[t]), taken, discarded, Append(items, event[t]))
    BY <2>1, <2>2, <2>5, LedgerPush
  <2>7. Ledger(pushed', taken', discarded', items')
    BY <2>1, <2>6
  <2> QED BY <2>1, <2>4, <2>5, <2>7 DEF QueueOK
<1>3. ASSUME NEW t \in Callers, Publication(t) PROVE QueueOK'
  <2>1. Push(t) \/ UNCHANGED queue
    BY <1>3 DEF Publication, Publish, PublishStep, CheckLifecycle, PushRefused, PushThrows, Count
  <2> QED BY <1>0, <1>2, <2>1
<1>4. ASSUME NEW w \in Workers, Work(w) PROVE QueueOK'
  <2>1. Queue!Pop \/ Queue!PopClosed \/ UNCHANGED queue
    BY <1>4 DEF Work, WorkerStep, WaitPop, FillBatch, EndOfStream, AcquireSnapshot, Invoke, CallbackReturns, NextEvent
  <2> QED BY <1>0, <1>1, <2>1, PopKeepsQueue
<1>5. ASSUME NEW t \in Registrants, Membership(t) PROVE QueueOK'
  BY <1>0, <1>5 DEF Membership, MemberFrame
<1>6. ASSUME Queue!Close PROVE QueueOK'
  BY <1>6 DEF Queue!Close, QueueOK
<1>7. ASSUME Queue!CloseAndDiscard PROVE QueueOK'
  <2>1. closed' = TRUE /\ discarded' = discarded \o items /\ items' = <<>> /\ UNCHANGED <<pushed, taken, ended>>
    BY <1>7 DEF Queue!CloseAndDiscard
  <2>2. items \in Seq(Nat) /\ taken \in Seq(Nat) /\ discarded \in Seq(Nat)
    BY DEF Types
  <2>3. Ledger(pushed, taken, discarded \o items, <<>>)
    BY <2>2, LedgerClear DEF QueueOK
  <2>4. Len(<<>>) <= QueueCapacity
    BY ConfigAssumption
  <2> QED BY <2>1, <2>3, <2>4 DEF QueueOK
<1>8. ASSUME NEW t \in Stoppers \cup {Owner}, Stopping(t) PROVE QueueOK'
  <2>1. Queue!Close \/ Queue!CloseAndDiscard \/ UNCHANGED queue
    BY <1>8 DEF Stopping, StopStep, Shutdown, CloseQueue, CountDropped, JoinWorkers, MarkStopped, NotifyStopped,
                AwaitStopped, SpuriousWake, Dispose
  <2> QED BY <1>0, <1>6, <1>7, <2>1
<1>9. ASSUME Construction PROVE QueueOK'
  BY <1>0, <1>9 DEF Construction, OwnerFrame
<1>10. ASSUME Rest PROVE QueueOK'
  BY <1>0, <1>10 DEF Rest, vars, queue
<1> QED BY <1>3, <1>4, <1>5, <1>8, <1>9, <1>10, StepKinds
-----------------------------------------------------------------------------
(* The workers' batches. *)

CallbackLabels == {"callback"} \cup PublishLabels \cup MemberLabels

(* For a worker, to be in a callback is to be at one of these labels. *)
LEMMA CallbackFacts ==
    /\ LabelsOK => \A w \in Workers : InCallback(w) <=> pc[w] \in CallbackLabels
    /\ \A w \in Workers : Home(w) = "callback"
    /\ \A l \in CallbackLabels : l \notin {"loop", "fill", "snapshot", "offer", "done"}
    /\ \A w \in Workers : LabelsOf(w) = {"loop", "fill", "snapshot", "offer", "done"} \cup CallbackLabels
<1>1. \A w \in Workers : LabelsOf(w) = {"loop", "fill", "snapshot", "offer", "done"} \cup CallbackLabels
  BY DEF LabelsOf, WorkerLabels, CallbackLabels
<1>2. \A l \in CallbackLabels : l \notin {"loop", "fill", "snapshot", "offer", "done"}
  BY DEF CallbackLabels, PublishLabels, MemberLabels
<1>3. ASSUME LabelsOK, NEW w \in Workers PROVE InCallback(w) <=> pc[w] \in CallbackLabels
  BY <1>1, <1>2, <1>3, ThreadFacts DEF LabelsOK, InCallback
<1> QED BY <1>1, <1>2, <1>3 DEF Home

(* Workers are where they were, or still inside the same callback. *)
Calm ==
    /\ \A w \in Workers : pc'[w] = pc[w] \/ (pc[w] \in CallbackLabels /\ pc'[w] \in CallbackLabels)
    /\ UNCHANGED <<program, taken, ended, working, heard>>

LEMMA CalmSteps ==
    ASSUME DispInv
    PROVE  /\ \A t \in Callers : Publication(t) => Calm
           /\ \A t \in Registrants : Membership(t) => Calm
           /\ \A t \in Stoppers \cup {Owner} : Stopping(t) => Calm
           /\ Construct \/ Abandon \/ Rest => Calm
<1> USE ThreadFacts, CallbackFacts DEF CallbackLabels
<1>0. LabelsOK /\ pc \in [Threads -> Labels]
  BY DEF DispInv, Types
<1>1. ASSUME NEW t \in Callers, Publication(t) PROVE Calm
  BY <1>1 DEF Publication, PublishFrame, Moves, Calm, life
<1>2. ASSUME NEW t \in Registrants, Membership(t) PROVE Calm
  BY <1>2 DEF Membership, MemberFrame, Moves, Calm, queue, histories
<1>3. ASSUME NEW t \in Stoppers \cup {Owner}, Stopping(t) PROVE Calm
  <2>1. \A w \in Workers : pc[w] # "waiting"
    BY <1>0 DEF LabelsOK, LabelsOf, WorkerLabels, PublishLabels, MemberLabels
  <2> QED BY <1>3, <2>1 DEF Stopping, StopFrame, Wakes, Calm, histories
<1>4. ASSUME Construct \/ Abandon \/ Rest PROVE Calm
  <2>1. \A w \in Workers : pc'[w] = pc[w]
    BY <1>0, <1>4 DEF Construct, Abandon, Rest, vars, Goto
  <2> QED BY <1>4, <2>1 DEF Construct, Abandon, Rest, vars, Calm, queue, histories, life, working
<1> QED BY <1>1, <1>2, <1>3, <1>4

LEMMA CalmCallbacks ==
    ASSUME LabelsOK, LabelsOK', Calm
    PROVE  /\ \A w \in Workers : /\ InCallback(w)' <=> InCallback(w)
                                 /\ pc'[w] = "offer" <=> pc[w] = "offer"
                                 /\ pc'[w] \in {"loop", "done"} <=> pc[w] \in {"loop", "done"}
                                 /\ pc'[w] = "done" <=> pc[w] = "done"
           /\ \A s : InFlight(s)' = InFlight(s)
<1>1. \A w \in Workers : InCallback(w)' <=> pc'[w] \in CallbackLabels
  BY CallbackFacts, ThreadFacts DEF LabelsOK, InCallback
<1>2. ASSUME NEW w \in Workers PROVE InCallback(w)' <=> InCallback(w)
  BY <1>1, CallbackFacts DEF Calm
<1>3. \A s : InFlight(s)' = InFlight(s)
  BY <1>2 DEF InFlight, Invoking, Calm, working
<1> QED BY <1>2, <1>3, CallbackFacts DEF Calm

LEMMA BatchKept == ASSUME DispInv, LabelsOK', Calm PROVE BatchOK'
<1>1. LabelsOK
  BY DEF DispInv
<1>2. \A w \in Workers : (InCallback(w)' <=> InCallback(w)) /\ (pc'[w] \in {"loop", "done"} <=> pc[w] \in {"loop", "done"})
  BY <1>1, CalmCallbacks
<1> QED BY <1>2 DEF BatchOK, DispInv, Calm, working

(* What a worker's step does to its own local state; the others keep theirs. *)
LEMMA WorkLocal ==
    ASSUME DispInv, NEW w \in Workers, Work(w)
    PROVE  \A v \in Workers \ {w} :
               pc'[v] = pc[v] /\ batch'[v] = batch[v] /\ snapshot'[v] = snapshot[v] /\ todo'[v] = todo[v]
<1> USE ThreadFacts
<1>0. Types
  BY DEF DispInv
<1>1. \A v \in Workers \ {w} : pc'[v] = pc[v]
  BY DEF Work, WorkFrame, Moves
<1>2. CASE WaitPop(w)
  BY <1>0, <1>1, <1>2 DEF WaitPop, Types
<1>3. CASE FillBatch(w)
  BY <1>0, <1>1, <1>3 DEF FillBatch, Types
<1>4. CASE AcquireSnapshot(w)
  BY <1>0, <1>1, <1>4 DEF AcquireSnapshot, Types
<1>5. CASE Invoke(w)
  BY <1>0, <1>1, <1>5 DEF Invoke, Types
<1>6. CASE CallbackReturns(w)
  BY <1>0, <1>1, <1>6 DEF CallbackReturns, Types
<1>7. CASE NextEvent(w)
  <2>1. /\ batch' = [batch EXCEPT ![w] = Tail(@)]
        /\ snapshot' = [snapshot EXCEPT ![w] = <<>>] \/ snapshot' = snapshot
        /\ todo' = [todo EXCEPT ![w] = snapshot[w]] \/ todo' = todo
    BY <1>7 DEF NextEvent
  <2>2. batch \in [Workers -> Seq(Nat)] /\ snapshot \in [Workers -> Seq(Subscribers)] /\ todo \in [Workers -> Seq(Subscribers)]
    BY <1>0 DEF Types
  <2>3. \A v \in Workers \ {w} : snapshot'[v] = snapshot[v]
    BY <2>1, <2>2
  <2>4. \A v \in Workers \ {w} : todo'[v] = todo[v]
    BY <2>1, <2>2
  <2>5. \A v \in Workers \ {w} : batch'[v] = batch[v]
    BY <2>1, <2>2
  <2> QED BY <1>1, <2>3, <2>4, <2>5
<1> QED BY <1>2, <1>3, <1>4, <1>5, <1>6, <1>7 DEF Work, WorkerStep

(* The batch of one worker. *)
BatchOf(w) ==
    /\ batch[w] = <<>> <=> pc[w] \in {"loop", "done"}
    /\ Len(batch[w]) <= WorkerBatchSize
    /\ Elements(batch[w]) \subseteq Elements(taken)
    /\ InCallback(w) => todo[w] # <<>>

LEMMA PopFacts ==
    ASSUME DispInv, Queue!Pop
    PROVE  /\ Head(items) \in Nat /\ Elements(taken') = Elements(taken) \cup {Head(items)}
           /\ pushed' = pushed /\ Head(items) \in Elements(items)
<1>1. items # <<>> /\ items \in Seq(Nat) /\ taken \in Seq(Nat) /\ taken' = Append(taken, Head(items)) /\ pushed' = pushed
  BY DEF DispInv, Types, Queue!Pop
<1>2. Head(items) \in Nat /\ Head(items) \in Elements(items)
  BY <1>1, TailElements
<1> QED BY <1>1, <1>2, AppendElements

LEMMA BatchWorks ==
    ASSUME DispInv, NEW w \in Workers, Work(w)
    PROVE  BatchOf(w)' /\ Elements(taken) \subseteq Elements(taken')
<1> USE ThreadFacts
<1>0. Types /\ BatchOf(w) /\ w \in Threads /\ batch[w] \in Seq(Nat)
  BY DEF DispInv, BatchOK, BatchOf, Types
<1>1. \A l : Goto(w, l) => pc'[w] = l
  BY <1>0 DEF Goto, Types
<1>2. WorkerBatchSize \in Nat \ {0}
  BY ConfigAssumption
<1>3. ASSUME taken' = taken, batch' = batch, todo' = todo, InCallback(w)' => InCallback(w),
             pc'[w] \in {"loop", "done"} <=> pc[w] \in {"loop", "done"}
      PROVE  BatchOf(w)' /\ Elements(taken) \subseteq Elements(taken')
  BY <1>0, <1>3 DEF BatchOf
<1>4. CASE WaitPop(w)
  <2>1. CASE Queue!Pop /\ batch' = [batch EXCEPT ![w] = <<Head(items)>>] /\ Goto(w, "fill")
    <3>1. pc'[w] = "fill" /\ batch'[w] = <<Head(items)>>
      BY <1>0, <1>1, <2>1 DEF Types
    <3>2. Len(<<Head(items)>>) = 1 /\ <<Head(items)>> # <<>> /\ Elements(<<Head(items)>>) = {Head(items)}
      BY DEF Elements
    <3>3. Elements(taken') = Elements(taken) \cup {Head(items)}
      BY <2>1, PopFacts
    <3>4. Len(batch'[w]) <= WorkerBatchSize /\ ~InCallback(w)'
      BY <1>2, <3>1, <3>2 DEF InCallback
    <3> QED BY <3>1, <3>2, <3>3, <3>4 DEF BatchOf
  <2>2. CASE UNCHANGED <<batch, taken>> /\ Goto(w, "done")
    <3>1. pc[w] = "loop" /\ pc'[w] = "done" /\ todo' = todo
      BY <1>1, <1>4, <2>2 DEF WaitPop
    <3> QED BY <1>3, <2>2, <3>1 DEF InCallback
  <2> QED BY <1>4, <2>1, <2>2 DEF WaitPop, EndOfStream, Queue!PopClosed, queue
<1>5. CASE FillBatch(w)
  <2>1. pc[w] = "fill" /\ todo' = todo
    BY <1>5 DEF FillBatch
  <2>2. CASE HasRoom(w) /\ Queue!Pop /\ batch' = [batch EXCEPT ![w] = Extended(w)] /\ UNCHANGED pc
    <3>1. Head(items) \in Nat /\ Elements(taken') = Elements(taken) \cup {Head(items)}
      BY <2>2, PopFacts
    <3>2. /\ batch'[w] = Append(batch[w], Head(items)) /\ Len(batch'[w]) = Len(batch[w]) + 1
          /\ Elements(batch'[w]) = Elements(batch[w]) \cup {Head(items)}
      <4>1. batch[w] \in Seq(Nat) /\ batch'[w] = Append(batch[w], Head(items))
        BY <1>0, <2>2 DEF Types, Extended
      <4> QED BY <3>1, <4>1, AppendElements
    <3>3. Len(batch[w]) \in Nat /\ Len(batch[w]) < WorkerBatchSize
      BY <1>0, <2>2, LenProperties DEF HasRoom
    <3>4. Len(batch'[w]) <= WorkerBatchSize /\ Len(batch'[w]) # 0
      BY <1>2, <3>2, <3>3
    <3>5. batch'[w] # <<>>
      BY <3>4
    <3>6. pc'[w] = "fill" /\ ~InCallback(w)'
      BY <2>1, <2>2 DEF InCallback
    <3> QED BY <1>0, <3>1, <3>2, <3>4, <3>5, <3>6 DEF BatchOf
  <2>3. CASE UNCHANGED batch /\ Goto(w, "snapshot")
    <3>1. taken' = taken /\ pc'[w] = "snapshot"
      BY <1>1, <1>5, <2>1, <2>3 DEF FillBatch, EndOfStream, Queue!PopClosed, queue, HasRoom, Extended, Queue!Pop
    <3> QED BY <1>3, <2>1, <2>3, <3>1 DEF InCallback
  <2> QED BY <1>5, <2>2, <2>3 DEF FillBatch
<1>6. CASE AcquireSnapshot(w)
  <2>1. pc[w] = "snapshot" /\ pc'[w] = "offer" /\ taken' = taken /\ batch' = batch
    BY <1>1, <1>6 DEF AcquireSnapshot, queue
  <2> QED BY <1>0, <2>1 DEF BatchOf, InCallback
<1>7. CASE Invoke(w)
  <2>1. pc[w] = "offer" /\ todo[w] # <<>> /\ taken' = taken /\ batch' = batch
    BY <1>7 DEF Invoke, queue
  <2>2. (pc'[w] = "callback" /\ todo' = todo) \/ pc'[w] = "offer"
    BY <1>1, <1>7 DEF Invoke
  <2> QED BY <1>0, <2>1, <2>2 DEF BatchOf, InCallback
<1>8. CASE CallbackReturns(w)
  <2>1. pc[w] = "callback" /\ pc'[w] = "offer" /\ taken' = taken /\ batch' = batch
    BY <1>1, <1>8 DEF CallbackReturns, queue
  <2> QED BY <1>0, <2>1 DEF BatchOf, InCallback
<1>9. CASE NextEvent(w)
  <2>1. pc[w] = "offer" /\ taken' = taken /\ batch'[w] = Tail(batch[w]) /\ batch[w] # <<>>
    BY <1>0, <1>9 DEF NextEvent, queue, Types, BatchOf
  <2>2. /\ Len(batch'[w]) = Len(batch[w]) - 1 /\ Elements(batch'[w]) \subseteq Elements(batch[w])
        /\ Len(batch[w]) \in Nat /\ batch'[w] \in Seq(Nat)
    BY <1>0, <2>1, TailElements, LenProperties
  <2>3. Len(batch'[w]) <= WorkerBatchSize
    BY <1>0, <1>2, <2>2 DEF BatchOf
  <2>4. CASE Len(batch[w]) = 1
    <3>1. pc'[w] = "loop" /\ Len(batch'[w]) = 0
      BY <1>1, <1>9, <2>2, <2>4 DEF NextEvent
    <3>2. batch'[w] = <<>>
      BY <2>2, <3>1, EmptySeq
    <3> QED BY <1>0, <2>1, <2>2, <2>3, <3>1, <3>2 DEF BatchOf, InCallback
  <2>5. CASE Len(batch[w]) # 1
    <3>1. pc'[w] = "offer" /\ Len(batch'[w]) # 0
      BY <1>9, <2>1, <2>2, <2>5 DEF NextEvent
    <3>2. batch'[w] # <<>>
      BY <3>1
    <3> QED BY <1>0, <2>1, <2>2, <2>3, <3>1, <3>2 DEF BatchOf, InCallback
  <2> QED BY <2>4, <2>5
<1> QED BY <1>4, <1>5, <1>6, <1>7, <1>8, <1>9 DEF Work, WorkerStep

LEMMA BatchOKStep == ASSUME DispInv, Next, LabelsOK' PROVE BatchOK'
<1> USE ThreadFacts
<1>1. ASSUME NEW w \in Workers, Work(w) PROVE BatchOK'
  <2>1. BatchOf(w)' /\ Elements(taken) \subseteq Elements(taken')
    BY <1>1, BatchWorks
  <2>2. ASSUME NEW v \in Workers \ {w} PROVE BatchOf(v)'
    <3>1. pc'[v] = pc[v] /\ batch'[v] = batch[v] /\ todo'[v] = todo[v]
      BY <1>1, WorkLocal
    <3>2. BatchOf(v)
      BY DEF DispInv, BatchOK, BatchOf
    <3> QED BY <2>1, <3>1, <3>2 DEF BatchOf, InCallback
  <2>3. \A v \in Workers : BatchOf(v)'
    BY <2>1, <2>2
  <2> QED BY <2>3 DEF BatchOK, BatchOf
<1>2. ASSUME ConstructFails PROVE BatchOK'
  <2>1. \A v \in Workers : pc[v] \in {"loop", "done"}
    BY <1>2 DEF ConstructFails, DispInv, CreatedOK
  <2>2. \A v \in Workers : pc'[v] \in {"loop", "done"}
    BY <1>2, <2>1 DEF ConstructFails
  <2>3. UNCHANGED <<batch, taken, todo>>
    BY <1>2 DEF ConstructFails, working, queue
  <2> QED BY <2>1, <2>2, <2>3 DEF DispInv, BatchOK, InCallback
<1> QED BY <1>1, <1>2, StepKinds, CalmSteps, BatchKept DEF Construction
-----------------------------------------------------------------------------
(* Construction. *)

LEMMA CreatedOKStep == ASSUME DispInv, Next PROVE CreatedOK'
<1> USE ThreadFacts
<1>0. /\ Types /\ CreatedOK /\ ShutdownOK /\ pc \in [Threads -> Labels]
      /\ Home(Owner) = "idle" /\ \A t : Home(t) \in {"idle", "callback"}
  BY DEF DispInv, Types, Home
<1>1. ASSUME lifecycle # "created", lifecycle' = lifecycle, stop_requested' = stop_requested,
             pc'[Owner] = pc[Owner]
      PROVE  CreatedOK'
  BY <1>0, <1>1 DEF CreatedOK
<1>2. ASSUME NEW t \in Callers, Publication(t) PROVE CreatedOK'
  BY <1>1, <1>2 DEF Publication, PublishFrame, Moves, life
<1>3. ASSUME NEW t \in Registrants, Membership(t) PROVE CreatedOK'
  BY <1>1, <1>3 DEF Membership, MemberFrame, Moves
<1>4. ASSUME NEW w \in Workers, Work(w) PROVE CreatedOK'
  <2>1. UNCHANGED <<life, pushed, handle>> /\ \A u \in Threads \ {w} : pc'[u] = pc[u]
    BY <1>4 DEF Work, WorkFrame, Moves, registry
  <2>2. CASE lifecycle # "created"
    BY <1>1, <2>1, <2>2 DEF life
  <2>3. CASE lifecycle = "created"
    <3>1. pc[w] \in {"loop", "done"} /\ items = <<>> /\ pushed = <<>> /\ ~closed
      BY <1>0, <2>3 DEF CreatedOK, ShutdownOK
    <3>2. WaitPop(w)
      BY <1>4, <3>1 DEF Work, WorkerStep, FillBatch, AcquireSnapshot, Invoke, CallbackReturns, NextEvent
    <3>3. stop_requested /\ Goto(w, "done") /\ UNCHANGED queue
      BY <3>1, <3>2 DEF WaitPop, Queue!Pop, EndOfStream, Queue!PopClosed
    <3>4. pc'[w] = "done" /\ pc[w] = "loop"
      BY <1>0, <3>2, <3>3 DEF Goto, WaitPop
    <3>5. pc[Owner] # "construct" /\ ~WorkersDone
      BY <1>0, <3>3, <3>4 DEF CreatedOK, WorkersDone
    <3> QED BY <1>0, <2>1, <2>3, <3>1, <3>3, <3>4, <3>5 DEF CreatedOK, life, queue
  <2> QED BY <2>2, <2>3
<1>5. ASSUME NEW t \in Stoppers \cup {Owner}, Stopping(t) PROVE CreatedOK'
  <2>1. lifecycle # "created" /\ lifecycle' # "created"
        /\ pc[t] \in ShutdownLabels \cup {"idle", "gone"} /\ pc'[t] \in ShutdownLabels \cup {"idle", "gone"}
    BY <1>5 DEF Stopping, StopFrame, Wakes
  <2>2. pc'[Owner] \notin {"construct", "abandon"}
    <3>1. CASE t = Owner
      BY <2>1, <3>1 DEF ShutdownLabels, ClosingLabels
    <3>2. CASE t # Owner
      BY <1>0, <1>5, <2>1, <3>2 DEF Stopping, StopFrame, Wakes, CreatedOK
    <3> QED BY <3>1, <3>2
  <2>3. CASE Dispose
    <3>1. lifecycle = "stopped" /\ lifecycle' = lifecycle
      BY <1>0, <2>3 DEF Dispose, ShutdownOK
    <3> QED BY <2>1, <2>2, <3>1 DEF CreatedOK
  <2>4. CASE ~Dispose
    <3>1. stop_requested' = stop_requested /\ (lifecycle = "stopped" => lifecycle' = "stopped")
          /\ (pc'[Owner] = "gone" => pc[Owner] = "gone")
      <4>1. \A l : Goto(t, l) => pc'[t] = l /\ \A u \in Threads \ {t} : pc'[u] = pc[u]
        BY <1>0 DEF Goto
      <4>2. ASSUME NEW policy \in Policies, Shutdown(t, policy) PROVE <3>1!:
        BY <4>1, <4>2 DEF Shutdown, Answer
      <4>3. ASSUME NotifyStopped(t) PROVE <3>1!:
        BY <4>3 DEF NotifyStopped, life
      <4>4. ASSUME CloseQueue(t) \/ CountDropped(t) \/ JoinWorkers(t) \/ AwaitStopped(t) \/ SpuriousWake(t)
            PROVE  <3>1!:
        BY <4>1, <4>4 DEF CloseQueue, CountDropped, JoinWorkers, AwaitStopped, SpuriousWake, Answer, AfterDiscard, life
      <4>5. ASSUME MarkStopped(t) PROVE <3>1!:
        BY <4>1, <4>5 DEF MarkStopped
      <4> QED BY <1>5, <2>4, <4>2, <4>3, <4>4, <4>5 DEF Stopping, StopStep
    <3>2. stop_requested => lifecycle = "stopped"
      BY <1>0, <2>1 DEF CreatedOK
    <3> QED BY <1>0, <2>1, <2>2, <3>1, <3>2 DEF CreatedOK
  <2> QED BY <2>3, <2>4
<1>6. ASSUME Construct PROVE CreatedOK'
  <2>1. pc'[Owner] = "idle" /\ lifecycle' = "running" /\ ~stop_requested'
    BY <1>0, <1>6 DEF Construct, Goto, CreatedOK
  <2> QED BY <2>1 DEF CreatedOK
<1>7. ASSUME ConstructFails PROVE CreatedOK'
  <2>1. /\ pc[Owner] = "construct" /\ lifecycle = "created" /\ pc'[Owner] = "abandon"
        /\ UNCHANGED <<program, lifecycle, queue, handle>>
    BY <1>0, <1>7 DEF ConstructFails, CreatedOK, registry
  <2>2. \A u \in Threads \ (Workers \cup {Owner}) : pc'[u] = "idle"
    BY <1>0, <1>7, <2>1 DEF ConstructFails, CreatedOK
  <2>3. \A w \in Workers : pc'[w] \in {"loop", "done"}
    BY <1>0, <1>7, <2>1 DEF ConstructFails, CreatedOK
  <2> QED BY <1>0, <2>1, <2>2, <2>3 DEF CreatedOK, queue, OwnerLabels
<1>8. ASSUME Abandon PROVE CreatedOK'
  <2>1. /\ pc[Owner] = "abandon" /\ lifecycle = "created" /\ pc'[Owner] = "gone" /\ WorkersDone
        /\ UNCHANGED <<program, lifecycle, stop_requested, queue, handle>> /\ \A u \in Threads \ {Owner} : pc'[u] = pc[u]
    BY <1>0, <1>8 DEF Abandon, CreatedOK, registry, Goto, life
  <2> QED BY <1>0, <2>1 DEF CreatedOK, queue, OwnerLabels, WorkersDone
<1>9. ASSUME Rest PROVE CreatedOK'
  BY <1>0, <1>9 DEF Rest, vars, CreatedOK, WorkersDone
<1> QED BY <1>2, <1>3, <1>4, <1>5, <1>6, <1>7, <1>8, <1>9, StepKinds DEF Construction
-----------------------------------------------------------------------------
(* Shutdown. *)

DecisiveLabels == ClosingLabels \cup {"notify", "returned"}

LEMMA ShutdownKept ==
    ASSUME DispInv, LabelsOK', Calm, UNCHANGED <<lifecycle, closed>>,
           \A t \in Threads : pc'[t] \in DecisiveLabels => pc'[t] = pc[t]
    PROVE  ShutdownOK'
<1>1. LabelsOK /\ ShutdownOK
  BY DEF DispInv
<1>2. \A w \in Workers : pc'[w] = "done" <=> pc[w] = "done"
  BY <1>1, CalmCallbacks
<1>3. WorkersDone' <=> WorkersDone
  BY <1>2 DEF WorkersDone
<1> QED BY <1>1, <1>2, <1>3 DEF ShutdownOK, Calm, DecisiveLabels, ClosingLabels

LEMMA ShutdownWorks ==
    ASSUME DispInv, NEW w \in Workers, Work(w)
    PROVE  ShutdownOK'
<1> USE ThreadFacts
<1>0. /\ Types /\ ShutdownOK /\ CreatedOK /\ pc \in [Threads -> Labels] /\ w \in Threads
      /\ \A t \in Threads \ {w} : pc'[t] = pc[t]
  BY DEF DispInv, Types, Work, WorkFrame, Moves
<1>1. pc[w] # "done" /\ pc'[w] \in WorkerLabels /\ UNCHANGED <<program, lifecycle, closed>>
  BY DEF Work, WorkFrame, Moves, life
<1>2. ~WorkersDone /\ lifecycle # "stopped" /\ \A t \in Threads : pc[t] # "stop"
  BY <1>0, <1>1 DEF WorkersDone, ShutdownOK
<1>3. \A t \in Threads : pc'[t] \in DecisiveLabels => pc'[t] = pc[t]
  BY <1>0, <1>1 DEF DecisiveLabels, ClosingLabels, WorkerLabels
<1>4. ended => ended'
  BY DEF Work, WorkerStep, WaitPop, FillBatch, EndOfStream, AcquireSnapshot, Invoke, CallbackReturns, NextEvent,
         Queue!Pop, Queue!PopClosed, queue
<1>5. pc'[w] = "done" => ended' \/ lifecycle = "created"
  <2> SUFFICES ASSUME pc'[w] = "done" PROVE ended' \/ lifecycle = "created"
    OBVIOUS
  <2>1. \A l : Goto(w, l) => l = "done"
    BY <1>0 DEF Goto
  <2>2. pc' # pc
    BY <1>1
  <2>3. WaitPop(w)
    BY <2>1, <2>2 DEF Work, WorkerStep, FillBatch, AcquireSnapshot, Invoke, CallbackReturns, NextEvent
  <2>4. EndOfStream \/ (stop_requested /\ ~closed)
    BY <2>1, <2>3 DEF WaitPop
  <2>5. stop_requested /\ ~closed => lifecycle = "created"
    BY <1>0 DEF CreatedOK, ShutdownOK
  <2> QED BY <2>4, <2>5 DEF EndOfStream, Queue!PopClosed
<1>6. \A v \in Workers \cap program'.threads : pc'[v] = "done" => ended' \/ lifecycle' = "created"
  BY <1>0, <1>1, <1>4, <1>5 DEF ShutdownOK
<1> QED BY <1>0, <1>1, <1>2, <1>3, <1>6 DEF ShutdownOK, DecisiveLabels, ClosingLabels

LEMMA ShutdownStops ==
    ASSUME DispInv, LabelsOK', NEW t \in Stoppers \cup {Owner}, Stopping(t)
    PROVE  ShutdownOK'
<1> USE ThreadFacts
<1>0. /\ Types /\ ShutdownOK /\ CreatedOK /\ LabelsOK /\ pc \in [Threads -> Labels] /\ t \in Threads
      /\ lifecycle # "created" /\ Calm
  BY CalmSteps DEF DispInv, Types, Stopping, StopFrame
<1>1. \A u \in Threads \ {t} : pc'[u] \in DecisiveLabels => pc'[u] = pc[u]
  BY DEF Stopping, StopFrame, Wakes, DecisiveLabels, ClosingLabels
<1>2. /\ WorkersDone' <=> WorkersDone
      /\ UNCHANGED <<program, ended>>
      /\ lifecycle' # "created"
  <2>1. \A w \in Workers : pc'[w] = "done" <=> pc[w] = "done"
    BY <1>0, CalmCallbacks
  <2> QED BY <2>1 DEF WorkersDone, Stopping, StopFrame
<1>3. \A w \in Workers \cap program'.threads : pc'[w] = "done" => ended' \/ lifecycle' = "created"
  <2>1. \A w \in Workers : pc'[w] = "done" <=> pc[w] = "done"
    BY <1>0, CalmCallbacks
  <2> QED BY <1>0, <1>2, <2>1 DEF ShutdownOK
<1>4. \A l : Goto(t, l) => pc'[t] = l
  BY <1>0 DEF Goto
<1>5. ASSUME UNCHANGED <<lifecycle, closed>>, pc'[t] \notin DecisiveLabels PROVE ShutdownOK'
  BY <1>0, <1>1, <1>5, ShutdownKept
<1>6. ASSUME UNCHANGED <<lifecycle, closed>>, pc'[t] = "returned", lifecycle = "stopped" PROVE ShutdownOK'
  BY <1>0, <1>1, <1>2, <1>3, <1>6 DEF ShutdownOK, DecisiveLabels, ClosingLabels
<1>7. ASSUME NEW policy \in Policies, Shutdown(t, policy) PROVE ShutdownOK'
  <2>1. CASE lifecycle = "running"
    <3>1. lifecycle' \in {"drain_stopping", "discard_stopping"} /\ pc'[t] = "close" /\ closed' = closed
      BY <1>4, <1>7, <2>1 DEF Shutdown, queue
    <3>2. ~closed /\ \A u \in Threads : pc[u] \notin DecisiveLabels
      BY <1>0, <2>1 DEF ShutdownOK, DecisiveLabels
    <3>3. \A u \in Threads \ {t} : pc'[u] \notin DecisiveLabels
      BY <1>1, <3>2
    <3> QED BY <1>3, <3>1, <3>2, <3>3 DEF ShutdownOK, DecisiveLabels, ClosingLabels
  <2>2. CASE lifecycle # "running"
    <3>1. UNCHANGED <<lifecycle, closed>> /\ pc'[t] = Answer
      BY <1>4, <1>7, <2>2 DEF Shutdown, queue
    <3> QED BY <1>5, <1>6, <3>1 DEF Answer, DecisiveLabels, ClosingLabels
  <2> QED BY <2>1, <2>2
<1>8. ASSUME CloseQueue(t) PROVE ShutdownOK'
  <2>1. pc[t] = "close" /\ closed' /\ lifecycle' = lifecycle /\ pc'[t] \in {"join", "count_dropped"}
    BY <1>4, <1>8 DEF CloseQueue, Queue!Close, Queue!CloseAndDiscard, AfterDiscard, life
  <2>2. lifecycle \in {"drain_stopping", "discard_stopping"} /\ \A u \in Threads \ {t} : pc[u] \notin DecisiveLabels
    BY <1>0, <2>1 DEF ShutdownOK, DecisiveLabels, ClosingLabels
  <2>3. \A u \in Threads \ {t} : pc'[u] \notin DecisiveLabels
    BY <1>1, <2>2
  <2> QED BY <1>3, <2>1, <2>2, <2>3 DEF ShutdownOK, DecisiveLabels, ClosingLabels
<1>9. ASSUME CountDropped(t) \/ JoinWorkers(t) PROVE ShutdownOK'
  <2>1. /\ pc[t] \in {"count_dropped", "join"} /\ UNCHANGED <<lifecycle, closed>>
        /\ pc'[t] = "join" \/ (pc'[t] = "stop" /\ WorkersDone)
    BY <1>4, <1>9 DEF CountDropped, JoinWorkers, life, queue
  <2>2. closed /\ lifecycle \in {"drain_stopping", "discard_stopping"} /\ \A u \in Threads \ {t} : pc[u] \notin DecisiveLabels
    BY <1>0, <2>1 DEF ShutdownOK, DecisiveLabels, ClosingLabels
  <2>3. \A u \in Threads \ {t} : pc'[u] \notin DecisiveLabels
    BY <1>1, <2>2
  <2> QED BY <1>2, <1>3, <2>1, <2>2, <2>3 DEF ShutdownOK, DecisiveLabels, ClosingLabels
<1>10. ASSUME MarkStopped(t) PROVE ShutdownOK'
  <2>1. pc[t] = "stop" /\ lifecycle' = "stopped" /\ closed' = closed /\ pc'[t] = "notify"
    BY <1>4, <1>10 DEF MarkStopped, queue
  <2>2. closed /\ WorkersDone /\ \A u \in Threads \ {t} : pc[u] \notin DecisiveLabels
    BY <1>0, <2>1 DEF ShutdownOK, DecisiveLabels, ClosingLabels
  <2>3. \A u \in Threads \ {t} : pc'[u] \notin DecisiveLabels
    BY <1>1, <2>2
  <2> QED BY <1>2, <1>3, <2>1, <2>2, <2>3 DEF ShutdownOK, DecisiveLabels, ClosingLabels
<1>11. ASSUME NotifyStopped(t) PROVE ShutdownOK'
  <2>1. pc[t] = "notify" /\ pc'[t] = "returned" /\ UNCHANGED <<lifecycle, closed>>
    BY <1>0, <1>11 DEF NotifyStopped, life, queue
  <2>2. lifecycle = "stopped"
    BY <1>0, <2>1 DEF ShutdownOK
  <2> QED BY <1>6, <2>1, <2>2
<1>12. ASSUME AwaitStopped(t) PROVE ShutdownOK'
  <2>1. pc'[t] = Answer /\ UNCHANGED <<lifecycle, closed>>
    BY <1>4, <1>12 DEF AwaitStopped, life, queue
  <2> QED BY <1>5, <1>6, <2>1 DEF Answer, DecisiveLabels, ClosingLabels
<1>13. ASSUME SpuriousWake(t) \/ (t = Owner /\ Dispose) PROVE ShutdownOK'
  <2>1. pc'[t] \in {"woken", "gone"} /\ UNCHANGED <<lifecycle, closed>>
    BY <1>4, <1>13 DEF SpuriousWake, Dispose, life, queue
  <2> QED BY <1>5, <2>1 DEF DecisiveLabels, ClosingLabels
<1> QED BY <1>7, <1>8, <1>9, <1>10, <1>11, <1>12, <1>13 DEF Stopping, StopStep

LEMMA ShutdownOKStep == ASSUME DispInv, Next, LabelsOK' PROVE ShutdownOK'
<1> USE ThreadFacts
<1>0. /\ Types /\ ShutdownOK /\ CreatedOK /\ LabelsOK /\ pc \in [Threads -> Labels]
  BY DEF DispInv, Types
<1>1. ASSUME NEW t \in Callers, Publication(t) PROVE ShutdownOK'
  <2>1. \A u \in Threads : pc'[u] \in DecisiveLabels => pc'[u] = pc[u]
    BY <1>1 DEF Publication, PublishFrame, Moves, Home, PublishLabels, DecisiveLabels, ClosingLabels
  <2>2. UNCHANGED <<lifecycle, closed>>
    BY <1>1 DEF Publication, PublishFrame, life
  <2> QED BY <1>1, <2>1, <2>2, CalmSteps, ShutdownKept
<1>2. ASSUME NEW t \in Registrants, Membership(t) PROVE ShutdownOK'
  <2>1. \A u \in Threads : pc'[u] \in DecisiveLabels => pc'[u] = pc[u]
    BY <1>2 DEF Membership, MemberFrame, Moves, Home, MemberLabels, DecisiveLabels, ClosingLabels
  <2>2. UNCHANGED <<lifecycle, closed>>
    BY <1>2 DEF Membership, MemberFrame, queue
  <2> QED BY <1>2, <2>1, <2>2, CalmSteps, ShutdownKept
<1>3. ASSUME Construction PROVE ShutdownOK'
  <2>1. lifecycle = "created" /\ UNCHANGED <<program, closed, ended>>
    BY <1>3 DEF Construction, OwnerFrame, queue
  <2>2. ~closed /\ \A u \in Threads : pc[u] \notin DecisiveLabels
    BY <1>0, <2>1 DEF ShutdownOK, DecisiveLabels
  <2>3. \A u \in Threads : pc'[u] \notin DecisiveLabels
    BY <1>0, <1>3, <2>2 DEF Construction, Construct, ConstructFails, Abandon, Goto, DecisiveLabels, ClosingLabels
  <2>4. CASE Construct
    <3>1. lifecycle' = "running" /\ \A w \in Workers \cap program.threads : pc'[w] # "done"
      BY <1>0, <2>4 DEF Construct, Goto, CreatedOK
    <3> QED BY <2>1, <2>2, <2>3, <3>1 DEF ShutdownOK, DecisiveLabels, ClosingLabels
  <2>5. CASE lifecycle' = lifecycle
    BY <2>1, <2>2, <2>3, <2>5 DEF ShutdownOK, DecisiveLabels, ClosingLabels
  <2> QED BY <1>3, <2>4, <2>5 DEF Construction, ConstructFails, Abandon, life
<1>4. ASSUME Rest PROVE ShutdownOK'
  BY <1>4, CalmSteps, ShutdownKept DEF Rest, vars
<1> QED BY <1>1, <1>2, <1>3, <1>4, StepKinds, ShutdownWorks, ShutdownStops
-----------------------------------------------------------------------------
(* The metrics. *)

LEMMA AcceptedKept ==
    ASSUME DispInv, UNCHANGED <<pushed, accepted>>,
           \A t \in Callers : pc'[t] = "count_accepted" <=> pc[t] = "count_accepted"
    PROVE  AcceptedOK'
<1>1. Counting' = Counting
  BY DEF Counting
<1> QED BY <1>1 DEF DispInv, CountsOK, AcceptedOK

LEMMA AcceptedPublishes ==
    ASSUME DispInv, NEW t \in Callers, Publication(t)
    PROVE  AcceptedOK'
<1> USE ThreadFacts
<1>0. /\ Types /\ AcceptedOK /\ pc \in [Threads -> Labels] /\ t \in Threads
      /\ \A u \in Callers \ {t} : pc'[u] = pc[u]
  BY DEF DispInv, CountsOK, Types, Publication, PublishFrame, Moves
<1>1. \A l : Goto(t, l) => pc'[t] = l
  BY <1>0 DEF Goto
<1>2. IsFiniteSet(Counting) /\ Cardinality(Counting) \in Nat
  BY CallersFinite, FS_Subset, FS_CardinalityType DEF Counting
<1>3. Home(t) # "count_accepted"
  BY DEF Home
<1>4. ASSUME UNCHANGED <<pushed, accepted>>, pc[t] # "count_accepted", pc'[t] # "count_accepted" PROVE AcceptedOK'
  BY <1>0, <1>4, AcceptedKept
<1>5. ASSUME Push(t) PROVE AcceptedOK'
  <2>1. /\ pc[t] = "push" /\ pc'[t] = "count_accepted" /\ accepted' = accepted
        /\ pushed' = Append(pushed, event[t]) /\ event[t] \in Nat /\ pushed \in Seq(Nat)
    BY <1>0, <1>1, <1>5 DEF Push, Queue!Push, metrics, Types
  <2>2. Len(pushed') = Len(pushed) + 1
    BY <2>1, AppendElements
  <2>3. Counting' = Counting \cup {t} /\ t \notin Counting
    BY <1>0, <2>1 DEF Counting
  <2>4. Cardinality(Counting') = Cardinality(Counting) + 1
    BY <1>2, <2>3, FS_AddElement
  <2>5. Len(pushed) = accepted + Cardinality(Counting) /\ accepted \in Nat
    BY <1>0 DEF AcceptedOK, Types
  <2>6. Len(pushed) + 1 = accepted + (Cardinality(Counting) + 1)
    BY <1>2, <2>5
  <2> QED BY <2>1, <2>2, <2>4, <2>6 DEF AcceptedOK
<1>6. ASSUME Count(t) PROVE AcceptedOK'
  <2>1. CASE pc[t] = "count_rejected"
    BY <1>1, <1>3, <1>4, <1>6, <2>1 DEF Count, Return, queue
  <2>2. CASE pc[t] = "count_accepted"
    <3>1. pc'[t] # "count_accepted" /\ accepted' = accepted + 1 /\ pushed' = pushed
      BY <1>1, <1>3, <1>6, <2>2 DEF Count, Return, queue
    <3>2. Counting' = Counting \ {t} /\ t \in Counting
      BY <1>0, <2>2, <3>1 DEF Counting
    <3>3. Cardinality(Counting') = Cardinality(Counting) - 1
      BY <1>2, <3>2, FS_RemoveElement
    <3>4. Len(pushed) = accepted + Cardinality(Counting) /\ accepted \in Nat
      BY <1>0 DEF AcceptedOK, Types
    <3>5. Len(pushed) = (accepted + 1) + (Cardinality(Counting) - 1)
      BY <1>2, <3>4
    <3> QED BY <3>1, <3>3, <3>5 DEF AcceptedOK
  <2> QED BY <1>6, <2>1, <2>2 DEF Count
<1>7. ASSUME NEW kind \in Kinds, Publish(t, kind) PROVE AcceptedOK'
  BY <1>1, <1>3, <1>4, <1>7 DEF Publish, MayCall, queue, metrics
<1>8. ASSUME CheckLifecycle(t) PROVE AcceptedOK'
  BY <1>1, <1>4, <1>8 DEF CheckLifecycle, queue, metrics
<1>9. ASSUME PushRefused(t) \/ PushThrows(t) PROVE AcceptedOK'
  BY <1>1, <1>3, <1>4, <1>9 DEF PushRefused, PushThrows, Return, queue, metrics
<1> QED BY <1>5, <1>6, <1>7, <1>8, <1>9 DEF Publication, PublishStep

LEMMA AcceptedOKStep == ASSUME DispInv, Next PROVE AcceptedOK'
<1> USE ThreadFacts
<1>0. pc \in [Threads -> Labels]
  BY DEF DispInv, Types
<1>1. ASSUME NEW w \in Workers, Work(w) PROVE AcceptedOK'
  <2>1. \A t \in Callers : pc'[t] = "count_accepted" <=> pc[t] = "count_accepted"
    BY <1>1 DEF Work, WorkFrame, Moves, WorkerLabels
  <2> QED BY <1>1, <2>1, AcceptedKept DEF Work, WorkFrame, metrics
<1>2. ASSUME NEW t \in Registrants, Membership(t) PROVE AcceptedOK'
  <2>1. \A u \in Callers : pc'[u] = "count_accepted" <=> pc[u] = "count_accepted"
    BY <1>2 DEF Membership, MemberFrame, Moves, Home, MemberLabels
  <2> QED BY <1>2, <2>1, AcceptedKept DEF Membership, MemberFrame, metrics, queue
<1>3. ASSUME NEW t \in Stoppers \cup {Owner}, Stopping(t) PROVE AcceptedOK'
  <2>1. \A u \in Callers : pc'[u] = "count_accepted" <=> pc[u] = "count_accepted"
    BY <1>3 DEF Stopping, StopFrame, Wakes
  <2> QED BY <1>3, <2>1, AcceptedKept DEF Stopping, StopFrame
<1>4. ASSUME Construction PROVE AcceptedOK'
  <2>1. \A w \in Workers : pc[w] \in {"loop", "done"}
    BY <1>4 DEF Construction, OwnerFrame, DispInv, CreatedOK
  <2>2. \A u \in Callers : pc'[u] = "count_accepted" <=> pc[u] = "count_accepted"
    BY <1>0, <1>4, <2>1 DEF Construction, Construct, ConstructFails, Abandon, Goto
  <2> QED BY <1>4, <2>2, AcceptedKept DEF Construction, OwnerFrame, metrics, queue
<1>5. ASSUME Rest PROVE AcceptedOK'
  BY <1>5, AcceptedKept DEF Rest, vars
<1> QED BY <1>1, <1>2, <1>3, <1>4, <1>5, StepKinds, AcceptedPublishes

LEMMA RejectedKept ==
    ASSUME DispInv, UNCHANGED <<pushed, rejected, tried, program>>,
           \A t \in Callers : pc'[t] \in {"push", "count_rejected"} <=> pc[t] \in {"push", "count_rejected"}
    PROVE  RejectedOK'
<1>1. Trying' = Trying
  BY DEF Trying
<1> QED BY <1>1 DEF DispInv, CountsOK, RejectedOK

LEMMA RejectedPublishes ==
    ASSUME DispInv, NEW t \in Callers, Publication(t)
    PROVE  RejectedOK'
<1> USE ThreadFacts
<1>0. /\ Types /\ RejectedOK /\ pc \in [Threads -> Labels] /\ t \in Threads /\ program' = program
      /\ \A u \in Callers \ {t} : pc'[u] = pc[u]
  BY DEF DispInv, CountsOK, Types, Publication, PublishFrame, Moves, life
<1>1. \A l : Goto(t, l) => pc'[t] = l
  BY <1>0 DEF Goto
<1>2. IsFiniteSet(Trying) /\ Cardinality(Trying) \in Nat
  BY CallersFinite, FS_Subset, FS_CardinalityType DEF Trying
<1>3. Home(t) \notin {"push", "count_rejected"}
  BY DEF Home
<1>4. Len(pushed) \in Nat /\ rejected \in Nat /\ tried \in Nat
  BY <1>0, LenProperties DEF Types
<1>5. ASSUME UNCHANGED <<pushed, rejected, tried>>,
             pc'[t] \in {"push", "count_rejected"} <=> pc[t] \in {"push", "count_rejected"}
      PROVE  RejectedOK'
  BY <1>0, <1>5, RejectedKept
<1>6. ASSUME pc[t] \in {"push", "count_rejected"}, pc'[t] \notin {"push", "count_rejected"}
      PROVE  Cardinality(Trying') = Cardinality(Trying) - 1
  <2>1. Trying' = Trying \ {t} /\ t \in Trying
    BY <1>0, <1>6 DEF Trying
  <2> QED BY <1>2, <2>1, FS_RemoveElement
<1>7. ASSUME CheckLifecycle(t) PROVE RejectedOK'
  <2>1. /\ pc[t] = "check" /\ pc'[t] \in {"push", "count_rejected"} /\ tried' = tried + 1
        /\ UNCHANGED <<pushed, rejected>>
    BY <1>1, <1>7 DEF CheckLifecycle, queue, metrics
  <2>2. Trying' = Trying \cup {t} /\ t \notin Trying
    BY <1>0, <2>1 DEF Trying
  <2>3. Cardinality(Trying') = Cardinality(Trying) + 1
    BY <1>2, <2>2, FS_AddElement
  <2> QED BY <1>0, <1>2, <1>4, <2>1, <2>3 DEF RejectedOK
<1>8. ASSUME Push(t) PROVE RejectedOK'
  <2>1. /\ pc[t] = "push" /\ pc'[t] = "count_accepted" /\ UNCHANGED <<rejected, tried>>
        /\ pushed' = Append(pushed, event[t]) /\ event[t] \in Nat /\ pushed \in Seq(Nat)
    BY <1>0, <1>1, <1>8 DEF Push, Queue!Push, metrics, publishing, Types
  <2>2. Len(pushed') = Len(pushed) + 1
    BY <2>1, AppendElements
  <2>3. Cardinality(Trying') = Cardinality(Trying) - 1
    BY <1>6, <2>1
  <2>4. /\ Cardinality(Trying) \in Nat /\ UNCHANGED <<rejected, tried>>
        /\ RejectedOK /\ program' = program
    BY <1>0, <1>2, <2>1
  <2> QED BY <1>4, <2>2, <2>3, <2>4 DEF RejectedOK
<1>9. ASSUME PushThrows(t) PROVE RejectedOK'
  <2>1. /\ pc[t] = "push" /\ pc'[t] \notin {"push", "count_rejected"} /\ program.throws
        /\ UNCHANGED <<pushed, rejected, tried>>
    BY <1>1, <1>3, <1>9 DEF PushThrows, Return, queue, metrics
  <2>2. Cardinality(Trying') = Cardinality(Trying) - 1
    BY <1>6, <2>1
  <2> QED BY <1>0, <1>2, <1>4, <2>1, <2>2 DEF RejectedOK
<1>10. ASSUME Count(t) PROVE RejectedOK'
  <2>1. CASE pc[t] = "count_accepted"
    BY <1>1, <1>3, <1>5, <1>10, <2>1 DEF Count, Return, queue
  <2>2. CASE pc[t] = "count_rejected"
    <3>1. /\ pc'[t] \notin {"push", "count_rejected"} /\ rejected' = rejected + 1
          /\ UNCHANGED <<pushed, tried>>
      BY <1>1, <1>3, <1>10, <2>2 DEF Count, Return, queue
    <3>2. Cardinality(Trying') = Cardinality(Trying) - 1
      BY <1>6, <2>2, <3>1
    <3> QED BY <1>0, <1>2, <1>4, <3>1, <3>2 DEF RejectedOK
  <2> QED BY <1>10, <2>1, <2>2 DEF Count
<1>11. ASSUME NEW kind \in Kinds, Publish(t, kind) PROVE RejectedOK'
  BY <1>1, <1>3, <1>5, <1>11 DEF Publish, MayCall, queue, metrics
<1>12. ASSUME PushRefused(t) PROVE RejectedOK'
  BY <1>1, <1>5, <1>12 DEF PushRefused, queue, metrics, publishing
<1> QED BY <1>7, <1>8, <1>9, <1>10, <1>11, <1>12 DEF Publication, PublishStep

LEMMA RejectedOKStep == ASSUME DispInv, Next PROVE RejectedOK'
<1> USE ThreadFacts
<1> DEFINE Hands == {"push", "count_rejected"}
<1>0. pc \in [Threads -> Labels]
  BY DEF DispInv, Types
<1>1. ASSUME NEW w \in Workers, Work(w) PROVE RejectedOK'
  <2>1. \A t \in Callers : pc'[t] \in Hands <=> pc[t] \in Hands
    BY <1>1 DEF Work, WorkFrame, Moves, WorkerLabels
  <2> QED BY <1>1, <2>1, RejectedKept DEF Work, WorkFrame, metrics, publishing, life
<1>2. ASSUME NEW t \in Registrants, Membership(t) PROVE RejectedOK'
  <2>1. \A u \in Callers : pc'[u] \in Hands <=> pc[u] \in Hands
    BY <1>2 DEF Membership, MemberFrame, Moves, Home, MemberLabels
  <2> QED BY <1>2, <2>1, RejectedKept DEF Membership, MemberFrame, metrics, queue, publishing
<1>3. ASSUME NEW t \in Stoppers \cup {Owner}, Stopping(t) PROVE RejectedOK'
  <2>1. \A u \in Callers : pc'[u] \in Hands <=> pc[u] \in Hands
    BY <1>3 DEF Stopping, StopFrame, Wakes
  <2> QED BY <1>3, <2>1, RejectedKept DEF Stopping, StopFrame, publishing
<1>4. ASSUME Construction PROVE RejectedOK'
  <2>1. \A w \in Workers : pc[w] \in {"loop", "done"}
    BY <1>4 DEF Construction, OwnerFrame, DispInv, CreatedOK
  <2>2. \A u \in Callers : pc'[u] \in Hands <=> pc[u] \in Hands
    BY <1>0, <1>4, <2>1 DEF Construction, Construct, ConstructFails, Abandon, Goto
  <2> QED BY <1>4, <2>2, RejectedKept DEF Construction, OwnerFrame, metrics, queue, publishing
<1>5. ASSUME Rest PROVE RejectedOK'
  BY <1>5, RejectedKept DEF Rest, vars
<1> QED BY <1>1, <1>2, <1>3, <1>4, <1>5, StepKinds, RejectedPublishes

LEMMA DroppedOKStep == ASSUME DispInv, Next PROVE DroppedOK'
<1> USE ThreadFacts
<1>0. Types /\ DroppedOK /\ ShutdownOK /\ pc \in [Threads -> Labels]
  BY DEF DispInv, CountsOK, Types
<1>1. ASSUME UNCHANGED <<closed, dropped, discarded>>, lifecycle' = "stopped" => lifecycle = "stopped",
             \A t \in Threads : pc'[t] \in {"count_dropped", "join", "stop"} => pc'[t] = pc[t]
      PROVE  DroppedOK'
  BY <1>0, <1>1 DEF DroppedOK
<1>2. ASSUME NEW t \in Callers, Publication(t) PROVE DroppedOK'
  <2>1. \A u \in Threads : pc'[u] \in {"count_dropped", "join", "stop"} => pc'[u] = pc[u]
    BY <1>2 DEF Publication, PublishFrame, Moves, Home, PublishLabels
  <2> QED BY <1>1, <1>2, <2>1 DEF Publication, PublishFrame, life
<1>3. ASSUME NEW w \in Workers, Work(w) PROVE DroppedOK'
  <2>1. \A u \in Threads : pc'[u] \in {"count_dropped", "join", "stop"} => pc'[u] = pc[u]
    BY <1>3 DEF Work, WorkFrame, Moves, WorkerLabels
  <2> QED BY <1>1, <1>3, <2>1 DEF Work, WorkFrame, life, metrics
<1>4. ASSUME NEW t \in Registrants, Membership(t) PROVE DroppedOK'
  <2>1. \A u \in Threads : pc'[u] \in {"count_dropped", "join", "stop"} => pc'[u] = pc[u]
    BY <1>4 DEF Membership, MemberFrame, Moves, Home, MemberLabels
  <2> QED BY <1>1, <1>4, <2>1 DEF Membership, MemberFrame, metrics, queue
<1>5. ASSUME Construction PROVE DroppedOK'
  <2>1. \A u \in Threads : pc'[u] \in {"count_dropped", "join", "stop"} => pc'[u] = pc[u]
    BY <1>0, <1>5 DEF Construction, Construct, ConstructFails, Abandon, Goto
  <2> QED BY <1>1, <1>5, <2>1 DEF Construction, OwnerFrame, Construct, ConstructFails, Abandon, life, metrics, queue
<1>6. ASSUME Rest PROVE DroppedOK'
  BY <1>1, <1>6 DEF Rest, vars
<1>7. ASSUME NEW t \in Stoppers \cup {Owner}, Stopping(t) PROVE DroppedOK'
  <2>0. t \in Threads /\ (\A l : Goto(t, l) => pc'[t] = l)
        /\ \A u \in Threads \ {t} : pc'[u] \in {"count_dropped", "join", "stop"} => pc'[u] = pc[u]
    BY <1>0, <1>7 DEF Goto, Stopping, StopFrame, Wakes
  <2>1. pc[t] \in ClosingLabels => \A u \in Threads \ {t} : pc[u] \notin ClosingLabels
    BY <1>0, <2>0 DEF ShutdownOK
  <2>2. ASSUME UNCHANGED <<closed, dropped, discarded>>, lifecycle' = "stopped" => lifecycle = "stopped",
               pc'[t] \notin {"count_dropped", "join", "stop"}
        PROVE  DroppedOK'
    BY <1>1, <2>0, <2>2
  <2>3. ASSUME NEW policy \in Policies, Shutdown(t, policy) PROVE DroppedOK'
    BY <2>0, <2>2, <2>3 DEF Shutdown, Answer, queue, metrics
  <2>4. ASSUME CloseQueue(t) PROVE DroppedOK'
    <3>1. pc[t] = "close" /\ closed' /\ dropped' = dropped /\ lifecycle' = lifecycle
      BY <2>4 DEF CloseQueue, Queue!Close, Queue!CloseAndDiscard, metrics, life
    <3>2. dropped = 0 /\ discarded = <<>> /\ lifecycle # "stopped"
      BY <1>0, <2>0, <3>1 DEF ShutdownOK, DroppedOK, ClosingLabels
    <3>3. \A u \in Threads \ {t} : pc'[u] \notin {"count_dropped", "join", "stop"}
      BY <2>0, <2>1, <3>1 DEF ClosingLabels
    <3>4. pc'[t] = "count_dropped" \/ (pc'[t] = "join" /\ discarded' = discarded)
      BY <2>0, <2>4 DEF CloseQueue, Queue!Close, AfterDiscard
    <3>5. Len(<<>>) = 0
      OBVIOUS
    <3> QED BY <3>1, <3>2, <3>3, <3>4, <3>5 DEF DroppedOK
  <2>5. ASSUME CountDropped(t) PROVE DroppedOK'
    <3>1. /\ pc[t] = "count_dropped" /\ pc'[t] = "join" /\ dropped' = dropped + Len(discarded)
          /\ UNCHANGED <<closed, discarded, lifecycle>>
      BY <2>0, <2>5 DEF CountDropped, life, queue
    <3>2. dropped = 0 /\ closed /\ lifecycle # "stopped" /\ Len(discarded) \in Nat
      BY <1>0, <2>0, <3>1, LenProperties DEF ShutdownOK, DroppedOK, ClosingLabels, Types
    <3>3. dropped' = Len(discarded)
      BY <3>1, <3>2
    <3>4. \A u \in Threads \ {t} : pc'[u] \notin {"count_dropped", "join", "stop"}
      BY <2>0, <2>1, <3>1 DEF ClosingLabels
    <3> QED BY <3>1, <3>2, <3>3, <3>4 DEF DroppedOK
  <2>6. ASSUME JoinWorkers(t) PROVE DroppedOK'
    <3>1. /\ pc[t] = "join" /\ pc'[t] = "stop"
          /\ UNCHANGED <<closed, discarded, dropped, lifecycle>>
      BY <2>0, <2>6 DEF JoinWorkers, life, queue, metrics
    <3> QED BY <1>0, <2>0, <3>1 DEF DroppedOK
  <2>7. ASSUME MarkStopped(t) PROVE DroppedOK'
    <3>1. /\ pc[t] = "stop" /\ pc'[t] = "notify" /\ UNCHANGED <<closed, discarded, dropped>>
      BY <2>0, <2>7 DEF MarkStopped, queue, metrics
    <3> QED BY <1>0, <2>0, <3>1 DEF DroppedOK
  <2>8. ASSUME NotifyStopped(t) PROVE DroppedOK'
    BY <2>0, <2>2, <2>8 DEF NotifyStopped, life, queue, metrics
  <2>9. ASSUME AwaitStopped(t) \/ SpuriousWake(t) PROVE DroppedOK'
    BY <2>0, <2>2, <2>9 DEF AwaitStopped, SpuriousWake, Answer, life, queue, metrics
  <2>10. ASSUME t = Owner, Dispose PROVE DroppedOK'
    BY <2>0, <2>2, <2>10 DEF Dispose, queue, metrics
  <2> QED BY <1>7, <2>3, <2>4, <2>5, <2>6, <2>7, <2>8, <2>9, <2>10 DEF Stopping, StopStep
<1> QED BY <1>2, <1>3, <1>4, <1>5, <1>6, <1>7, StepKinds
-----------------------------------------------------------------------------
(* Handles. *)

LEMMA HandlesKept ==
    ASSUME DispInv, UNCHANGED <<target, handle, active, lifecycle_mutex_>>,
           lifecycle' = lifecycle \/ lifecycle # "running" \/ LifecycleFree,
           \A t \in Registrants : pc[t] \in MemberLabels \/ pc'[t] \in MemberLabels => pc'[t] = pc[t],
           \A s \in Subscribers : handle[s] = "gone" => InFlight(s)' = {}
    PROVE  HandlesOK'
<1>1. \A t \in Registrants : pc[t] \in {"register", "registered"} => lifecycle' = "running"
  BY ThreadFacts DEF DispInv, HandlesOK, LifecycleFree
<1> QED BY <1>1 DEF DispInv, HandlesOK, MemberLabels

LEMMA GoneStaysSilent ==
    ASSUME DispInv, NEW w \in Workers, Work(w), NEW s \in Subscribers, handle[s] = "gone"
    PROVE  InFlight(s)' = {}
<1> USE ThreadFacts
<1>0. Types /\ w \in Threads /\ InFlight(s) = {} /\ ~active[s]
  BY DEF DispInv, HandlesOK
<1>1. \A v \in Workers \ {w} : pc'[v] = pc[v] /\ todo'[v] = todo[v]
  BY WorkLocal
<1>2. \A v \in Workers : ~(InCallback(v) /\ Invoking(v, s))
  BY <1>0 DEF InFlight
<1>3. \A v \in Workers \ {w} : ~(InCallback(v)' /\ Invoking(v, s)')
  BY <1>1, <1>2 DEF InCallback, Invoking
<1>4. \A l : Goto(w, l) => pc'[w] = l
  BY <1>0 DEF Goto, Types
<1>5. ~(InCallback(w)' /\ Invoking(w, s)')
  <2>1. CASE WaitPop(w) \/ AcquireSnapshot(w) \/ CallbackReturns(w)
    BY <1>4, <2>1 DEF WaitPop, AcquireSnapshot, CallbackReturns, InCallback
  <2>2. CASE FillBatch(w) \/ NextEvent(w)
    BY <1>4, <2>2 DEF FillBatch, NextEvent, InCallback
  <2>3. CASE Invoke(w)
    <3>1. CASE Admits(Head(todo[w])) /\ todo' = todo
      BY <1>0, <3>1 DEF Admits, Invoking
    <3>2. CASE pc' = pc
      BY <2>3, <3>2 DEF Invoke, InCallback
    <3> QED BY <2>3, <3>1, <3>2 DEF Invoke
  <2> QED BY <2>1, <2>2, <2>3 DEF Work, WorkerStep
<1> QED BY <1>3, <1>5 DEF InFlight

LEMMA HandlesMembers ==
    ASSUME DispInv, LabelsOK', NEW t \in Registrants, Membership(t)
    PROVE  HandlesOK'
<1> USE ThreadFacts
<1>0. /\ Types /\ HandlesOK /\ LabelsOK /\ pc \in [Threads -> Labels] /\ t \in Threads
      /\ \A u \in Registrants \ {t} : pc'[u] = pc[u]
      /\ lifecycle' = lifecycle
  BY DEF DispInv, Types, Membership, MemberFrame, Moves
<1>1. \A s : InFlight(s)' = InFlight(s)
  BY <1>0, CalmSteps, CalmCallbacks
<1>2. \A l : Goto(t, l) => pc'[t] = l
  BY <1>0 DEF Goto
<1>3. Home(t) \notin MemberLabels
  BY DEF Home, MemberLabels
<1>4. MemberLabels = {"register", "registered", "retire", "retired", "await"}
  BY DEF MemberLabels
<1>5. /\ target \in [Registrants -> Subscribers \cup {NoThread}] /\ active \in [Subscribers -> BOOLEAN]
      /\ handle \in [Subscribers -> {"none", "held", "reset", "gone"}]
  BY <1>0 DEF Types
<1>6. pc[t] \in MemberLabels => target[t] \in Subscribers /\ \A u \in Registrants \ {t} : target[u] # target[t]
  BY <1>0 DEF HandlesOK
<1>7. ASSUME NEW s \in Subscribers, Subscribe(t, s) PROVE HandlesOK'
  <2>1. /\ pc'[t] = "register" /\ target' = [target EXCEPT ![t] = s] /\ handle[s] = "none"
        /\ lifecycle = "running" /\ lifecycle_mutex_' = t /\ lifecycle_mutex_ = NoThread
        /\ UNCHANGED <<active, handle>> /\ \A u \in Registrants : target[u] # s
    BY <1>2, <1>7 DEF Subscribe, LifecycleFree
  <2>2. target'[t] = s /\ \A u \in Registrants \ {t} : target'[u] = target[u]
    BY <1>5, <2>1
  <2>3. \A u \in Registrants \ {t} : pc[u] \notin {"register", "registered"}
    BY <1>0, <2>1 DEF HandlesOK
  <2>4. \A u \in Registrants : target'[u] \in Subscribers <=> pc'[u] \in MemberLabels
    BY <1>0, <1>4, <2>1, <2>2 DEF HandlesOK
  <2>5. \A u, v \in Registrants : target'[u] = target'[v] /\ target'[u] # NoThread => u = v
    BY <1>0, <2>1, <2>2 DEF HandlesOK
  <2> QED BY <1>0, <1>1, <2>1, <2>2, <2>3, <2>4, <2>5 DEF HandlesOK
<1>8. ASSUME NEW s \in Subscribers, Unsubscribe(t, s) PROVE HandlesOK'
  <2>1. /\ pc'[t] = "retire" /\ target' = [target EXCEPT ![t] = s] /\ handle[s] = "held"
        /\ handle' = [handle EXCEPT ![s] = "reset"] /\ active' = [active EXCEPT ![s] = FALSE]
        /\ lifecycle_mutex_' = lifecycle_mutex_
    BY <1>2, <1>8 DEF Unsubscribe, life
  <2>2. target'[t] = s /\ \A u \in Registrants \ {t} : target'[u] = target[u]
    BY <1>5, <2>1
  <2>3. /\ handle'[s] = "reset" /\ ~active'[s]
        /\ \A x \in Subscribers \ {s} : handle'[x] = handle[x] /\ active'[x] = active[x]
    BY <1>5, <2>1
  <2>4. \A u \in Registrants : target[u] # s
    BY <1>0, <1>4, <2>1 DEF HandlesOK
  <2>5. \A u \in Registrants : target'[u] \in Subscribers <=> pc'[u] \in MemberLabels
    BY <1>0, <1>4, <2>1, <2>2 DEF HandlesOK
  <2>6. \A u, v \in Registrants : target'[u] = target'[v] /\ target'[u] # NoThread => u = v
    BY <1>0, <2>2, <2>4 DEF HandlesOK
  <2>7. \A u \in Registrants \ {t} : pc[u] \in MemberLabels => /\ handle'[target[u]] = handle[target[u]]
                                                                  /\ active'[target[u]] = active[target[u]]
    BY <1>0, <2>3, <2>4 DEF HandlesOK
  <2> QED BY <1>0, <1>1, <1>4, <2>1, <2>2, <2>3, <2>5, <2>6, <2>7 DEF HandlesOK
<1>9. ASSUME Register(t) PROVE HandlesOK'
  <2>1. /\ pc[t] = "register" /\ pc'[t] = "registered" /\ active' = [active EXCEPT ![target[t]] = TRUE]
        /\ UNCHANGED <<handle, target, lifecycle_mutex_>>
    BY <1>2, <1>9 DEF Register, life
  <2>2. target[t] \in Subscribers /\ handle[target[t]] = "none"
    BY <1>0, <1>4, <2>1 DEF HandlesOK
  <2>3. active'[target[t]] /\ \A x \in Subscribers \ {target[t]} : active'[x] = active[x]
    BY <1>5, <2>1, <2>2
  <2> QED BY <1>0, <1>1, <1>4, <2>1, <2>2, <2>3 DEF HandlesOK
<1>10. ASSUME Registered(t) PROVE HandlesOK'
  <2>1. /\ pc[t] = "registered" /\ pc'[t] = Home(t) /\ target' = [target EXCEPT ![t] = NoThread]
        /\ lifecycle_mutex_' = NoThread
    BY <1>2, <1>10 DEF Registered
  <2>2. target[t] \in Subscribers /\ handle[target[t]] = "none" /\ lifecycle_mutex_ = t
    BY <1>0, <1>4, <2>1 DEF HandlesOK
  <2>3. target'[t] = NoThread /\ \A u \in Registrants \ {t} : target'[u] = target[u]
    BY <1>5, <2>1
  <2>4. \A u \in Registrants \ {t} : pc[u] \notin {"register", "registered"}
    BY <1>0, <2>2 DEF HandlesOK
  <2>5. \A u \in Registrants : target'[u] \in Subscribers <=> pc'[u] \in MemberLabels
    BY <1>0, <1>3, <2>1, <2>3 DEF HandlesOK
  <2>6. \A u, v \in Registrants : target'[u] = target'[v] /\ target'[u] # NoThread => u = v
    BY <1>0, <2>3 DEF HandlesOK
  <2>7. \A u \in Registrants \ {t} : pc[u] \in MemberLabels => target[u] \in Subscribers /\ target[u] # target[t]
    BY <1>0, <1>6, <2>1, <1>4 DEF HandlesOK
  <2>8. CASE handle' = [handle EXCEPT ![target[t]] = "held"] /\ UNCHANGED active
    <3>1. active[target[t]]
      BY <1>0, <2>1 DEF HandlesOK
    <3>2. handle'[target[t]] = "held" /\ \A x \in Subscribers \ {target[t]} : handle'[x] = handle[x]
      BY <1>5, <2>2, <2>8
    <3> QED BY <1>0, <1>1, <1>3, <1>4, <2>1, <2>3, <2>4, <2>5, <2>6, <2>7, <2>8, <3>1, <3>2 DEF HandlesOK
  <2>9. CASE active' = [active EXCEPT ![target[t]] = FALSE] /\ UNCHANGED handle
    <3>1. ~active'[target[t]] /\ \A x \in Subscribers \ {target[t]} : active'[x] = active[x]
      BY <1>5, <2>2, <2>9
    <3> QED BY <1>0, <1>1, <1>3, <1>4, <2>1, <2>2, <2>3, <2>4, <2>5, <2>6, <2>7, <2>9, <3>1 DEF HandlesOK
  <2> QED BY <1>10, <2>8, <2>9 DEF Registered
<1>11. ASSUME pc[t] \in {"retire", "retired"}, AfterRetire(t), UNCHANGED <<handle, active, lifecycle_mutex_>>
       PROVE  HandlesOK'
  <2>1. handle[target[t]] = "reset"
    BY <1>0, <1>11 DEF HandlesOK
  <2>2. CASE FromItself(t)
    <3>1. pc'[t] = "callback" /\ target' = [target EXCEPT ![t] = NoThread]
      BY <1>2, <1>11, <2>2 DEF AfterRetire
    <3>2. target'[t] = NoThread /\ \A u \in Registrants \ {t} : target'[u] = target[u]
      BY <1>5, <3>1
    <3>3. \A u \in Registrants : target'[u] \in Subscribers <=> pc'[u] \in MemberLabels
      BY <1>0, <1>4, <3>1, <3>2 DEF HandlesOK
    <3> QED BY <1>0, <1>1, <1>4, <1>11, <3>1, <3>2, <3>3 DEF HandlesOK
  <2>3. CASE ~FromItself(t)
    <3>1. pc'[t] = "await" /\ target' = target
      BY <1>2, <1>11, <2>3 DEF AfterRetire
    <3> QED BY <1>0, <1>1, <1>4, <1>11, <2>1, <3>1 DEF HandlesOK
  <2> QED BY <2>2, <2>3
<1>12. ASSUME Retire(t) PROVE HandlesOK'
  <2>1. pc[t] = "retire" /\ UNCHANGED <<handle, active, lifecycle_mutex_>>
    BY <1>12 DEF Retire, life
  <2>2. CASE Goto(t, "retired") /\ UNCHANGED target
    <3>1. pc'[t] = "retired" /\ handle[target[t]] = "reset"
      BY <1>0, <1>2, <2>1, <2>2 DEF HandlesOK
    <3> QED BY <1>0, <1>1, <1>4, <2>1, <2>2, <3>1 DEF HandlesOK
  <2> QED BY <1>11, <1>12, <2>1, <2>2 DEF Retire
<1>13. ASSUME Retired(t) PROVE HandlesOK'
  BY <1>11, <1>13 DEF Retired, life
<1>14. ASSUME AwaitIdle(t) PROVE HandlesOK'
  <2>1. /\ pc[t] = "await" /\ pc'[t] = Home(t) /\ target' = [target EXCEPT ![t] = NoThread]
        /\ handle' = [handle EXCEPT ![target[t]] = "gone"] /\ InFlight(target[t]) = {}
        /\ UNCHANGED <<active, lifecycle_mutex_>>
    BY <1>2, <1>14 DEF AwaitIdle, life
  <2>2. target[t] \in Subscribers /\ handle[target[t]] = "reset" /\ ~active[target[t]]
    BY <1>0, <1>4, <2>1 DEF HandlesOK
  <2>3. target'[t] = NoThread /\ \A u \in Registrants \ {t} : target'[u] = target[u]
    BY <1>5, <2>1
  <2>4. handle'[target[t]] = "gone" /\ \A x \in Subscribers \ {target[t]} : handle'[x] = handle[x]
    BY <1>5, <2>1, <2>2
  <2>5. \A u \in Registrants : target'[u] \in Subscribers <=> pc'[u] \in MemberLabels
    BY <1>0, <1>3, <2>1, <2>3 DEF HandlesOK
  <2>6. \A u, v \in Registrants : target'[u] = target'[v] /\ target'[u] # NoThread => u = v
    BY <1>0, <2>3 DEF HandlesOK
  <2>7. \A u \in Registrants \ {t} : pc[u] \in MemberLabels => target[u] \in Subscribers /\ target[u] # target[t]
    BY <1>0, <1>6, <2>1, <1>4 DEF HandlesOK
  <2> QED BY <1>0, <1>1, <1>3, <1>4, <2>1, <2>2, <2>3, <2>4, <2>5, <2>6, <2>7 DEF HandlesOK
<1> QED BY <1>7, <1>8, <1>9, <1>10, <1>12, <1>13, <1>14 DEF Membership, MemberStep

LEMMA HandlesOKStep == ASSUME DispInv, Next, LabelsOK' PROVE HandlesOK'
<1> USE ThreadFacts
<1>0. Types /\ HandlesOK /\ LabelsOK /\ CreatedOK /\ pc \in [Threads -> Labels]
  BY DEF DispInv, Types
<1>1. ASSUME Calm PROVE \A s \in Subscribers : handle[s] = "gone" => InFlight(s)' = {}
  BY <1>0, <1>1, CalmCallbacks DEF HandlesOK
<1>2. ASSUME NEW t \in Callers, Publication(t) PROVE HandlesOK'
  <2>1. \A u \in Registrants : pc[u] \in MemberLabels \/ pc'[u] \in MemberLabels => pc'[u] = pc[u]
    BY <1>2 DEF Publication, PublishFrame, Moves, Home, PublishLabels, MemberLabels
  <2>2. UNCHANGED <<target, handle, active, lifecycle_mutex_, lifecycle>>
    BY <1>2 DEF Publication, PublishFrame, registry, life
  <2> QED BY <1>1, <1>2, <2>1, <2>2, CalmSteps, HandlesKept
<1>3. ASSUME NEW w \in Workers, Work(w) PROVE HandlesOK'
  <2>1. \A u \in Registrants : pc[u] \in MemberLabels \/ pc'[u] \in MemberLabels => pc'[u] = pc[u]
    BY <1>3 DEF Work, WorkFrame, Moves, WorkerLabels, MemberLabels
  <2>2. UNCHANGED <<target, handle, active, lifecycle_mutex_, lifecycle>>
    BY <1>3 DEF Work, WorkFrame, registry, life
  <2> QED BY <1>3, <2>1, <2>2, GoneStaysSilent, HandlesKept
<1>4. ASSUME NEW t \in Stoppers \cup {Owner}, Stopping(t) PROVE HandlesOK'
  <2>1. \A u \in Registrants : pc[u] \in MemberLabels \/ pc'[u] \in MemberLabels => pc'[u] = pc[u]
    BY <1>4 DEF Stopping, StopFrame, Wakes, MemberLabels
  <2>2. UNCHANGED <<target, handle, active, lifecycle_mutex_>>
    BY <1>4 DEF Stopping, StopFrame, registry
  <2>3. lifecycle' = lifecycle \/ LifecycleFree
    BY <1>4 DEF Stopping, StopStep, Shutdown, CloseQueue, CountDropped, JoinWorkers, MarkStopped, NotifyStopped,
                AwaitStopped, SpuriousWake, Dispose, life
  <2> QED BY <1>1, <1>4, <2>1, <2>2, <2>3, CalmSteps, HandlesKept
<1>5. ASSUME Construction PROVE HandlesOK'
  <2>1. \A u \in Registrants : pc[u] \notin MemberLabels /\ pc'[u] \notin MemberLabels
    BY <1>0, <1>5 DEF Construction, OwnerFrame, CreatedOK, Construct, ConstructFails, Abandon, Goto, MemberLabels
  <2>2. UNCHANGED <<target, handle, active, lifecycle_mutex_>> /\ lifecycle # "running"
    BY <1>5 DEF Construction, OwnerFrame, registry
  <2>3. \A s \in Subscribers : handle[s] # "gone"
    BY <1>0, <1>5 DEF Construction, OwnerFrame, CreatedOK
  <2> QED BY <2>1, <2>2, <2>3, HandlesKept
<1>6. ASSUME Rest PROVE HandlesOK'
  BY <1>1, <1>6, CalmSteps, HandlesKept DEF Rest, vars
<1> QED BY <1>2, <1>3, <1>4, <1>5, <1>6, StepKinds, HandlesMembers
-----------------------------------------------------------------------------
(* The registry. *)

LEMMA RegistryKept ==
    ASSUME DispInv, UNCHANGED <<current, next, writer_mutex, handle, target>>,
           \A t \in Registrants : pc'[t] \in {"registered", "retired"} => pc'[t] = pc[t]
    PROVE  RegistryOK'
BY DEF DispInv, RegistryOK, HeldIn

LEMMA RegistryMembers ==
    ASSUME DispInv, NEW t \in Registrants, Membership(t)
    PROVE  RegistryOK'
<1> USE ThreadFacts
<1>0. /\ Types /\ RegistryOK /\ HandlesOK /\ pc \in [Threads -> Labels] /\ t \in Threads
      /\ \A u \in Registrants \ {t} : pc'[u] = pc[u]
  BY DEF DispInv, Types, Membership, MemberFrame, Moves
<1>1. /\ target \in [Registrants -> Subscribers \cup {NoThread}] /\ current \in Seq(Subscribers) /\ next \in Seq(Subscribers)
      /\ handle \in [Subscribers -> {"none", "held", "reset", "gone"}] /\ active \in [Subscribers -> BOOLEAN]
  BY <1>0 DEF Types
<1>2. \A l : Goto(t, l) => pc'[t] = l
  BY <1>0 DEF Goto
<1>3. Home(t) \notin {"registered", "retired"} /\ \A u \in Registrants : u # NoThread
  BY DEF Home
<1>4. \A s \in Subscribers : handle[s] = "held" => s \in Active
  BY <1>0 DEF HandlesOK, Active
<1>5. pc[t] \in MemberLabels => target[t] \in Subscribers
  BY TargetFacts
<1>6. Elements(current) \subseteq Subscribers /\ Elements(next) \subseteq Subscribers
  BY <1>1, ElementOfSeq DEF Elements
<1>7. WriterFree => \A u \in Registrants : pc[u] \notin {"registered", "retired"}
  BY <1>0 DEF RegistryOK, WriterFree
<1>8. pc[t] \in {"registered", "retired"} =>
          writer_mutex = t /\ \A u \in Registrants \ {t} : pc[u] \notin {"registered", "retired"}
  BY <1>0 DEF RegistryOK
(* A list is published, or not; the writer is done. *)
<1>9. ASSUME Distinct(current'), HeldIn(current)', \A s \in Elements(current') : handle'[s] # "none",
             \A u \in Registrants : pc'[u] \notin {"registered", "retired"}
      PROVE  RegistryOK'
  BY <1>9 DEF RegistryOK
<1>10. ASSUME NEW s \in Subscribers, Subscribe(t, s) PROVE RegistryOK'
  <2>1. pc'[t] = "register" /\ UNCHANGED <<current, next, writer_mutex, handle>>
        /\ \A u \in Registrants \ {t} : target'[u] = target[u]
    BY <1>1, <1>2, <1>10 DEF Subscribe, lists
  <2> QED BY <1>0, <2>1 DEF RegistryOK, HeldIn
<1>11. ASSUME NEW s \in Subscribers, Unsubscribe(t, s) PROVE RegistryOK'
  <2>1. pc'[t] = "retire" /\ UNCHANGED <<current, next, writer_mutex>>
        /\ \A u \in Registrants \ {t} : target'[u] = target[u]
    BY <1>1, <1>2, <1>11 DEF Unsubscribe, lists
  <2>2. handle'[s] = "reset" /\ \A x \in Subscribers \ {s} : handle'[x] = handle[x]
    BY <1>1, <1>11 DEF Unsubscribe
  <2>3. \A x \in Subscribers : (handle'[x] = "held" => handle[x] = "held") /\ (handle'[x] = "none" => handle[x] = "none")
    BY <2>2
  <2> QED BY <1>0, <1>6, <2>1, <2>3 DEF RegistryOK, HeldIn
<1>12. ASSUME Register(t) PROVE RegistryOK'
  <2>1. /\ pc[t] = "register" /\ pc'[t] = "registered" /\ WriterFree /\ writer_mutex' = t
        /\ next' = Append(Filtered(current, Active), target[t]) /\ UNCHANGED <<current, handle, target>>
    BY <1>2, <1>12 DEF Register
  <2>2. target[t] \in Subscribers /\ handle[target[t]] = "none"
    BY <1>0, <1>5, <2>1 DEF HandlesOK, MemberLabels
  <2>3. /\ Filtered(current, Active) \in Seq(Subscribers) /\ Distinct(Filtered(current, Active))
        /\ Elements(Filtered(current, Active)) = Elements(current) \cap Active
    BY <1>0, <1>1, FilteredFacts DEF RegistryOK
  <2>4. target[t] \notin Elements(Filtered(current, Active))
    BY <1>0, <2>2, <2>3 DEF RegistryOK
  <2>5. Elements(next') = (Elements(current) \cap Active) \cup {target[t]} /\ Distinct(next')
    BY <2>1, <2>2, <2>3, <2>4, AppendElements
  <2>6. HeldIn(next)'
    BY <1>0, <1>4, <2>1, <2>5 DEF RegistryOK, HeldIn
  <2> QED BY <1>0, <1>7, <2>1, <2>5, <2>6 DEF RegistryOK, HeldIn
<1>13. ASSUME Registered(t) PROVE RegistryOK'
  <2>1. pc[t] = "registered" /\ pc'[t] = Home(t) /\ target[t] \in Subscribers
    BY <1>2, <1>5, <1>13 DEF Registered, MemberLabels
  <2>2. \A u \in Registrants : pc'[u] \notin {"registered", "retired"}
    BY <1>0, <1>3, <1>8, <2>1
  <2>3. CASE current' = next /\ handle' = [handle EXCEPT ![target[t]] = "held"]
    <3>1. handle'[target[t]] = "held" /\ \A x \in Subscribers \ {target[t]} : handle'[x] = handle[x]
      BY <1>1, <2>1, <2>3
    <3>2. Distinct(next) /\ HeldIn(next) /\ target[t] \in Elements(next) /\ Elements(next) \subseteq Elements(current) \cup {target[t]}
      BY <1>0, <2>1 DEF RegistryOK
    <3>3. HeldIn(current)'
      BY <2>3, <3>1, <3>2 DEF HeldIn
    <3>4. \A x \in Elements(current') : handle'[x] # "none"
      BY <1>0, <1>6, <2>3, <3>1, <3>2 DEF RegistryOK
    <3> QED BY <1>9, <2>2, <2>3, <3>2, <3>3, <3>4
  <2>4. CASE UNCHANGED <<current, handle>>
    BY <1>0, <1>9, <2>2, <2>4 DEF RegistryOK, HeldIn
  <2> QED BY <1>13, <2>3, <2>4 DEF Registered
<1>14. ASSUME AfterRetire(t) PROVE pc'[t] \notin {"registered", "retired"} /\ \A u \in Registrants \ {t} : target'[u] = target[u]
  BY <1>1, <1>2, <1>14 DEF AfterRetire
<1>15. ASSUME Retire(t) PROVE RegistryOK'
  <2>1. pc[t] = "retire" /\ WriterFree /\ UNCHANGED <<current, handle>>
    BY <1>15 DEF Retire
  <2>2. target[t] \in Subscribers /\ handle[target[t]] = "reset"
    BY <1>0, <1>5, <2>1 DEF HandlesOK, MemberLabels
  <2>3. CASE writer_mutex' = t /\ next' = Filtered(current, Active \ {target[t]}) /\ Goto(t, "retired") /\ UNCHANGED target
    <3>1. /\ Distinct(next') /\ Elements(next') = Elements(current) \cap (Active \ {target[t]})
      BY <1>0, <1>1, <2>3, FilteredFacts DEF RegistryOK
    <3>2. HeldIn(next)'
      BY <1>0, <1>4, <2>1, <2>2, <3>1 DEF RegistryOK, HeldIn
    <3>3. pc'[t] = "retired"
      BY <1>2, <2>3
    <3> QED BY <1>0, <1>7, <2>1, <2>3, <3>1, <3>2, <3>3 DEF RegistryOK, HeldIn
  <2>4. CASE AfterRetire(t)
    <3>1. \A u \in Registrants : pc'[u] \notin {"registered", "retired"}
      BY <1>0, <1>7, <1>14, <2>1, <2>4
    <3> QED BY <1>0, <1>9, <2>1, <3>1 DEF RegistryOK, HeldIn
  <2> QED BY <1>15, <2>3, <2>4 DEF Retire
<1>16. ASSUME Retired(t) PROVE RegistryOK'
  <2>1. pc[t] = "retired" /\ current' = next /\ UNCHANGED handle
    BY <1>16 DEF Retired
  <2>2. \A u \in Registrants : pc'[u] \notin {"registered", "retired"}
    BY <1>0, <1>8, <1>14, <1>16, <2>1 DEF Retired
  <2>3. Distinct(next) /\ HeldIn(next) /\ Elements(next) \subseteq Elements(current)
    BY <1>0, <2>1 DEF RegistryOK
  <2>4. \A x \in Elements(next) : handle[x] # "none"
    BY <1>0, <2>3 DEF RegistryOK
  <2> QED BY <1>9, <2>1, <2>2, <2>3, <2>4 DEF HeldIn
<1>17. ASSUME AwaitIdle(t) PROVE RegistryOK'
  <2>1. /\ pc[t] = "await" /\ pc'[t] = Home(t) /\ UNCHANGED <<current, next, writer_mutex>>
        /\ \A u \in Registrants \ {t} : target'[u] = target[u]
    BY <1>1, <1>2, <1>17 DEF AwaitIdle, lists
  <2>2. target[t] \in Subscribers /\ handle[target[t]] = "reset"
    BY <1>0, <1>5, <2>1 DEF HandlesOK, MemberLabels
  <2>3. \A x \in Subscribers : (handle'[x] = "held" => handle[x] = "held") /\ (handle'[x] = "none" => handle[x] = "none")
    BY <1>1, <1>17, <2>2 DEF AwaitIdle
  <2> QED BY <1>0, <1>3, <1>6, <2>1, <2>3 DEF RegistryOK, HeldIn
<1> QED BY <1>10, <1>11, <1>12, <1>13, <1>15, <1>16, <1>17 DEF Membership, MemberStep

LEMMA RegistryOKStep == ASSUME DispInv, Next PROVE RegistryOK'
<1> USE ThreadFacts
<1>0. pc \in [Threads -> Labels]
  BY DEF DispInv, Types
<1>1. ASSUME NEW t \in Callers, Publication(t) PROVE RegistryOK'
  <2>1. \A u \in Registrants : pc'[u] \in {"registered", "retired"} => pc'[u] = pc[u]
    BY <1>1 DEF Publication, PublishFrame, Moves, Home, PublishLabels
  <2> QED BY <1>1, <2>1, RegistryKept DEF Publication, PublishFrame, registry
<1>2. ASSUME NEW w \in Workers, Work(w) PROVE RegistryOK'
  <2>1. \A u \in Registrants : pc'[u] \in {"registered", "retired"} => pc'[u] = pc[u]
    BY <1>2 DEF Work, WorkFrame, Moves, WorkerLabels
  <2> QED BY <1>2, <2>1, RegistryKept DEF Work, WorkFrame, registry
<1>3. ASSUME NEW t \in Stoppers \cup {Owner}, Stopping(t) PROVE RegistryOK'
  <2>1. \A u \in Registrants : pc'[u] \in {"registered", "retired"} => pc'[u] = pc[u]
    BY <1>3 DEF Stopping, StopFrame, Wakes
  <2> QED BY <1>3, <2>1, RegistryKept DEF Stopping, StopFrame, registry
<1>4. ASSUME Construction PROVE RegistryOK'
  <2>1. \A u \in Registrants : pc'[u] \in {"registered", "retired"} => pc'[u] = pc[u]
    BY <1>0, <1>4 DEF Construction, Construct, ConstructFails, Abandon, Goto
  <2> QED BY <1>4, <2>1, RegistryKept DEF Construction, OwnerFrame, registry
<1>5. ASSUME Rest PROVE RegistryOK'
  BY <1>5, RegistryKept DEF Rest, vars
<1> QED BY <1>1, <1>2, <1>3, <1>4, <1>5, StepKinds, RegistryMembers
-----------------------------------------------------------------------------
(* Who hears what. *)

LEMMA AudienceFacts ==
    ASSUME DispInv
    PROVE  /\ DOMAIN pushed = 1..Len(pushed) /\ Len(pushed) \in Nat
           /\ \A i \in DOMAIN pushed : i \in DOMAIN audience /\ audience[i] \subseteq Subscribers
           /\ Elements(taken) \subseteq Elements(pushed)
           /\ \A w \in Workers : Elements(batch[w]) \subseteq Elements(taken)
           /\ \A w \in Workers : Broadcasting(w) => batch[w] # <<>> /\ Head(batch[w]) \in Elements(batch[w])
<1>1. /\ pushed \in Seq(Nat) /\ taken \in Seq(Nat) /\ discarded \in Seq(Nat) /\ items \in Seq(Nat)
      /\ audience \in Seq(SUBSET Subscribers) /\ \A w \in Workers : batch[w] \in Seq(Nat)
  BY DEF DispInv, Types
<1>2. DOMAIN pushed = 1..Len(pushed) /\ Len(pushed) \in Nat /\ DOMAIN audience = 1..Len(audience)
  BY <1>1, LenProperties
<1>3. Len(audience) = Len(pushed)
  BY DEF DispInv, AudienceOK
<1>4. \A i \in DOMAIN audience : audience[i] \in SUBSET Subscribers
  BY <1>1, ElementOfSeq, LenProperties
<1>5. Elements(taken) \subseteq Elements(pushed)
  BY <1>1, LedgerElements DEF DispInv, QueueOK
<1>6. ASSUME NEW w \in Workers
      PROVE  /\ Elements(batch[w]) \subseteq Elements(taken)
             /\ Broadcasting(w) => batch[w] # <<>> /\ Head(batch[w]) \in Elements(batch[w])
  <2>1. Broadcasting(w) => batch[w] # <<>>
    BY DEF DispInv, BatchOK, Broadcasting, InCallback
  <2>2. batch[w] # <<>> => Head(batch[w]) \in Elements(batch[w])
    BY <1>1, TailElements
  <2> QED BY <2>1, <2>2 DEF DispInv, BatchOK
<1> QED BY <1>2, <1>3, <1>4, <1>5, <1>6

(* Every audience hears: the statement with Elements. *)
AllHeard ==
    \A i \in DOMAIN pushed :
        (pushed[i] \in Elements(taken) /\ \A w \in Workers : pushed[i] \notin Elements(batch[w])) =>
            \A s \in audience[i] : handle[s] = "held" => pushed[i] \in Elements(heard[s])

LEMMA HearsIsAllHeard == EveryAudienceHears <=> AllHeard
BY MembersAreElements DEF EveryAudienceHears, AllHeard, Broadcast

LEMMA HearsIsAllHeardNext == EveryAudienceHears' <=> AllHeard'
BY HearsIsAllHeard, PTL

LEMMA AudienceKept ==
    ASSUME DispInv, LabelsOK', Calm, UNCHANGED <<pushed, audience>>,
           \A s \in Subscribers : /\ handle'[s] = "none" => handle[s] = "none"
                                  /\ handle'[s] = "held" => handle[s] \in {"held", "none"}
    PROVE  AudienceOK'
<1>0. LabelsOK /\ AudienceOK /\ UNCHANGED <<taken, batch, snapshot, todo, heard>>
  BY DEF DispInv, Calm, working
<1>1. \A i \in DOMAIN pushed : \A s \in audience[i] : handle'[s] # "none" /\ (handle'[s] = "held" => handle[s] = "held")
  BY <1>0, AudienceFacts DEF AudienceOK
<1>2. \A w \in Workers : (InCallback(w)' <=> InCallback(w)) /\ (pc'[w] = "offer" <=> pc[w] = "offer")
  BY <1>0, CalmCallbacks
<1>3. \A w \in Workers : Owes(w)' /\ Gives(w)'
  BY <1>0, <1>1, <1>2 DEF AudienceOK, Owes, Gives, Broadcasting, Due
<1>4. AllHeard
  BY <1>0, HearsIsAllHeard DEF AudienceOK
<1>5. AllHeard'
  BY <1>0, <1>1, <1>4 DEF AllHeard
<1> QED BY <1>0, <1>1, <1>3, <1>5, HearsIsAllHeardNext DEF AudienceOK

LEMMA AudiencePushes ==
    ASSUME DispInv, LabelsOK', NEW t \in Callers, Publication(t), Push(t)
    PROVE  AudienceOK'
<1> USE ThreadFacts
<1> DEFINE H == {s \in Subscribers : handle[s] = "held"}
           n == Len(pushed) + 1
<1>0. /\ LabelsOK /\ AudienceOK /\ PublishOK /\ Calm /\ UNCHANGED <<taken, batch, snapshot, todo, heard, handle>>
  BY CalmSteps DEF DispInv, Calm, working, Publication, PublishFrame, registry
<1>1. /\ pushed' = Append(pushed, event[t]) /\ audience' = Append(audience, H) /\ pc[t] = "push"
  BY DEF Push, Queue!Push
<1>2. pushed \in Seq(Nat) /\ event[t] \in Nat /\ audience \in Seq(SUBSET Subscribers) /\ H \in SUBSET Subscribers
  BY DEF DispInv, Types
<1> HIDE DEF H
<1>3. event[t] \notin Elements(pushed)
  BY <1>0, <1>1 DEF PublishOK
<1>4. Len(audience) = Len(pushed) /\ Len(pushed) \in Nat /\ DOMAIN pushed = 1..Len(pushed)
  BY <1>0, AudienceFacts DEF AudienceOK
<1>5. /\ pushed' = [i \in 1..n |-> IF i = n THEN event[t] ELSE pushed[i]]
      /\ audience' = [i \in 1..n |-> IF i = n THEN H ELSE audience[i]]
  <2>1. Append(pushed, event[t]) = [i \in 1..(Len(pushed) + 1) |-> IF i = Len(pushed) + 1 THEN event[t] ELSE pushed[i]]
    BY <1>2, AppendAsFunction
  <2>2. Append(audience, H) = [i \in 1..(Len(audience) + 1) |-> IF i = Len(audience) + 1 THEN H ELSE audience[i]]
    BY <1>2, AppendAsFunction
  <2> QED BY <1>1, <1>4, <2>1, <2>2
<1>6. Len(audience') = Len(pushed')
  BY <1>1, <1>2, <1>4, AppendElements
<1>7. /\ DOMAIN pushed' = 1..n /\ n \in Nat /\ pushed'[n] = event[t] /\ audience'[n] = H
      /\ \A i \in 1..n : i # n => i \in DOMAIN pushed /\ pushed'[i] = pushed[i] /\ audience'[i] = audience[i]
  BY <1>4, <1>5
<1> HIDE DEF n
<1>8. \A w \in Workers : (InCallback(w)' <=> InCallback(w)) /\ (pc'[w] = "offer" <=> pc[w] = "offer")
  BY <1>0, CalmCallbacks
<1>9. \A i \in DOMAIN pushed' : \A s \in audience'[i] : handle'[s] # "none"
  BY <1>0, <1>7 DEF AudienceOK, H
<1>10. event[t] \notin Elements(taken) /\ \A w \in Workers : event[t] \notin Elements(batch[w])
  BY <1>3, AudienceFacts
<1>11. ASSUME NEW w \in Workers PROVE Owes(w)' /\ Gives(w)'
  <2>1. Owes(w) /\ Gives(w)
    BY <1>0 DEF AudienceOK
  <2>2. Broadcasting(w)' <=> Broadcasting(w)
    BY <1>8 DEF Broadcasting
  <2>3. Broadcasting(w) => event[t] # Head(batch[w])
    BY <1>10, AudienceFacts
  <2>4. Owes(w)'
    <3> SUFFICES ASSUME Broadcasting(w), NEW i \in 1..n, NEW s \in audience'[i], handle[s] = "held"
                 PROVE  /\ pushed'[i] \in Elements(batch[w]) => s \in Elements(snapshot[w])
                        /\ pushed'[i] = Head(batch[w]) => Due(w, pushed'[i], s)
      BY <1>0, <1>7, <2>2 DEF Owes, Due
    <3>1. CASE i = n
      BY <1>7, <1>10, <2>3, <3>1
    <3>2. CASE i # n
      BY <1>7, <2>1, <3>2 DEF Owes
    <3> QED BY <3>1, <3>2
  <2> QED BY <1>0, <1>8, <2>1, <2>4 DEF Gives
<1>12. AllHeard'
  <2>1. AllHeard
    BY <1>0, HearsIsAllHeard DEF AudienceOK
  <2> QED BY <1>0, <1>7, <1>10, <2>1 DEF AllHeard
<1> QED BY <1>6, <1>9, <1>11, <1>12, HearsIsAllHeardNext DEF AudienceOK

(* What the other workers owe does not change; hearing only grows. *)
LEMMA AudienceLocal ==
    ASSUME DispInv, NEW w \in Workers, Work(w),
           \A s \in Subscribers : Elements(heard[s]) \subseteq Elements(heard'[s]),
           NEW v \in Workers, pc'[v] = pc[v], batch'[v] = batch[v], snapshot'[v] = snapshot[v], todo'[v] = todo[v]
    PROVE  Owes(v)' /\ Gives(v)'
<1>0. /\ Owes(v) /\ Gives(v) /\ UNCHANGED <<pushed, audience, handle>>
  BY DEF DispInv, AudienceOK, Work, WorkFrame, registry
<1>1. \A i \in DOMAIN pushed : audience[i] \subseteq Subscribers
  BY AudienceFacts
<1>2. (InCallback(v)' <=> InCallback(v)) /\ (Broadcasting(v)' <=> Broadcasting(v))
  BY DEF InCallback, Broadcasting
<1>3. InCallback(v) => Head(todo[v]) \in Subscribers
  <2>1. InCallback(v) => todo[v] # <<>>
    BY DEF DispInv, BatchOK
  <2>2. todo[v] \in Seq(Subscribers)
    BY DEF DispInv, Types
  <2> QED BY <2>1, <2>2, TailElements
<1>4. Gives(v)'
  BY <1>0, <1>2, <1>3 DEF Gives
<1>5. Owes(v)'
  <2> SUFFICES ASSUME Broadcasting(v), NEW i \in DOMAIN pushed, NEW s \in audience[i], handle[s] = "held"
               PROVE  /\ pushed[i] \in Elements(batch[v]) => s \in Elements(snapshot[v])
                      /\ pushed[i] = Head(batch[v]) => s \in Elements(todo[v]) \/ pushed[i] \in Elements(heard'[s])
    BY <1>0, <1>2 DEF Owes, Due
  <2>1. s \in Subscribers
    BY <1>1
  <2> QED BY <1>0, <2>1 DEF Owes, Due
<1> QED BY <1>4, <1>5

(* It is enough to look at the worker that moves. *)
LEMMA AudienceOfOne ==
    ASSUME DispInv, NEW w \in Workers, Work(w),
           \A s \in Subscribers : Elements(heard[s]) \subseteq Elements(heard'[s]),
           Owes(w)', Gives(w)', AllHeard'
    PROVE  AudienceOK'
<1>0. AudienceOK /\ UNCHANGED <<pushed, audience, handle>>
  BY DEF DispInv, Work, WorkFrame, registry
<1>1. \A v \in Workers : Owes(v)' /\ Gives(v)'
  BY WorkLocal, AudienceLocal
<1> QED BY <1>0, <1>1, HearsIsAllHeardNext DEF AudienceOK

LEMMA AudienceWorks ==
    ASSUME DispInv, NEW w \in Workers, Work(w)
    PROVE  AudienceOK'
<1> USE ThreadFacts
<1>0. /\ Types /\ AudienceOK /\ AllHeard /\ w \in Threads /\ UNCHANGED <<pushed, audience, handle>>
      /\ Owes(w) /\ Gives(w)
  BY HearsIsAllHeard DEF DispInv, Work, WorkFrame, registry, AudienceOK
<1>1. \A v \in Workers \ {w} : pc'[v] = pc[v] /\ batch'[v] = batch[v] /\ snapshot'[v] = snapshot[v] /\ todo'[v] = todo[v]
  BY WorkLocal
<1>2. \A l : Goto(w, l) => pc'[w] = l
  BY <1>0 DEF Goto, Types
<1>3. \A i \in DOMAIN pushed : audience[i] \subseteq Subscribers
  BY AudienceFacts
<1>4. ASSUME Elements(batch[w]) \subseteq Elements(batch'[w]), Elements(taken') = Elements(taken),
             \A s \in Subscribers : Elements(heard[s]) \subseteq Elements(heard'[s])
      PROVE  AllHeard'
  <2> SUFFICES ASSUME NEW i \in DOMAIN pushed, pushed[i] \in Elements(taken'),
                      \A v \in Workers : pushed[i] \notin Elements(batch'[v]),
                      NEW s \in audience[i], handle[s] = "held"
               PROVE  pushed[i] \in Elements(heard'[s])
    BY <1>0 DEF AllHeard
  <2>1. \A v \in Workers : pushed[i] \notin Elements(batch[v])
    BY <1>1, <1>4
  <2>2. pushed[i] \in Elements(heard[s]) /\ s \in Subscribers
    BY <1>0, <1>3, <1>4, <2>1 DEF AllHeard
  <2> QED BY <1>4, <2>2
<1>5. ASSUME Queue!Pop, Elements(batch'[w]) = Elements(batch[w]) \cup {Head(items)}, heard' = heard,
             pc'[w] = "fill"
      PROVE  AudienceOK'
  <2>1. Elements(taken') = Elements(taken) \cup {Head(items)}
    BY <1>5, PopFacts
  <2>2. AllHeard'
    <3> SUFFICES ASSUME NEW i \in DOMAIN pushed, pushed[i] \in Elements(taken'),
                        \A v \in Workers : pushed[i] \notin Elements(batch'[v]),
                        NEW s \in audience[i], handle[s] = "held"
                 PROVE  pushed[i] \in Elements(heard[s])
      BY <1>0, <1>5 DEF AllHeard
    <3>1. pushed[i] # Head(items) /\ pushed[i] \in Elements(taken)
      BY <1>5, <2>1
    <3>2. \A v \in Workers : pushed[i] \notin Elements(batch[v])
      BY <1>1, <1>5
    <3> QED BY <1>0, <3>1, <3>2 DEF AllHeard
  <2>3. Owes(w)' /\ Gives(w)'
    BY <1>5 DEF Owes, Gives, Broadcasting, InCallback
  <2> QED BY <1>5, <2>2, <2>3, AudienceOfOne
<1>6. ASSUME UNCHANGED <<batch, taken, heard>>, pc'[w] \in {"done", "snapshot"} PROVE AudienceOK'
  <2>1. Owes(w)' /\ Gives(w)'
    BY <1>6 DEF Owes, Gives, Broadcasting, InCallback
  <2>2. AllHeard'
    BY <1>4, <1>6
  <2> QED BY <1>6, <2>1, <2>2, AudienceOfOne
<1>7. CASE WaitPop(w)
  <2>1. heard' = heard
    BY <1>7 DEF WaitPop, histories
  <2>2. CASE Queue!Pop /\ batch' = [batch EXCEPT ![w] = <<Head(items)>>] /\ Goto(w, "fill")
    <3>1. batch'[w] = <<Head(items)>> /\ batch[w] = <<>>
      BY <1>0, <1>7, <2>2 DEF Types, WaitPop, DispInv, BatchOK
    <3>2. Elements(<<Head(items)>>) = {Head(items)} /\ Elements(<<>>) = {}
      BY DEF Elements
    <3> QED BY <1>2, <1>5, <2>1, <2>2, <3>1, <3>2
  <2>3. CASE UNCHANGED <<batch, taken>> /\ Goto(w, "done")
    BY <1>2, <1>6, <2>1, <2>3
  <2> QED BY <1>7, <2>2, <2>3 DEF WaitPop, EndOfStream, Queue!PopClosed, queue
<1>8. CASE FillBatch(w)
  <2>1. heard' = heard /\ pc[w] = "fill"
    BY <1>8 DEF FillBatch, histories
  <2>2. CASE Queue!Pop /\ batch' = [batch EXCEPT ![w] = Extended(w)] /\ UNCHANGED pc
    <3>1. batch'[w] = Append(batch[w], Head(items)) /\ batch[w] \in Seq(Nat) /\ Head(items) \in Nat
      BY <1>0, <2>2, PopFacts DEF Types, Extended
    <3>2. Elements(batch'[w]) = Elements(batch[w]) \cup {Head(items)}
      BY <3>1, AppendElements
    <3> QED BY <1>5, <2>1, <2>2, <3>2
  <2>3. CASE UNCHANGED <<batch, taken>> /\ Goto(w, "snapshot")
    BY <1>2, <1>6, <2>1, <2>3
  <2> QED BY <1>8, <2>2, <2>3 DEF FillBatch, EndOfStream, Queue!PopClosed, queue
<1>9. CASE AcquireSnapshot(w)
  <2>1. /\ UNCHANGED <<batch, taken, heard>> /\ pc'[w] = "offer" /\ snapshot'[w] = current /\ todo'[w] = current
    BY <1>0, <1>2, <1>9 DEF AcquireSnapshot, queue, histories, Types
  <2>2. \A s \in Subscribers : handle[s] = "held" => s \in Elements(current)
    BY DEF DispInv, RegistryOK, HeldIn
  <2>3. Owes(w)' /\ Gives(w)'
    BY <1>0, <1>3, <2>1, <2>2 DEF Owes, Gives, Due, InCallback
  <2> QED BY <1>4, <2>1, <2>3, AudienceOfOne
<1>10. ASSUME pc[w] \in {"offer", "callback"}, todo[w] # <<>>
       PROVE  /\ Head(todo[w]) \in Subscribers /\ Head(batch[w]) \in Nat
              /\ Elements(todo[w]) = Elements(Tail(todo[w])) \cup {Head(todo[w])}
  <2>1. todo[w] \in Seq(Subscribers) /\ batch[w] \in Seq(Nat) /\ batch[w] # <<>>
    BY <1>0, <1>10 DEF Types, DispInv, BatchOK
  <2> QED BY <1>10, <2>1, TailElements, TailCovers
(* The subscriber at the head of the round has been given the event, or is not held. *)
<1>11. ASSUME pc[w] \in {"offer", "callback"}, todo[w] # <<>>, pc'[w] = "offer", todo'[w] = Tail(todo[w]),
              UNCHANGED <<batch, snapshot, taken, heard>>,
              handle[Head(todo[w])] = "held" => Head(batch[w]) \in Elements(heard[Head(todo[w])])
       PROVE  AudienceOK'
  <2>1. Broadcasting(w)
    BY <1>11 DEF Broadcasting, InCallback
  <2>2. Owes(w)'
    <3> SUFFICES ASSUME NEW i \in DOMAIN pushed, NEW s \in audience[i], handle[s] = "held"
                 PROVE  /\ pushed[i] \in Elements(batch[w]) => s \in Elements(snapshot[w])
                        /\ pushed[i] = Head(batch[w]) => s \in Elements(Tail(todo[w])) \/ pushed[i] \in Elements(heard[s])
      BY <1>0, <1>11 DEF Owes, Due
    <3>1. pushed[i] = Head(batch[w]) => s \in Elements(todo[w]) \/ pushed[i] \in Elements(heard[s])
      BY <1>0, <2>1 DEF Owes, Due
    <3>2. pushed[i] \in Elements(batch[w]) => s \in Elements(snapshot[w])
      BY <1>0, <2>1 DEF Owes
    <3> QED BY <1>10, <1>11, <3>1, <3>2
  <2>3. Gives(w)'
    BY <1>11 DEF Gives, InCallback
  <2>4. AllHeard'
    BY <1>4, <1>11
  <2> QED BY <1>11, <2>2, <2>3, <2>4, AudienceOfOne
<1>12. CASE Invoke(w)
  <2>1. /\ pc[w] = "offer" /\ todo[w] # <<>> /\ UNCHANGED <<batch, snapshot, taken>>
    BY <1>12 DEF Invoke, queue
  <2>2. CASE heard' = [heard EXCEPT ![Head(todo[w])] = Append(@, Head(batch[w]))] /\ Goto(w, "callback") /\ UNCHANGED todo
    <3> DEFINE h == Head(todo[w])
    <3>1. h \in Subscribers /\ Head(batch[w]) \in Nat /\ heard[h] \in Seq(Nat) /\ heard \in [Subscribers -> Seq(Nat)]
      BY <1>0, <1>10, <2>1 DEF Types
    <3>2. heard'[h] = Append(heard[h], Head(batch[w])) /\ \A s \in Subscribers \ {h} : heard'[s] = heard[s]
      BY <2>2, <3>1
    <3>3. Elements(heard'[h]) = Elements(heard[h]) \cup {Head(batch[w])}
      BY <3>1, <3>2, AppendElements
    <3>4. \A s \in Subscribers : Elements(heard[s]) \subseteq Elements(heard'[s])
      BY <3>2, <3>3
    <3>5. Owes(w)'
      <4> SUFFICES ASSUME NEW i \in DOMAIN pushed, NEW s \in audience[i], handle[s] = "held"
                   PROVE  /\ pushed[i] \in Elements(batch[w]) => s \in Elements(snapshot[w])
                          /\ pushed[i] = Head(batch[w]) => s \in Elements(todo[w]) \/ pushed[i] \in Elements(heard'[s])
        BY <1>0, <2>1, <2>2 DEF Owes, Due
      <4>1. Broadcasting(w) /\ s \in Subscribers
        BY <1>3, <2>1 DEF Broadcasting
      <4>2. pushed[i] = Head(batch[w]) => s \in Elements(todo[w]) \/ pushed[i] \in Elements(heard[s])
        BY <1>0, <4>1 DEF Owes, Due
      <4>3. pushed[i] \in Elements(batch[w]) => s \in Elements(snapshot[w])
        BY <1>0, <4>1 DEF Owes
      <4> QED BY <3>4, <4>1, <4>2, <4>3
    <3>6. Gives(w)'
      BY <2>1, <2>2, <3>3 DEF Gives
    <3>7. AllHeard'
      BY <1>4, <2>1, <3>4
    <3> QED BY <3>4, <3>5, <3>6, <3>7, AudienceOfOne
  <2>3. CASE ~Admits(Head(todo[w])) /\ todo' = [todo EXCEPT ![w] = Tail(@)] /\ UNCHANGED <<pc, heard>>
    <3>1. handle[Head(todo[w])] # "held"
      BY <1>10, <2>1, <2>3 DEF Admits, DispInv, HandlesOK
    <3>2. todo'[w] = Tail(todo[w])
      BY <1>0, <2>3 DEF Types
    <3> QED BY <1>11, <2>1, <2>3, <3>1, <3>2
  <2> QED BY <1>12, <2>2, <2>3 DEF Invoke
<1>13. CASE CallbackReturns(w)
  <2>1. /\ pc[w] = "callback" /\ pc'[w] = "offer" /\ todo'[w] = Tail(todo[w]) /\ UNCHANGED <<batch, snapshot, taken, heard>>
    BY <1>0, <1>2, <1>13 DEF CallbackReturns, queue, histories, Types
  <2>2. InCallback(w)
    BY <2>1 DEF InCallback
  <2>3. todo[w] # <<>>
    BY <2>2 DEF DispInv, BatchOK
  <2>4. Head(batch[w]) \in Elements(heard[Head(todo[w])])
    BY <1>0, <2>2 DEF Gives
  <2> QED BY <1>11, <2>1, <2>3, <2>4
<1>14. CASE NextEvent(w)
  <2>1. /\ pc[w] = "offer" /\ todo[w] = <<>> /\ batch'[w] = Tail(batch[w]) /\ UNCHANGED <<taken, heard>>
    BY <1>0, <1>14 DEF NextEvent, queue, histories, Types
  <2>2. batch[w] # <<>> /\ batch[w] \in Seq(Nat)
    BY <1>0, <2>1 DEF Types, DispInv, BatchOK
  <2>3. Elements(batch[w]) = Elements(batch'[w]) \cup {Head(batch[w])}
    BY <2>1, <2>2, TailCovers
  <2>4. Broadcasting(w) /\ Elements(todo[w]) = {}
    BY <2>1 DEF Broadcasting, Elements
  <2>5. \A i \in DOMAIN pushed : \A s \in audience[i] :
            handle[s] = "held" /\ pushed[i] = Head(batch[w]) => pushed[i] \in Elements(heard[s])
    BY <1>0, <2>4 DEF Owes, Due
  <2>6. AllHeard'
    <3> SUFFICES ASSUME NEW i \in DOMAIN pushed, pushed[i] \in Elements(taken),
                        \A v \in Workers : pushed[i] \notin Elements(batch'[v]),
                        NEW s \in audience[i], handle[s] = "held"
                 PROVE  pushed[i] \in Elements(heard[s])
      BY <1>0, <2>1 DEF AllHeard
    <3>1. CASE pushed[i] = Head(batch[w])
      BY <2>5, <3>1
    <3>2. CASE pushed[i] # Head(batch[w])
      <4>1. \A v \in Workers : pushed[i] \notin Elements(batch[v])
        BY <1>1, <2>3, <3>2
      <4> QED BY <1>0, <4>1 DEF AllHeard
    <3> QED BY <3>1, <3>2
  <2>7. CASE Len(batch[w]) = 1
    <3>1. pc'[w] = "loop"
      BY <1>2, <1>14, <2>7 DEF NextEvent
    <3>2. Owes(w)' /\ Gives(w)'
      BY <3>1 DEF Owes, Gives, Broadcasting, InCallback
    <3> QED BY <2>1, <2>6, <3>2, AudienceOfOne
  <2>8. CASE Len(batch[w]) # 1
    <3>1. pc'[w] = "offer" /\ todo'[w] = snapshot[w] /\ snapshot' = snapshot
      BY <1>0, <1>14, <2>1, <2>8 DEF NextEvent, Types
    <3>2. Len(batch'[w]) # 0 /\ batch'[w] \in Seq(Nat)
      BY <2>1, <2>2, <2>8, TailElements, LenProperties
    <3>3. batch'[w] # <<>>
      BY <3>2
    <3>4. Head(batch'[w]) \in Elements(batch'[w])
      BY <3>2, <3>3, TailElements
    <3>5. Owes(w)'
      <4> SUFFICES ASSUME NEW i \in DOMAIN pushed, NEW s \in audience[i], handle[s] = "held",
                          pushed[i] \in Elements(batch'[w])
                   PROVE  s \in Elements(snapshot[w])
        BY <1>0, <3>1, <3>4 DEF Owes, Due
      <4> QED BY <1>0, <2>3, <2>4 DEF Owes
    <3>6. Gives(w)'
      BY <3>1 DEF Gives, InCallback
    <3> QED BY <2>1, <2>6, <3>5, <3>6, AudienceOfOne
  <2> QED BY <2>7, <2>8
<1> QED BY <1>7, <1>8, <1>9, <1>12, <1>13, <1>14 DEF Work, WorkerStep

LEMMA AudienceOKStep == ASSUME DispInv, Next, LabelsOK' PROVE AudienceOK'
<1> USE ThreadFacts
<1>0. Types /\ HandlesOK /\ handle \in [Subscribers -> {"none", "held", "reset", "gone"}]
  BY DEF DispInv, Types
<1>1. ASSUME Calm, UNCHANGED <<pushed, audience, handle>> PROVE AudienceOK'
  BY <1>1, AudienceKept
<1>2. ASSUME NEW t \in Callers, Publication(t) PROVE AudienceOK'
  <2>1. CASE Push(t)
    BY <1>2, <2>1, AudiencePushes
  <2>2. CASE ~Push(t)
    <3>1. UNCHANGED <<pushed, audience>>
      BY <1>2, <2>2 DEF Publication, Publish, PublishStep, CheckLifecycle, PushRefused, PushThrows, Count, queue, histories
    <3>2. UNCHANGED handle
      BY <1>2 DEF Publication, PublishFrame, registry
    <3> QED BY <1>1, <1>2, <3>1, <3>2, CalmSteps
  <2> QED BY <2>1, <2>2
<1>3. ASSUME NEW t \in Registrants, Membership(t) PROVE AudienceOK'
  <2>1. UNCHANGED <<pushed, audience>>
    BY <1>3 DEF Membership, MemberFrame, queue, histories
  <2>2. \A s \in Subscribers : /\ handle'[s] = "none" => handle[s] = "none"
                               /\ handle'[s] = "held" => handle[s] \in {"held", "none"}
    <3>1. ASSUME NEW s \in Subscribers, Subscribe(t, s) \/ Unsubscribe(t, s) PROVE <2>2!:
      BY <1>0, <3>1 DEF Subscribe, Unsubscribe
    <3>2. ASSUME Registered(t) PROVE <2>2!:
      <4>1. handle[target[t]] = "none"
        BY <1>0, <3>2 DEF Registered, HandlesOK
      <4> QED BY <1>0, <3>2, <4>1 DEF Registered
    <3>3. ASSUME Register(t) \/ Retire(t) \/ Retired(t) PROVE <2>2!:
      BY <3>3 DEF Register, Retire, Retired
    <3>4. ASSUME AwaitIdle(t) PROVE <2>2!:
      BY <1>0, <3>4 DEF AwaitIdle
    <3> QED BY <1>3, <3>1, <3>2, <3>3, <3>4 DEF Membership, MemberStep
  <2> QED BY <1>3, <2>1, <2>2, CalmSteps, AudienceKept
<1>4. ASSUME NEW t \in Stoppers \cup {Owner}, Stopping(t) PROVE AudienceOK'
  BY <1>1, <1>4, CalmSteps DEF Stopping, StopFrame, registry, histories
<1>5. ASSUME Construct \/ Abandon PROVE AudienceOK'
  BY <1>1, <1>5, CalmSteps DEF Construct, Abandon, queue, registry, histories
<1>6. ASSUME ConstructFails PROVE AudienceOK'
  <2>1. UNCHANGED <<pushed, audience, handle>> /\ pushed = <<>> /\ AudienceOK
    BY <1>6 DEF ConstructFails, queue, registry, histories, DispInv, CreatedOK
  <2>2. DOMAIN pushed = {}
    BY <2>1
  <2>3. \A v \in Workers : pc'[v] \in {"loop", "done"}
    BY <1>6 DEF ConstructFails, DispInv, CreatedOK
  <2>4. \A v \in Workers : Owes(v)' /\ Gives(v)'
    BY <2>3 DEF Owes, Gives, Broadcasting, InCallback
  <2>5. EveryAudienceHears'
    BY <2>1, <2>2 DEF EveryAudienceHears
  <2> QED BY <2>1, <2>2, <2>4, <2>5 DEF AudienceOK
<1>7. ASSUME Rest PROVE AudienceOK'
  BY <1>1, <1>7, CalmSteps DEF Rest, vars
<1> QED BY <1>2, <1>3, <1>4, <1>5, <1>6, <1>7, StepKinds, AudienceWorks DEF Construction
-----------------------------------------------------------------------------
(* The invariant holds. *)

LEMMA EmptyFacts == <<>> \in Seq(Nat) /\ <<>> \in Seq(Subscribers) /\ <<>> \in Seq(SUBSET Subscribers)
                    /\ Len(<<>>) = 0 /\ DOMAIN <<>> = {} /\ Elements(<<>>) = {} /\ Distinct(<<>>)
BY DEF Elements, Distinct

LEMMA InitPc ==
    ASSUME Init
    PROVE  /\ pc \in [Threads -> {"construct", "loop", "done", "idle"}] /\ pc[Owner] = "construct"
           /\ \A w \in Workers : pc[w] = IF w \in program.threads THEN "loop" ELSE "done"
           /\ \A t \in Threads \ (Workers \cup {Owner}) : pc[t] = "idle"
<1>1. pc = [t \in Threads |-> CASE t = Owner -> "construct"
                                [] t \in Workers \cap program.threads -> "loop"
                                [] t \in Workers \ program.threads -> "done"
                                [] OTHER -> "idle"]
  BY DEF Init
<1>2. pc[Owner] = "construct"
  BY <1>1, ThreadFacts
<1>3. ASSUME NEW w \in Workers PROVE pc[w] = IF w \in program.threads THEN "loop" ELSE "done"
  <2>1. w \in Threads /\ w # Owner
    BY ThreadFacts
  <2> QED BY <1>1, <2>1
<1>4. ASSUME NEW t \in Threads \ (Workers \cup {Owner}) PROVE pc[t] = "idle"
  BY <1>1
<1>5. \A t \in Threads : pc[t] \in {"construct", "loop", "done", "idle"}
  BY <1>2, <1>3, <1>4
<1> QED BY <1>1, <1>2, <1>3, <1>4, <1>5

LEMMA InitInv == Init => DispInv
<1> SUFFICES ASSUME Init PROVE DispInv
  OBVIOUS
<1> USE ThreadFacts, EmptyFacts
<1>1. /\ pc \in [Threads -> {"construct", "loop", "done", "idle"}] /\ pc[Owner] = "construct"
      /\ \A w \in Workers : pc[w] = IF w \in program.threads THEN "loop" ELSE "done"
      /\ \A t \in Threads \ (Workers \cup {Owner}) : pc[t] = "idle"
  BY InitPc
<1>2. /\ items = <<>> /\ pushed = <<>> /\ taken = <<>> /\ discarded = <<>> /\ closed = FALSE /\ ended = FALSE
  BY DEF Init, Queue!Init
<1>3. /\ lifecycle = "created" /\ stop_requested = FALSE /\ accepted = 0 /\ rejected = 0 /\ dropped = 0 /\ tried = 0
      /\ current = <<>> /\ audience = <<>> /\ writer_mutex = NoThread
      /\ \A s \in Subscribers : handle[s] = "none" /\ heard[s] = <<>> /\ active[s] = FALSE
      /\ \A t \in Registrants : target[t] = NoThread
      /\ \A w \in Workers : batch[w] = <<>> /\ todo[w] = <<>> /\ snapshot[w] = <<>>
  BY DEF Init
<1>4. Types
  <2>1. LifeTypes /\ MetricTypes
    BY DEF Init, LifeTypes, MetricTypes, Lifecycles
  <2>2. QueueTypes
    BY <1>2 DEF QueueTypes
  <2>3. RegistryTypes
    BY DEF Init, RegistryTypes
  <2>4. PublishingTypes
    BY ConfigAssumption DEF Init, PublishingTypes, Kinds
  <2>5. WorkingTypes /\ HistoryTypes
    BY DEF Init, WorkingTypes, HistoryTypes
  <2>6. pc \in [Threads -> Labels]
    BY <1>1 DEF Labels, WorkerLabels, OwnerLabels
  <2> QED BY <2>1, <2>2, <2>3, <2>4, <2>5, <2>6
        DEF Types, LifeTypes, QueueTypes, MetricTypes, RegistryTypes, PublishingTypes, WorkingTypes, HistoryTypes
<1>5. LabelsOK
  BY <1>1 DEF LabelsOK, LabelsOf, WorkerLabels, OwnerLabels
<1>6. \A t \in Threads : pc[t] \notin PublishLabels \cup MemberLabels \cup ShutdownLabels \cup {"offer", "callback"}
  BY <1>1 DEF PublishLabels, MemberLabels, ShutdownLabels, ClosingLabels
<1>7. PublishOK
  BY <1>2, <1>6 DEF PublishOK, PublishLabels
<1>8. QueueOK
  <2>1. (<<>> \o <<>>) \o <<>> = <<>>
    OBVIOUS
  <2> QED BY <1>2, <2>1, ConfigAssumption DEF QueueOK, Ledger
<1>9. \A w \in Workers : pc[w] \in {"loop", "done"} /\ ~InCallback(w)
  BY <1>1 DEF InCallback
<1>10. BatchOK
  BY <1>3, <1>9, ConfigAssumption DEF BatchOK
<1>11. CreatedOK
  BY <1>1, <1>2, <1>3, <1>9 DEF CreatedOK, OwnerLabels
<1>12. ShutdownOK
  BY <1>2, <1>3, <1>6 DEF ShutdownOK, ShutdownLabels, ClosingLabels
<1>13. CountsOK
  <2>1. Counting = {}
    BY <1>6 DEF Counting, PublishLabels
  <2>2. Cardinality(Counting) = 0
    BY <2>1, FS_EmptySet
  <2>3. Trying = {}
    BY <1>6 DEF Trying, PublishLabels
  <2>4. Cardinality(Trying) = 0
    BY <2>3, FS_EmptySet
  <2>5. AcceptedOK /\ RejectedOK
    BY <1>2, <1>3, <2>2, <2>4 DEF AcceptedOK, RejectedOK
  <2> QED BY <1>2, <1>3, <1>6, <2>5 DEF CountsOK, DroppedOK, ShutdownLabels, ClosingLabels
<1>14. HandlesOK
  BY <1>3, <1>6 DEF HandlesOK, MemberLabels
<1>15. RegistryOK
  BY <1>3, <1>6 DEF RegistryOK, HeldIn, MemberLabels
<1>16. AudienceOK
  <2>1. EveryAudienceHears
    BY <1>2 DEF EveryAudienceHears
  <2> QED BY <1>2, <1>3, <1>9, <2>1 DEF AudienceOK, Owes, Gives, Broadcasting
<1> QED BY <1>4, <1>5, <1>7, <1>8, <1>10, <1>11, <1>12, <1>13, <1>14, <1>15, <1>16 DEF DispInv

LEMMA InvStutters == DispInv /\ UNCHANGED vars => DispInv'
<1> SUFFICES ASSUME DispInv, UNCHANGED vars PROVE DispInv'
  OBVIOUS
<1> USE DEF vars, DispInv
<1>1. Types' /\ LabelsOK'
  BY DEF Types, LabelsOK
<1>2. PublishOK' /\ QueueOK'
  BY DEF PublishOK, QueueOK
<1>3. BatchOK' /\ CreatedOK' /\ ShutdownOK'
  BY DEF BatchOK, CreatedOK, ShutdownOK, InCallback, WorkersDone
<1>4. CountsOK'
  <2>1. Counting' = Counting /\ Trying' = Trying
    BY DEF Counting, Trying
  <2> QED BY <2>1 DEF CountsOK, AcceptedOK, RejectedOK, DroppedOK
<1>5. HandlesOK' /\ RegistryOK'
  BY DEF HandlesOK, RegistryOK, HeldIn, InFlight, InCallback, Invoking
<1>6. AudienceOK'
  <2>1. Calm
    BY DEF Calm, working
  <2> QED BY <1>1, <2>1, AudienceKept
<1> QED BY <1>1, <1>2, <1>3, <1>4, <1>5, <1>6

LEMMA InvStep == DispInv /\ [Next]_vars => DispInv'
<1> SUFFICES ASSUME DispInv, Next PROVE DispInv'
  BY InvStutters
<1>1. LabelsOK'
  BY LabelsStep
<1>2. CountsOK'
  BY AcceptedOKStep, RejectedOKStep, DroppedOKStep DEF CountsOK
<1> QED BY <1>1, <1>2, TypesStep, PublishOKStep, QueueOKStep, BatchOKStep, CreatedOKStep, ShutdownOKStep,
           HandlesOKStep, RegistryOKStep, AudienceOKStep DEF DispInv

(* The inductive invariant holds in every reachable state of every dispatcher. *)
THEOREM DispatcherInvariant == Spec => []DispInv
BY InitInv, InvStep, PTL DEF Spec
-----------------------------------------------------------------------------
(* What follows from it. *)

LEMMA TypeFollows == DispInv => TypeOK
<1> SUFFICES ASSUME DispInv PROVE TypeOK
  OBVIOUS
<1>1. Types /\ QueueOK /\ BatchOK
  BY DEF DispInv
<1>2. Queue!TypeOK
  BY <1>1 DEF Types, QueueOK, Queue!TypeOK
<1>3. pc \in [Threads -> {"idle", "check", "push", "count_accepted", "count_rejected", "loop",
                           "fill", "snapshot", "offer", "callback", "done", "register",
                           "registered", "retire", "retired", "await", "close", "count_dropped",
                           "join", "stop", "notify", "waiting", "woken", "returned",
                           "construct", "abandon", "gone"}]
  <2>1. pc \in [Threads -> Labels]
    BY <1>1 DEF Types
  <2> QED BY <2>1 DEF Labels, PublishLabels, MemberLabels, ShutdownLabels, ClosingLabels, WorkerLabels, OwnerLabels
<1>4. \A w \in Workers :
           /\ batch[w] \in Seq(Nat) /\ Len(batch[w]) <= WorkerBatchSize
           /\ snapshot[w] \in Seq(Subscribers) /\ todo[w] \in Seq(Subscribers)
  BY <1>1 DEF Types, BatchOK
<1> QED BY <1>1, <1>2, <1>3, <1>4 DEF Types, TypeOK, Lifecycles

(* Fields, labels and local state keep their types; the queue never holds more
   than its capacity and a worker's batch never more than worker_batch_size. *)
THEOREM TypeCorrect == Spec => []TypeOK
BY DispatcherInvariant, TypeFollows, PTL

(* A subscriber whose subscribe had returned when publish put an event into the
   queue, and that is still subscribed, has been given the event once its
   broadcast is over, whatever snapshot the worker took and whoever subscribed
   or unsubscribed meanwhile. *)
THEOREM AudiencesHear == Spec => []EveryAudienceHears
<1>1. DispInv => EveryAudienceHears
  BY DEF DispInv, AudienceOK
<1> QED BY <1>1, DispatcherInvariant, PTL

(* Once unsubscribe has returned to a client, or to the callback of another
   subscriber, no worker is inside a callback of the subscriber and none enters
   one, although snapshots may still hold it. *)
THEOREM UnsubscribeLeavesSilence == Spec => []SilentAfterUnsubscribe
<1>1. DispInv => SilentAfterUnsubscribe
  BY DEF DispInv, HandlesOK, SilentAfterUnsubscribe
<1> QED BY <1>1, DispatcherInvariant, PTL

LEMMA FrozenStep ==
    ASSUME DispInv, [Next]_vars, lifecycle \notin {"created", "running"}
    PROVE  Members(current') \subseteq Members(current)
<1> USE ThreadFacts, MembersAreElements
<1>1. CASE UNCHANGED current
  BY <1>1
<1>2. ASSUME Next PROVE UNCHANGED current \/ \E t \in Registrants : Retired(t) \/ Registered(t)
  <2>1. ASSUME NEW t \in Callers, Publication(t) PROVE UNCHANGED current
    BY <2>1 DEF Publication, PublishFrame, registry
  <2>2. ASSUME NEW w \in Workers, Work(w) PROVE UNCHANGED current
    BY <2>2 DEF Work, WorkFrame, registry
  <2>3. ASSUME NEW t \in Registrants, Membership(t), ~Retired(t), ~Registered(t) PROVE UNCHANGED current
    BY <2>3 DEF Membership, MemberStep, Subscribe, Unsubscribe, Register, Retire, AwaitIdle, lists
  <2>4. ASSUME NEW t \in Stoppers \cup {Owner}, Stopping(t) PROVE UNCHANGED current
    BY <2>4 DEF Stopping, StopFrame, registry
  <2>5. ASSUME Construction \/ Rest PROVE UNCHANGED current
    BY <2>5 DEF Construction, Construct, ConstructFails, Abandon, Rest, registry, vars
  <2> QED BY <1>2, <2>1, <2>2, <2>3, <2>4, <2>5, StepKinds
<1>3. ASSUME NEW t \in Registrants, Retired(t) PROVE Members(current') \subseteq Members(current)
  BY <1>3 DEF Retired, DispInv, RegistryOK
<1>4. ASSUME NEW t \in Registrants, Registered(t) PROVE FALSE
  BY <1>4 DEF Registered, DispInv, HandlesOK
<1> QED BY <1>1, <1>2, <1>3, <1>4 DEF vars

(* No subscriber joins once shutdown has begun: subscribe holds lifecycle_mutex_
   from its check until the list is published, and shutdown takes it first. *)
THEOREM NobodyJoinsLate == Spec => MembershipFrozen
<1>1. DispInv /\ [Next]_vars =>
          [lifecycle \notin {"created", "running"} => Members(current') \subseteq Members(current)]_vars
  BY FrozenStep
<1> QED BY <1>1, DispatcherInvariant, PTL DEF Spec, MembershipFrozen

(* In a dispatcher that has stopped, no event is anywhere but in the histories. *)
LEMMA StoppedFacts ==
    ASSUME DispInv, lifecycle \in {"created", "stopped"}, WorkersDone
    PROVE  items = <<>> /\ \A w \in Workers : batch[w] = <<>>
<1>1. \A w \in Workers : batch[w] = <<>>
  BY DEF WorkersDone, DispInv, BatchOK
<1>2. CASE lifecycle = "created"
  BY <1>1, <1>2 DEF DispInv, CreatedOK
<1>3. CASE lifecycle = "stopped"
  <2>1. PICK w \in Workers : w \in program.threads
    BY ConfigAssumption DEF DispInv, Types
  <2>2. ended
    BY <1>3, <2>1 DEF WorkersDone, DispInv, ShutdownOK
  <2> QED BY <1>1, <2>2 DEF DispInv, QueueOK
<1> QED BY <1>2, <1>3

LEMMA CompleteFollows == DispInv => ShutdownIsComplete
<1> SUFFICES ASSUME DispInv, NEW t \in Threads, pc[t] \in {"returned", "gone"}
             PROVE  /\ WorkersDone /\ lifecycle \in {"created", "stopped"}
                    /\ \A i \in DOMAIN pushed : Broadcast(pushed[i]) \/ pushed[i] \in Members(discarded)
  BY DEF ShutdownIsComplete
<1> USE ThreadFacts, MembersAreElements
<1>1. WorkersDone /\ lifecycle \in {"created", "stopped"}
  <2>1. CASE pc[t] = "returned"
    BY <2>1 DEF DispInv, ShutdownOK
  <2>2. CASE pc[t] = "gone"
    <3>1. t = Owner
      BY <2>2 DEF DispInv, LabelsOK, LabelsOf, PublishLabels, MemberLabels, ShutdownLabels, ClosingLabels, WorkerLabels
    <3> QED BY <2>2, <3>1 DEF DispInv, CreatedOK, ShutdownOK
  <2> QED BY <2>1, <2>2
<1>2. items = <<>> /\ \A w \in Workers : batch[w] = <<>>
  BY <1>1, StoppedFacts
<1>3. Elements(pushed) = (Elements(taken) \cup Elements(discarded)) \cup Elements(items)
  BY LedgerElements DEF DispInv, Types, QueueOK
<1>4. Elements(<<>>) = {}
  BY EmptyFacts
<1>5. ASSUME NEW i \in DOMAIN pushed PROVE Broadcast(pushed[i]) \/ pushed[i] \in Members(discarded)
  <2>1. pushed[i] \in Elements(pushed)
    BY DEF Elements
  <2> QED BY <1>2, <1>3, <1>4, <2>1 DEF Broadcast
<1> QED BY <1>1, <1>5

(* A shutdown that has returned to any caller, and a destructor that is done, left
   every worker ended and every accepted event broadcast or discarded; so does a
   constructor that could not start its workers. *)
THEOREM ShutdownCompletes == Spec => []ShutdownIsComplete
BY DispatcherInvariant, CompleteFollows, PTL

LEMMA ExactFollows == DispInv => MetricsExact
<1> SUFFICES ASSUME DispInv, NEW t \in Threads, pc[t] = "returned", \A p \in Publishers : pc[p] = "idle"
             PROVE  /\ accepted = Len(pushed) /\ accepted = Len(taken) + dropped
                    /\ accepted + rejected <= tried
                    /\ program.throws \/ accepted + rejected = tried
  BY DEF MetricsExact
<1> USE ThreadFacts
<1>1. lifecycle = "stopped" /\ WorkersDone
  BY DEF DispInv, ShutdownOK
<1>2. Counting = {} /\ Trying = {}
  BY <1>1 DEF Counting, Trying, WorkersDone
<1>3. Cardinality(Counting) = 0 /\ Cardinality(Trying) = 0
  BY <1>2, FS_EmptySet
<1>4. accepted = Len(pushed)
  BY <1>3 DEF DispInv, Types, CountsOK, AcceptedOK
<1>5. items = <<>>
  BY <1>1, StoppedFacts
<1>6. dropped = Len(discarded)
  BY <1>1 DEF DispInv, CountsOK, DroppedOK
<1>7. Len(pushed) = Len(taken) + Len(discarded)
  <2>1. taken \in Seq(Nat) /\ discarded \in Seq(Nat) /\ items \in Seq(Nat) /\ pushed = (taken \o discarded) \o items
    BY DEF DispInv, Types, QueueOK, Ledger
  <2>2. taken \o discarded \in Seq(Nat) /\ Len(taken \o discarded) = Len(taken) + Len(discarded)
    BY <2>1, ConcatProperties
  <2>3. (taken \o discarded) \o <<>> = taken \o discarded
    BY <2>2, ConcatEmptySeq
  <2> QED BY <1>5, <2>1, <2>2, <2>3
<1>8. Len(pushed) \in Nat /\ rejected \in Nat
  BY LenProperties DEF DispInv, Types
<1>9. /\ accepted + rejected <= tried
      /\ program.throws \/ accepted + rejected = tried
  BY <1>3, <1>4, <1>8 DEF DispInv, CountsOK, RejectedOK
<1> QED BY <1>4, <1>6, <1>7, <1>9

(* The metrics are exact once producers have stopped and shutdown has returned:
   every accepted event is counted once, as accepted and, if close_and_discard
   destroyed it, as dropped; every refused one is counted once as rejected; no
   other event is missing unless its construction threw. *)
THEOREM MetricsAreExact == Spec => []MetricsExact
BY DispatcherInvariant, ExactFollows, PTL

=============================================================================
