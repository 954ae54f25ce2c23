------------------------------ MODULE Dispatcher ------------------------------
(***************************************************************************)
(* dispatcher: publishers put events into the bounded queue, workers take  *)
(* them in batches and broadcast each batch to the subscribers of one      *)
(* registry snapshot, clients subscribe and unsubscribe meanwhile, and     *)
(* shutdown closes the queue and joins the workers.  Callbacks may do most *)
(* of that, too.  One thread constructs and destroys the dispatcher.       *)
(*                                                                         *)
(* The queue is the one QueueContract promises; the module BoundedMutex-   *)
(* Queue shows that the mutex queue keeps that promise.  Subscribers use   *)
(* the concurrent policy; SubscriberState has the others.  A subscriber    *)
(* stands for a subscription and its handle.  Definitions named Mutant...  *)
(* are faulty variants of the definition that follows them.                *)
(***************************************************************************)
EXTENDS Integers, Sequences, FiniteSets

CONSTANTS
    Publishers, Workers, Clients, Stoppers,     \* the threads
    Owner,              \* the thread that constructs the dispatcher and may destroy it
    Subscribers,        \* the subscriptions that may be made
    Programs,           \* the uses of the dispatcher considered: the threads, the subscribers,
                        \* what they call, what callbacks call, whether allocation and events
                        \* may throw, and (bound) how many events are published
    NoThread,
    QueueCapacity, WorkerBatchSize,     \* dispatcher_config
    BatchLength         \* events.size() of a try_publish_batch call

Kinds == {"try", "batch", "wait", "until"}      \* of publication
Calls == Kinds \cup {"subscribe", "unsubscribe", "leave", "shutdown"}

ASSUME DispatcherThreadsAssumption ==
    /\ \A S \in {Publishers, Workers, Clients, Stoppers, Subscribers} : IsFiniteSet(S)
    /\ Publishers \cap (Workers \cup Clients \cup Stoppers) = {}
    /\ Workers \cap (Clients \cup Stoppers) = {} /\ Clients \cap Stoppers = {}
    /\ {NoThread, Owner} \cap (Publishers \cup Workers \cup Clients \cup Stoppers) = {}
    /\ NoThread # Owner /\ NoThread \notin Subscribers

(* make_state rejects zero values. *)
ASSUME ConfigAssumption ==
    /\ QueueCapacity \in Nat \ {0} /\ WorkerBatchSize \in Nat \ {0} /\ BatchLength \in Nat \ {0}
    /\ \A p \in Programs :
           /\ p.threads \cap Workers # {} /\ p.subscribers \subseteq Subscribers
           /\ p.calls \subseteq Calls /\ p.callbacks \subseteq Calls
           /\ p.throws \in BOOLEAN /\ p.events \in Nat

Threads == Publishers \cup Workers \cup Clients \cup Stoppers \cup {Owner}
Callers == Publishers \cup Workers              \* threads that publish
Registrants == Clients \cup Workers                \* threads that subscribe and unsubscribe
Policies == {"drain", "discard"}

VARIABLES
    program,            \* the one considered, fixed
    lifecycle,          \* state_->lifecycle
    lifecycle_mutex_,   \* its holder, when subscribe keeps it over several steps
    stop_requested,     \* worker_pool::request_stop was called
    items, closed, pushed, taken, discarded, ended,     \* the queue, see QueueContract
    accepted, rejected, dropped,                        \* dispatcher_metrics
    current, writer_mutex, next,    \* the registry: snapshot, writer and the list it builds
    active,             \* subscriber_state::active_
    handle,             \* "none", "held", "reset", "gone" when its unsubscribe has returned
    pc,                 \* where each thread is
    call, left, event,  \* a publication: its kind, events left in it, the one at hand
    tried,              \* events tried so far
    target,             \* the subscriber that a thread subscribes or unsubscribes
    batch, snapshot, todo,          \* a worker's batch and snapshot; subscribers due its first event
    audience, heard     \* histories: subscribers of an event when pushed, what each was given

queue == <<items, closed, pushed, taken, discarded, ended>>
metrics == <<accepted, rejected, dropped>>
lists == <<current, writer_mutex, next>>
registry == <<current, writer_mutex, next, active, handle, target>>
publishing == <<call, left, event, tried>>
working == <<batch, snapshot, todo>>
histories == <<audience, heard>>
life == <<program, lifecycle, lifecycle_mutex_, stop_requested>>
vars == <<program, lifecycle, lifecycle_mutex_, stop_requested, items, closed, pushed, taken,
          discarded, ended, accepted, rejected, dropped, current, writer_mutex, next, active,
          handle, target, pc, call, left, event, tried, batch, snapshot, todo, audience, heard>>

Queue == INSTANCE QueueContract WITH Events <- Nat, Capacity <- QueueCapacity, accepted <- pushed

(* The constructor has made the state and is starting the workers. *)
Init ==
    /\ program \in Programs
    /\ lifecycle = "created" /\ lifecycle_mutex_ = NoThread /\ stop_requested = FALSE
    /\ Queue!Init
    /\ accepted = 0 /\ rejected = 0 /\ dropped = 0
    /\ current = <<>> /\ writer_mutex = NoThread /\ next = <<>>
    /\ active = [s \in Subscribers |-> FALSE] /\ handle = [s \in Subscribers |-> "none"]
    /\ target = [t \in Registrants |-> NoThread]
    /\ pc = [t \in Threads |-> CASE t = Owner -> "construct"
                                 [] t \in Workers \cap program.threads -> "loop"
                                 [] t \in Workers \ program.threads -> "done"
                                 [] OTHER -> "idle"]
    /\ call = [t \in Callers |-> "try"] /\ left = [t \in Callers |-> 0]
    /\ event = [t \in Callers |-> 0] /\ tried = 0
    /\ batch = [w \in Workers |-> <<>>] /\ snapshot = [w \in Workers |-> <<>>]
    /\ todo = [w \in Workers |-> <<>>]
    /\ audience = <<>> /\ heard = [s \in Subscribers |-> <<>>]

Goto(t, label) == pc' = [pc EXCEPT ![t] = label]
Members(list) == {list[i] : i \in DOMAIN list}

(* Where a thread's calls come from and return to: a worker's from callbacks. *)
Home(t) == IF t \in Workers THEN "callback" ELSE "idle"

(* The program has a call of this kind at this point of thread t. *)
MayCall(t, what) ==
    /\ t \in program.threads /\ pc[t] = Home(t)
    /\ what \in (IF t \in Workers THEN program.callbacks ELSE program.calls)

(* The dispatcher is there: constructed, and not being destroyed. *)
Alive(t) == t \in Workers \/ pc[Owner] = "idle"
-----------------------------------------------------------------------------
(* Construction and destruction. *)

WorkersDone == \A w \in Workers : pc[w] = "done"

(* Every worker has been started. *)
Construct ==
    /\ pc[Owner] = "construct"
    /\ lifecycle' = "running" /\ Goto(Owner, "idle")
    /\ UNCHANGED <<program, lifecycle_mutex_, stop_requested, queue, metrics, registry, publishing,
                   working, histories>>

(* A thread cannot be started: the constructor throws, and ~worker_pool stops
   the workers that there are. *)
ConstructFails ==
    /\ pc[Owner] = "construct" /\ program.throws
    /\ \E lost \in SUBSET (Workers \cap program.threads) :
           /\ lost # {}
           /\ pc' = [t \in Threads |-> IF t \in lost THEN "done"
                                       ELSE IF t = Owner THEN "abandon" ELSE pc[t]]
    /\ stop_requested' = TRUE
    /\ UNCHANGED <<program, lifecycle, lifecycle_mutex_, queue, metrics, registry, publishing,
                   working, histories>>

(* ... and joins them. *)
Abandon ==
    /\ pc[Owner] = "abandon" /\ WorkersDone
    /\ Goto(Owner, "gone")
    /\ UNCHANGED <<life, queue, metrics, registry, publishing, working, histories>>

(* ~dispatcher has shut down; the members go. *)
Dispose ==
    /\ pc[Owner] = "returned"
    /\ stop_requested' = TRUE /\ Goto(Owner, "gone")
    /\ UNCHANGED <<program, lifecycle, lifecycle_mutex_, queue, metrics, registry, publishing,
                   working, histories>>
-----------------------------------------------------------------------------
(* publish_with *)

(* A publisher, or a callback, calls try_publish or try_emplace,
   try_publish_batch, publish, or publish_until or publish_for. *)
Publish(t, kind) ==
    /\ MayCall(t, kind) /\ Alive(t)
    /\ LET n == IF kind = "batch" THEN BatchLength ELSE 1
       IN  tried + n <= program.events /\ left' = [left EXCEPT ![t] = n]
    /\ call' = [call EXCEPT ![t] = kind]
    /\ Goto(t, "check")
    /\ UNCHANGED <<life, queue, metrics, registry, event, tried, working, histories>>

(* The early rejection: a stale "running" only leads to the queue. *)
CheckLifecycle(t) ==
    /\ pc[t] = "check"
    /\ tried' = tried + 1 /\ event' = [event EXCEPT ![t] = tried + 1]
    /\ Goto(t, IF lifecycle = "running" THEN "push" ELSE "count_rejected")
    /\ UNCHANGED <<life, queue, metrics, registry, call, left, working, histories>>

(* The queue accepts the event. *)
Push(t) ==
    /\ pc[t] = "push"
    /\ Queue!Push(event[t])
    /\ audience' = Append(audience, {s \in Subscribers : handle[s] = "held"})
    /\ Goto(t, "count_accepted")
    /\ UNCHANGED <<life, metrics, registry, publishing, working, heard>>

(* The queue refuses: closed; full, for a call that does not wait; or at any
   time, for a call that has a deadline and a stop token. *)
PushRefused(t) ==
    /\ pc[t] = "push"
    /\ \/ closed
       \/ call[t] \in {"try", "batch"} /\ Len(items) = QueueCapacity
       \/ call[t] = "until"
    /\ Goto(t, "count_rejected")
    /\ UNCHANGED <<life, queue, metrics, registry, publishing, working, histories>>

(* The call is over. *)
Return(t) ==
    /\ Goto(t, Home(t))
    /\ call' = [call EXCEPT ![t] = "try"] /\ left' = [left EXCEPT ![t] = 0]
    /\ event' = [event EXCEPT ![t] = 0]

(* Constructing the event throws out of the call before anything is counted. *)
PushThrows(t) ==
    /\ pc[t] = "push" /\ program.throws
    /\ ~closed /\ Len(items) < QueueCapacity
    /\ Return(t)
    /\ UNCHANGED <<life, queue, metrics, registry, tried, working, histories>>

(* counter.fetch_add; a batch goes on after a success and stops at a refusal. *)
Count(t) ==
    /\ \/ /\ pc[t] = "count_accepted"
          /\ accepted' = accepted + 1 /\ UNCHANGED rejected
          /\ IF left[t] = 1 THEN Return(t)
             ELSE left' = [left EXCEPT ![t] = @ - 1] /\ Goto(t, "check") /\ UNCHANGED <<call, event>>
       \/ /\ pc[t] = "count_rejected"
          /\ rejected' = rejected + 1 /\ UNCHANGED accepted
          /\ Return(t)
    /\ UNCHANGED <<life, queue, dropped, registry, tried, working, histories>>
-----------------------------------------------------------------------------
(* shared_state::run *)

MutantEndOfStream == closed /\ UNCHANGED queue

(* wait_pop and try_pop report `closed`. *)
EndOfStream == Queue!PopClosed

(* wait_pop: the first event of a batch, the end of the stream, or a request of
   the worker pool to stop. *)
WaitPop(w) ==
    /\ pc[w] = "loop"
    /\ \/ /\ Queue!Pop
          /\ batch' = [batch EXCEPT ![w] = <<Head(items)>>] /\ Goto(w, "fill")
       \/ /\ EndOfStream
          /\ Goto(w, "done") /\ UNCHANGED batch
       \/ /\ stop_requested /\ items = <<>> /\ ~closed
          /\ Goto(w, "done") /\ UNCHANGED <<queue, batch>>
    /\ UNCHANGED <<life, metrics, registry, publishing, snapshot, todo, histories>>

MutantHasRoom(w) == Len(batch[w]) <= WorkerBatchSize
HasRoom(w) == Len(batch[w]) < WorkerBatchSize
MutantExtended(w) == <<Head(items)>> \o batch[w]
Extended(w) == Append(batch[w], Head(items))

(* try_pop until the batch is full or the queue has nothing to give. *)
FillBatch(w) ==
    /\ pc[w] = "fill"
    /\ \/ /\ HasRoom(w) /\ Queue!Pop
          /\ batch' = [batch EXCEPT ![w] = Extended(w)] /\ UNCHANGED pc
       \/ /\ HasRoom(w) /\ items = <<>>
          /\ IF closed THEN EndOfStream ELSE UNCHANGED queue
          /\ Goto(w, "snapshot") /\ UNCHANGED batch
       \/ /\ ~HasRoom(w)
          /\ Goto(w, "snapshot") /\ UNCHANGED <<queue, batch>>
    /\ UNCHANGED <<life, metrics, registry, publishing, snapshot, todo, histories>>

(* broadcast_batch: one snapshot for the whole batch. *)
AcquireSnapshot(w) ==
    /\ pc[w] = "snapshot"
    /\ snapshot' = [snapshot EXCEPT ![w] = current] /\ todo' = [todo EXCEPT ![w] = current]
    /\ Goto(w, "offer")
    /\ UNCHANGED <<life, queue, metrics, registry, publishing, batch, histories>>

MutantAdmits(s) == TRUE

(* begin_invocation *)
Admits(s) == active[s]

(* try_invoke of the next subscriber. *)
Invoke(w) ==
    /\ pc[w] = "offer" /\ todo[w] # <<>>
    /\ LET s == Head(todo[w]) IN
       \/ /\ Admits(s)
          /\ heard' = [heard EXCEPT ![s] = Append(@, Head(batch[w]))]
          /\ Goto(w, "callback") /\ UNCHANGED todo
       \/ /\ ~Admits(s)
          /\ todo' = [todo EXCEPT ![w] = Tail(@)] /\ UNCHANGED <<pc, heard>>
    /\ UNCHANGED <<life, queue, metrics, registry, publishing, batch, snapshot, audience>>

(* The callback returns, or throws into report_error, and is finished. *)
CallbackReturns(w) ==
    /\ pc[w] = "callback"
    /\ todo' = [todo EXCEPT ![w] = Tail(@)]
    /\ Goto(w, "offer")
    /\ UNCHANGED <<life, queue, metrics, registry, publishing, batch, snapshot, histories>>

(* Every subscriber of the snapshot has been offered the event: the next one,
   or back to the queue. *)
NextEvent(w) ==
    /\ pc[w] = "offer" /\ todo[w] = <<>>
    /\ batch' = [batch EXCEPT ![w] = Tail(@)]
    /\ IF Len(batch[w]) = 1
       THEN snapshot' = [snapshot EXCEPT ![w] = <<>>] /\ Goto(w, "loop") /\ UNCHANGED todo
       ELSE todo' = [todo EXCEPT ![w] = snapshot[w]] /\ UNCHANGED <<pc, snapshot>>
    /\ UNCHANGED <<life, queue, metrics, registry, publishing, histories>>
-----------------------------------------------------------------------------
(* The registry. *)

MutantLifecycleFree == TRUE
LifecycleFree == lifecycle_mutex_ = NoThread

(* dispatcher::subscribe, entered under lifecycle_mutex_ and keeping it. *)
Subscribe(t, s) ==
    /\ MayCall(t, "subscribe") /\ Alive(t) /\ s \in program.subscribers
    /\ handle[s] = "none" /\ \A u \in Registrants : target[u] # s
    /\ LifecycleFree /\ lifecycle = "running"
    /\ lifecycle_mutex_' = t /\ target' = [target EXCEPT ![t] = s]
    /\ Goto(t, "register")
    /\ UNCHANGED <<program, lifecycle, stop_requested, queue, metrics, lists, active, handle,
                   publishing, working, histories>>

MutantWriterFree == TRUE
WriterFree == writer_mutex = NoThread

(* The members of S that a list has, in the order of the list: element n is the
   one at the position that has n positions to keep up to itself. *)
Kept(list, S) == {i \in DOMAIN list : list[i] \in S}
Filtered(list, S) ==
    [n \in 1..Cardinality(Kept(list, S)) |->
        list[CHOOSE i \in Kept(list, S) : Cardinality({j \in Kept(list, S) : j <= i}) = n]]

Active == {s \in Subscribers : active[s]}       \* subscribed()

(* A writer copies the current list, without the subscribers it sees inactive. *)
Register(t) ==
    /\ pc[t] = "register" /\ WriterFree
    /\ writer_mutex' = t
    /\ active' = [active EXCEPT ![target[t]] = TRUE]
    /\ next' = Append(Filtered(current, Active), target[t])
    /\ Goto(t, "registered")
    /\ UNCHANGED <<life, queue, metrics, current, handle, target, publishing, working, histories>>

(* The new list is published and subscribe returns its token; or something
   threw and the registry stays as it was. *)
Registered(t) ==
    /\ pc[t] = "registered"
    /\ \/ current' = next /\ handle' = [handle EXCEPT ![target[t]] = "held"] /\ UNCHANGED active
       \/ /\ program.throws
          /\ active' = [active EXCEPT ![target[t]] = FALSE] /\ UNCHANGED <<current, handle>>
    /\ writer_mutex' = NoThread /\ next' = <<>> /\ lifecycle_mutex_' = NoThread
    /\ target' = [target EXCEPT ![t] = NoThread] /\ Goto(t, Home(t))
    /\ UNCHANGED <<program, lifecycle, stop_requested, queue, metrics, publishing, working,
                   histories>>

(* The callback of s is running on thread t: invoking_on_this_thread. *)
Invoking(t, s) == t \in Workers /\ todo[t] # <<>> /\ Head(todo[t]) = s

(* subscription::reset; the handle may outlive the dispatcher. *)
Unsubscribe(t, s) ==
    /\ MayCall(t, IF Invoking(t, s) THEN "leave" ELSE "unsubscribe") /\ handle[s] = "held"
    /\ handle' = [handle EXCEPT ![s] = "reset"] /\ active' = [active EXCEPT ![s] = FALSE]
    /\ target' = [target EXCEPT ![t] = s]
    /\ Goto(t, "retire")
    /\ UNCHANGED <<life, queue, metrics, lists, publishing, working, histories>>

MutantFromItself(t) == FALSE

(* called_from_this_callback *)
FromItself(t) == Invoking(t, target[t])

(* A callback that unsubscribes itself does not wait for itself. *)
AfterRetire(t) ==
    IF FromItself(t) THEN Goto(t, "callback") /\ target' = [target EXCEPT ![t] = NoThread]
    ELSE Goto(t, "await") /\ UNCHANGED target

(* retire: a subscriber somebody else filtered out is not looked for again, a
   writer that cannot allocate leaves the list as it is, and the registry may be
   gone. *)
Retire(t) ==
    /\ pc[t] = "retire" /\ WriterFree
    /\ \/ /\ target[t] \in Members(current) /\ pc[Owner] # "gone"
          /\ writer_mutex' = t
          /\ next' = Filtered(current, Active \ {target[t]})
          /\ Goto(t, "retired") /\ UNCHANGED target
       \/ /\ target[t] \notin Members(current) \/ pc[Owner] = "gone" \/ program.throws
          /\ AfterRetire(t) /\ UNCHANGED <<writer_mutex, next>>
    /\ UNCHANGED <<life, queue, metrics, current, active, handle, publishing, working, histories>>

(* The shorter list is published. *)
Retired(t) ==
    /\ pc[t] = "retired"
    /\ current' = next /\ writer_mutex' = NoThread /\ next' = <<>>
    /\ AfterRetire(t)
    /\ UNCHANGED <<life, queue, metrics, active, handle, publishing, working, histories>>

InCallback(w) == pc[w] \notin {"loop", "fill", "snapshot", "offer", "done"}

(* The workers inside the callback of subscriber s. *)
InFlight(s) == {w \in Workers : InCallback(w) /\ Invoking(w, s)}

(* unsubscribe returns when no callback is in flight. *)
AwaitIdle(t) ==
    /\ pc[t] = "await" /\ InFlight(target[t]) = {}
    /\ handle' = [handle EXCEPT ![target[t]] = "gone"]
    /\ target' = [target EXCEPT ![t] = NoThread] /\ Goto(t, Home(t))
    /\ UNCHANGED <<life, queue, metrics, lists, active, publishing, working, histories>>
-----------------------------------------------------------------------------
(* dispatcher::shutdown.  The policy of the call that closes the queue is in the
   lifecycle it has set. *)

(* shutdown throws on a worker thread, that is, inside a callback. *)
Rejected(t) == t \in Workers

MutantAnswer == "returned"

(* Somebody else shuts down: wait for the end of it, or find it stopped. *)
Answer == IF lifecycle = "stopped" THEN "returned" ELSE "waiting"

Shutdown(t, policy) ==
    /\ ~Rejected(t) /\ LifecycleFree
    /\ IF lifecycle = "running"
       THEN /\ lifecycle' = (IF policy = "drain" THEN "drain_stopping" ELSE "discard_stopping")
            /\ Goto(t, "close")
       ELSE Goto(t, Answer) /\ UNCHANGED lifecycle
    /\ UNCHANGED <<program, lifecycle_mutex_, stop_requested, queue, metrics, registry, publishing,
                   working, histories>>

Stop(t, policy) == MayCall(t, "shutdown") /\ Alive(t) /\ Shutdown(t, policy)

(* ~dispatcher: nobody uses the dispatcher any more, except for callbacks. *)
Destroy(policy) ==
    /\ pc[Owner] = "idle" /\ Owner \in program.threads
    /\ \A t \in Publishers \cup Stoppers : pc[t] \in {"idle", "returned"}
    /\ \A c \in Clients : pc[c] \notin {"register", "registered"}
    /\ Shutdown(Owner, policy)

MutantAfterDiscard == "join"

(* The discarded events are counted after they are gone. *)
AfterDiscard == "count_dropped"

(* queue close, or close_and_discard. *)
CloseQueue(t) ==
    /\ pc[t] = "close"
    /\ \/ lifecycle = "drain_stopping" /\ Queue!Close /\ Goto(t, "join")
       \/ lifecycle = "discard_stopping" /\ Queue!CloseAndDiscard /\ Goto(t, AfterDiscard)
    /\ UNCHANGED <<life, metrics, registry, publishing, working, histories>>

CountDropped(t) ==
    /\ pc[t] = "count_dropped"
    /\ dropped' = dropped + Len(discarded)
    /\ Goto(t, "join")
    /\ UNCHANGED <<life, queue, accepted, rejected, registry, publishing, working, histories>>

(* workers_.join() *)
JoinWorkers(t) ==
    /\ pc[t] = "join" /\ WorkersDone
    /\ Goto(t, "stop")
    /\ UNCHANGED <<life, queue, metrics, registry, publishing, working, histories>>

(* Shutdown becomes externally complete. *)
MarkStopped(t) ==
    /\ pc[t] = "stop" /\ LifecycleFree
    /\ lifecycle' = "stopped"
    /\ Goto(t, "notify")
    /\ UNCHANGED <<program, lifecycle_mutex_, stop_requested, queue, metrics, registry, publishing,
                   working, histories>>

(* lifecycle_changed_.notify_all() *)
NotifyStopped(t) ==
    /\ pc[t] = "notify"
    /\ pc' = [u \in Threads |-> CASE u = t -> "returned"
                                  [] u # t /\ pc[u] = "waiting" -> "woken"
                                  [] OTHER -> pc[u]]
    /\ UNCHANGED <<life, queue, metrics, registry, publishing, working, histories>>

(* lifecycle_changed_.wait evaluates its predicate again. *)
AwaitStopped(t) ==
    /\ pc[t] = "woken" /\ LifecycleFree
    /\ Goto(t, Answer)
    /\ UNCHANGED <<life, queue, metrics, registry, publishing, working, histories>>

SpuriousWake(t) ==
    /\ pc[t] = "waiting"
    /\ Goto(t, "woken")
    /\ UNCHANGED <<life, queue, metrics, registry, publishing, working, histories>>
-----------------------------------------------------------------------------
(* What callbacks can do to each other. *)

BlockedOnQueue(t) ==
    pc[t] = "push" /\ call[t] = "wait" /\ ~closed /\ Len(items) = QueueCapacity

(* Each worker of W waits for another one: for the end of its callback, or, when
   W has all the workers, for somebody to take an event from a full queue. *)
Deadlocked(W) ==
    \A w \in W :
        \/ BlockedOnQueue(w) /\ Workers \cap program.threads \subseteq W
        \/ pc[w] = "await" /\ InFlight(target[w]) \cap (W \ {w}) # {}

Stuck == UNION {W \in SUBSET Workers : Deadlocked(W)}

(* Thread t waits for stuck workers. *)
Hindered(t) ==
    \/ t \in Stuck
    \/ t \in Publishers /\ BlockedOnQueue(t) /\ Workers \cap program.threads \subseteq Stuck
    \/ t \in Clients /\ pc[t] = "await" /\ InFlight(target[t]) \cap Stuck # {}
    \/ pc[t] \in {"join", "waiting", "woken"} /\ Stuck # {}

(* Thread t is not inside a call; a worker, not inside a callback. *)
Outside(t) == IF t \in Workers THEN ~InCallback(t) ELSE pc[t] \in {"idle", "returned", "gone"}

AtRest ==
    /\ \A t \in Threads : Outside(t) \/ Hindered(t)
    /\ \A w \in Workers : pc[w] \in {"loop", "done"} \/ w \in Stuck
Rest == AtRest /\ UNCHANGED vars

PublishStep(t) == CheckLifecycle(t) \/ Push(t) \/ PushRefused(t) \/ PushThrows(t) \/ Count(t)

WorkerStep(w) ==
    WaitPop(w) \/ FillBatch(w) \/ AcquireSnapshot(w) \/ Invoke(w) \/ CallbackReturns(w)
    \/ NextEvent(w)

MemberStep(t) == Register(t) \/ Registered(t) \/ Retire(t) \/ Retired(t) \/ AwaitIdle(t)

StopStep(t) ==
    CloseQueue(t) \/ CountDropped(t) \/ JoinWorkers(t) \/ MarkStopped(t) \/ NotifyStopped(t)
    \/ AwaitStopped(t)

OwnerStep == Construct \/ ConstructFails \/ Abandon \/ Dispose

(* What a thread inside an operation does next. *)
Step(t) ==
    \/ t \in Callers /\ PublishStep(t)
    \/ t \in Workers /\ WorkerStep(t)
    \/ t \in Registrants /\ MemberStep(t)
    \/ StopStep(t)
    \/ t = Owner /\ OwnerStep

Next ==
    \/ \E t \in Threads : Step(t)
    \/ \E t \in Callers, kind \in Kinds : Publish(t, kind)
    \/ \E t \in Registrants, s \in Subscribers : Subscribe(t, s) \/ Unsubscribe(t, s)
    \/ \E t \in Stoppers \cup Workers, policy \in Policies : Stop(t, policy)
    \/ \E policy \in Policies : Destroy(policy)
    \/ \E t \in Stoppers : SpuriousWake(t)
    \/ Rest

Spec == Init /\ [][Next]_vars

(* Threads inside an operation keep running and callbacks return; calling an
   operation is up to the program. *)
Fairness == \A t \in Threads : WF_vars(Step(t))

FairSpec == Spec /\ Fairness
-----------------------------------------------------------------------------
(* Correctness. *)

(* Types of the fields and of the threads' local state; queue and batches keep
   their bounds. *)
TypeOK ==
    /\ lifecycle \in {"created", "running", "drain_stopping", "discard_stopping", "stopped"}
    /\ lifecycle_mutex_ \in Registrants \cup {NoThread} /\ stop_requested \in BOOLEAN
    /\ Queue!TypeOK
    /\ accepted \in Nat /\ rejected \in Nat /\ dropped \in Nat /\ tried \in Nat
    /\ current \in Seq(Subscribers) /\ next \in Seq(Subscribers)
    /\ writer_mutex \in Registrants \cup {NoThread}
    /\ active \in [Subscribers -> BOOLEAN]
    /\ handle \in [Subscribers -> {"none", "held", "reset", "gone"}]
    /\ target \in [Registrants -> Subscribers \cup {NoThread}]
    /\ pc \in [Threads -> {"idle", "check", "push", "count_accepted", "count_rejected", "loop",
                           "fill", "snapshot", "offer", "callback", "done", "register",
                           "registered", "retire", "retired", "await", "close", "count_dropped",
                           "join", "stop", "notify", "waiting", "woken", "returned",
                           "construct", "abandon", "gone"}]
    /\ call \in [Callers -> Kinds] /\ left \in [Callers -> 0..BatchLength]
    /\ event \in [Callers -> Nat]
    /\ \A w \in Workers :
           /\ batch[w] \in Seq(Nat) /\ Len(batch[w]) <= WorkerBatchSize
           /\ snapshot[w] \in Seq(Subscribers) /\ todo[w] \in Seq(Subscribers)
    /\ audience \in Seq(SUBSET Subscribers) /\ heard \in [Subscribers -> Seq(Nat)]

(* The broadcast of event e has ended. *)
Broadcast(e) == e \in Members(taken) /\ \A w \in Workers : e \notin Members(batch[w])

(* A subscriber whose subscribe had returned when an event was accepted is given
   that event by its broadcast, unless it is being unsubscribed: no concurrent
   subscribe or unsubscribe and no batching make it miss one. *)
EveryAudienceHears ==
    \A i \in DOMAIN pushed : Broadcast(pushed[i]) =>
        \A s \in audience[i] : handle[s] = "held" => pushed[i] \in Members(heard[s])

(* No subscriber joins once shutdown has begun, so the registry snapshot that
   shutdown stops holds every subscriber there is. *)
MembershipFrozen ==
    [][lifecycle \notin {"created", "running"} => Members(current') \subseteq Members(current)]_vars

(* An unsubscribe that has returned, to a client or to the callback of another
   subscriber, leaves no callback running, whatever snapshots workers hold. *)
SilentAfterUnsubscribe == \A s \in Subscribers : handle[s] = "gone" => InFlight(s) = {}

(* A shutdown call that has returned, the first or a later one and whatever its
   policy, and the destructor, leave a stopped dispatcher: workers gone, every
   accepted event broadcast or discarded.  A constructor that throws leaves no
   worker behind, either. *)
ShutdownIsComplete ==
    (\E t \in Threads : pc[t] \in {"returned", "gone"}) =>
        /\ WorkersDone /\ lifecycle \in {"created", "stopped"}
        /\ \A i \in DOMAIN pushed : Broadcast(pushed[i]) \/ pushed[i] \in Members(discarded)

(* The metrics are exact after producers stop and shutdown completes: an event
   that was tried is counted once, as accepted if the queue took it and as rejected
   if not, early or late; one whose construction threw is not counted.  What was
   accepted is taken or counted as dropped. *)
MetricsExact ==
    (\E t \in Threads : pc[t] = "returned") /\ (\A t \in Publishers : pc[t] = "idle") =>
        /\ accepted = Len(pushed) /\ accepted = Len(taken) + dropped
        /\ accepted + rejected <= tried
        /\ program.throws \/ accepted + rejected = tried

Position(e) == CHOOSE i \in DOMAIN pushed : pushed[i] = e

(* With one worker every subscriber sees events once and in queue order. *)
InQueueOrder ==
    Cardinality(Workers \cap program.threads) = 1 =>
        \A s \in Subscribers : \A i, j \in DOMAIN heard[s] :
            i < j => Position(heard[s][i]) < Position(heard[s][j])

(* Every accepted event is broadcast or discarded, unless callbacks deadlock. *)
EventsAreHandled ==
    []<>(\/ \A i \in DOMAIN pushed : Broadcast(pushed[i]) \/ pushed[i] \in Members(discarded)
         \/ Stuck # {})

(* Every call and every callback returns, and construction ends, unless callbacks
   wait for each other: by unsubscribing each other, or by waiting for room in
   the queue while no worker is left to make some. *)
CallsReturn == \A t \in Threads : []<>(Outside(t) \/ Hindered(t))
=============================================================================
