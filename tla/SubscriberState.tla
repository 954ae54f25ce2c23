--------------------------- MODULE SubscriberState ---------------------------
(***************************************************************************)
(* subscriber_state: one subscription with its delivery policy.  Dispatch  *)
(* workers offer it events (try_invoke); under the policies "concurrent"   *)
(* and "serialized" they run the callback themselves, under "isolated"     *)
(* they copy the event into a bounded mailbox that the executor thread     *)
(* empties.  The owner of the subscription handle may unsubscribe once,    *)
(* from a thread of its own or from inside the callback, and the           *)
(* dispatcher's shutdown stops the delivery of the subscribers it finds in *)
(* the registry snapshot.                                                  *)
(*                                                                         *)
(* A step is a critical section of state_mutex_ or mailbox_mutex_, or what *)
(* a thread does between two of them.  Definitions named Mutant... are     *)
(* faulty variants of the definition of the same name without the prefix.  *)
(***************************************************************************)
EXTENDS Integers, Sequences, FiniteSets

CONSTANTS
    Workers,            \* dispatch workers
    Executor,           \* the isolated executor thread
    Owner,              \* the thread that owns the subscription handle
    Stopper,            \* the thread inside dispatcher::shutdown
    NoThread,
    Subscriptions,      \* those considered: delivery options, who resets the handle, and
                        \* whether mailbox_.push_back may throw
    MailboxCapacity,    \* options_.mailbox_capacity
    MaxOffers           \* bound: events offered to the subscriber

ASSUME SubscriberThreadsAssumption ==
    /\ IsFiniteSet(Workers) /\ Workers \cap {Executor, Owner, Stopper, NoThread} = {}
    /\ Executor \notin {Owner, Stopper, NoThread} /\ Owner \notin {Stopper, NoThread}
    /\ Stopper # NoThread

ASSUME OptionsAssumption ==
    /\ \A s \in Subscriptions :
           /\ s.delivery \in {"concurrent", "serialized", "isolated"}
           /\ s.guarantee \in {"best_effort", "lossless"}
           /\ s.handle \in {"owner", "callback"} /\ s.throws \in BOOLEAN
    /\ MailboxCapacity \in Nat \ {0}
    /\ MaxOffers \in Nat

Threads == Workers \cup {Executor, Owner, Stopper}
Callers == Workers \cup {Executor}              \* threads that run the callback
Events == 1..MaxOffers

VARIABLES
    options_,           \* the subscription considered, fixed by the constructor
    active_, in_flight_,                        \* under state_mutex_
    mailbox_, mailbox_accepting_, executor_stopping_, drain_mailbox_,  \* mailbox_mutex_
    serial_owner,       \* holder of serial_callback_mutex_
    join_owner,         \* holder of executor_join_mutex_
    joined,             \* executor_ has been joined
    retired,            \* no longer in the registry's snapshot
    handle,             \* who may reset the subscription handle, or "reset"
    shutdown,           \* "none", or the policy of the shutdown under way
    pc, event,          \* where each thread is, the event a caller carries
    offered_, delivered_, dropped_, rejected_,  \* subscription_metrics
    posted, taken, discarded                    \* histories of the mailbox

metrics == <<offered_, delivered_, dropped_, rejected_>>
log == <<posted, taken, discarded>>
mailbox == <<mailbox_, mailbox_accepting_, executor_stopping_, drain_mailbox_>>
membership == <<options_, retired, handle, shutdown>>
vars == <<options_, active_, in_flight_, mailbox_, mailbox_accepting_, executor_stopping_, drain_mailbox_,
          serial_owner, join_owner, joined, retired, handle, shutdown, pc, event,
          offered_, delivered_, dropped_, rejected_, posted, taken, discarded>>

Isolated == options_.delivery = "isolated"

Init ==
    /\ options_ \in Subscriptions /\ handle = options_.handle
    /\ active_ = TRUE /\ in_flight_ = 0
    /\ mailbox_ = <<>> /\ mailbox_accepting_ = TRUE
    /\ executor_stopping_ = FALSE /\ drain_mailbox_ = TRUE
    /\ serial_owner = NoThread /\ join_owner = NoThread /\ joined = ~Isolated
    /\ retired = FALSE /\ shutdown = "none"
    /\ pc = [t \in Threads |-> IF t # Executor THEN "idle" ELSE IF Isolated THEN "loop" ELSE "done"]
    /\ event = [t \in Callers |-> 0]
    /\ offered_ = 0 /\ delivered_ = 0 /\ dropped_ = 0 /\ rejected_ = 0
    /\ posted = <<>> /\ taken = <<>> /\ discarded = <<>>

Goto(t, label) == pc' = [pc EXCEPT ![t] = label]
-----------------------------------------------------------------------------
(* Direct delivery. *)

(* A worker starts try_invoke.  After a drain shutdown has joined the workers,
   and once shutdown has returned, there is nobody left to do so. *)
Offer(w) ==
    /\ pc[w] = "idle" /\ offered_ < MaxOffers
    /\ shutdown # "drain" /\ pc[Stopper] # "stopped"
    /\ offered_' = offered_ + 1
    /\ event' = [event EXCEPT ![w] = offered_ + 1]
    /\ Goto(w, IF Isolated THEN "post" ELSE "begin")
    /\ UNCHANGED <<active_, in_flight_, mailbox, serial_owner, join_owner, joined, membership,
                   delivered_, dropped_, rejected_, log>>

(* begin_invocation: on a worker a refusal counts as rejected, on the executor
   as dropped. *)
BeginInvocation(t) ==
    /\ pc[t] = "begin"
    /\ \/ /\ ~active_ /\ UNCHANGED in_flight_
          /\ IF t = Executor
             THEN dropped_' = dropped_ + 1 /\ UNCHANGED rejected_ /\ Goto(t, "loop")
             ELSE rejected_' = rejected_ + 1 /\ UNCHANGED dropped_ /\ Goto(t, "idle")
       \/ /\ active_ /\ in_flight_' = in_flight_ + 1
          /\ UNCHANGED <<dropped_, rejected_>>
          /\ Goto(t, IF options_.delivery = "serialized" THEN "serial" ELSE "callback")
    /\ UNCHANGED <<active_, mailbox, serial_owner, join_owner, joined, membership, event,
                   offered_, delivered_, log>>

(* A serialized worker gets serial_callback_mutex_. *)
LockSerial(w) ==
    /\ pc[w] = "serial" /\ serial_owner = NoThread
    /\ serial_owner' = w /\ Goto(w, "callback")
    /\ UNCHANGED <<active_, in_flight_, mailbox, join_owner, joined, membership, event,
                   metrics, log>>

(* The callback returns or throws; finish_invocation counts it either way. *)
CallbackReturns(t) ==
    /\ pc[t] = "callback"
    /\ delivered_' = delivered_ + 1 /\ Goto(t, "finish")
    /\ UNCHANGED <<active_, in_flight_, mailbox, serial_owner, join_owner, joined, membership,
                   event, offered_, dropped_, rejected_, log>>

(* The end of try_invoke on a worker, of the loop body on the executor; the
   serial mutex is released last. *)
Leave(t) ==
    /\ serial_owner' = IF serial_owner = t THEN NoThread ELSE serial_owner
    /\ Goto(t, IF t = Executor THEN "loop" ELSE "idle")

(* finish_invocation's critical section. *)
FinishInvocation(t) ==
    /\ pc[t] = "finish"
    /\ in_flight_' = in_flight_ - 1
    /\ \/ in_flight_' = 0 /\ Goto(t, "notify_idle") /\ UNCHANGED serial_owner
       \/ in_flight_' # 0 /\ Leave(t)
    /\ UNCHANGED <<active_, mailbox, join_owner, joined, membership, event, metrics, log>>

MutantAwaiting == {}

(* The threads asleep on no_callbacks_. *)
Awaiting == {u \in Threads : pc[u] = "waiting"}

(* The last invocation out notifies no_callbacks_. *)
NotifyIdle(t) ==
    /\ pc[t] = "notify_idle"
    /\ serial_owner' = IF serial_owner = t THEN NoThread ELSE serial_owner
    /\ pc' = [u \in Threads |-> IF u = t THEN (IF t = Executor THEN "loop" ELSE "idle")
                                ELSE IF u \in Awaiting THEN "await" ELSE pc[u]]
    /\ UNCHANGED <<active_, in_flight_, mailbox, join_owner, joined, membership, event,
                   metrics, log>>
-----------------------------------------------------------------------------
(* Isolated delivery. *)

MutantFull == Len(mailbox_) > MailboxCapacity
Full == Len(mailbox_) = MailboxCapacity
MutantAccepting == TRUE
Accepting == mailbox_accepting_
SpaceReady == ~mailbox_accepting_ \/ ~Full
MailReady == executor_stopping_ \/ mailbox_ # <<>>

Parked == {w \in Workers : pc[w] = "parked"}

(* enqueue_isolated, from an evaluation of its predicate to the unlock: wait for
   space (lossless only), drop (best effort only), reject, fail to copy or post. *)
Post(w) ==
    /\ pc[w] \in {"post", "woken"}
    /\ \/ /\ options_.guarantee = "lossless" /\ ~SpaceReady
          /\ Goto(w, "parked") /\ UNCHANGED <<mailbox_, posted, dropped_, rejected_>>
       \/ /\ options_.guarantee = "best_effort" /\ Full
          /\ dropped_' = dropped_ + 1 /\ Goto(w, "idle")
          /\ UNCHANGED <<mailbox_, posted, rejected_>>
       \/ /\ options_.guarantee = "best_effort" => ~Full
          /\ ~Accepting
          /\ rejected_' = rejected_ + 1 /\ Goto(w, "idle")
          /\ UNCHANGED <<mailbox_, posted, dropped_>>
       \/ /\ options_.throws /\ Accepting /\ ~Full
          /\ rejected_' = rejected_ + 1 /\ Goto(w, "idle")
          /\ UNCHANGED <<mailbox_, posted, dropped_>>
       \/ /\ Accepting /\ ~Full
          /\ mailbox_' = Append(mailbox_, event[w]) /\ posted' = Append(posted, event[w])
          /\ Goto(w, "notify_ready") /\ UNCHANGED <<dropped_, rejected_>>
    /\ UNCHANGED <<active_, in_flight_, mailbox_accepting_, executor_stopping_, drain_mailbox_,
                   serial_owner, join_owner, joined, membership, event, offered_, delivered_,
                   taken, discarded>>

(* mailbox_ready_.notify_one: only the executor waits on it. *)
NotifyReady(w) ==
    /\ pc[w] = "notify_ready"
    /\ pc' = [pc EXCEPT ![w] = "idle", ![Executor] = IF @ = "asleep" THEN "loop" ELSE @]
    /\ UNCHANGED <<active_, in_flight_, mailbox, serial_owner, join_owner, joined, membership,
                   event, metrics, log>>

MutantExecutorExits == executor_stopping_

(* The executor leaves its loop. *)
ExecutorExits == executor_stopping_ /\ (~drain_mailbox_ \/ mailbox_ = <<>>)

(* The head of executor_loop: sleep, exit, or take the oldest entry. *)
ExecutorLoop ==
    /\ pc[Executor] = "loop"
    /\ \/ ~MailReady /\ Goto(Executor, "asleep") /\ UNCHANGED <<mailbox_, event, taken>>
       \/ MailReady /\ ExecutorExits /\ Goto(Executor, "done") /\ UNCHANGED <<mailbox_, event, taken>>
       \/ /\ MailReady /\ ~ExecutorExits
          /\ event' = [event EXCEPT ![Executor] = Head(mailbox_)]
          /\ taken' = Append(taken, Head(mailbox_)) /\ mailbox_' = Tail(mailbox_)
          /\ Goto(Executor, "notify_space")
    /\ UNCHANGED <<active_, in_flight_, mailbox_accepting_, executor_stopping_, drain_mailbox_,
                   serial_owner, join_owner, joined, membership, metrics, posted, discarded>>

(* mailbox_space_.notify_one. *)
NotifySpace ==
    /\ pc[Executor] = "notify_space"
    /\ \/ Parked = {} /\ Goto(Executor, "begin")
       \/ \E w \in Parked : pc' = [pc EXCEPT ![Executor] = "begin", ![w] = "woken"]
    /\ UNCHANGED <<active_, in_flight_, mailbox, serial_owner, join_owner, joined, membership,
                   event, metrics, log>>

(* A condition variable may release a thread nobody notified. *)
SpuriousWake(t) ==
    /\ \/ pc[t] = "parked" /\ Goto(t, "woken")
       \/ pc[t] = "asleep" /\ Goto(t, "loop")
       \/ pc[t] = "waiting" /\ Goto(t, "await")
    /\ UNCHANGED <<active_, in_flight_, mailbox, serial_owner, join_owner, joined, membership,
                   event, metrics, log>>
-----------------------------------------------------------------------------
(* stop_delivery(drain), run by the owner, by a callback or by shutdown. *)

Drains(t) == t = Stopper /\ shutdown = "drain"

(* Where thread t continues after stop_delivery: unsubscribe waits for running
   callbacks unless it was called from one. *)
AfterStop(t) == CASE t = Owner -> "await"
                  [] t = Stopper -> "join_workers"
                  [] OTHER -> "callback"

MutantCleared(t) == 0

(* How many entries mailbox_.clear() drops. *)
Cleared(t) == IF Drains(t) THEN 0 ELSE Len(mailbox_)

(* The critical section of stop_delivery. *)
StopMailbox(t) ==
    /\ pc[t] = "stop" /\ Isolated
    /\ mailbox_accepting_' = FALSE /\ executor_stopping_' = TRUE
    /\ drain_mailbox_' = (drain_mailbox_ /\ Drains(t))
    /\ dropped_' = dropped_ + Cleared(t)
    /\ IF Drains(t) THEN UNCHANGED <<mailbox_, discarded>>
       ELSE discarded' = discarded \o mailbox_ /\ mailbox_' = <<>>
    /\ Goto(t, "stop_notify")
    /\ UNCHANGED <<active_, in_flight_, serial_owner, join_owner, joined, membership, event,
                   offered_, delivered_, rejected_, posted, taken>>

(* Under a direct policy there is nothing to stop. *)
StopDirect(t) ==
    /\ pc[t] = "stop" /\ ~Isolated
    /\ Goto(t, AfterStop(t))
    /\ UNCHANGED <<active_, in_flight_, mailbox, serial_owner, join_owner, joined, membership,
                   event, metrics, log>>

MutantRoused(u) == IF pc[u] = "asleep" THEN "loop" ELSE pc[u]

(* Where a thread goes on when everybody asleep on the mailbox is notified. *)
Roused(u) == CASE pc[u] = "asleep" -> "loop"
               [] pc[u] = "parked" -> "woken"
               [] OTHER -> pc[u]

(* notify_all on mailbox_ready_ and mailbox_space_. *)
StopNotify(t) ==
    /\ pc[t] = "stop_notify"
    /\ pc' = [u \in Threads |-> IF u = t THEN "lock_join" ELSE Roused(u)]
    /\ UNCHANGED <<active_, in_flight_, mailbox, serial_owner, join_owner, joined, membership,
                   event, metrics, log>>

(* The guarded join: the executor itself and latecomers pass through, the others
   keep executor_join_mutex_ while they join. *)
LockJoin(t) ==
    /\ pc[t] = "lock_join" /\ join_owner = NoThread
    /\ IF joined \/ t = Executor
       THEN Goto(t, AfterStop(t)) /\ UNCHANGED join_owner
       ELSE Goto(t, "joining") /\ join_owner' = t
    /\ UNCHANGED <<active_, in_flight_, mailbox, serial_owner, joined, membership, event,
                   metrics, log>>

(* executor_.join returns. *)
Join(t) ==
    /\ pc[t] = "joining" /\ pc[Executor] = "done"
    /\ joined' = TRUE /\ join_owner' = NoThread
    /\ Goto(t, AfterStop(t))
    /\ UNCHANGED <<active_, in_flight_, mailbox, serial_owner, membership, event, metrics, log>>
-----------------------------------------------------------------------------
(* unsubscribe(), from the owner's thread or from inside the callback. *)
Unsubscribe(t) ==
    /\ \/ handle = "owner" /\ t = Owner /\ pc[t] = "idle"
       \/ handle = "callback" /\ t # Owner /\ pc[t] = "callback"
    /\ handle' = "reset" /\ active_' = FALSE
    /\ Goto(t, "retire")
    /\ UNCHANGED <<options_, in_flight_, mailbox, serial_owner, join_owner, joined, retired, shutdown,
                   event, metrics, log>>

(* The retirement callback replaces the registry snapshot; if it cannot allocate
   the subscriber stays in it as an inactive tombstone. *)
Retire(t) ==
    /\ pc[t] = "retire"
    /\ retired' \in BOOLEAN
    /\ Goto(t, "stop")
    /\ UNCHANGED <<options_, active_, in_flight_, mailbox, serial_owner, join_owner, joined, handle,
                   shutdown, event, metrics, log>>

MutantNoCallbacks == TRUE
NoCallbacks == in_flight_ = 0

(* no_callbacks_.wait: an evaluation of the predicate. *)
AwaitIdle(t) ==
    /\ pc[t] = "await"
    /\ Goto(t, IF NoCallbacks THEN "returned" ELSE "waiting")
    /\ UNCHANGED <<active_, in_flight_, mailbox, serial_owner, join_owner, joined, membership,
                   event, metrics, log>>
-----------------------------------------------------------------------------
(* dispatcher::shutdown, as far as it concerns one subscriber. *)

MutantWorkersIdle == TRUE
WorkersIdle == \A w \in Workers : pc[w] = "idle"

(* registry stop_delivery reaches the subscriber only through the snapshot it
   loads: at once when discarding, after the workers were joined when draining. *)
Shutdown(policy) ==
    /\ pc[Stopper] = "idle"
    /\ policy = "drain" => WorkersIdle
    /\ shutdown' = policy
    /\ Goto(Stopper, IF retired THEN "join_workers" ELSE "stop")
    /\ UNCHANGED <<options_, active_, in_flight_, mailbox, serial_owner, join_owner, joined, retired,
                   handle, event, metrics, log>>

(* The lifecycle becomes stopped. *)
Stopped ==
    /\ pc[Stopper] = "join_workers" /\ WorkersIdle
    /\ Goto(Stopper, "stopped")
    /\ UNCHANGED <<active_, in_flight_, mailbox, serial_owner, join_owner, joined, membership,
                   event, metrics, log>>

(* The executor's callback, unsubscribing itself, waits for the mutex of a thread
   that joins the executor. *)
JoinDeadlock == pc[Executor] = "lock_join" /\ join_owner # NoThread

(* Everybody has come to rest: no offers left, nobody inside an operation. *)
AtRest ==
    /\ WorkersIdle /\ (offered_ = MaxOffers \/ shutdown = "drain" \/ pc[Stopper] = "stopped")
    /\ \/ /\ pc[Executor] \in {"asleep", "done"}
          /\ pc[Owner] \in {"idle", "returned"} /\ pc[Stopper] \in {"idle", "stopped"}
       \/ JoinDeadlock

Rest == AtRest /\ UNCHANGED vars

StopStep(t) == StopMailbox(t) \/ StopDirect(t) \/ StopNotify(t) \/ LockJoin(t) \/ Join(t)

(* What a thread inside an operation does next. *)
Step(t) ==
    \/ t \in Workers /\ (LockSerial(t) \/ Post(t) \/ NotifyReady(t))
    \/ t \in Callers /\ (BeginInvocation(t) \/ CallbackReturns(t) \/ FinishInvocation(t) \/ NotifyIdle(t))
    \/ t = Executor /\ (ExecutorLoop \/ NotifySpace)
    \/ t = Stopper /\ Stopped
    \/ Retire(t) \/ StopStep(t) \/ AwaitIdle(t)

Next ==
    \/ \E w \in Workers : Offer(w)
    \/ \E t \in Threads : Step(t) \/ Unsubscribe(t) \/ SpuriousWake(t)
    \/ Shutdown("drain") \/ Shutdown("discard")
    \/ Rest

Spec == Init /\ [][Next]_vars

(* Threads inside an operation get to run and callbacks return; offering,
   unsubscribing and shutting down are up to the program. *)
Fairness == \A t \in Threads : WF_vars(Step(t))

FairSpec == Spec /\ Fairness
-----------------------------------------------------------------------------
(* Correctness. *)

Running == {t \in Callers : pc[t] \in {"callback", "retire", "stop", "stop_notify", "lock_join", "joining"}}

(* Threads between begin_invocation and the end of finish_invocation. *)
Inside == Running \cup {t \in Callers : pc[t] \in {"serial", "finish"}}

(* Types of the fields, the locks and the callers; the mailbox keeps its bound. *)
TypeOK ==
    /\ active_ \in BOOLEAN /\ in_flight_ \in 0..Cardinality(Callers)
    /\ mailbox_ \in Seq(Events) /\ Len(mailbox_) <= MailboxCapacity
    /\ mailbox_accepting_ \in BOOLEAN /\ executor_stopping_ \in BOOLEAN /\ drain_mailbox_ \in BOOLEAN
    /\ serial_owner \in Workers \cup {NoThread} /\ join_owner \in Threads \cup {NoThread}
    /\ joined \in BOOLEAN /\ retired \in BOOLEAN /\ handle \in {"owner", "callback", "reset"}
    /\ shutdown \in {"none", "drain", "discard"}
    /\ pc \in [Threads -> {"idle", "begin", "serial", "callback", "finish", "notify_idle", "post",
                           "parked", "woken", "notify_ready", "loop", "asleep", "notify_space",
                           "done", "retire", "stop", "stop_notify", "lock_join", "joining",
                           "await", "waiting", "returned", "join_workers", "stopped"}]
    /\ event \in [Callers -> 0..MaxOffers]
    /\ offered_ \in 0..MaxOffers /\ delivered_ \in Nat /\ dropped_ \in Nat /\ rejected_ \in Nat

(* When an unsubscribe made outside the callback has returned, no callback is
   running and none will run: the owner may destroy what the callback uses. *)
SilentAfterUnsubscribe == pc[Owner] = "returned" => ~active_ /\ Inside = {}

(* Every event offered to the subscriber is on its way, or counted exactly once
   as delivered, dropped or rejected. *)
EveryOfferAccounted ==
    offered_ = delivered_ + dropped_ + rejected_ + Len(mailbox_)
        + Cardinality({w \in Workers : pc[w] \in {"begin", "post", "parked", "woken"}})
        + Cardinality({t \in Callers : pc[t] = "serial"} \cup Running)
        + (IF pc[Executor] \in {"notify_space", "begin"} THEN 1 ELSE 0)

(* The mailbox is a bounded FIFO that closes like a queue: stop_delivery closes
   it, or closes it and discards, and the executor ends on an empty one. *)
Mailbox == INSTANCE QueueContract WITH
    Capacity <- MailboxCapacity, items <- mailbox_, closed <- ~mailbox_accepting_,
    accepted <- posted, ended <- Isolated /\ pc[Executor] = "done"

MailboxIsQueue == Mailbox!Spec

(* A drain shutdown that nobody unsubscribes from hands every posted event to
   the callback before it completes. *)
DrainDelivers ==
    pc[Stopper] = "stopped" /\ shutdown = "drain" /\ handle # "reset" /\ Isolated =>
        /\ taken = posted /\ mailbox_ = <<>> /\ pc[Executor] = "done"
        /\ delivered_ = Len(posted)

(* Nobody sleeps on the mailbox for long: a worker blocked by a lossless one waits
   for space or for the end of delivery only, the executor for mail only.  If
   copying an event may throw the notification of space may be lost with it. *)
MailboxWakesUp ==
    /\ \A w \in Workers : []<>(pc[w] \in {"parked", "woken"} /\ SpaceReady => options_.throws)
    /\ []<>(pc[Executor] = "asleep" => mailbox_ = <<>>)

(* No callback runs for ever: self-unsubscription gets back to the callback and
   the callback's thread gets out of finish_invocation. *)
CallbackEnds == \A t \in Callers : []<>(t \notin Inside /\ pc[t] # "notify_idle")

(* Callbacks end, unsubscribe outside the callback returns and shutdown gets past
   this subscriber; the one thing that keeps them is an isolated callback that
   unsubscribes itself while its executor is being joined. *)
CallsReturn ==
    /\ \A t \in Callers : []<>((t \notin Inside /\ pc[t] # "notify_idle") \/ JoinDeadlock)
    /\ []<>(pc[Owner] \in {"idle", "returned"} \/ JoinDeadlock)
    /\ []<>(pc[Stopper] \in {"idle", "stopped"} \/ JoinDeadlock)

(* No callback runs once shutdown has returned, except on the executor of a
   subscriber whose handle was reset. *)
StoppedUnlessLeaving ==
    pc[Stopper] = "stopped" => Running \subseteq (IF handle = "reset" /\ Isolated THEN {Executor} ELSE {})

(* No callback at all runs once shutdown has returned. *)
StoppedIsSilent == pc[Stopper] = "stopped" => Running = {}
=============================================================================
