# TLA+ verification of the event dispatcher

The library is an in-process C++20 event dispatcher: publishers put typed
events into a bounded queue, worker threads take them in batches and broadcast
each batch to the subscribers of an immutable registry snapshot, subscribers
run their callbacks under one of three delivery policies, and shutdown drains
or discards. This directory models its concurrent core. Paths below are
relative to `include/event_dispatcher/` unless they start with `src/` or `docs/`.

## 1. Inventory

| component | state it keeps | operations | talks to |
|---|---|---|---|
| queue contract (`queue/concurrent_queue.hpp`) | none, a concept | try/wait/timed push, try/wait pop, close, close_and_discard | the dispatcher is a template over it |
| mutex queue (`queue/bounded_mutex_queue.hpp`) | ring of optional slots, `head_`, `tail_`, `size_`, `closed_`, two condition variables | as the contract | publishers, workers, shutdown |
| lock-free queue (`queue/bounded_lock_free_queue.hpp`) | slots, two index rings, two operation gates, quiescence flag, two epochs, `close_mutex_` | as the contract | same, plus atomic wait/notify |
| index ring (`queue/detail/scalable_circular_index_queue.hpp`) | head and tail tickets, per-entry cycles, threshold | enqueue, try_dequeue, catch_up | the lock-free queue |
| subscriber state (`subscription/subscriber_state.hpp`) | `active_`, `in_flight_`, mailbox and its flags, executor thread, serial mutex, join mutex, metrics | try_invoke, unsubscribe, stop_delivery, executor_loop | workers, handle, registry (retire callback), shutdown |
| snapshot registry (`registry/snapshot_registry.hpp`) | current snapshot, writer mutex, next id | subscribe, retire, acquire, stop_delivery | workers read it without its mutex |
| dispatcher (`dispatcher.hpp`) | lifecycle, its mutex and condition variable, metrics | publish family, subscribe, shutdown, run, broadcast_batch | everything |
| subscription handle (`src/subscription/subscription.cpp`) | owning pointer to the subscriber | reset, move, destructor | subscriber state |
| worker pool (`src/execution/worker_pool.cpp`) | threads, a thread-local pool pointer | start, join, request_stop, is_worker_thread | dispatcher |
| configuration, cache-line layout | constants | validation | - |

What is hard here, and a test hardly reaches:

* notifications sent after the unlock, so that a barging thread can take what a
  notified one was woken for; one notification consumed by a thread that leaves
  without using it (deadline, cancellation, exception);
* close racing with pushes and pops, and what "closed" then means to a pop;
* callbacks in flight when their subscription ends, also when they end it
  themselves; joins of an executor whose callback takes the same mutex;
* snapshots that are older than the membership they are used for;
* shutdown called twice, with different policies, while clients subscribe and
  publish;
* slot indices that circulate between rings while constructors throw;
* an epoch that moves between a failed attempt and the wait on it;
* tickets and cycles of the index ring, and its threshold, which lets a dequeuer
  call the ring empty without looking at it;
* callbacks that use the dispatcher they run on: publish, wait, subscribe,
  unsubscribe themselves or each other, shut down;
* a constructor that fails half-way, and handles that outlive the dispatcher.

`PROJECT.json` lists each of these at its line under `hazards`, with the
properties that would notice it going wrong.

What makes each component correct:

* **queues** - bounded FIFO; each accepted event is popped or discarded exactly
  once, in order; `closed` is reported only when nothing can follow; no waiting
  call outlasts its reason to wait;
* **index ring** - an index is never lost, duplicated or stranded in an entry that
  no dequeuer will look at again; a dequeue that finds nothing is right; it is
  lock-free: while calls are under way some call returns, though a single one may
  starve (`docs/bounded-lock-free-queue.md:126`);
* **subscriber** - after unsubscribe returns no callback runs or will run; every
  offered event is counted exactly once; a drain delivers what was posted; every
  blocked thread is released. That serialized callbacks do not overlap is one
  lock around the call (`serial_callback_mutex_`), and isolated ones have a single
  executor: both are in the model and not stated as a property;
* **registry** - concurrent writers lose no registration and no retirement, a
  snapshot never brings a departed subscriber back to life;
* **dispatcher** - a returned shutdown is complete whoever called it; metrics
  are exact; membership is frozen once it has begun; accepted events are handled;
  calls and callbacks return, and what callbacks may do to each other is known.

## 2. Modules

| module | models | state and actions |
|---|---|---|
| `QueueContract` | what a queue policy promises | `items`, `closed` and the histories `accepted`, `taken`, `discarded`, `ended`; Push, Pop, PopClosed, Close, CloseAndDiscard |
| `BoundedMutexQueue` | the mutex queue | the ring variable by variable; one action per critical section and one per notification that follows it |
| `SubscriberState` | one subscription, its workers, executor, owner and the shutdown thread | fields under their source names; a step is a critical section or what a thread does between two |
| `Dispatcher` | dispatcher, registry, worker pool, worker loop, handles | `lifecycle`, the queue (an instance of `QueueContract`), `current`/`next` snapshots, workers' batches; one action per critical section or atomic access |
| `LockFreeQueue` | the lock-free queue over atomic index rings | one action per atomic operation |
| `IndexRing` | the circular index queue | `entries_`, `head_`, `tail_`, `threshold_`; one action per atomic operation, see its header for the two that are one step |
| `BoundedMutexQueueProofs`, `LockFreeQueueProofs`, `IndexRingProofs`, `IndexRingHonestProofs`, `SubscriberStateProofs`, `DispatcherProofs`, `DispatcherOrderProofs` | theorems about these modules, see section 4 | the inductive invariants |
| `SequenceFacts` | lemmas about sequences, their elements and the ledger of a queue, cited by the proofs | |
| `MC...` | TLC instances | symmetry sets, the programs and subscriptions of each run |

`Dispatcher` composes the queue through its contract: what `BoundedMutexQueue`
is proved to implement is what `Dispatcher` uses. `SubscriberState` shows that
its mailbox implements the same contract (`MailboxIsQueue`). `LockFreeQueue`
implements the contract up to what a pop says of the end of the stream
(`ImplementsFifo`): a push takes effect at `PublishIndex`, a pop at `Dequeue`,
close at `AwaitProducers`, and close_and_discard as one step at `AwaitConsumers`,
although it then destroys the events one by one. The contract's `PopClosed` it does
not implement, see finding 1, so `ended` is left out of the mapping. It uses its two
index rings as atomic queues; `IndexRing` shows what that rests on. Every index whose enqueue has returned is either still ahead of
`head_` or belongs to a dequeuer that has drawn its ticket (`NotStranded`), so
indices leave in the order of their tickets; `HonestEmpty` is what makes "none" a
legal answer. It holds for no more dequeuing threads than indices and fails for
many, see finding 5.

Some constants name several situations for one run: `Subscriptions` (delivery
options, who resets the handle, whether copies throw) and `Programs` (which
threads take part, what they and, in `Dispatcher`, callbacks call, what may
throw, how many events there are). Init chooses one and no step changes it.

How `Dispatcher` reads against the code:

| code | actions |
|---|---|
| `dispatcher::dispatcher`, `worker_pool::start` | Construct, ConstructFails, Abandon (`~worker_pool`) |
| `publish_with` and its callers | Publish, CheckLifecycle, Push, PushRefused, PushThrows, Count |
| `shared_state::run`, `broadcast_batch` | WaitPop, FillBatch, AcquireSnapshot, Invoke, CallbackReturns, NextEvent |
| `subscribe`, `registry_core::subscribe` | Subscribe, Register, Registered |
| `subscription::reset`, `unsubscribe`, `registry_core::retire` | Unsubscribe, Retire, Retired, AwaitIdle |
| `shutdown` | Stop, CloseQueue, CountDropped, JoinWorkers, MarkStopped, NotifyStopped, AwaitStopped |
| `~dispatcher` | Destroy, the actions of shutdown, Dispose |

A callback runs while its worker's `pc` is "callback" or inside a call made from
there; `Home` is where a call returns to. `shutdown` inside a callback throws,
which is `Rejected`: the step does not exist for workers. `retire` of a handle
that outlives the dispatcher finds the registry gone. `Filtered` is the loop that
copies the current list without inactive subscribers; it is written without
recursion so that it can be reasoned about, and `MCDispatcher` compares it with
`SelectSeq` on every list of up to four elements (`FilteredReference`).

Conventions: a thread's program counter is `pc[t]`, its labels name what it does
next; a condition variable is the set of threads parked at a label, and parked
threads may also wake spuriously; names ending in an underscore are the source's
members; histories (`accepted`, `taken`, `posted`, `audience`, ...) are read by
no guard except through the bounds; `Mutant...` definitions are faulty variants
of the definition they stand before, used to show that a property can fail.

### Abstractions

* Atomics are sequentially consistent; the memory orders of the source are not
  modelled.
* An index ring is an atomic FIFO in `LockFreeQueue`. `try_dequeue` returning
  nothing is "the ring is empty". That a thread may starve inside a ring is not
  visible in the liveness properties of `LockFreeQueue`.
* An epoch is compared for equality only, so the model keeps for each waiter
  whether it has moved since the load. `notify_one` releases one waiter whose
  value has changed, as the standard promises; an implementation may release
  more.
* Deadlines are nondeterministic: a deadline may pass at any time. Timed pushes
  of the lock-free queue poll (1 ms in the source), so their mutex and condition
  variable are left out.
* A copy that fails (event constructor, snapshot allocation) is a choice where
  the source has a try or lets the exception out.
* A callback that throws is one that returns: both are counted as delivered.
  The error handler and the slow-callback and error counters are left out.
* A handle is reset at most once; `docs/api-reference.md` makes concurrent use
  of one handle the caller's affair.
* In `Dispatcher` subscribers use the concurrent policy; `SubscriberState` has
  the other policies, with one subscriber. A blocking wait inside the queue is the
  step `Push` that is not enabled yet: how the queue wakes waiters is the
  queue modules' subject.
* Nobody but callbacks uses a dispatcher that is being destroyed, as its
  documentation demands; `Destroy` waits for that.
* Index ring: an entry word is a record of cycle, safe bit and index; tickets are
  unbounded integers, so the 64-bit wrap-around that `before` is written for is
  not reached. `compare_exchange_weak` may fail for no reason. The 10 000 looks at a consumed entry before it is closed are one
  step, whose time is left open.

## 3. Runs

Passing runs:

| run | instance | shows |
|---|---|---|
| `mutex_queue_safety` | 2 producers, 2 consumers, 1 closer, 2 slots, 2 events each, throwing copies | ring consistency, nothing lost or reordered, `closed` is final, consumer wake-ups and close are never lost, every step is one of the contract |
| `mutex_queue_liveness` | 2 producers, 1 consumer, 1 closer, 1 slot | producers' wake-ups when copies do not throw; every wait ends |
| `subscriber` | 2 workers, 3 offers, one-place mailbox; concurrent and serialized subscribers and lossless isolated ones, reset by owner or callback, and best-effort isolated ones reset by their callback with throwing copies | silence after unsubscribe, shutdown stops every subscriber that is not leaving, every offer counted once, drain delivers, the mailbox is a contract queue and nobody sleeps on it, every call returns except in the deadlock of finding 3 |
| `dispatcher_safety` | 1 publisher, 2 workers, batches of 2, queue of 1; (a) 2 clients, 2 subscribers, callbacks that leave; (b) 2 stoppers, every kind of publication, once where anything may throw and once where nothing does; (c) 1 worker, 1 client, 1 stopper, 2 subscribers, anything may throw; (d) 1 client, 2 subscribers, callbacks that unsubscribe the other one, destruction | due events are heard, silence after unsubscribe, complete shutdown, exact metrics, frozen membership |
| `dispatcher_liveness` | queue of 1, at most 3 events; two stoppers; callbacks that unsubscribe each other, that subscribe, that publish and shut down, that wait for room; destruction; a constructor that may fail | queue order, events handled, every call and callback returns unless callbacks wait for each other |
| `lock_free_queue` | 2 slots; (a) 2 producers, 1 of them with throwing copies, 1 consumer, 1 closer, nobody waits; (b) 1 producer and 2 consumers waiting on an open queue; (c) 1 producer with cancellation and deadlines, 1 consumer, 1 closer | slot ownership, nothing lost, gates, every step is one of the contract's bounded FIFO or none, the epoch protocol releases every waiter |
| `index_ring` | 2 indices, 4 entries, initially full or empty; two threads that enqueue and dequeue; 8 calls | indices conserved and never stranded, enqueuers no more than a round ahead of the head, honest emptiness, some call returns while calls are under way |

Why the bounds are enough: two slots and more events than slots make the ring
and the index rings wrap; two threads on a side let one barge in before the one
that was notified; one closer against both sides meets each thread at each of
its labels; a one-place mailbox with three offers has one event posted and both
workers blocked; two stoppers are the first caller and a later one with either
policy; two clients are two writers of the registry; a queue of one is full while
one event is in a callback and another waits; eight calls take the tickets of the
ring of four entries into the next cycle, past entries closed or made unsafe by
early dequeuers (`MutantNotPassed` shows that the unsafe path is reached, and
matters). Symmetry is used in three safety runs, never where a temporal property
with fairness is checked: over producers and consumers in `mutex_queue_safety`, over
threads of one kind and over subscribers in `dispatcher_safety`, in sets of programs
that are closed under it, and over the dequeuers of `index_ring_false_empty`.

Deadlock is checked in every passing run: the only states without a way on are
those of `AtRest`, where nobody is inside an operation except to wait for what
has not happened, or in one of the deadlocks described below, which the models
name (`JoinDeadlock`, `Stuck`).

Fairness is weak fairness of each thread's steps inside an operation: the
scheduler runs every runnable thread, mutexes are handed on (no action holds one
for ever), and callbacks return: a callback that never does blocks its worker
and with it every promise of the library. Nobody is obliged to publish, subscribe, unsubscribe, cancel or shut down,
and nobody to wake spuriously. The index ring
assumes less of the scheduler and more of the processor: some thread inside a call
runs, whichever it is, and a weak exchange that fails for no reason again and again
also succeeds again and again, as the processor's reservation gives. Eight calls
bound a behaviour, so `SomeCallReturns` says that the calls under way do not hold
each other up for ever; a single enqueue that others overtake at every ticket may
starve when there is no end of calls, and nothing here says otherwise.

### Findings

Five runs show the code doing something else than its documents say.

1. `lock_free_stale_empty` - `try_pop` finds the published ring empty, then the
   last producer publishes and `close()` sets `producer_quiesced_`, then
   `try_pop` loads the flag and returns `closed` while an accepted event is
   queued (`bounded_lock_free_queue.hpp:121`). With one worker a drain would
   leave that event behind.
2. `lock_free_close_wakes_one` - `close_producers` uses `notify_one` on each
   epoch; of two parked consumers one is guaranteed to wake
   (`bounded_lock_free_queue.hpp:376`). `lock_free_queue` shows that with one
   waiter on each side close does release it. Implementations whose
   `notify_one` wakes all waiters hide this.
3. `subscriber_join_deadlock` - an isolated callback that unsubscribes itself
   while shutdown (or another unsubscribe) joins its executor blocks on
   `executor_join_mutex_`, which the joining thread holds
   (`subscriber_state.hpp:136`).
4. `subscriber_late_callback` - shutdown stops the subscribers of the snapshot it
   loads; an isolated subscriber that has just retired is not among them, so
   shutdown returns while its callback runs (`snapshot_registry.hpp:113`).
   `StoppedUnlessLeaving` is what does hold.

5. `index_ring_false_empty` - the ring's threshold argument needs no more
   dequeuing threads than there are indices. With two indices, six dequeuers that
   have found the empty ring and stop before `threshold_.fetch_sub`
   (`scalable_circular_index_queue.hpp:129`) lower it after an enqueue has seen it
   intact and left it alone (`:75`); the next `try_dequeue` calls the ring empty
   (`:85`) with an index in it, until the next enqueue. The documents state the
   capacity's limits and none for threads. The run searches only the behaviours
   in which dequeuers are preempted at that point, which is enough for a
   counterexample. That no more dequeuers than indices suffice is proved
   (`FewDequeuersHonest`), for every capacity.

Two deadlocks are facts about how callbacks use the library rather than
disagreements with its documents. `dispatcher_liveness` shows that they are the
only ones under the concurrent policy (`Stuck`, `Hindered`):

* a blocking publication from a callback, with the queue full and every worker in
  the same position; `docs/known-limitations.md` warns of it;
* callbacks that unsubscribe each other's subscription on different workers; each
  waits until the other's callback is no longer in flight. No document mentions
  it; `docs/concurrency-contract.md` allows callbacks to unsubscribe.

One more limit is visible in the assumptions: when copying an event may throw, a
producer of the mutex queue (or a worker of a lossless mailbox) that was woken
by the only notification may leave by the exception, and another one sleeps on
beside a free slot. `ProducerWakeups`, `ProducersReleased` and, in `SubscriberState`,
`MailboxWakesUp` are therefore claimed for copies that do not throw, and the
theorem about the first carries that hypothesis.

## 4. Proofs

The theorems hold for every number of threads, every capacity and every program
or subscription that the named assumptions of the modules admit. TLC evaluates
these assumptions in the runs.

| module | theorem | statement |
|---|---|---|
| `BoundedMutexQueueProofs` | `TypeCorrect` | `Spec => []TypeOK` |
| | `RingCorrect` | `Spec => []RingOK` |
| | `NothingLostCorrect` | `Spec => []NothingLost` |
| | `EndIsFinalCorrect` | `Spec => []EndIsFinal` |
| | `Refinement` | `Spec => ImplementsContract` |
| | `ConsumerWakeupsCorrect` | `Spec => []ConsumerWakeups` |
| | `ProducerWakeupsCorrect` | the same for producers, when copies do not throw |
| | `CloseReleasesCorrect` | `Spec => []CloseReleases` |
| `LockFreeQueueProofs` | `TypeCorrect`, `SlotsAlwaysOwned`, `NothingIsLost` | `Spec => []TypeOK`, `[]SlotsOwned`, `[]NothingLost` |
| | `QuiescenceIsFinal` | `Spec => QuiescedIsQuiet`, an action property: nothing is accepted once production is quiescent |
| | `FifoRefinement`, `ContractRefinement` | `Spec => ImplementsFifo`, and with it `Spec => Fifo!Spec`: the queue is the contract's bounded FIFO, apart from the end of the stream |
| `IndexRingProofs` | `TypeCorrect`, `NoneStranded`, `IndicesConserved` | `Spec => []TypeOK`, `[]NotStranded`, `[]IndexConserved` |
| `IndexRingHonestProofs` | `WindowBounded` | `Spec => []TicketsBounded`, for any number of threads |
| | `FewDequeuersHonest` | `Spec => []HonestEmpty`, if `Cardinality(Dequeuers) <= Capacity` |
| `SubscriberStateProofs` | `TypeCorrect`, `UnsubscribeLeavesSilence`, `OffersAreAccounted`, `ShutdownSilences`, `DrainLosesNothing` | `Spec => []TypeOK`, `[]SilentAfterUnsubscribe`, `[]EveryOfferAccounted`, `[]StoppedUnlessLeaving`, `[]DrainDelivers` |
| | `MailboxRefinesQueue` | `Spec => MailboxIsQueue`: the mailbox implements `QueueContract` |
| `DispatcherProofs` | `TypeCorrect`, `AudiencesHear`, `UnsubscribeLeavesSilence`, `ShutdownCompletes`, `MetricsAreExact` | `Spec => []TypeOK`, `[]EveryAudienceHears`, `[]SilentAfterUnsubscribe`, `[]ShutdownIsComplete`, `[]MetricsExact` |
| | `NobodyJoinsLate` | `Spec => MembershipFrozen`, an action property |
| `DispatcherOrderProofs` | `OneWorkerKeepsOrder` | `Spec => []InQueueOrder`: one worker gives every subscriber its events in queue order, none twice |

Each module after the first also states its inductive invariants as theorems
(`QueueInvariant`, `RingInvariant`, `TicketInvariant`, `HonestInvariant`,
`SubscriberInvariant`, `DispatcherInvariant`, `OrderInvariant`); the others follow
from them. TLC has checked these invariants
on the instances of section 3, too.

Assumptions. `BoundedMutexQueue`: `ThreadsAssumption`, `SizeAssumption`,
`ThrowAssumption`, `EmptyAssumption`. `LockFreeQueue`: the kinds of threads are
finite and disjoint, the capacity is at least two (`validate_capacity`; that it is
a power of two is not needed), `Empty` is no event. `IndexRing`: finitely many
threads, at least two indices; the theorems on honest emptiness state their bound on
the dequeuers as a hypothesis, because no assumption of the code gives it. `SubscriberState`: the threads differ, the mailbox
has a place. `Dispatcher`: the threads and subscribers are finitely many and
differ, sizes are positive (`make_state` rejects zero), and a program has a worker.

**Mutex queue.** `StepKinds` sorts every step of `Next` into six kinds by what it
does to the data (nothing, push, pop, report closed, close, close and discard);
everything about the ring is then proved once per kind. `TypeInv` is inductive:
it joins the types of the threads and of the data with `RingOK` (the engaged
slots are the `size_` slots from `head_` on, `tail_` is the next one), without
which a push could overwrite and the types of the ring would not be preserved,
and with the fact that a producer inside a call has an event left. The lemmas on
`At` and `Increment` say what wrap-around does; `Contents` lemmas say that push
appends to and pop takes the head of the queue the ring represents. `SafetyInv`
adds the contract's history invariants, from which refinement follows: each kind
of step maps to an action of `QueueContract` or leaves its variables alone. The
wake-up theorems use `WakeInv`: the events (slots) nobody has been promised are
no more than the wake-ups still under way - threads already woken, and threads
that have left the mutex but not yet notified - or nobody sleeps. Counting them
(`Credit`, `Served`) is what makes the invariant inductive when threads barge in.

**Lock-free queue.** The gates carry the argument (`QueueInv`): `active` counts
exactly the threads inside an operation (`Counted`), so a closed gate that has
reached zero stays empty; a closer that discards therefore finds every slot at
rest (`ClosersOK`) and nothing is popped after something was discarded
(`HistoriesOK`). `OnePlace` has each index free, published or held, once;
`SlotsOK` has a slot engaged exactly while somebody will destroy its event.
For the refinement, the abstract queue is what the published indices stand for
(`Items`). Publishing appends to it and dequeuing takes its head, since the slot an
index leads to is not touched between the two. While a closer destroys events the
abstract queue is already empty, and what is destroyed plus what is left stays the
same, so those steps are stutters; the gates give that nobody publishes or dequeues
then, and that only one closer is there (`DiscardingFacts`).

**Index ring.** The argument (`RingInv`) is about what a dequeuer leaves behind: a
ticket that has been drawn and looked at is closed, because its entry then carries
that cycle, or a newer one, or is unsafe (`PassedClosed`). An enqueuer that finds a
safe entry of an older cycle thus knows that its ticket is open. One that finds an
unsafe entry reads `head_`, and what it learnt is still true at its
compare-exchange because an entry never takes a word again that it has given up
(`SeenOK`, `CasOK`): this is where the unsafe bit and the check of `head_` are needed.

**Honest emptiness.** The threshold starts at three times the capacity less one, and
the argument has to account for that budget. Consider the window of tickets that
enqueuers have drawn and dequeuers have not, `head_` up to `tail_`. A ticket in it is
in place, carried by an enqueuer, or skipped. Tickets of the first two kinds hold
different indices, so there are at most `Capacity` of them. A ticket is skipped
because its entry still held an index of an earlier cycle; `SkipOK` has an injection
that blames each skipped ticket on the index that blocked it, and an index that left
such an entry can only come back with a later ticket. So there are at most `Capacity`
skipped tickets too, and the window fits into the ring (`WindowBounded`) - which in
turn is why the blamed indices stay different. This part needs no bound on threads.
An index that waits is then at most `2 * Capacity - 1` tickets away from the head when
its enqueuer arms the threshold, and what remains pays for the dequeuers that have
drawn a ticket and may still lower the threshold, of which there must not be more than
`Capacity` (`ThresholdOK`): a dequeuer that fails moves the head one ticket nearer to
what waits before it lowers the threshold by one. So a spent threshold means that
nothing waits, and a dequeuer that found the tail overtaken has seen the ring empty
by itself (`SeenEmpty`).

**Subscriber.** A step moves one thread and at most wakes others (`Near`), so the
sets that the properties count - who is inside an invocation, who carries an
offered event - change by that thread only, which `CountMove` turns into
arithmetic. `SubInv` has `in_flight_` count the invocations (`InFlightOK`), each
offer counted or in somebody's hands (`Accounted`), the mailbox's flags and ledger
(`MailOK`) and what the executor has taken and delivered (`DeliveriesOK`).

**Dispatcher.** `DispInv` has a part per concern: publications and the numbering of
events, queue, batches, construction, shutdown, metrics, handles, registry,
audiences. `StepKinds` sorts every step into one of five concerns with a frame
(what it leaves alone: `PublishFrame`, `WorkFrame`, ...), and a step that keeps
workers where they are, or inside the same callback, is `Calm`; each part is then
argued for the actions of its own concern only. Why no audience misses an event:
an event's audience is in the registry when it is pushed (`RegistryOK`: the
current list, and the list a writer is about to publish, hold every held
subscriber), hence in the snapshot that is taken after the event was popped
(`Owes`), and the round of its broadcast offers it to each (`Due`, `Gives`); a
writer's list stays right because subscribers become held only at `Registered`,
under `writer_mutex`. Why membership is frozen: `Registered` implies that the
lifecycle is still running (`HandlesOK`), as subscribe keeps `lifecycle_mutex_`.
Why a returned shutdown is complete: "returned" is reached only in a stopped
dispatcher, which has `WorkersDone`; a worker of the program ends only on a closed
and empty queue (`ended`), and one that is done has an empty batch, so the
queue's ledger leaves taken and discarded events only. `accepted` lags behind the
pushes by the calls that are about to count (`AcceptedOK`), and every publication
tried is pushed, rejected or in the hands of the call that tries it, unless its event
has been lost to an exception (`RejectedOK`).

`OrderInv` adds what the order of delivery needs, for a program with one worker.
Workers outside the program are done from the start (`Unstarted`), so nobody else
pops. The worker's batch is the end of what was taken (`SuffixOK`): the rest it is
done with. What a subscriber has been given lies in that rest, or is the batch's
head and then the round is past the subscriber (`HeardOK`); it is not called again
for the same event because the snapshot, and what is left of it, have each
subscriber once (`ListsOK`, from `RegistryOK`). So an event that is given is later
in `taken` than all that were given before, and taken events are in the order
of the pushes.

Only model-checked are the liveness properties, which depend on fairness and are out
of the prover's reach: `ProducersReleased`, `ConsumersReleased`, `CancelReturns`,
`MailboxWakesUp`, `CallsReturn`, `EventsAreHandled`, `SomeCallReturns`.

`ClosedIsFinal` and `StoppedIsSilent` are refuted (findings 1 and 4), so there is
nothing to prove about them.

## 5. Not modelled

* Weak memory: TLC explores interleavings of sequentially consistent steps. The
  relaxed accesses to `threshold_` and the acquire/release pairs are taken to be
  strong enough.
* Wrap-around of 64-bit tickets, epochs, identifiers and counters.
* A dispatcher with isolated subscribers as one composition: a lossless mailbox
  that holds up workers is in `SubscriberState`, with the dispatcher's shutdown
  reduced to what it does to one subscriber; the product of both models is out of
  TLC's reach.
* `~subscriber_state` and `~snapshot_registry`: they repeat `stop_delivery(false)`
  when nobody else can reach the object.
* The callback-error and slow-callback counters and the user's error handler.
* The polling condition variable of the lock-free queue's timed push.
* Configuration values and their validation, object layout, examples, benchmarks.

## 6. Plan

Done, in this order: `QueueContract`, `BoundedMutexQueue` and its proofs,
`SubscriberState`, `Dispatcher`, `LockFreeQueue`, `IndexRing`; construction,
destruction and what callbacks may call in `Dispatcher`.

Proved, in this order: `BoundedMutexQueue`, `IndexRing`, `LockFreeQueue`,
`SubscriberState`, `Dispatcher`, the order of delivery, honest emptiness of the index
ring, the lock-free queue as a contract queue.

Every safety invariant, action property and refinement of the passing runs is proved.
What is left:

* whether the ring is honest for dequeuers between `Capacity`, where it is proved, and
  three times that number, where the run of finding 5 refutes it;
* the memory orders of the lock-free queue and the ring;
* tickets that wrap around, which `before` is written for;
* the dispatcher composed with isolated subscribers.
