------------------------ MODULE DispatcherOrderProofs ------------------------
(***************************************************************************)
(* With one worker every subscriber of a Dispatcher is given events at     *)
(* most once and in the order of the queue, whatever the batch size, the   *)
(* number of subscribers and what clients and callbacks do meanwhile.      *)
(*                                                                         *)
(* The batch of the only worker is the end of what was taken from the      *)
(* queue.  What a subscriber has been given lies before the batch, or is   *)
(* its first event, and then the round of that event is past the           *)
(* subscriber; it will not come again, as a list has a subscriber once.    *)
(***************************************************************************)
EXTENDS DispatcherProofs

(* The pool has started no other workers. *)
Unstarted == \A w \in Workers \ program.threads : pc[w] = "done"

Alone(w) == Workers \cap program.threads = {w}

(* How many of the taken events the only worker is done with. *)
Done(w) == Len(taken) - Len(batch[w])

(* The batch is the end of what was taken. *)
SuffixOK(w) ==
    Done(w) \in Nat /\ \A k \in 1..Len(batch[w]) : batch[w][k] = taken[Done(w) + k]

(* The snapshot, and what is left of it, have a subscriber once. *)
ListsOK(w) == Distinct(snapshot[w]) /\ Distinct(todo[w])

(* The subscribers that the round of the current event will still call. *)
Awaiting(w) == Elements(IF InCallback(w) THEN Tail(todo[w]) ELSE todo[w])

Passed(w, e) == \E m \in 1..Done(w) : taken[m] = e
InRound(w, s, e) == Broadcasting(w) /\ e = Head(batch[w]) /\ s \notin Awaiting(w)

(* What a subscriber has been given. *)
HeardOK(w) == \A s \in Subscribers : \A e \in Elements(heard[s]) : Passed(w, e) \/ InRound(w, s, e)

Before(e, f) == \E m, n \in DOMAIN taken : m < n /\ taken[m] = e /\ taken[n] = f
InOrder == \A s \in Subscribers : \A i, j \in DOMAIN heard[s] : i < j => Before(heard[s][i], heard[s][j])

OrderOf(w) == SuffixOK(w) /\ ListsOK(w) /\ HeardOK(w) /\ InOrder

(* The inductive invariant, beside DispInv. *)
OrderInv == Unstarted /\ \A w \in Workers : Alone(w) => OrderOf(w)
-----------------------------------------------------------------------------
(* Steps of others. *)

LEMMA ProgramFixed == ASSUME DispInv, Next PROVE program' = program
<1>1. ASSUME NEW t \in Callers, Publication(t) PROVE program' = program
  BY <1>1 DEF Publication, PublishFrame, life
<1>2. ASSUME NEW w \in Workers, Work(w) PROVE program' = program
  BY <1>2 DEF Work, WorkFrame, life
<1>3. ASSUME NEW t \in Registrants, Membership(t) PROVE program' = program
  BY <1>3 DEF Membership, MemberFrame
<1>4. ASSUME NEW t \in Stoppers \cup {Owner}, Stopping(t) PROVE program' = program
  BY <1>4 DEF Stopping, StopFrame
<1>5. ASSUME Construction \/ Rest PROVE program' = program
  BY <1>5 DEF Construction, Construct, ConstructFails, Abandon, Rest, life, vars
<1> QED BY <1>1, <1>2, <1>3, <1>4, <1>5, StepKinds

(* A step is a worker's, the failure of the constructor, or calm. *)
LEMMA OrderKinds ==
    ASSUME DispInv, Next
    PROVE  Calm \/ ConstructFails \/ \E w \in Workers : Work(w)
BY StepKinds, CalmSteps DEF Construction

LEMMA UnstartedStep == ASSUME DispInv, Unstarted, Next PROVE Unstarted'
<1> USE ThreadFacts
<1>1. program' = program
  BY ProgramFixed
<1>2. CASE Calm
  BY <1>1, <1>2, CallbackFacts DEF Unstarted, Calm
<1>3. CASE ConstructFails
  BY <1>1, <1>3 DEF Unstarted, ConstructFails
<1>4. ASSUME NEW v \in Workers, Work(v) PROVE Unstarted'
  <2>1. \A u \in Threads \ {v} : pc'[u] = pc[u]
    BY <1>4 DEF Work, WorkFrame, Moves
  <2>2. pc[v] # "done"
    BY <1>4 DEF Work, WorkFrame
  <2> QED BY <1>1, <2>1, <2>2 DEF Unstarted
<1> QED BY <1>2, <1>3, <1>4, OrderKinds

LEMMA SameHistory ==
    ASSUME NEW w \in Workers, OrderOf(w), UNCHANGED <<taken, batch, heard>>
    PROVE  Done(w)' = Done(w) /\ SuffixOK(w)' /\ InOrder'
<1>1. Done(w)' = Done(w)
  BY DEF Done
<1>2. SuffixOK(w)'
  <2>1. Done(w) \in Nat /\ \A k \in 1..Len(batch[w]) : batch[w][k] = taken[Done(w) + k]
    BY DEF OrderOf, SuffixOK
  <2> QED BY <1>1, <2>1 DEF SuffixOK
<1>3. InOrder'
  BY DEF OrderOf, InOrder, Before
<1> QED BY <1>1, <1>2, <1>3

LEMMA OrderKept ==
    ASSUME NEW w \in Workers, OrderOf(w), UNCHANGED <<taken, batch, snapshot, todo, heard>>,
           Broadcasting(w)' <=> Broadcasting(w), InCallback(w)' <=> InCallback(w)
    PROVE  OrderOf(w)'
<1>1. Done(w)' = Done(w) /\ SuffixOK(w)' /\ InOrder' /\ ListsOK(w)'
  BY SameHistory DEF OrderOf, ListsOK
<1>2. Awaiting(w)' = Awaiting(w)
  BY DEF Awaiting
<1>3. HeardOK(w)'
  BY <1>1, <1>2 DEF OrderOf, HeardOK, Passed, InRound
<1> QED BY <1>1, <1>3 DEF OrderOf

LEMMA OrderCalm ==
    ASSUME DispInv, LabelsOK', NEW w \in Workers, OrderOf(w), Calm
    PROVE  OrderOf(w)'
<1>1. LabelsOK
  BY DEF DispInv
<1>2. (InCallback(w)' <=> InCallback(w)) /\ (pc'[w] = "offer" <=> pc[w] = "offer")
  BY <1>1, CalmCallbacks
<1>3. Broadcasting(w)' <=> Broadcasting(w)
  BY <1>2 DEF Broadcasting
<1> QED BY <1>2, <1>3, OrderKept DEF Calm, working

LEMMA OrderFails ==
    ASSUME DispInv, NEW w \in Workers, OrderOf(w), ConstructFails
    PROVE  OrderOf(w)'
<1>1. pc[w] \in {"loop", "done"} /\ pc'[w] \in {"loop", "done"}
  BY ThreadFacts DEF ConstructFails, DispInv, CreatedOK
<1>2. ~InCallback(w) /\ ~InCallback(w)' /\ ~Broadcasting(w) /\ ~Broadcasting(w)'
  BY <1>1 DEF Broadcasting, InCallback
<1> QED BY <1>2, OrderKept DEF ConstructFails, queue, working, histories
-----------------------------------------------------------------------------
(* The steps of the worker. *)

(* A pop: the event goes to the end of taken and of the batch. *)
LEMMA PopKeepsOrder ==
    ASSUME Types, NEW w \in Workers, OrderOf(w), NEW e \in Nat, ~Broadcasting(w), ~Broadcasting(w)',
           taken' = Append(taken, e), batch' = [batch EXCEPT ![w] = Append(batch[w], e)],
           UNCHANGED <<snapshot, todo, heard>>
    PROVE  OrderOf(w)'
<1>1. taken \in Seq(Nat) /\ batch[w] \in Seq(Nat) /\ batch'[w] = Append(batch[w], e)
  BY DEF Types
<1> DEFINE n == Len(taken)
           b == Len(batch[w])
<1>2. /\ n \in Nat /\ b \in Nat /\ DOMAIN taken = 1..n
      /\ Len(taken') = n + 1 /\ DOMAIN taken' = 1..(n + 1) /\ taken'[n + 1] = e /\ \A i \in 1..n : taken'[i] = taken[i]
      /\ Len(batch'[w]) = b + 1 /\ batch'[w][b + 1] = e /\ \A i \in 1..b : batch'[w][i] = batch[w][i]
  <2>1. n \in Nat /\ b \in Nat /\ DOMAIN taken = 1..n
    BY <1>1, LenProperties
  <2>2. /\ Append(taken, e) \in Seq(Nat) /\ Len(Append(taken, e)) = n + 1 /\ Append(taken, e)[n + 1] = e
        /\ \A i \in 1..n : Append(taken, e)[i] = taken[i]
    BY <1>1, AppendProperties
  <2>3. /\ Len(Append(batch[w], e)) = b + 1 /\ Append(batch[w], e)[b + 1] = e
        /\ \A i \in 1..b : Append(batch[w], e)[i] = batch[w][i]
    BY <1>1, AppendProperties
  <2>4. DOMAIN Append(taken, e) = 1..(n + 1)
    BY <2>2, LenProperties
  <2> QED BY <1>1, <2>1, <2>2, <2>3, <2>4
<1>3. Done(w) = n - b /\ Done(w)' = (n + 1) - (b + 1) /\ n - b \in Nat
  BY <1>2 DEF Done, OrderOf, SuffixOK
<1>4. (n + 1) - (b + 1) = n - b
  BY <1>2
<1>5. Done(w)' = Done(w)
  BY <1>3, <1>4
<1>6. SuffixOK(w)'
  <2>1. ASSUME NEW k \in 1..(b + 1) PROVE batch'[w][k] = taken'[(n - b) + k]
    <3>1. CASE k = b + 1
      <4>1. (n - b) + (b + 1) = n + 1
        <5> HIDE DEF n, b
        <5> QED BY <1>2
      <4> QED BY <1>2, <3>1, <4>1
    <3>2. CASE k # b + 1
      <4>1. k \in 1..b /\ (n - b) + k \in 1..n
        BY <1>2, <1>3, <3>2
      <4>2. batch[w][k] = taken[(n - b) + k]
        BY <1>3, <4>1 DEF OrderOf, SuffixOK
      <4> QED BY <1>2, <4>1, <4>2
    <3> QED BY <3>1, <3>2
  <2>2. Done(w)' = n - b
    BY <1>3, <1>5
  <2> HIDE DEF n, b
  <2>3. \A k \in 1..Len(batch'[w]) : batch'[w][k] = taken'[(n - b) + k]
    BY <1>2, <2>1
  <2> QED BY <1>3, <2>2, <2>3 DEF SuffixOK
<1>7. HeardOK(w)'
  <2>1. ASSUME NEW s \in Subscribers, NEW x \in Elements(heard[s]) PROVE Passed(w, x)'
    <3>1. PICK m \in 1..Done(w) : taken[m] = x
      BY DEF OrderOf, HeardOK, Passed, InRound
    <3>2. m \in 1..n
      BY <1>2, <1>3, <3>1
    <3>3. taken'[m] = x
      BY <1>2, <3>1, <3>2
    <3> QED BY <1>5, <3>1, <3>3 DEF Passed
  <2> QED BY <2>1 DEF HeardOK
<1>8. InOrder'
  <2>1. ASSUME NEW s \in Subscribers, NEW k \in DOMAIN heard[s], NEW l \in DOMAIN heard[s], k < l
        PROVE  \E i, j \in DOMAIN taken' : i < j /\ taken'[i] = heard[s][k] /\ taken'[j] = heard[s][l]
    <3>1. PICK i, j \in 1..n : i < j /\ taken[i] = heard[s][k] /\ taken[j] = heard[s][l]
      BY <1>2, <2>1 DEF OrderOf, InOrder, Before
    <3>2. i \in 1..(n + 1) /\ j \in 1..(n + 1) /\ taken'[i] = heard[s][k] /\ taken'[j] = heard[s][l]
      BY <1>2, <3>1
    <3> QED BY <1>2, <3>1, <3>2
  <2> QED BY <2>1 DEF InOrder, Before
<1> QED BY <1>6, <1>7, <1>8 DEF OrderOf, ListsOK

LEMMA OrderWaitsPops ==
    ASSUME DispInv, NEW w \in Workers, OrderOf(w), WaitPop(w) \/ FillBatch(w)
    PROVE  OrderOf(w)'
<1> USE ThreadFacts
<1>1. Types /\ BatchOK /\ items \in Seq(Nat) /\ pc \in [Threads -> Labels] /\ batch[w] \in Seq(Nat)
  BY DEF DispInv, Types
<1>2. pc[w] \in {"loop", "fill"} /\ UNCHANGED <<snapshot, todo, heard>>
  BY DEF WaitPop, FillBatch, histories
<1>3. \A l : Goto(w, l) => pc'[w] = l
  BY <1>1 DEF Goto
<1>4. pc'[w] \in {"fill", "done", "snapshot"}
  BY <1>1, <1>2, <1>3 DEF WaitPop, FillBatch
<1>5. ~InCallback(w) /\ ~InCallback(w)' /\ ~Broadcasting(w) /\ ~Broadcasting(w)'
  BY <1>2, <1>4 DEF Broadcasting, InCallback
<1>6. CASE UNCHANGED <<taken, batch>>
  BY <1>2, <1>5, <1>6, OrderKept
<1>7. CASE Queue!Pop /\ batch' = [batch EXCEPT ![w] = Append(batch[w], Head(items))]
  <2>1. Head(items) \in Nat /\ taken' = Append(taken, Head(items))
    BY <1>1, <1>7, TailElements DEF Queue!Pop
  <2> QED BY <1>1, <1>2, <1>5, <1>7, <2>1, PopKeepsOrder
<1>8. ASSUME WaitPop(w) PROVE <1>6!1 \/ <1>7!1
  <2>1. batch[w] = <<>> /\ Append(<<>>, Head(items)) = <<Head(items)>>
    BY <1>1, <1>8 DEF WaitPop, BatchOK
  <2> QED BY <1>8, <2>1 DEF WaitPop, EndOfStream, Queue!PopClosed, queue
<1>9. ASSUME FillBatch(w) PROVE <1>6!1 \/ <1>7!1
  BY <1>9 DEF FillBatch, Extended, EndOfStream, Queue!PopClosed, queue
<1> QED BY <1>6, <1>7, <1>8, <1>9

LEMMA OrderSnapshots ==
    ASSUME DispInv, NEW w \in Workers, OrderOf(w), AcquireSnapshot(w)
    PROVE  OrderOf(w)'
<1> USE ThreadFacts
<1>1. Types /\ Distinct(current)
  BY DEF DispInv, RegistryOK
<1>2. ~Broadcasting(w) /\ UNCHANGED <<taken, batch, heard>>
  BY DEF AcquireSnapshot, Broadcasting, InCallback, queue, histories
<1>3. snapshot'[w] = current /\ todo'[w] = current
  BY <1>1 DEF AcquireSnapshot, Types
<1>4. Done(w)' = Done(w) /\ SuffixOK(w)' /\ InOrder' /\ ListsOK(w)'
  BY <1>1, <1>2, <1>3, SameHistory DEF ListsOK
<1>5. HeardOK(w)'
  BY <1>2, <1>4 DEF OrderOf, HeardOK, Passed, InRound
<1> QED BY <1>4, <1>5 DEF OrderOf

(* The batch starts with the first event the worker is not done with. *)
LEMMA BatchHead ==
    ASSUME DispInv, NEW w \in Workers, OrderOf(w), Broadcasting(w)
    PROVE  /\ batch[w] \in Seq(Nat) /\ batch[w] # <<>> /\ Len(batch[w]) \in Nat \ {0} /\ Done(w) \in Nat
           /\ Done(w) + 1 \in DOMAIN taken /\ taken[Done(w) + 1] = Head(batch[w])
<1>1. taken \in Seq(Nat) /\ batch[w] \in Seq(Nat) /\ batch[w] # <<>>
  BY DEF DispInv, Types, BatchOK, Broadcasting, InCallback
<1>2. Len(batch[w]) \in Nat \ {0} /\ Len(taken) \in Nat /\ DOMAIN taken = 1..Len(taken) /\ Head(batch[w]) = batch[w][1]
  BY <1>1, LenProperties, TailElements, EmptySeq
<1>3. Done(w) \in Nat /\ batch[w][1] = taken[Done(w) + 1]
  BY <1>2 DEF OrderOf, SuffixOK
<1>4. Done(w) + 1 \in 1..Len(taken)
  BY <1>2, <1>3 DEF Done
<1> QED BY <1>1, <1>2, <1>3, <1>4

(* The lists that are left are the ones that were there, or shorter. *)
LEMMA OrderRound ==
    ASSUME NEW w \in Workers, OrderOf(w), Broadcasting(w), Broadcasting(w)', Awaiting(w)' \subseteq Awaiting(w),
           UNCHANGED <<taken, batch, heard>>, ListsOK(w)'
    PROVE  OrderOf(w)'
<1>1. Done(w)' = Done(w) /\ SuffixOK(w)' /\ InOrder'
  BY SameHistory
<1>2. HeardOK(w)'
  BY <1>1 DEF OrderOf, HeardOK, Passed, InRound
<1> QED BY <1>1, <1>2 DEF OrderOf

LEMMA OrderInvokes ==
    ASSUME DispInv, NEW w \in Workers, OrderOf(w), Invoke(w)
    PROVE  OrderOf(w)'
<1> USE ThreadFacts
<1>1. Types /\ pc \in [Threads -> Labels] /\ heard \in [Subscribers -> Seq(Nat)] /\ todo \in [Workers -> Seq(Subscribers)]
  BY DEF DispInv, Types
<1>2. /\ pc[w] = "offer" /\ ~InCallback(w) /\ Broadcasting(w) /\ todo[w] \in Seq(Subscribers) /\ todo[w] # <<>>
      /\ UNCHANGED <<taken, batch, snapshot>>
  BY <1>1 DEF Invoke, InCallback, Broadcasting, queue
<1> DEFINE s == Head(todo[w])
           e == Head(batch[w])
<1>3. /\ s \in Subscribers /\ s \in Elements(todo[w]) /\ Distinct(todo[w]) /\ Distinct(Tail(todo[w]))
      /\ Elements(Tail(todo[w])) = Elements(todo[w]) \ {s}
  BY <1>2, TailElements DEF OrderOf, ListsOK
<1>4. Awaiting(w) = Elements(todo[w])
  BY <1>2 DEF Awaiting
<1>5. CASE todo' = [todo EXCEPT ![w] = Tail(@)] /\ UNCHANGED <<pc, heard>>
  <2>1. todo'[w] = Tail(todo[w]) /\ Broadcasting(w)' /\ ~InCallback(w)'
    BY <1>1, <1>2, <1>5 DEF Broadcasting, InCallback
  <2>2. Awaiting(w)' = Elements(Tail(todo[w]))
    BY <2>1 DEF Awaiting
  <2>3. ListsOK(w)'
    BY <1>2, <1>3, <2>1 DEF OrderOf, ListsOK
  <2> QED BY <1>2, <1>3, <1>4, <1>5, <2>1, <2>2, <2>3, OrderRound
<1>6. CASE heard' = [heard EXCEPT ![s] = Append(@, e)] /\ Goto(w, "callback") /\ UNCHANGED todo
  <2>1. pc'[w] = "callback" /\ InCallback(w)' /\ Broadcasting(w)'
    BY <1>1, <1>6 DEF Goto, InCallback, Broadcasting
  <2>2. Awaiting(w)' = Elements(todo[w]) \ {s}
    BY <1>3, <1>6, <2>1 DEF Awaiting
  <2>3. /\ batch[w] \in Seq(Nat) /\ batch[w] # <<>> /\ Done(w) \in Nat
        /\ Done(w) + 1 \in DOMAIN taken /\ taken[Done(w) + 1] = e /\ e \in Nat
    BY <1>2, BatchHead, TailElements
  <2>4. heard'[s] = Append(heard[s], e) /\ heard[s] \in Seq(Nat) /\ \A x \in Subscribers \ {s} : heard'[x] = heard[x]
    BY <1>1, <1>3, <1>6
  <2>5. Elements(heard'[s]) = Elements(heard[s]) \cup {e}
    BY <2>3, <2>4, AppendElements
  <2>6. SuffixOK(w)' /\ ListsOK(w)'
    BY <1>2, <1>6 DEF OrderOf, SuffixOK, ListsOK, Done
  <2>7. ASSUME NEW f \in Elements(heard[s]) PROVE Passed(w, f)
    BY <1>3, <1>4 DEF OrderOf, HeardOK, InRound
  <2>8. HeardOK(w)'
    <3>1. ASSUME NEW f, Passed(w, f) PROVE Passed(w, f)'
      BY <1>2, <3>1 DEF Passed, Done
    <3>2. ASSUME NEW x \in Subscribers \ {s}, NEW f, InRound(w, x, f) PROVE InRound(w, x, f)'
      BY <1>2, <1>4, <2>1, <2>2, <3>2 DEF InRound
    <3>3. Broadcasting(w)' /\ e = Head(batch'[w]) /\ s \notin Awaiting(w)'
      BY <1>2, <2>1, <2>2
    <3>4. ASSUME NEW x \in Subscribers, NEW f \in Elements(heard'[x]) PROVE Passed(w, f)' \/ InRound(w, x, f)'
      <4>1. CASE x = s
        <5>1. f \in Elements(heard[s]) \/ f = e
          BY <2>5, <3>4, <4>1
        <5>2. CASE f \in Elements(heard[s])
          BY <2>7, <3>1, <5>2
        <5>3. CASE f = e
          BY <3>3, <4>1, <5>3 DEF InRound
        <5> QED BY <5>1, <5>2, <5>3
      <4>2. CASE x # s
        <5>1. f \in Elements(heard[x])
          BY <2>4, <4>2
        <5> QED BY <3>1, <3>2, <4>2, <5>1 DEF OrderOf, HeardOK
      <4> QED BY <4>1, <4>2
    <3> QED BY <3>4 DEF HeardOK
  <2>9. InOrder'
    <3>2. ASSUME NEW f \in Elements(heard[s]) PROVE Before(f, e)
      <4>1. PICK m \in 1..Done(w) : taken[m] = f
        BY <2>7 DEF Passed
      <4>2. m \in DOMAIN taken /\ m < Done(w) + 1
        <5>1. DOMAIN taken = 1..Len(taken) /\ Len(taken) \in Nat
          BY <1>1, LenProperties DEF Types
        <5> QED BY <2>3, <4>1, <5>1
      <4> QED BY <2>3, <4>1, <4>2 DEF Before
    <3>3. ASSUME NEW i \in DOMAIN heard'[s], NEW j \in DOMAIN heard'[s], i < j PROVE Before(heard'[s][i], heard'[s][j])
      <4> DEFINE n == Len(heard[s])
      <4>1. n \in Nat /\ DOMAIN heard[s] = 1..n
        BY <2>4, LenProperties
      <4>2. /\ Append(heard[s], e) \in Seq(Nat) /\ Len(Append(heard[s], e)) = n + 1 /\ Append(heard[s], e)[n + 1] = e
            /\ \A k \in 1..n : Append(heard[s], e)[k] = heard[s][k]
        BY <2>3, <2>4, AppendProperties
      <4>3. DOMAIN Append(heard[s], e) = 1..(n + 1)
        BY <4>2, LenProperties
      <4>4. i \in 1..(n + 1) /\ j \in 1..(n + 1)
        BY <2>4, <3>3, <4>3
      <4>5. i \in 1..n
        BY <3>3, <4>1, <4>4
      <4>6. heard'[s][i] = heard[s][i] /\ heard[s][i] \in Elements(heard[s])
        BY <2>4, <4>1, <4>2, <4>5 DEF Elements
      <4>7. CASE j = n + 1
        BY <2>4, <3>2, <4>2, <4>6, <4>7
      <4>8. CASE j # n + 1
        <5>1. j \in 1..n
          BY <4>1, <4>4, <4>8
        <5>2. heard'[s][j] = heard[s][j]
          BY <2>4, <4>2, <5>1
        <5> QED BY <1>3, <3>3, <4>1, <4>5, <4>6, <5>1, <5>2 DEF OrderOf, InOrder
      <4> QED BY <4>7, <4>8
    <3>4. ASSUME NEW x \in Subscribers, NEW i \in DOMAIN heard'[x], NEW j \in DOMAIN heard'[x], i < j
          PROVE  Before(heard'[x][i], heard'[x][j])
      <4>1. CASE x = s
        BY <3>3, <3>4, <4>1
      <4>2. CASE x # s
        <5>1. heard'[x] = heard[x]
          BY <2>4, <4>2
        <5> QED BY <3>4, <5>1 DEF OrderOf, InOrder
      <4> QED BY <4>1, <4>2
    <3> QED BY <1>2, <3>4 DEF InOrder, Before
  <2> QED BY <2>6, <2>8, <2>9 DEF OrderOf
<1> QED BY <1>5, <1>6 DEF Invoke

LEMMA OrderReturns ==
    ASSUME DispInv, NEW w \in Workers, OrderOf(w), CallbackReturns(w)
    PROVE  OrderOf(w)'
<1> USE ThreadFacts
<1>1. Types /\ BatchOK /\ pc \in [Threads -> Labels] /\ todo \in [Workers -> Seq(Subscribers)]
  BY DEF DispInv, Types
<1>2. /\ pc[w] = "callback" /\ InCallback(w) /\ Broadcasting(w) /\ UNCHANGED <<taken, batch, snapshot, heard>>
  BY DEF CallbackReturns, InCallback, Broadcasting, queue, histories
<1>3. pc'[w] = "offer" /\ ~InCallback(w)' /\ Broadcasting(w)' /\ todo'[w] = Tail(todo[w])
  BY <1>1 DEF CallbackReturns, Goto, InCallback, Broadcasting
<1>4. todo[w] # <<>> /\ Distinct(Tail(todo[w]))
  BY <1>1, <1>2, TailElements DEF BatchOK, OrderOf, ListsOK
<1>5. Awaiting(w)' = Awaiting(w)
  BY <1>2, <1>3 DEF Awaiting
<1>6. ListsOK(w)'
  BY <1>2, <1>3, <1>4 DEF OrderOf, ListsOK
<1> QED BY <1>2, <1>3, <1>5, <1>6, OrderRound

LEMMA OrderNext ==
    ASSUME DispInv, NEW w \in Workers, OrderOf(w), NextEvent(w)
    PROVE  OrderOf(w)'
<1> USE ThreadFacts
<1>1. /\ Types /\ batch \in [Workers -> Seq(Nat)] /\ taken \in Seq(Nat)
      /\ snapshot \in [Workers -> Seq(Subscribers)] /\ todo \in [Workers -> Seq(Subscribers)]
  BY DEF DispInv, Types
<1>2. Broadcasting(w) /\ UNCHANGED <<taken, heard>> /\ batch'[w] = Tail(batch[w])
  BY <1>1 DEF NextEvent, Broadcasting, queue, histories
<1> DEFINE b == Len(batch[w])
           d == Done(w)
<1>3. /\ batch[w] \in Seq(Nat) /\ batch[w] # <<>> /\ b \in Nat \ {0} /\ d \in Nat
      /\ d + 1 \in DOMAIN taken /\ taken[d + 1] = Head(batch[w])
  BY <1>2, BatchHead
<1>4. Len(batch'[w]) = b - 1 /\ \A k \in 1..(b - 1) : batch'[w][k] = batch[w][k + 1]
  <2>1. Tail(batch[w]) = [i \in 1..(b - 1) |-> batch[w][i + 1]] /\ Len(Tail(batch[w])) = b - 1
    BY <1>3, TailAsFunction, TailElements
  <2> QED BY <1>2, <2>1
<1>5. Done(w)' = d + 1
  <2>1. Len(taken) \in Nat /\ d = Len(taken) - b
    BY <1>1, LenProperties DEF Done
  <2>2. Len(taken) - (b - 1) = d + 1
    BY <1>3, <2>1
  <2>3. Done(w)' = Len(taken) - Len(batch'[w])
    BY <1>2 DEF Done
  <2> QED BY <1>4, <2>2, <2>3
<1>6. SuffixOK(w)'
  <2>1. ASSUME NEW k \in 1..(b - 1) PROVE batch[w][k + 1] = taken[(d + 1) + k]
    <3>1. k + 1 \in 1..b /\ d + (k + 1) = (d + 1) + k
      <4>1. b \in Nat /\ d \in Nat
        BY <1>3
      <4> HIDE DEF b, d
      <4> QED BY <4>1
    <3> QED BY <3>1 DEF OrderOf, SuffixOK
  <2> HIDE DEF d, b
  <2>2. d + 1 \in Nat
    BY <1>3
  <2>3. \A k \in 1..Len(batch'[w]) : batch'[w][k] = taken'[(d + 1) + k]
    BY <1>2, <1>4, <2>1
  <2> QED BY <1>5, <2>2, <2>3 DEF SuffixOK
<1>7. ListsOK(w)'
  <2>1. Distinct(snapshot[w]) /\ Distinct(todo[w])
    BY DEF OrderOf, ListsOK
  <2>2. snapshot'[w] \in {snapshot[w], <<>>} /\ todo'[w] \in {todo[w], snapshot[w]}
    BY <1>1 DEF NextEvent
  <2> QED BY <2>1, <2>2, EmptyFacts DEF ListsOK
<1>8. HeardOK(w)'
  <2>1. ASSUME NEW s \in Subscribers, NEW e \in Elements(heard[s]) PROVE \E m \in 1..(d + 1) : taken[m] = e
    <3>1. Passed(w, e) \/ e = Head(batch[w])
      BY DEF OrderOf, HeardOK, InRound
    <3>2. CASE Passed(w, e)
      <4>1. PICK m \in 1..d : taken[m] = e
        BY <3>2 DEF Passed
      <4>2. m \in 1..(d + 1)
        BY <1>3, <4>1
      <4> QED BY <4>1, <4>2
    <3>3. CASE e = Head(batch[w])
      <4>1. d + 1 \in 1..(d + 1)
        BY <1>3
      <4> QED BY <1>3, <3>3, <4>1
    <3> QED BY <3>1, <3>2, <3>3
  <2> HIDE DEF d, b
  <2>2. ASSUME NEW s \in Subscribers, NEW e \in Elements(heard'[s]) PROVE Passed(w, e)'
    BY <1>2, <1>5, <2>1 DEF Passed
  <2> QED BY <2>2 DEF HeardOK
<1>9. InOrder'
  BY <1>2 DEF OrderOf, InOrder, Before
<1> QED BY <1>6, <1>7, <1>8, <1>9 DEF OrderOf
-----------------------------------------------------------------------------
(* The invariant holds. *)

LEMMA OrderStep == ASSUME DispInv, OrderInv, Next PROVE OrderInv'
<1> USE ThreadFacts
<1>1. Unstarted' /\ program' = program /\ LabelsOK'
  BY UnstartedStep, ProgramFixed, LabelsStep DEF OrderInv
<1>2. ASSUME NEW w \in Workers, Alone(w) PROVE OrderOf(w)'
  <2>1. OrderOf(w)
    BY <1>2 DEF OrderInv
  <2>2. CASE Calm
    BY <1>1, <2>1, <2>2, OrderCalm
  <2>3. CASE ConstructFails
    BY <2>1, <2>3, OrderFails
  <2>4. ASSUME NEW v \in Workers, Work(v) PROVE OrderOf(w)'
    <3>1. pc[v] # "done"
      BY <2>4 DEF Work, WorkFrame
    <3>2. v = w
      BY <1>2, <3>1 DEF Alone, OrderInv, Unstarted
    <3> QED BY <2>1, <2>4, <3>2, OrderWaitsPops, OrderSnapshots, OrderInvokes, OrderReturns, OrderNext
        DEF Work, WorkerStep
  <2> QED BY <2>2, <2>3, <2>4, OrderKinds
<1> QED BY <1>1, <1>2 DEF OrderInv, Alone

LEMMA OrderInit == Init => OrderInv
<1> SUFFICES ASSUME Init PROVE OrderInv
  OBVIOUS
<1>1. Unstarted
  BY InitPc DEF Unstarted
<1>2. ASSUME NEW w \in Workers PROVE OrderOf(w)
  <2>1. taken = <<>> /\ batch[w] = <<>> /\ snapshot[w] = <<>> /\ todo[w] = <<>> /\ \A s \in Subscribers : heard[s] = <<>>
    BY DEF Init, Queue!Init
  <2>2. Done(w) = 0
    BY <2>1, EmptyFacts DEF Done
  <2>3. SuffixOK(w) /\ ListsOK(w) /\ HeardOK(w) /\ InOrder
    BY <2>1, <2>2, EmptyFacts DEF SuffixOK, ListsOK, HeardOK, InOrder
  <2> QED BY <2>3 DEF OrderOf
<1> QED BY <1>1, <1>2 DEF OrderInv

LEMMA OrderStutters == OrderInv /\ UNCHANGED vars => OrderInv'
<1> SUFFICES ASSUME OrderInv, UNCHANGED vars PROVE OrderInv'
  OBVIOUS
<1>1. ASSUME NEW w \in Workers, OrderOf(w) PROVE OrderOf(w)'
  <2>1. (Broadcasting(w)' <=> Broadcasting(w)) /\ (InCallback(w)' <=> InCallback(w))
    BY DEF vars, Broadcasting, InCallback
  <2> QED BY <1>1, <2>1, OrderKept DEF vars
<1> QED BY <1>1 DEF OrderInv, Unstarted, Alone, vars

(* With one worker its batch is the end of what was taken, and what subscribers
   were given lies before it, in order. *)
THEOREM OrderInvariant == Spec => []OrderInv
<1>1. DispInv /\ OrderInv /\ [Next]_vars => OrderInv'
  BY OrderStep, OrderStutters
<1> QED BY <1>1, OrderInit, DispatcherInvariant, PTL DEF Spec

(* A taken event has its place among the pushed ones. *)
LEMMA PositionOfTaken ==
    ASSUME DispInv, NEW m \in DOMAIN taken
    PROVE  Position(taken[m]) = m
<1>1. taken \in Seq(Nat) /\ discarded \in Seq(Nat) /\ items \in Seq(Nat) /\ pushed = (taken \o discarded) \o items
      /\ Distinct(pushed)
  BY DEF DispInv, Types, QueueOK, Ledger, PublishOK
<1> DEFINE h == taken \o discarded
<1>2. /\ h \in Seq(Nat) /\ Len(h) = Len(taken) + Len(discarded) /\ Len(taken) \in Nat /\ Len(discarded) \in Nat
      /\ Len(items) \in Nat /\ m \in 1..Len(taken) /\ \A i \in 1..(Len(taken) + Len(discarded)) :
             h[i] = IF i <= Len(taken) THEN taken[i] ELSE discarded[i - Len(taken)]
  BY <1>1, ConcatProperties, LenProperties
<1>3. m \in 1..(Len(taken) + Len(discarded)) /\ h[m] = taken[m]
  BY <1>2
<1>4. pushed = h \o items
  BY <1>1
<1> HIDE DEF h
<1>5. /\ pushed \in Seq(Nat) /\ Len(pushed) = Len(h) + Len(items)
      /\ \A i \in 1..(Len(h) + Len(items)) : pushed[i] = IF i <= Len(h) THEN h[i] ELSE items[i - Len(h)]
  <2>1. /\ h \o items \in Seq(Nat) /\ Len(h \o items) = Len(h) + Len(items)
        /\ \A i \in 1..(Len(h) + Len(items)) : (h \o items)[i] = IF i <= Len(h) THEN h[i] ELSE items[i - Len(h)]
    <3>1. h \in Seq(Nat) /\ items \in Seq(Nat)
      BY <1>1, <1>2
    <3> QED BY <3>1, ConcatProperties
  <2> QED BY <1>4, <2>1
<1>6. m \in 1..(Len(h) + Len(items)) /\ m <= Len(h)
  BY <1>2, <1>3
<1>7. m \in DOMAIN pushed /\ pushed[m] = taken[m]
  <2>1. DOMAIN pushed = 1..(Len(h) + Len(items))
    BY <1>5, LenProperties
  <2> QED BY <1>3, <1>5, <1>6, <2>1
<1>8. Position(taken[m]) \in DOMAIN pushed /\ pushed[Position(taken[m])] = taken[m]
  BY <1>7 DEF Position
<1> QED BY <1>1, <1>7, <1>8 DEF Distinct

LEMMA OrderFollows == DispInv /\ OrderInv => InQueueOrder
<1> SUFFICES ASSUME DispInv, OrderInv, Cardinality(Workers \cap program.threads) = 1,
                    NEW s \in Subscribers, NEW i \in DOMAIN heard[s], NEW j \in DOMAIN heard[s], i < j
             PROVE  Position(heard[s][i]) < Position(heard[s][j])
  BY DEF InQueueOrder
<1>1. IsFiniteSet(Workers \cap program.threads)
  BY DispatcherThreadsAssumption, FS_Subset
<1>2. PICK w : Workers \cap program.threads = {w}
  BY <1>1, FS_Singleton
<1>3. InOrder
  BY <1>2 DEF OrderInv, OrderOf, Alone
<1>4. PICK m, n \in DOMAIN taken : m < n /\ taken[m] = heard[s][i] /\ taken[n] = heard[s][j]
  BY <1>3 DEF InOrder, Before
<1> QED BY <1>4, PositionOfTaken

(* With one worker every subscriber is given events in queue order and none
   twice: batching, callbacks that change the registry, subscribers that come
   and go and failing allocations neither reorder nor repeat an event. *)
THEOREM OneWorkerKeepsOrder == Spec => []InQueueOrder
BY DispatcherInvariant, OrderInvariant, OrderFollows, PTL
=============================================================================
