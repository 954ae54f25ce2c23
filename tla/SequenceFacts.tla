---------------------------- MODULE SequenceFacts ----------------------------
(***************************************************************************)
(* Facts about sequences that the proofs of several components need: what  *)
(* appending and taking the head do to positions, to the set of elements   *)
(* and to a ledger of accepted, taken, discarded and queued events.        *)
(***************************************************************************)
EXTENDS Integers, Sequences, FiniteSets, TLAPS, SequenceTheorems

(* Append and Tail as functions on positions, the form Contents has. *)
LEMMA AppendAsFunction ==
    ASSUME NEW S, NEW s \in Seq(S), NEW e \in S
    PROVE  Append(s, e) = [i \in 1..(Len(s) + 1) |-> IF i = Len(s) + 1 THEN e ELSE s[i]]
<1> DEFINE f == [i \in 1..(Len(s) + 1) |-> IF i = Len(s) + 1 THEN e ELSE s[i]]
<1>1. Append(s, e) \in Seq(S) /\ Len(Append(s, e)) = Len(s) + 1
  BY AppendProperties
<1>2. Append(s, e) \in [1..(Len(s) + 1) -> S]
  BY <1>1, LenProperties
<1>3. \A i \in 1..(Len(s) + 1) : Append(s, e)[i] = f[i]
  BY AppendProperties, LenProperties
<1> QED BY <1>2, <1>3

LEMMA TailAsFunction ==
    ASSUME NEW S, NEW s \in Seq(S), s # <<>>
    PROVE  Tail(s) = [i \in 1..(Len(s) - 1) |-> s[i + 1]]
<1>1. Tail(s) \in Seq(S) /\ Len(Tail(s)) = Len(s) - 1
  BY HeadTailProperties
<1>2. Tail(s) \in [1..(Len(s) - 1) -> S]
  BY <1>1, LenProperties
<1>3. \A i \in 1..(Len(s) - 1) : Tail(s)[i] = s[i + 1]
  BY <1>1, HeadTailProperties
<1> QED BY <1>2, <1>3

(* Moving the head of u behind s keeps the whole. *)
LEMMA MoveHead ==
    ASSUME NEW S, NEW s \in Seq(S), NEW u \in Seq(S), u # <<>>
    PROVE  s \o u = Append(s, Head(u)) \o Tail(u)
<1>1. Head(u) \in S /\ Tail(u) \in Seq(S) /\ Len(Tail(u)) = Len(u) - 1
      /\ \A i \in 1..Len(Tail(u)) : Tail(u)[i] = u[i + 1]
  BY HeadTailProperties
<1> DEFINE v == Append(s, Head(u))
<1>2. v \in Seq(S) /\ Len(v) = Len(s) + 1 /\ v[Len(s) + 1] = Head(u)
      /\ \A i \in 1..Len(s) : v[i] = s[i]
  BY <1>1, AppendProperties
<1> HIDE DEF v
<1>3. s \o u \in Seq(S) /\ v \o Tail(u) \in Seq(S)
      /\ Len(s \o u) = Len(s) + Len(u) /\ Len(v \o Tail(u)) = Len(v) + Len(Tail(u))
  BY <1>1, <1>2, ConcatProperties
<1>4. Len(s) \in Nat /\ Len(u) \in Nat \ {0} /\ u[1] = Head(u)
  BY LenProperties, EmptySeq
<1>5. ASSUME NEW i \in 1..(Len(s) + Len(u)) PROVE (s \o u)[i] = (v \o Tail(u))[i]
  <2>1. (s \o u)[i] = IF i <= Len(s) THEN s[i] ELSE u[i - Len(s)]
    BY ConcatProperties
  <2>2. i \in 1..(Len(v) + Len(Tail(u)))
    BY <1>1, <1>2, <1>4
  <2>3. (v \o Tail(u))[i] = IF i <= Len(v) THEN v[i] ELSE Tail(u)[i - Len(v)]
    BY <1>1, <1>2, <2>2, ConcatProperties
  <2> QED BY <1>1, <1>2, <1>4, <2>1, <2>3
<1>6. Len(s \o u) = Len(v \o Tail(u))
  BY <1>1, <1>2, <1>3, <1>4
<1>7. s \o u = v \o Tail(u)
  BY <1>3, <1>5, <1>6, SeqEqual
<1> QED BY <1>7 DEF v

-----------------------------------------------------------------------------
(* The elements of a sequence. *)
Elements(s) == {s[i] : i \in DOMAIN s}

(* No element occurs twice. *)
Distinct(s) == \A i, j \in DOMAIN s : s[i] = s[j] => i = j

LEMMA AppendElements ==
    ASSUME NEW S, NEW s \in Seq(S), NEW e \in S
    PROVE  /\ Append(s, e) \in Seq(S) /\ Len(Append(s, e)) = Len(s) + 1
           /\ Elements(Append(s, e)) = Elements(s) \cup {e}
           /\ Distinct(s) /\ e \notin Elements(s) => Distinct(Append(s, e))
<1>1. /\ Append(s, e) \in Seq(S) /\ Len(Append(s, e)) = Len(s) + 1
      /\ DOMAIN s = 1..Len(s) /\ Len(s) \in Nat
  BY AppendProperties, LenProperties
<1>2. DOMAIN Append(s, e) = 1..(Len(s) + 1)
  BY <1>1, LenProperties
<1>3. \A i \in 1..(Len(s) + 1) : Append(s, e)[i] = IF i = Len(s) + 1 THEN e ELSE s[i]
  BY AppendAsFunction
<1>4. Len(s) + 1 \in 1..(Len(s) + 1) /\ \A i \in 1..Len(s) : i \in 1..(Len(s) + 1) /\ i # Len(s) + 1
  BY <1>1
<1>5. Elements(Append(s, e)) = Elements(s) \cup {e}
  <2>1. ASSUME NEW x \in Elements(Append(s, e)) PROVE x \in Elements(s) \cup {e}
    BY <1>1, <1>2, <1>3 DEF Elements
  <2>2. e \in Elements(Append(s, e))
    BY <1>2, <1>3, <1>4 DEF Elements
  <2>3. ASSUME NEW x \in Elements(s) PROVE x \in Elements(Append(s, e))
    BY <1>1, <1>2, <1>3, <1>4 DEF Elements
  <2> QED BY <2>1, <2>2, <2>3
<1>6. ASSUME Distinct(s), e \notin Elements(s) PROVE Distinct(Append(s, e))
  <2> SUFFICES ASSUME NEW i \in 1..(Len(s) + 1), NEW j \in 1..(Len(s) + 1),
                      Append(s, e)[i] = Append(s, e)[j]
               PROVE  i = j
    BY <1>2 DEF Distinct
  <2>1. \A k \in 1..Len(s) : s[k] # e
    BY <1>1, <1>6 DEF Elements
  <2>2. \A k, l \in 1..Len(s) : s[k] = s[l] => k = l
    BY <1>1, <1>6 DEF Distinct
  <2> QED BY <1>1, <1>3, <2>1, <2>2
<1> QED BY <1>1, <1>5, <1>6

LEMMA TailElements ==
    ASSUME NEW S, NEW s \in Seq(S), s # <<>>
    PROVE  /\ Head(s) \in S /\ Head(s) \in Elements(s) /\ Head(s) = s[1] /\ 1 \in DOMAIN s
           /\ Tail(s) \in Seq(S) /\ Len(Tail(s)) = Len(s) - 1
           /\ Elements(Tail(s)) \subseteq Elements(s)
           /\ Distinct(s) => /\ Elements(Tail(s)) = Elements(s) \ {Head(s)}
                             /\ Distinct(Tail(s))
<1>1. /\ Head(s) \in S /\ Tail(s) \in Seq(S) /\ Len(Tail(s)) = Len(s) - 1 /\ Head(s) = s[1]
      /\ DOMAIN s = 1..Len(s) /\ Len(s) \in Nat /\ Len(s) >= 1
  BY HeadTailProperties, LenProperties, EmptySeq
<1>2. DOMAIN Tail(s) = 1..(Len(s) - 1)
  BY <1>1, LenProperties
<1>3. \A i \in 1..(Len(s) - 1) : Tail(s)[i] = s[i + 1]
  BY TailAsFunction
<1>4. 1 \in DOMAIN s /\ \A i \in 1..(Len(s) - 1) : i + 1 \in DOMAIN s /\ i + 1 # 1
  BY <1>1
<1>5. \A i \in DOMAIN s : i # 1 => i - 1 \in 1..(Len(s) - 1) /\ (i - 1) + 1 = i
  BY <1>1
<1>6. Elements(Tail(s)) \subseteq Elements(s)
  BY <1>2, <1>3, <1>4 DEF Elements
<1>7. Elements(s) \subseteq Elements(Tail(s)) \cup {Head(s)}
  <2> SUFFICES ASSUME NEW i \in DOMAIN s PROVE s[i] \in Elements(Tail(s)) \cup {Head(s)}
    BY DEF Elements
  <2>1. CASE i = 1
    BY <1>1, <2>1
  <2>2. CASE i # 1
    <3>1. Tail(s)[i - 1] = s[i] /\ i - 1 \in DOMAIN Tail(s)
      BY <1>2, <1>3, <1>5, <2>2
    <3> QED BY <3>1 DEF Elements
  <2> QED BY <2>1, <2>2
<1>8. ASSUME Distinct(s) PROVE Elements(Tail(s)) = Elements(s) \ {Head(s)} /\ Distinct(Tail(s))
  <2>1. Head(s) \notin Elements(Tail(s))
    BY <1>1, <1>2, <1>3, <1>4, <1>8 DEF Elements, Distinct
  <2>2. Distinct(Tail(s))
    <3> SUFFICES ASSUME NEW i \in 1..(Len(s) - 1), NEW j \in 1..(Len(s) - 1),
                        s[i + 1] = s[j + 1]
                 PROVE  i = j
      BY <1>2, <1>3 DEF Distinct
    <3>1. i + 1 = j + 1
      BY <1>4, <1>8 DEF Distinct
    <3> QED BY <3>1
  <2> QED BY <1>6, <1>7, <2>1, <2>2
<1> QED BY <1>1, <1>4, <1>6, <1>8 DEF Elements

(* Nothing but the head is lost. *)
LEMMA TailCovers ==
    ASSUME NEW S, NEW s \in Seq(S), s # <<>>
    PROVE  Elements(s) = Elements(Tail(s)) \cup {Head(s)}
<1>1. /\ Head(s) = s[1] /\ DOMAIN s = 1..Len(s) /\ Len(s) \in Nat /\ 1 \in DOMAIN s
      /\ Elements(Tail(s)) \subseteq Elements(s) /\ Head(s) \in Elements(s)
  BY TailElements, LenProperties
<1>2. Tail(s) = [i \in 1..(Len(s) - 1) |-> s[i + 1]]
  BY TailAsFunction
<1>3. ASSUME NEW i \in DOMAIN s, i # 1 PROVE s[i] \in Elements(Tail(s))
  <2>1. i - 1 \in 1..(Len(s) - 1) /\ (i - 1) + 1 = i
    BY <1>1, <1>3
  <2>2. i - 1 \in DOMAIN Tail(s) /\ Tail(s)[i - 1] = s[i]
    BY <1>2, <2>1
  <2> QED BY <2>2 DEF Elements
<1>4. ASSUME NEW x \in Elements(s) PROVE x \in Elements(Tail(s)) \cup {Head(s)}
  <2>1. PICK i \in DOMAIN s : x = s[i]
    BY DEF Elements
  <2> QED BY <1>1, <1>3, <2>1
<1> QED BY <1>1, <1>4

LEMMA ConcatElements ==
    ASSUME NEW S, NEW s \in Seq(S), NEW u \in Seq(S)
    PROVE  Elements(s \o u) = Elements(s) \cup Elements(u)
<1>1. /\ DOMAIN s = 1..Len(s) /\ DOMAIN u = 1..Len(u) /\ Len(s) \in Nat /\ Len(u) \in Nat
      /\ s \o u \in Seq(S) /\ Len(s \o u) = Len(s) + Len(u)
  BY LenProperties, ConcatProperties
<1>2. DOMAIN (s \o u) = 1..(Len(s) + Len(u))
  BY <1>1, LenProperties
<1>3. \A i \in 1..(Len(s) + Len(u)) : (s \o u)[i] = IF i <= Len(s) THEN s[i] ELSE u[i - Len(s)]
  BY ConcatProperties
<1>4. ASSUME NEW i \in DOMAIN s PROVE s[i] \in Elements(s \o u)
  <2>1. i \in 1..(Len(s) + Len(u)) /\ i <= Len(s)
    BY <1>1
  <2> QED BY <1>2, <1>3, <2>1 DEF Elements
<1>5. ASSUME NEW i \in DOMAIN u PROVE u[i] \in Elements(s \o u)
  <2>1. Len(s) + i \in 1..(Len(s) + Len(u)) /\ ~(Len(s) + i <= Len(s)) /\ (Len(s) + i) - Len(s) = i
    BY <1>1
  <2>2. (s \o u)[Len(s) + i] = u[i]
    BY <1>3, <2>1
  <2> QED BY <1>2, <2>1, <2>2 DEF Elements
<1>6. ASSUME NEW i \in DOMAIN (s \o u) PROVE (s \o u)[i] \in Elements(s) \cup Elements(u)
  <2>1. CASE i <= Len(s)
    <3>1. i \in DOMAIN s /\ (s \o u)[i] = s[i]
      BY <1>1, <1>2, <1>3, <2>1
    <3> QED BY <3>1 DEF Elements
  <2>2. CASE ~(i <= Len(s))
    <3>1. i - Len(s) \in DOMAIN u /\ (s \o u)[i] = u[i - Len(s)]
      BY <1>1, <1>2, <1>3, <2>2
    <3> QED BY <3>1 DEF Elements
  <2> QED BY <2>1, <2>2
<1> QED BY <1>4, <1>5, <1>6 DEF Elements
-----------------------------------------------------------------------------
(* A ledger of events: in the order of acceptance, first those taken, then those
   discarded, then those still queued. *)
Ledger(accepted, taken, discarded, items) == accepted = (taken \o discarded) \o items

(* Every accepted event was taken, was discarded or is queued. *)
LEMMA LedgerElements ==
    ASSUME NEW S, NEW a, NEW t \in Seq(S), NEW d \in Seq(S), NEW q \in Seq(S), Ledger(a, t, d, q)
    PROVE  Elements(a) = (Elements(t) \cup Elements(d)) \cup Elements(q)
<1> DEFINE h == t \o d
<1>1. h \in Seq(S) /\ Elements(h) = Elements(t) \cup Elements(d)
  BY ConcatProperties, ConcatElements
<1>2. a = h \o q
  BY DEF Ledger
<1> HIDE DEF h
<1>3. Elements(h \o q) = Elements(h) \cup Elements(q)
  BY <1>1, ConcatElements
<1> QED BY <1>1, <1>2, <1>3

(* A push appends to both sides. *)
LEMMA LedgerPush ==
    ASSUME NEW S, NEW a \in Seq(S), NEW t \in Seq(S), NEW d \in Seq(S), NEW q \in Seq(S),
           NEW e \in S, Ledger(a, t, d, q)
    PROVE  Ledger(Append(a, e), t, d, Append(q, e))
<1>1. t \o d \in Seq(S) /\ <<e>> \in Seq(S)
  BY ConcatProperties
<1>2. (t \o d) \o q \in Seq(S)
  BY <1>1, ConcatProperties
<1>3. Append((t \o d) \o q, e) = ((t \o d) \o q) \o <<e>> /\ Append(q, e) = q \o <<e>>
  BY <1>2, AppendIsConcat
<1>4. ((t \o d) \o q) \o <<e>> = (t \o d) \o (q \o <<e>>)
  BY <1>1, ConcatAssociative
<1> QED BY <1>3, <1>4 DEF Ledger

(* A pop moves the oldest queued event to those taken, which is only right while
   nothing has been discarded. *)
LEMMA LedgerPop ==
    ASSUME NEW S, NEW a, NEW t \in Seq(S), NEW q \in Seq(S), q # <<>>, Ledger(a, t, <<>>, q)
    PROVE  Ledger(a, Append(t, Head(q)), <<>>, Tail(q))
<1>1. Head(q) \in S
  BY HeadTailProperties
<1>2. t \o <<>> = t /\ Append(t, Head(q)) \o <<>> = Append(t, Head(q))
  BY <1>1, AppendProperties, ConcatEmptySeq
<1> QED BY <1>2, MoveHead DEF Ledger

(* A discard moves the oldest queued event to those discarded. *)
LEMMA LedgerDiscard ==
    ASSUME NEW S, NEW a, NEW t \in Seq(S), NEW d \in Seq(S), NEW q \in Seq(S), q # <<>>,
           Ledger(a, t, d, q)
    PROVE  Ledger(a, t, Append(d, Head(q)), Tail(q))
<1>1. Head(q) \in S
  BY HeadTailProperties
<1>2. t \o d \in Seq(S)
  BY ConcatProperties
<1>3. (t \o d) \o q = Append(t \o d, Head(q)) \o Tail(q)
  BY <1>2, MoveHead
<1>4. <<Head(q)>> \in Seq(S)
  BY <1>1
<1>5. Append(t \o d, Head(q)) = (t \o d) \o <<Head(q)>> /\ Append(d, Head(q)) = d \o <<Head(q)>>
  BY <1>1, <1>2, AppendIsConcat
<1>6. (t \o d) \o <<Head(q)>> = t \o (d \o <<Head(q)>>)
  BY <1>4, ConcatAssociative
<1> QED BY <1>3, <1>5, <1>6 DEF Ledger

(* Clearing the queue moves all that is left of it to the discarded events. *)
LEMMA LedgerClear ==
    ASSUME NEW S, NEW a, NEW t \in Seq(S), NEW d \in Seq(S), NEW q \in Seq(S), Ledger(a, t, d, q)
    PROVE  Ledger(a, t, d \o q, <<>>)
<1>1. d \o q \in Seq(S) /\ t \o (d \o q) \in Seq(S)
  BY ConcatProperties
<1>2. (t \o d) \o q = t \o (d \o q)
  BY ConcatAssociative
<1>3. (t \o (d \o q)) \o <<>> = t \o (d \o q)
  BY <1>1, ConcatEmptySeq
<1> QED BY <1>2, <1>3 DEF Ledger
=============================================================================
