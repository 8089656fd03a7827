----------------------- MODULE InputDispatcherProofs -----------------------
(***************************************************************************)
(* Theorems about InputDispatcher, for any peers, any keys, any cap and    *)
(* any number of events and failures, and about InputBackends, for any     *)
(* phones, any keymap and any session.                                     *)
(***************************************************************************)
EXTENDS InputDispatcher, InputBackends, CollectionTheorems, FiniteSetTheorems, WellFoundedInduction, TLAPS

USE InputAssumption

-----------------------------------------------------------------------------
(* Lemmas about the operators on the queue. *)

\* Every event of a queue has a natural id.
LEMMA IdsAreNat ==
  ASSUME NEW q \in Seq(Event)
  PROVE  \A i \in DOMAIN q : q[i] \in Event /\ q[i].id \in Nat
<1>1. \A e \in Event : e.id \in Nat
  BY DEF Event
<1>2. \A i \in DOMAIN q : q[i] \in Event
  OBVIOUS
<1> QED
  BY <1>1, <1>2

\* The non-moves of a queue can be counted.
LEMMA NonMovesFinite ==
  ASSUME NEW q \in Seq(Event)
  PROVE  IsFiniteSet(NonMoves(q)) /\ Cardinality(NonMoves(q)) \in Nat
<1>1. NonMoves(q) \in SUBSET (1 .. Len(q)) /\ Len(q) \in Int
  BY DEF NonMoves
<1>2. IsFiniteSet(1 .. Len(q))
  BY <1>1, FS_Interval
<1> QED
  BY <1>1, <1>2, FS_Subset, FS_CardinalityType

\* A non-empty set of naturals has a least element.
LEMMA LeastNatural ==
  ASSUME NEW S \in SUBSET Nat, S # {}
  PROVE  \E i \in S : \A j \in S : i <= j
<1>1. \E i \in S : \A j \in S : <<j, i>> \notin OpToRel(<, Nat)
  BY NatLessThanWellFounded, WFMin, Zenon
<1>2. \A i, j \in Nat : <<j, i>> \notin OpToRel(<, Nat) => i <= j
  BY DEF OpToRel
<1> QED
  BY <1>1, <1>2

\* The oldest non-move exists.
LEMMA OldestNonMove ==
  ASSUME NEW q \in Seq(Event), NonMoves(q) # {}
  PROVE  /\ (CHOOSE i \in NonMoves(q) : \A j \in NonMoves(q) : i <= j) \in NonMoves(q)
         /\ \E i \in NonMoves(q) : \A j \in NonMoves(q) : i <= j
<1>1. NonMoves(q) \subseteq Nat
  BY DEF NonMoves
<1>2. \E i \in NonMoves(q) : \A j \in NonMoves(q) : i <= j
  BY <1>1, LeastNatural
<1> QED
  BY <1>2

\* Removing a position keeps the other events, in their order.
LEMMA WithoutAtDef ==
  ASSUME NEW q \in Seq(Event), NEW n \in DOMAIN q
  PROVE  /\ WithoutAt(q, n) \in Seq(Event)
         /\ Len(WithoutAt(q, n)) = Len(q) - 1
         /\ \A i \in 1 .. Len(q) - 1 :
              WithoutAt(q, n)[i] = IF i < n THEN q[i] ELSE q[i + 1]
<1> DEFINE w == WithoutAt(q, n)
<1>1. Len(q) - 1 \in Nat
  OBVIOUS
<1>2. w = [i \in 1 .. Len(q) - 1 |-> IF i < n THEN q[i] ELSE q[i + 1]]
  BY DEF WithoutAt
<1>3. \A i \in 1 .. Len(q) - 1 : w[i] \in Event
  BY <1>2
<1>4. w \in [1 .. Len(q) - 1 -> Event]
  BY <1>2, <1>3
<1> QED
  BY <1>1, <1>2, <1>4

\* Removing a non-move leaves fewer of them.
LEMMA WithoutNonMove ==
  ASSUME NEW q \in Seq(Event), NEW n \in NonMoves(q)
  PROVE  Cardinality(NonMoves(WithoutAt(q, n))) < Cardinality(NonMoves(q))
<1> DEFINE w == WithoutAt(q, n)
           S == NonMoves(w)
           T == NonMoves(q) \ {n}
           f == [i \in S |-> IF i < n THEN i ELSE i + 1]
<1>1. n \in DOMAIN q
  BY DEF NonMoves
<1>2. /\ w \in Seq(Event) /\ Len(w) = Len(q) - 1
      /\ \A i \in 1 .. Len(q) - 1 : w[i] = IF i < n THEN q[i] ELSE q[i + 1]
  BY <1>1, WithoutAtDef
<1>3. \A i \in S : f[i] \in T
  BY <1>1, <1>2 DEF NonMoves
<1>4. \A i, j \in S : f[i] = f[j] => i = j
  BY <1>1, <1>2 DEF NonMoves
<1>5. f \in Injection(S, T)
  BY <1>3, <1>4 DEF Injection, IsInjective
<1>6. IsFiniteSet(NonMoves(q)) /\ Cardinality(NonMoves(q)) \in Nat
  BY NonMovesFinite
<1>7. IsFiniteSet(T) /\ Cardinality(T) = Cardinality(NonMoves(q)) - 1
  BY <1>6, FS_RemoveElement
<1>8. Cardinality(S) <= Cardinality(T)
  BY <1>5, <1>7, FS_Injection
<1>9. Cardinality(S) \in Nat
  BY <1>2, NonMovesFinite
<1> QED
  BY <1>6, <1>7, <1>8, <1>9

\* Ids grow along q and stay within lo and hi.
Sorted(q, lo, hi) ==
  /\ \A i, j \in DOMAIN q : i < j => q[i].id < q[j].id
  /\ \A i \in DOMAIN q : lo < q[i].id /\ q[i].id <= hi

\* Making room keeps the queue sorted and leaves room for a non-move.
LEMMA RoomForDef ==
  ASSUME NEW q \in Seq(Event), NEW e \in Event, NEW lo \in Nat, NEW hi \in Nat,
         Sorted(q, lo, hi), Cardinality(NonMoves(q)) <= MaxNonMove
  PROVE  /\ RoomFor(q, e.wire) \in Seq(Event)
         /\ Sorted(RoomFor(q, e.wire), lo, hi)
         /\ Cardinality(NonMoves(RoomFor(q, e.wire)))
              <= IF e.wire.move THEN MaxNonMove ELSE MaxNonMove - 1
<1> DEFINE n == CHOOSE i \in NonMoves(q) : \A j \in NonMoves(q) : i <= j
<1>0. Cardinality(NonMoves(q)) \in Nat
  BY NonMovesFinite
<1>1. CASE e.wire.move \/ Cardinality(NonMoves(q)) < MaxNonMove
  BY <1>0, <1>1 DEF RoomFor
<1>2. CASE ~(e.wire.move \/ Cardinality(NonMoves(q)) < MaxNonMove)
  <2>1. RoomFor(q, e.wire) = WithoutAt(q, n)
    BY <1>2 DEF RoomFor
  <2>2. NonMoves(q) # {}
    BY <1>0, <1>2, FS_EmptySet
  <2>3. n \in NonMoves(q)
    BY <2>2, OldestNonMove
  <2> HIDE DEF n
  <2>4. n \in DOMAIN q
    BY <2>3 DEF NonMoves
  <2>5. /\ WithoutAt(q, n) \in Seq(Event) /\ Len(WithoutAt(q, n)) = Len(q) - 1
        /\ \A i \in 1 .. Len(q) - 1 : WithoutAt(q, n)[i] = IF i < n THEN q[i] ELSE q[i + 1]
    BY <2>4, WithoutAtDef
  <2>6. \A i \in DOMAIN q : q[i].id \in Nat
    BY IdsAreNat
  <2>7. Sorted(WithoutAt(q, n), lo, hi)
    <3> DEFINE old(i) == IF i < n THEN i ELSE i + 1
    <3>1. \A i \in 1 .. Len(q) - 1 : old(i) \in DOMAIN q /\ WithoutAt(q, n)[i] = q[old(i)]
      BY <2>4, <2>5
    <3>2. \A i, j \in 1 .. Len(q) - 1 : i < j => old(i) < old(j)
      BY <2>4
    <3>3. DOMAIN WithoutAt(q, n) = 1 .. Len(q) - 1
      BY <2>5
    <3> HIDE DEF old
    <3> QED
      BY <3>1, <3>2, <3>3 DEF Sorted
  <2>8. Cardinality(NonMoves(WithoutAt(q, n))) < Cardinality(NonMoves(q))
    BY <2>3, WithoutNonMove
  <2>9. Cardinality(NonMoves(WithoutAt(q, n))) \in Nat
    BY <2>5, NonMovesFinite
  <2> QED
    BY <1>0, <1>2, <2>1, <2>5, <2>7, <2>8, <2>9
<1> QED
  BY <1>1, <1>2

\* Queuing the next event keeps the queue sorted and bounded, and the event is last.
LEMMA QueuedDef ==
  ASSUME NEW q \in Seq(Event), NEW e \in Event, NEW lo \in Nat, NEW hi \in Nat, lo <= hi,
         Sorted(q, lo, hi), Cardinality(NonMoves(q)) <= MaxNonMove, e.id = hi + 1
  PROVE  /\ Queued(q, e) \in Seq(Event)
         /\ Sorted(Queued(q, e), lo, hi + 1)
         /\ Cardinality(NonMoves(Queued(q, e))) <= MaxNonMove
         /\ Queued(q, e) # <<>> /\ Queued(q, e)[Len(Queued(q, e))] = e
<1>1. CASE Coalesces(q, e.wire)
  <2>1. Queued(q, e) = [q EXCEPT ![Len(q)] = e]
    BY <1>1 DEF Queued
  <2>2. q # <<>> /\ q[Len(q)].wire.move /\ e.wire.move
    BY <1>1 DEF Coalesces
  <2>3. /\ Queued(q, e) \in Seq(Event) /\ Len(Queued(q, e)) = Len(q)
        /\ Queued(q, e)[Len(q)] = e
        /\ \A i \in DOMAIN q : i # Len(q) => Queued(q, e)[i] = q[i]
    BY <2>1, <2>2
  <2>4. NonMoves(Queued(q, e)) = NonMoves(q)
    BY <2>2, <2>3 DEF NonMoves
  <2>5. \A i \in DOMAIN q : q[i].id \in Nat
    BY IdsAreNat
  <2>6. Sorted(Queued(q, e), lo, hi + 1)
    <3>1. \A i \in DOMAIN q : lo < q[i].id /\ q[i].id < hi + 1
      BY <2>5 DEF Sorted
    <3>2. DOMAIN Queued(q, e) = DOMAIN q
      BY <2>3
    <3>3. \A i \in DOMAIN q : i # Len(q) => i < Len(q)
      OBVIOUS
    <3>4. \A i \in DOMAIN q : Queued(q, e)[i].id = IF i = Len(q) THEN hi + 1 ELSE q[i].id
      BY <2>3
    <3>5. \A i, j \in DOMAIN q : i < j => q[i].id < q[j].id
      BY DEF Sorted
    <3> QED
      BY <2>5, <3>1, <3>2, <3>3, <3>4, <3>5 DEF Sorted
  <2> QED
    BY <2>2, <2>3, <2>4, <2>6
<1>2. CASE ~Coalesces(q, e.wire)
  <2> DEFINE r == RoomFor(q, e.wire)
  <2>1. Queued(q, e) = Append(r, e)
    BY <1>2 DEF Queued
  <2>2. /\ r \in Seq(Event) /\ Sorted(r, lo, hi)
        /\ Cardinality(NonMoves(r)) <= IF e.wire.move THEN MaxNonMove ELSE MaxNonMove - 1
    BY RoomForDef
  <2>3. /\ Append(r, e) \in Seq(Event) /\ Len(Append(r, e)) = Len(r) + 1
        /\ Append(r, e)[Len(r) + 1] = e
        /\ \A i \in DOMAIN r : Append(r, e)[i] = r[i]
    BY <2>2
  <2>4. \A i \in DOMAIN r : r[i].id \in Nat
    BY <2>2, IdsAreNat
  <2> HIDE DEF r
  <2>5. Sorted(Append(r, e), lo, hi + 1)
    <3>1. \A i \in DOMAIN r : lo < r[i].id /\ r[i].id < hi + 1
      BY <2>2, <2>4 DEF Sorted
    <3>2. DOMAIN Append(r, e) = DOMAIN r \cup {Len(r) + 1}
      BY <2>2, <2>3
    <3>3. \A i \in DOMAIN r : i < Len(r) + 1
      BY <2>2
    <3>4. \A i \in DOMAIN r \cup {Len(r) + 1} :
             Append(r, e)[i].id = IF i = Len(r) + 1 THEN hi + 1 ELSE r[i].id
      BY <2>3, <3>3
    <3>5. \A i, j \in DOMAIN r : i < j => r[i].id < r[j].id
      BY <2>2 DEF Sorted
    <3>6. \A i \in DOMAIN r : ~(Len(r) + 1 < i)
      BY <2>2
    <3> QED
      BY <2>4, <3>1, <3>2, <3>3, <3>4, <3>5, <3>6 DEF Sorted
  <2>6. NonMoves(Append(r, e)) = NonMoves(r) \cup (IF e.wire.move THEN {} ELSE {Len(r) + 1})
    BY <2>2, <2>3 DEF NonMoves
  <2>7. Len(r) + 1 \notin NonMoves(r)
    BY <2>2 DEF NonMoves
  <2>8. IsFiniteSet(NonMoves(r)) /\ Cardinality(NonMoves(r)) \in Nat
    BY <2>2, NonMovesFinite
  <2>9. Cardinality(NonMoves(Append(r, e))) <= MaxNonMove
    <3>1. CASE e.wire.move
      BY <2>2, <2>6, <3>1
    <3>2. CASE ~e.wire.move
      <4>1. Cardinality(NonMoves(r) \cup {Len(r) + 1}) = Cardinality(NonMoves(r)) + 1
        BY <2>7, <2>8, FS_AddElement
      <4> QED
        BY <2>2, <2>6, <2>8, <3>2, <4>1
    <3> QED
      BY <3>1, <3>2
  <2> QED
    BY <2>1, <2>3, <2>5, <2>9
<1> QED
  BY <1>1, <1>2

\* Popping the front keeps the rest sorted, above the popped event, and bounded.
LEMMA TailDef ==
  ASSUME NEW q \in Seq(Event), q # <<>>, NEW lo \in Nat, NEW hi \in Nat, Sorted(q, lo, hi)
  PROVE  /\ Tail(q) \in Seq(Event) /\ Head(q) \in Event
         /\ lo < Head(q).id /\ Head(q).id <= hi
         /\ Sorted(Tail(q), Head(q).id, hi)
         /\ Cardinality(NonMoves(Tail(q))) <= Cardinality(NonMoves(q))
         /\ \A n : (\E i \in DOMAIN q : q[i].id = n)
                    => Head(q).id = n \/ \E i \in DOMAIN Tail(q) : Tail(q)[i].id = n
<1> DEFINE S == NonMoves(Tail(q))
           f == [i \in S |-> i + 1]
<1>1. /\ Tail(q) \in Seq(Event) /\ Len(Tail(q)) = Len(q) - 1 /\ 1 \in DOMAIN q /\ Head(q) = q[1]
      /\ \A i \in 1 .. Len(q) - 1 : Tail(q)[i] = q[i + 1] /\ i + 1 \in DOMAIN q
  OBVIOUS
<1>2. Head(q) \in Event
  BY <1>1, IdsAreNat
<1>3. \A i \in DOMAIN q : q[i].id \in Nat
  BY IdsAreNat
<1>4. lo < Head(q).id /\ Head(q).id <= hi
  BY <1>1 DEF Sorted
<1>5. Sorted(Tail(q), Head(q).id, hi)
  <2>1. DOMAIN Tail(q) = 1 .. Len(q) - 1
    BY <1>1
  <2>2. \A i, j \in 1 .. Len(q) - 1 : i < j => i + 1 < j + 1
    OBVIOUS
  <2>3. \A i \in 1 .. Len(q) - 1 : 1 < i + 1
    OBVIOUS
  <2> QED
    BY <1>1, <1>3, <2>1, <2>2, <2>3 DEF Sorted
<1>6. f \in Injection(S, NonMoves(q))
  <2>1. \A i \in S : f[i] \in NonMoves(q)
    BY <1>1 DEF NonMoves
  <2>2. \A i, j \in S : f[i] = f[j] => i = j
    BY <1>1 DEF NonMoves
  <2> QED
    BY <2>1, <2>2 DEF Injection, IsInjective
<1>7. Cardinality(S) <= Cardinality(NonMoves(q))
  BY <1>6, NonMovesFinite, FS_Injection
<1>8. ASSUME NEW i \in DOMAIN q
      PROVE  q[i] = Head(q) \/ \E j \in DOMAIN Tail(q) : Tail(q)[j] = q[i]
  <2>1. CASE i = 1
    BY <1>1, <2>1
  <2>2. CASE i # 1
    <3>1. i - 1 \in 1 .. Len(q) - 1 /\ i - 1 + 1 = i
      BY <2>2
    <3> QED
      BY <1>1, <3>1
  <2> QED
    BY <2>1, <2>2
<1> QED
  BY <1>1, <1>2, <1>4, <1>5, <1>7, <1>8

-----------------------------------------------------------------------------
(* The inductive invariant: the properties together are inductive. *)

DispatcherInv == TypeOK /\ NonMovesBounded /\ InOrder /\ NewestSurvives

\* InOrder says that the queue is sorted above what was applied and what is in hand.
LEMMA InOrderDef ==
  InOrder <=> /\ Sorted(queue, applied, ids)
              /\ \A e \in hand : applied < e.id /\ e.id <= ids /\ \A i \in DOMAIN queue : e.id < queue[i].id
              /\ applied <= ids
BY DEF InOrder, Sorted

\* The initial state satisfies the invariant.
LEMMA InitInv == Init => DispatcherInv
<1> SUFFICES ASSUME Init PROVE DispatcherInv
  OBVIOUS
<1>1. TypeOK
  <2>1. queue \in Seq(Event)
    BY DEF Init
  <2>2. <<newest, held>> \in [Keys -> BOOLEAN] \X [Keys -> BOOLEAN]
    BY DEF Init
  <2>3. arriving \in [Peers -> SUBSET Wire] /\ \A p \in Peers : AtMostOne(arriving[p])
    BY DEF Init, AtMostOne
  <2>4. hand \subseteq Event /\ AtMostOne(hand)
    BY DEF Init, AtMostOne
  <2> QED
    BY <2>1, <2>2, <2>3, <2>4 DEF Init, TypeOK
<1>2. NonMoves(queue) = {}
  BY DEF Init, NonMoves
<1>3. NonMovesBounded
  BY <1>2, FS_EmptySet DEF NonMovesBounded
<1>4. InOrder /\ NewestSurvives
  BY DEF Init, InOrder, NewestSurvives
<1> QED
  BY <1>1, <1>3, <1>4 DEF DispatcherInv

\* enqueue keeps the invariant.
LEMMA EnqueueInv ==
  ASSUME DispatcherInv, NEW p \in Peers, Enqueue(p)
  PROVE  DispatcherInv'
<1>1. PICK w \in arriving[p] :
        /\ queue' = Queued(queue, [id |-> ids + 1, wire |-> w])
        /\ newest' = IF w.move THEN newest ELSE [newest EXCEPT ![w.key] = w.down]
        /\ lost' = IF w.move THEN lost ELSE (lost \cup DroppedKeys(queue)) \ {w.key}
  BY DEF Enqueue
<1> DEFINE e == [id |-> ids + 1, wire |-> w]
<1>2. w \in Wire /\ ids \in Nat /\ applied \in Nat /\ queue \in Seq(Event)
  BY DEF DispatcherInv, TypeOK
<1>3. e \in Event /\ e.id = ids + 1
  BY <1>2 DEF Event
<1>4. Sorted(queue, applied, ids) /\ applied <= ids /\ Cardinality(NonMoves(queue)) <= MaxNonMove
  BY InOrderDef DEF DispatcherInv, NonMovesBounded
<1> HIDE DEF e
<1>5. /\ queue' \in Seq(Event)
      /\ Sorted(queue', applied, ids + 1)
      /\ Cardinality(NonMoves(queue')) <= MaxNonMove
      /\ queue' # <<>> /\ queue'[Len(queue')] = e
  <2>1. queue' = Queued(queue, e)
    BY <1>1 DEF e
  <2> QED
    BY <1>2, <1>3, <1>4, <2>1, QueuedDef
<1>6. UNCHANGED <<enabled, hand, applied, held, failures>> /\ ids' = ids + 1
  BY DEF Enqueue
<1>7. TypeOK'
  <2>1. newest' \in [Keys -> BOOLEAN]
    BY <1>1, <1>2 DEF DispatcherInv, TypeOK, Wire
  <2>4. lost' \subseteq Keys
    BY <1>1 DEF DispatcherInv, TypeOK, DroppedKeys
  <2>2. arriving' \in [Peers -> SUBSET Wire] /\ \A x \in Peers : AtMostOne(arriving'[x])
    BY DEF Enqueue, DispatcherInv, TypeOK, AtMostOne
  <2>3. late' \in Nat
    BY DEF Enqueue, DispatcherInv, TypeOK
  <2> QED
    BY <1>2, <1>5, <1>6, <2>1, <2>2, <2>3, <2>4 DEF DispatcherInv, TypeOK
<1>8. NonMovesBounded'
  BY <1>5 DEF NonMovesBounded
<1>9. InOrder'
  <2>1. ASSUME NEW h \in hand
        PROVE  applied < h.id /\ h.id <= ids + 1 /\ \A i \in DOMAIN queue' : h.id < queue'[i].id
    <3>1. h \in Event /\ h.id \in Nat
      BY DEF DispatcherInv, TypeOK, Event
    <3>2. applied < h.id /\ h.id <= ids /\ Sorted(queue, h.id, ids)
      BY DEF DispatcherInv, InOrder, Sorted
    <3>3. Sorted(Queued(queue, e), h.id, ids + 1)
      BY <1>2, <1>3, <1>4, <3>1, <3>2, QueuedDef
    <3>4. queue' = Queued(queue, e)
      BY <1>1 DEF e
    <3> QED
      BY <1>2, <3>1, <3>2, <3>3, <3>4 DEF Sorted
  <2> QED
    BY <1>2, <1>4, <1>5, <1>6, <2>1 DEF InOrder, Sorted
<1>10. NewestSurvives'
  <2>1. Len(queue') \in DOMAIN queue'
    BY <1>5
  <2> QED
    BY <1>3, <1>5, <1>6, <2>1 DEF NewestSurvives
<1> QED
  BY <1>7, <1>8, <1>9, <1>10 DEF DispatcherInv

\* pop_front keeps the invariant.
LEMMA PopInv ==
  ASSUME DispatcherInv, Pop
  PROVE  DispatcherInv'
<1>1. /\ hand = {} /\ queue # <<>> /\ queue \in Seq(Event)
      /\ hand' = {Head(queue)} /\ queue' = Tail(queue)
      /\ UNCHANGED <<enabled, arriving, ids, applied, late, newest, held, lost, failures>>
  BY DEF Pop, DispatcherInv, TypeOK
<1>2. /\ applied \in Nat /\ ids \in Nat /\ applied <= ids /\ Sorted(queue, applied, ids)
      /\ Cardinality(NonMoves(queue)) <= MaxNonMove
  BY InOrderDef DEF DispatcherInv, TypeOK, NonMovesBounded
<1>3. /\ Tail(queue) \in Seq(Event) /\ Head(queue) \in Event
      /\ applied < Head(queue).id /\ Head(queue).id <= ids
      /\ Sorted(Tail(queue), Head(queue).id, ids)
      /\ Cardinality(NonMoves(Tail(queue))) <= Cardinality(NonMoves(queue))
      /\ \A n : (\E i \in DOMAIN queue : queue[i].id = n)
                 => Head(queue).id = n \/ \E i \in DOMAIN Tail(queue) : Tail(queue)[i].id = n
  BY <1>1, <1>2, TailDef
<1>4. TypeOK'
  BY <1>1, <1>3 DEF DispatcherInv, TypeOK, AtMostOne
<1>5. NonMovesBounded'
  <2>1. Cardinality(NonMoves(Tail(queue))) \in Nat /\ Cardinality(NonMoves(queue)) \in Nat
    BY <1>1, <1>3, NonMovesFinite
  <2> QED
    BY <1>1, <1>2, <1>3, <2>1 DEF NonMovesBounded
<1>6. InOrder'
  <2>1. \A i \in DOMAIN Tail(queue) : Tail(queue)[i].id \in Nat
    BY <1>3, IdsAreNat
  <2>2. Head(queue).id \in Nat
    BY <1>3 DEF Event
  <2>3. Sorted(Tail(queue), applied, ids)
    BY <1>2, <1>3, <2>1, <2>2 DEF Sorted
  <2> QED
    BY <1>1, <1>2, <1>3, <2>3 DEF InOrder, Sorted
<1>7. NewestSurvives'
  BY <1>1, <1>3 DEF DispatcherInv, NewestSurvives
<1> QED
  BY <1>4, <1>5, <1>6, <1>7 DEF DispatcherInv

\* The backend call keeps the invariant, whether it succeeds or fails.
LEMMA ApplyInv ==
  ASSUME DispatcherInv, ApplyOk \/ ApplyFails
  PROVE  DispatcherInv'
<1>1. CASE ApplyOk
  <2>1. PICK e \in hand :
          /\ applied' = e.id
          /\ held' = IF e.wire.move THEN held ELSE [held EXCEPT ![e.wire.key] = e.wire.down]
    BY <1>1 DEF ApplyOk
  <2>2. e \in Event /\ e.id \in Nat /\ e.wire \in Wire /\ hand = {e}
    BY DEF DispatcherInv, TypeOK, Event, AtMostOne
  <2>3. hand' = {} /\ UNCHANGED <<queue, enabled, arriving, ids, late, newest, lost, failures>>
    BY <1>1 DEF ApplyOk
  <2>4. held' \in [Keys -> BOOLEAN]
    BY <2>1, <2>2 DEF DispatcherInv, TypeOK, Wire
  <2>5. TypeOK'
    BY <2>1, <2>2, <2>3, <2>4 DEF DispatcherInv, TypeOK, AtMostOne
  <2>6. NonMovesBounded' /\ InOrder'
    BY <2>1, <2>2, <2>3 DEF DispatcherInv, NonMovesBounded, InOrder
  <2>7. NewestSurvives'
    <3>1. failures' = failures /\ ids' = ids /\ queue' = queue
      BY <2>3
    <3>2. \A x \in hand : x.id = applied'
      BY <2>1, <2>2
    <3>3. (ids > 0 /\ failures = 0)
            => \/ \E i \in DOMAIN queue : queue[i].id = ids
               \/ \E x \in hand : x.id = ids
               \/ applied = ids
      BY DEF DispatcherInv, NewestSurvives
    <3>4. applied = ids => e \notin hand
      BY <2>2 DEF DispatcherInv, InOrder, TypeOK
    <3> QED
      BY <3>1, <3>2, <3>3, <3>4 DEF NewestSurvives
  <2> QED
    BY <2>5, <2>6, <2>7 DEF DispatcherInv
<1>2. CASE ApplyFails
  <2>1. TypeOK'
    BY <1>2 DEF ApplyFails, DispatcherInv, TypeOK, AtMostOne
  <2>2. failures' # 0
    BY <1>2 DEF ApplyFails, DispatcherInv, TypeOK
  <2>3. NonMovesBounded' /\ InOrder' /\ NewestSurvives'
    BY <1>2, <2>2 DEF ApplyFails, DispatcherInv, NonMovesBounded, InOrder, NewestSurvives
  <2> QED
    BY <2>1, <2>3 DEF DispatcherInv
<1> QED
  BY <1>1, <1>2

\* Every step keeps the invariant.
LEMMA StepInv == DispatcherInv /\ [Next]_vars => DispatcherInv'
<1> SUFFICES ASSUME DispatcherInv, [Next]_vars PROVE DispatcherInv'
  OBVIOUS
<1>1. ASSUME NEW p \in Peers, Receive(p) PROVE DispatcherInv'
  <2>1. TypeOK'
    BY <1>1 DEF Receive, DispatcherInv, TypeOK, AtMostOne
  <2> QED
    BY <1>1, <2>1 DEF Receive, DispatcherInv, NonMovesBounded, InOrder, NewestSurvives
<1>2. CASE SetEnabled
  <2>1. TypeOK'
    BY <1>2 DEF SetEnabled, DispatcherInv, TypeOK
  <2> QED
    BY <1>2, <2>1 DEF SetEnabled, DispatcherInv, NonMovesBounded, InOrder, NewestSurvives
<1>3. CASE UNCHANGED vars
  BY <1>3 DEF vars, DispatcherInv, TypeOK, NonMovesBounded, InOrder, NewestSurvives
<1> QED
  BY <1>1, <1>2, <1>3, EnqueueInv, PopInv, ApplyInv DEF Next

LEMMA DispatcherInvariant == Spec => []DispatcherInv
BY InitInv, StepInv, PTL DEF Spec

-----------------------------------------------------------------------------

\* The dispatcher's state is well typed in every reachable state.
THEOREM InputTypeCorrect == Spec => []TypeOK
BY DispatcherInvariant, PTL DEF DispatcherInv

\* MAX_QUEUED_NON_MOVE_EVENTS bounds the waiting non-moves, for any number of peers.
THEOREM InputBounded == Spec => []NonMovesBounded
BY DispatcherInvariant, PTL DEF DispatcherInv

\* Press and release are applied in the order of acceptance: coalescing, dropping and
\* backend failures never reorder them.
THEOREM InputInOrder == Spec => []InOrder
BY DispatcherInvariant, PTL DEF DispatcherInv

\* The newest event is never the one that coalescing or dropping loses.
THEOREM InputKeepsNewest == Spec => []NewestSurvives
BY DispatcherInvariant, PTL DEF DispatcherInv
-----------------------------------------------------------------------------
(* The gate: the events that may still be queued once it is closed. *)

PastGate == {p \in Peers : arriving[p] # {}}

\* While the gate is closed, an event is queued only by a peer that was past it, and each
\* such peer queues one.
GateInv == ~enabled => late + Cardinality(PastGate) <= Cardinality(Peers)

\* A closed gate lets through no more events than there are peers. Each peer is one stream
\* task of the code, so there are finitely many.
THEOREM InputGateCloses ==
  ASSUME IsFiniteSet(Peers)
  PROVE  Spec => []NoBacklogWhileDisabled
<1>1. IsFiniteSet(PastGate) /\ Cardinality(PastGate) \in Nat /\ Cardinality(Peers) \in Nat
      /\ Cardinality(PastGate) <= Cardinality(Peers)
  BY FS_Subset, FS_CardinalityType DEF PastGate
<1>2. Init => GateInv
  BY DEF Init, GateInv
<1>3. DispatcherInv /\ GateInv /\ [Next]_vars => GateInv'
  <2> SUFFICES ASSUME DispatcherInv, GateInv, [Next]_vars PROVE GateInv'
    OBVIOUS
  <2>0. late \in Nat /\ enabled \in BOOLEAN
    BY DEF DispatcherInv, TypeOK
  <2>1. ASSUME NEW p \in Peers, Receive(p) PROVE GateInv'
    BY <2>1 DEF Receive, GateInv
  <2>2. ASSUME NEW p \in Peers, Enqueue(p) PROVE GateInv'
    <3>1. p \in PastGate /\ PastGate' = PastGate \ {p}
      BY <2>2 DEF Enqueue, PastGate, DispatcherInv, TypeOK
    <3>2. Cardinality(PastGate') = Cardinality(PastGate) - 1
      BY <1>1, <3>1, FS_RemoveElement
    <3>3. enabled' = enabled /\ (~enabled => late' = late + 1)
      BY <2>2 DEF Enqueue
    <3> QED
      BY <1>1, <2>0, <3>2, <3>3 DEF GateInv
  <2>3. CASE SetEnabled
    <3>1. late' = 0 /\ PastGate' = PastGate
      BY <2>3 DEF SetEnabled, PastGate
    <3> QED
      BY <1>1, <3>1 DEF GateInv
  <2>4. CASE Pop \/ ApplyOk \/ ApplyFails \/ UNCHANGED vars
    <3>1. enabled' = enabled /\ late' = late /\ PastGate' = PastGate
      BY <2>4 DEF Pop, ApplyOk, ApplyFails, vars, PastGate
    <3> QED
      BY <3>1 DEF GateInv
  <2> QED
    BY <2>1, <2>2, <2>3, <2>4 DEF Next
<1>4. DispatcherInv /\ GateInv => NoBacklogWhileDisabled
  BY <1>1 DEF DispatcherInv, TypeOK, GateInv, NoBacklogWhileDisabled
<1> QED
  BY <1>2, <1>3, <1>4, DispatcherInvariant, PTL DEF Spec
-----------------------------------------------------------------------------
(* The keys: what the backend will have been told once the queue is drained. *)

\* Where the events of key k are in a queue, and what the last of them says.
KeyEvents(q, k) == {i \in DOMAIN q : ~q[i].wire.move /\ q[i].wire.key = k}
LastSays(q, k, v) ==
  \A i \in KeyEvents(q, k) : (\A j \in KeyEvents(q, k) : j <= i) => q[i].wire.down = v

Holds(k) == \E e \in hand : ~e.wire.move /\ e.wire.key = k

\* The newest accepted event of a key is the last one in the queue, or the one in hand, or
\* the last one applied.
KeyInv(k) ==
  /\ LastSays(queue, k, newest[k])
  /\ KeyEvents(queue, k) = {} =>
       /\ \A e \in hand : ~e.wire.move /\ e.wire.key = k => e.wire.down = newest[k]
       /\ ~Holds(k) => held[k] = newest[k]

KeysInv == failures = 0 => \A k \in Keys \ lost : KeyInv(k)

\* Replacing the move at the back leaves the events of every key where they were.
LEMMA CoalescedKeys ==
  ASSUME NEW q \in Seq(Event), NEW e \in Event, Coalesces(q, e.wire), NEW k \in Keys, NEW v
  PROVE  /\ KeyEvents(Queued(q, e), k) = KeyEvents(q, k)
         /\ LastSays(q, k, v) => LastSays(Queued(q, e), k, v)
<1>1. Queued(q, e) = [q EXCEPT ![Len(q)] = e]
  BY DEF Queued
<1>2. q # <<>> /\ q[Len(q)].wire.move /\ e.wire.move
  BY DEF Coalesces
<1>3. /\ DOMAIN Queued(q, e) = DOMAIN q /\ Queued(q, e)[Len(q)] = e
      /\ \A i \in DOMAIN q : i # Len(q) => Queued(q, e)[i] = q[i]
  BY <1>1, <1>2
<1>4. KeyEvents(Queued(q, e), k) = KeyEvents(q, k)
  BY <1>2, <1>3 DEF KeyEvents
<1>5. \A i \in KeyEvents(q, k) : Queued(q, e)[i] = q[i]
  BY <1>2, <1>3 DEF KeyEvents
<1> QED
  BY <1>4, <1>5 DEF LastSays

\* Appending an event puts it last for its key, and leaves the other keys alone.
LEMMA AppendedKeys ==
  ASSUME NEW q \in Seq(Event), NEW e \in Event, NEW k \in Keys, NEW v
  PROVE  /\ ~e.wire.move /\ e.wire.key = k =>
              /\ KeyEvents(Append(q, e), k) # {}
              /\ LastSays(Append(q, e), k, e.wire.down)
         /\ ~(~e.wire.move /\ e.wire.key = k) =>
              /\ KeyEvents(Append(q, e), k) = KeyEvents(q, k)
              /\ LastSays(q, k, v) => LastSays(Append(q, e), k, v)
<1> DEFINE n == Len(q) + 1
<1>1. /\ DOMAIN Append(q, e) = DOMAIN q \cup {n} /\ n \notin DOMAIN q
      /\ Append(q, e)[n] = e /\ \A i \in DOMAIN q : Append(q, e)[i] = q[i] /\ i < n /\ i \in Nat
      /\ n \in Nat
  OBVIOUS
<1> HIDE DEF n
<1>2. ASSUME ~e.wire.move, e.wire.key = k
      PROVE  KeyEvents(Append(q, e), k) # {} /\ LastSays(Append(q, e), k, e.wire.down)
  <2>1. n \in KeyEvents(Append(q, e), k)
    BY <1>1, <1>2 DEF KeyEvents
  <2>2. \A i \in KeyEvents(Append(q, e), k) : n <= i => i = n
    BY <1>1 DEF KeyEvents
  <2> QED
    BY <1>1, <2>1, <2>2 DEF LastSays
<1>3. ASSUME ~(~e.wire.move /\ e.wire.key = k)
      PROVE  /\ KeyEvents(Append(q, e), k) = KeyEvents(q, k)
             /\ LastSays(q, k, v) => LastSays(Append(q, e), k, v)
  <2>1. KeyEvents(Append(q, e), k) = KeyEvents(q, k)
    BY <1>1, <1>3 DEF KeyEvents
  <2>2. \A i \in KeyEvents(q, k) : Append(q, e)[i] = q[i]
    BY <1>1 DEF KeyEvents
  <2> QED
    BY <2>1, <2>2 DEF LastSays
<1> QED
  BY <1>2, <1>3

\* Dropping the oldest non-move costs a key its newest event only if that was its only one.
LEMMA RoomKeys ==
  ASSUME NEW q \in Seq(Event), NEW w \in Wire, ~w.move, NEW k \in Keys \ DroppedKeys(q), NEW v,
         LastSays(q, k, v)
  PROVE  /\ RoomFor(q, w) \in Seq(Event)
         /\ LastSays(RoomFor(q, w), k, v)
         /\ KeyEvents(RoomFor(q, w), k) = {} => KeyEvents(q, k) = {}
<1>1. CASE Cardinality(NonMoves(q)) < MaxNonMove
  BY <1>1 DEF RoomFor
<1>2. CASE ~(Cardinality(NonMoves(q)) < MaxNonMove)
  <2> DEFINE n == CHOOSE i \in NonMoves(q) : \A j \in NonMoves(q) : i <= j
             r == WithoutAt(q, n)
             old(i) == IF i < n THEN i ELSE i + 1
             new(i) == IF i < n THEN i ELSE i - 1
  <2>1. RoomFor(q, w) = r
    BY <1>2 DEF RoomFor
  <2>2. NonMoves(q) # {}
    <3>1. Cardinality(NonMoves(q)) # 0
      BY <1>2, NonMovesFinite
    <3> QED
      BY <3>1, FS_EmptySet
  <2>3. NonMoves(q) \subseteq DOMAIN q /\ DOMAIN q = 1 .. Len(q) /\ Len(q) \in Nat
    BY DEF NonMoves
  <2>4. n \in NonMoves(q) /\ \A j \in NonMoves(q) : n <= j
    <3>1. n \in NonMoves(q)
      BY <2>2, OldestNonMove
    <3>2. \E i \in NonMoves(q) : \A j \in NonMoves(q) : i <= j
      BY <2>2, OldestNonMove
    <3> QED
      BY <3>2
  <2> HIDE DEF n
  <2>5. n \in DOMAIN q
    BY <2>3, <2>4
  <2>6. /\ r \in Seq(Event) /\ DOMAIN r = 1 .. Len(q) - 1
        /\ \A i \in DOMAIN r : r[i] = q[old(i)] /\ old(i) \in DOMAIN q /\ old(i) # n
    <3>1. /\ r \in Seq(Event) /\ Len(r) = Len(q) - 1
          /\ \A i \in 1 .. Len(q) - 1 : r[i] = IF i < n THEN q[i] ELSE q[i + 1]
      BY <2>5, WithoutAtDef
    <3> HIDE DEF r
    <3>2. DOMAIN r = 1 .. Len(q) - 1
      BY <3>1
    <3>3. \A i \in 1 .. Len(q) - 1 : old(i) \in DOMAIN q /\ old(i) # n
      BY <2>3, <2>5
    <3> QED
      BY <3>1, <3>2, <3>3
  <2>7. \A j \in DOMAIN q : j # n => new(j) \in DOMAIN r /\ old(new(j)) = j
    BY <2>3, <2>5, <2>6
  <2>8. \A i, j \in DOMAIN r : old(j) <= old(i) <=> j <= i
    BY <2>3, <2>5, <2>6
  <2> HIDE DEF r, old, new
  <2>9. \A i \in DOMAIN r : i \in KeyEvents(r, k) <=> old(i) \in KeyEvents(q, k)
    BY <2>6 DEF KeyEvents
  <2>10. KeyEvents(q, k) \subseteq NonMoves(q)
    BY DEF KeyEvents, NonMoves
  <2>11. n \in KeyEvents(q, k) => \E j \in KeyEvents(q, k) : j # n
    <3> SUFFICES ASSUME n \in KeyEvents(q, k), \A j \in KeyEvents(q, k) : j = n PROVE FALSE
      OBVIOUS
    <3>1. \A j \in NonMoves(q) : n <= j /\ (q[j].wire.key = k => n = j)
      BY <2>4 DEF KeyEvents, NonMoves
    <3>2. n \in NonMoves(q) /\ q[n].wire.key = k
      BY <2>4 DEF KeyEvents
    <3> QED
      BY <1>2, <3>1, <3>2 DEF DroppedKeys
  <2>12. KeyEvents(r, k) = {} => KeyEvents(q, k) = {}
    <3> SUFFICES ASSUME NEW j \in KeyEvents(q, k) PROVE KeyEvents(r, k) # {}
      OBVIOUS
    <3>1. PICK m \in KeyEvents(q, k) : m # n
      BY <2>11
    <3>2. m \in DOMAIN q
      BY DEF KeyEvents
    <3> QED
      BY <2>7, <2>9, <3>1, <3>2
  <2>13. LastSays(r, k, v)
    <3> SUFFICES ASSUME NEW i \in KeyEvents(r, k), \A j \in KeyEvents(r, k) : j <= i
                 PROVE  r[i].wire.down = v
      BY DEF LastSays
    <3>1. i \in DOMAIN r /\ old(i) \in KeyEvents(q, k)
      BY <2>9 DEF KeyEvents
    <3>2. ASSUME NEW m \in KeyEvents(q, k) PROVE m <= old(i)
      <4>1. CASE m = n
        BY <2>4, <2>10, <3>1, <4>1
      <4>2. CASE m # n
        <5>1. m \in DOMAIN q
          BY DEF KeyEvents
        <5>2. new(m) \in DOMAIN r /\ old(new(m)) = m
          BY <2>7, <4>2, <5>1
        <5>3. new(m) <= i
          BY <2>9, <5>2
        <5> QED
          BY <2>8, <3>1, <5>2, <5>3
      <4> QED
        BY <4>1, <4>2
    <3>3. q[old(i)].wire.down = v
      BY <3>1, <3>2 DEF LastSays
    <3> QED
      BY <2>6, <3>1, <3>3
  <2> QED
    BY <2>1, <2>6, <2>12, <2>13
<1> QED
  BY <1>1, <1>2
\* Making room leaves a queue of events.
LEMMA RoomForType ==
  ASSUME NEW q \in Seq(Event), NEW w \in Wire
  PROVE  RoomFor(q, w) \in Seq(Event)
<1> DEFINE n == CHOOSE i \in NonMoves(q) : \A j \in NonMoves(q) : i <= j
<1>1. CASE w.move \/ Cardinality(NonMoves(q)) < MaxNonMove
  BY <1>1 DEF RoomFor
<1>2. CASE ~(w.move \/ Cardinality(NonMoves(q)) < MaxNonMove)
  <2>1. Cardinality(NonMoves(q)) # 0
    BY <1>2, NonMovesFinite
  <2>2. NonMoves(q) # {}
    BY <2>1, FS_EmptySet
  <2>3. n \in DOMAIN q
    BY <2>2, OldestNonMove DEF NonMoves
  <2>4. RoomFor(q, w) = WithoutAt(q, n)
    BY <1>2 DEF RoomFor
  <2> QED
    BY <2>3, <2>4, WithoutAtDef
<1> QED
  BY <1>1, <1>2

\* Every step keeps what is known of the keys.
LEMMA KeysStep == DispatcherInv /\ KeysInv /\ [Next]_vars => KeysInv'
<1> SUFFICES ASSUME DispatcherInv, KeysInv, [Next]_vars,
                    failures' = 0, NEW k \in Keys, k \notin lost'
             PROVE  KeyInv(k)'
  BY DEF KeysInv
<1>1. /\ queue \in Seq(Event) /\ hand \subseteq Event /\ AtMostOne(hand)
      /\ newest \in [Keys -> BOOLEAN] /\ held \in [Keys -> BOOLEAN] /\ failures \in Nat /\ ids \in Nat
  BY DEF DispatcherInv, TypeOK
<1>2. k \notin lost /\ failures = 0 => KeyInv(k)
  BY DEF KeysInv
<1>3. ASSUME NEW p \in Peers, Enqueue(p) PROVE KeyInv(k)'
  <2>1. PICK w \in arriving[p] :
          /\ queue' = Queued(queue, [id |-> ids + 1, wire |-> w])
          /\ newest' = IF w.move THEN newest ELSE [newest EXCEPT ![w.key] = w.down]
          /\ lost' = IF w.move THEN lost ELSE (lost \cup DroppedKeys(queue)) \ {w.key}
    BY <1>3 DEF Enqueue
  <2> DEFINE e == [id |-> ids + 1, wire |-> w]
  <2>2. w \in Wire /\ e \in Event /\ e.wire = w
    BY <1>1 DEF DispatcherInv, TypeOK, Event
  <2>3. hand' = hand /\ held' = held /\ failures = 0
    BY <1>3 DEF Enqueue
  <2> HIDE DEF e
  <2>4. queue' = Queued(queue, e)
    BY <2>1 DEF e
  <2>5. CASE w.move
    <3>1. newest' = newest /\ k \notin lost
      BY <2>1, <2>5
    <3>2. KeyInv(k)
      BY <1>2, <2>3, <3>1
    <3>3. /\ KeyEvents(queue', k) = KeyEvents(queue, k)
          /\ LastSays(queue, k, newest[k]) => LastSays(queue', k, newest[k])
      <4>1. CASE Coalesces(queue, w)
        BY <1>1, <2>2, <2>4, <4>1, CoalescedKeys
      <4>2. CASE ~Coalesces(queue, w)
        <5>1. queue' = Append(queue, e)
          BY <2>2, <2>4, <2>5, <4>2 DEF Queued, RoomFor
        <5> QED
          BY <1>1, <2>2, <2>5, <5>1, AppendedKeys
      <4> QED
        BY <4>1, <4>2
    <3> QED
      BY <2>3, <3>1, <3>2, <3>3 DEF KeyInv, Holds
  <2>6. CASE ~w.move
    <3> DEFINE r == RoomFor(queue, w)
    <3>1. queue' = Append(r, e)
      BY <2>2, <2>4, <2>6 DEF Queued, Coalesces
    <3>2. r \in Seq(Event)
      BY <1>1, <2>2, RoomForType
    <3>3. CASE w.key = k
      <4>1. newest'[k] = w.down
        BY <1>1, <2>1, <2>6, <3>3
      <4>2. KeyEvents(queue', k) # {} /\ LastSays(queue', k, w.down)
        BY <2>2, <2>6, <3>1, <3>2, <3>3, AppendedKeys
      <4> QED
        BY <4>1, <4>2 DEF KeyInv
    <3>4. CASE w.key # k
      <4>1. newest'[k] = newest[k]
        BY <1>1, <2>1, <2>6, <3>4
      <4>2. k \notin lost /\ k \notin DroppedKeys(queue)
        BY <2>1, <2>6, <3>4
      <4>3. KeyInv(k)
        BY <1>2, <2>3, <4>2
      <4>4. LastSays(queue, k, newest[k])
        BY <4>3 DEF KeyInv
      <4>5. /\ LastSays(r, k, newest[k])
            /\ KeyEvents(r, k) = {} => KeyEvents(queue, k) = {}
        BY <1>1, <2>2, <2>6, <4>2, <4>4, RoomKeys
      <4> HIDE DEF r
      <4>6. KeyEvents(queue', k) = KeyEvents(r, k) /\ LastSays(queue', k, newest[k])
        BY <2>2, <3>1, <3>2, <3>4, <4>5, AppendedKeys
      <4> QED
        BY <2>3, <4>1, <4>3, <4>5, <4>6 DEF KeyInv, Holds
    <3> QED
      BY <3>3, <3>4
  <2> QED
    BY <2>5, <2>6
<1>4. CASE Pop
  <2>1. /\ hand = {} /\ queue # <<>> /\ hand' = {Head(queue)} /\ queue' = Tail(queue)
        /\ UNCHANGED <<newest, held, lost, failures>>
    BY <1>4 DEF Pop
  <2>2. KeyInv(k)
    BY <1>2, <2>1
  <2>3. /\ Len(queue) \in Nat /\ 1 \in DOMAIN queue /\ Head(queue) = queue[1]
        /\ DOMAIN queue' = 1 .. Len(queue) - 1
        /\ \A i \in 1 .. Len(queue) - 1 : queue'[i] = queue[i + 1] /\ i + 1 \in DOMAIN queue
        /\ \A j \in DOMAIN queue : j # 1 => j - 1 \in 1 .. Len(queue) - 1 /\ j - 1 + 1 = j /\ j \in Nat
    BY <1>1, <2>1
  <2>4. \A i \in DOMAIN queue' : i \in KeyEvents(queue', k) <=> i + 1 \in KeyEvents(queue, k)
    BY <2>3 DEF KeyEvents
  <2>5. \A j \in KeyEvents(queue, k) : j # 1 => j - 1 \in KeyEvents(queue', k)
    BY <2>3, <2>4 DEF KeyEvents
  <2>6. LastSays(queue', k, newest[k])
    <3> SUFFICES ASSUME NEW i \in KeyEvents(queue', k), \A j \in KeyEvents(queue', k) : j <= i
                 PROVE  queue'[i].wire.down = newest[k]
      BY DEF LastSays
    <3>1. i \in 1 .. Len(queue) - 1 /\ i + 1 \in KeyEvents(queue, k)
      BY <2>3, <2>4 DEF KeyEvents
    <3>2. \A j \in KeyEvents(queue, k) : j <= i + 1
      <4> TAKE j \in KeyEvents(queue, k)
      <4>1. j \in DOMAIN queue
        BY DEF KeyEvents
      <4>2. CASE j = 1
        BY <3>1, <4>2
      <4>3. CASE j # 1
        <5>1. j - 1 <= i
          BY <2>5, <4>3
        <5> QED
          BY <2>3, <3>1, <4>1, <4>3, <5>1
      <4> QED
        BY <4>2, <4>3
    <3> QED
      BY <2>2, <2>3, <3>1, <3>2 DEF KeyInv, LastSays
  <2>7. ASSUME KeyEvents(queue', k) = {}
        PROVE  /\ \A e \in hand' : ~e.wire.move /\ e.wire.key = k => e.wire.down = newest[k]
               /\ ~Holds(k)' => held[k] = newest[k]
    <3>1. \A j \in KeyEvents(queue, k) : j = 1
      BY <2>5, <2>7
    <3>2. 1 \in KeyEvents(queue, k) => Head(queue).wire.down = newest[k]
      <4>1. 1 <= 1
        OBVIOUS
      <4> QED
        BY <2>2, <2>3, <3>1, <4>1 DEF KeyInv, LastSays
    <3>3. 1 \in KeyEvents(queue, k) <=> ~Head(queue).wire.move /\ Head(queue).wire.key = k
      BY <2>3 DEF KeyEvents
    <3>4. 1 \notin KeyEvents(queue, k) => held[k] = newest[k]
      BY <2>1, <2>2, <3>1 DEF KeyInv, Holds
    <3> QED
      BY <2>1, <3>2, <3>3, <3>4 DEF Holds
  <2> QED
    BY <2>1, <2>6, <2>7 DEF KeyInv
<1>5. CASE ApplyOk
  <2>1. PICK e \in hand :
          held' = IF e.wire.move THEN held ELSE [held EXCEPT ![e.wire.key] = e.wire.down]
    BY <1>5 DEF ApplyOk
  <2>2. hand' = {} /\ UNCHANGED <<queue, newest, lost, failures>>
    BY <1>5 DEF ApplyOk
  <2>3. KeyInv(k)
    BY <1>2, <2>2
  <2>4. hand = {e}
    BY <1>1 DEF AtMostOne
  <2>5. KeyEvents(queue, k) = {} => held'[k] = newest[k]
    <3>1. CASE ~e.wire.move /\ e.wire.key = k
      BY <1>1, <2>1, <2>3, <3>1 DEF KeyInv
    <3>2. CASE ~(~e.wire.move /\ e.wire.key = k)
      <4>1. held'[k] = held[k]
        BY <1>1, <2>1, <3>2
      <4> QED
        BY <2>3, <2>4, <3>2, <4>1 DEF KeyInv, Holds
    <3> QED
      BY <3>1, <3>2
  <2> QED
    BY <2>2, <2>3, <2>5 DEF KeyInv, Holds
<1>6. CASE ApplyFails
  BY <1>1, <1>6 DEF ApplyFails
<1>7. CASE SetEnabled \/ UNCHANGED vars \/ \E p \in Peers : Receive(p)
  <2>1. UNCHANGED <<queue, hand, newest, held, lost, failures>>
    BY <1>7 DEF SetEnabled, vars, Receive
  <2> QED
    BY <1>2, <2>1 DEF KeyInv, Holds
<1> QED
  BY <1>3, <1>4, <1>5, <1>6, <1>7 DEF Next

\* Once the queue is drained and no backend call failed, the backend knows the newest
\* accepted state of every key, except of those whose newest event the cap dropped: no
\* coalescing and no drop of another key's event leaves a key stuck.
THEOREM InputKeysCatchUp == Spec => []KeyStateCatchesUp
<1>1. Init => KeysInv
  BY DEF Init, KeysInv, KeyInv, LastSays, KeyEvents, Holds
<1>2. DispatcherInv /\ KeysInv => KeyStateCatchesUp
  BY DEF DispatcherInv, TypeOK, KeysInv, KeyInv, KeyEvents, Holds, KeyStateCatchesUp
<1> QED
  BY <1>1, <1>2, KeysStep, DispatcherInvariant, PTL DEF Spec
-----------------------------------------------------------------------------
(* The backends: the keymap's inverse and the screen's size. *)

\* KeyLookup::build inverts the keymap: the place it keeps of a keysym has that keysym.
LEMMA PlaceHasKeysym ==
  ASSUME NEW k \in Keysyms
  PROVE  /\ Place(k)[1] \in DOMAIN Layout /\ Place(k)[2] \in DOMAIN Layout[Place(k)[1]]
         /\ Place(k)[2] \in Nat \ {0}
         /\ Layout[Place(k)[1]][Place(k)[2]] = k
<1> DEFINE L(c) == {l \in DOMAIN Layout[c] : Layout[c][l] = k}
           C == {c \in DOMAIN Layout : L(c) # {}}
           places == UNION {{c} \X L(c) : c \in DOMAIN Layout}
           Least(p) == \A q \in places : p[1] < q[1] \/ (p[1] = q[1] /\ p[2] <= q[2])
<1>1. DOMAIN Layout \subseteq Nat /\ \A c \in DOMAIN Layout : Layout[c] \in Seq(Keysyms)
  BY InputBackendsAssumption
<1>2. \A c \in DOMAIN Layout : L(c) \subseteq Nat \ {0}
  <2>1. \A q \in Seq(Keysyms) : DOMAIN q \subseteq Nat \ {0}
    OBVIOUS
  <2> QED
    BY <1>1, <2>1
<1>3. C # {} /\ C \subseteq Nat
  BY <1>1 DEF Keysyms, Range
<1>4. PICK c \in C : \A d \in C : c <= d
  BY <1>3, LeastNatural
<1>5. PICK l \in L(c) : \A m \in L(c) : l <= m
  BY <1>2, <1>4, LeastNatural
<1>6. \A p : p \in places <=> \E d \in DOMAIN Layout : \E m \in L(d) : p = <<d, m>>
  OBVIOUS
<1> HIDE DEF L, places
<1>7. <<c, l>> \in places /\ Least(<<c, l>>)
  <2>1. <<c, l>> \in places
    BY <1>4, <1>5, <1>6
  <2>2. ASSUME NEW d \in DOMAIN Layout, NEW m \in L(d)
        PROVE  c < d \/ (c = d /\ l <= m)
    <3>1. c \in Nat /\ d \in Nat /\ c <= d
      BY <1>3, <1>1, <1>4, <2>2
    <3> QED
      BY <1>5, <2>2, <3>1
  <2> QED
    BY <1>6, <2>1, <2>2
<1>8. Place(k) = CHOOSE p \in places : Least(p)
  BY DEF Place, places, L
<1>9. Place(k) \in places
  BY <1>7, <1>8
<1>10. \E d \in DOMAIN Layout : \E m \in L(d) : Place(k) = <<d, m>>
  BY <1>6, <1>9
<1> QED
  BY <1>2, <1>10 DEF L

\* The compositor's modes give a size or none.
LEMMA SizeType ==
  ASSUME NEW modes \in Seq([size : Nat, current : BOOLEAN])
  PROVE  OutputSize(modes) \in Sizes
<1> DEFINE last == {n \in DOMAIN modes : modes[n].current /\ \A i \in (n + 1)..Len(modes) : ~modes[i].current}
           Mode == [size : Nat, current : BOOLEAN]
<1>1. \A n \in DOMAIN modes : modes[n].size \in Nat
  <2>1. modes \in Seq(Mode) /\ \A m \in Mode : m.size \in Nat
    OBVIOUS
  <2> HIDE DEF Mode
  <2>2. \A n \in DOMAIN modes : modes[n] \in Mode
    BY <2>1
  <2> QED
    BY <2>1, <2>2
<1>2. CASE last # {}
  <2>1. (CHOOSE n \in last : TRUE) \in DOMAIN modes
    BY <1>2
  <2> HIDE DEF last
  <2>2. OutputSize(modes) = modes[CHOOSE n \in last : TRUE].size
    BY <1>2 DEF OutputSize, last
  <2> QED
    BY <1>1, <2>1, <2>2 DEF Sizes
<1>3. CASE last = {} /\ modes = <<>>
  BY <1>3 DEF OutputSize, Sizes
<1>4. CASE last = {} /\ modes # <<>>
  <2>1. 1 \in DOMAIN modes /\ OutputSize(modes) = modes[1].size
    BY <1>4 DEF OutputSize
  <2> QED
    BY <1>1, <2>1 DEF Sizes
<1> QED
  BY <1>2, <1>3, <1>4

\* A clamped coordinate scales into the screen.
LEMMA ScaledFits ==
  ASSUME NEW a \in 0..Unit, NEW e \in Nat
  PROVE  (a * e) \div Unit \in 0..e
<1>1. Unit \in Nat /\ Unit > 0
  BY InputBackendsAssumption
<1> PICK u \in Nat : u = Unit
  BY <1>1
<1>2. a * e \in Nat /\ a * e <= u * e
  <2>1. a \in Nat /\ u - a \in Nat
    BY <1>1
  <2>2. a * e \in Nat /\ (u - a) * e \in Nat
    BY <2>1
  <2>3. u * e = a * e + (u - a) * e
    BY <2>1
  <2> QED
    BY <2>2, <2>3
<1> DEFINE n == a * e
           q == n \div u
<1>3. n \in Nat
  BY <1>2
<1>4. q \in Int /\ u * q <= n /\ n < u * q + u
  <2> HIDE DEF n
  <2> QED
    BY <1>1, <1>3
<1> HIDE DEF q, n
<1>5. q >= 0
  BY <1>1, <1>3, <1>4
<1>6. q <= e
  <2> SUFFICES ASSUME q >= e + 1 PROVE FALSE
    BY <1>4
  <2>1. u * (q - e) >= u
    BY <1>1, <1>4
  <2>2. u * q >= u * e + u
    BY <1>1, <1>4, <2>1
  <2> QED
    BY <1>1, <1>2, <1>4, <2>2 DEF n
<1> QED
  BY <1>4, <1>5, <1>6 DEF q, n

-----------------------------------------------------------------------------
(* What each phone has down, followed through the queue. *)

Sendable == Keysyms \cup Buttons \cup Strangers
Press == [kind : {"press"}, by : Phones, what : Sendable, pressed : BOOLEAN]
Motion == [kind : {"move"}, x : Int]

\* What a call leaves its phone with, and what may be down before it.
Leaves(c) == IF c.pressed THEN c.what ELSE NoKey
Allows(c) == IF c.pressed THEN NoKey ELSE c.what
Follows(k, allowed, gone) == k = NoKey \/ k = allowed \/ k \in gone

\* Phone p's calls in a queue.
Of(q, p) == {i \in DOMAIN q : q[i].kind = "press" /\ q[i].by = p}

\* From what was applied last, over each call that waits, to what the phone holds now: a key
\* is released by the next call, or its release never came.
Chain(q, p, first, last, gone) ==
  /\ Of(q, p) = {} => Follows(first, last, gone)
  /\ \A i \in Of(q, p) :
       /\ (\A j \in Of(q, p) : i <= j) => Follows(first, Allows(q[i]), gone)
       /\ (\A j \in Of(q, p) : j <= i) => Follows(Leaves(q[i]), last, gone)
  /\ \A i, j \in Of(q, p) :
       i < j /\ (\A k \in Of(q, p) : k <= i \/ j <= k) => Follows(Leaves(q[i]), Allows(q[j]), gone)

\* A release that never comes, or fails, leaves its key down, and no chain breaks.
LEMMA ChainGrows ==
  ASSUME NEW q, NEW p, NEW first, NEW last, NEW gone, NEW k, Chain(q, p, first, last, gone)
  PROVE  /\ Chain(q, p, first, last, gone \cup {k})
         /\ Chain(q, p, first, NoKey, gone \cup {last})
BY DEF Chain, Follows

\* Two queues with the same calls of p in the same order.
LEMMA ChainSame ==
  ASSUME NEW q, NEW r, NEW p, NEW first, NEW last, NEW gone, Chain(q, p, first, last, gone),
         Of(r, p) = Of(q, p), \A i \in Of(q, p) : r[i] = q[i]
  PROVE  Chain(r, p, first, last, gone)
BY DEF Chain

\* A call of p, or of another, joins the queue.
LEMMA ChainAppend ==
  ASSUME NEW q \in Seq(Press \cup Motion), NEW m \in Press \cup Motion,
         NEW p, NEW first, NEW last, NEW gone, Chain(q, p, first, last, gone)
  PROVE  /\ m.kind = "move" \/ m.by # p => Chain(Append(q, m), p, first, last, gone)
         /\ m.kind = "press" /\ m.by = p /\ last = Allows(m) => Chain(Append(q, m), p, first, Leaves(m), gone)
<1> DEFINE r == Append(q, m)
           n == Len(q) + 1
<1>1. /\ r \in Seq(Press \cup Motion) /\ n \in Nat /\ n \in DOMAIN r /\ r[n] = m
      /\ \A i \in DOMAIN q : i \in Nat /\ i < n /\ i \in DOMAIN r /\ r[i] = q[i]
      /\ \A i \in DOMAIN r : i \in Nat /\ (i = n \/ i \in DOMAIN q)
  BY AppendPlaces
<1> HIDE DEF r, n
<1>2. ASSUME m.kind = "move" \/ m.by # p PROVE Chain(r, p, first, last, gone)
  <2>1. Of(r, p) = Of(q, p) /\ \A i \in Of(q, p) : r[i] = q[i]
    BY <1>1, <1>2 DEF Of
  <2> QED
    BY <2>1, ChainSame
<1>3. ASSUME m.kind = "press", m.by = p, last = Allows(m) PROVE Chain(r, p, first, Leaves(m), gone)
  <2>1. /\ Of(r, p) = Of(q, p) \cup {n} /\ n \notin Of(q, p)
        /\ \A i \in Of(q, p) : i \in Nat /\ i < n /\ r[i] = q[i]
    BY <1>1, <1>3 DEF Of
  <2>2. ASSUME NEW i \in Of(r, p), \A j \in Of(r, p) : i <= j PROVE Follows(first, Allows(r[i]), gone)
    <3>1. CASE i = n
      <4>1. \A j \in Of(q, p) : j \in Nat /\ j < n /\ n <= j
        BY <2>1, <2>2, <3>1
      <4>2. Of(q, p) = {}
        BY <1>1, <4>1
      <4> QED
        BY <1>1, <1>3, <3>1, <4>2 DEF Chain
    <3>2. CASE i \in Of(q, p)
      BY <2>1, <2>2, <3>2 DEF Chain
    <3> QED
      BY <2>1, <3>1, <3>2
  <2>3. ASSUME NEW i \in Of(r, p), \A j \in Of(r, p) : j <= i PROVE Follows(Leaves(r[i]), Leaves(m), gone)
    <3>1. i = n
      BY <1>1, <2>1, <2>3
    <3> QED
      BY <1>1, <3>1 DEF Follows
  <2>4. ASSUME NEW i \in Of(r, p), NEW j \in Of(r, p), i < j, \A k \in Of(r, p) : k <= i \/ j <= k
        PROVE  Follows(Leaves(r[i]), Allows(r[j]), gone)
    <3>1. i \in Of(q, p)
      BY <1>1, <2>1, <2>4
    <3>2. CASE j \in Of(q, p)
      BY <2>1, <2>4, <3>1, <3>2 DEF Chain
    <3>3. CASE j = n
      <4>1. \A k \in Of(q, p) : k <= i
        BY <1>1, <2>1, <2>4, <3>3
      <4> QED
        BY <1>1, <1>3, <2>1, <3>1, <3>3, <4>1 DEF Chain
    <3> QED
      BY <2>1, <3>2, <3>3
  <2>5. Of(r, p) # {}
    BY <2>1
  <2> QED
    BY <2>2, <2>3, <2>4, <2>5 DEF Chain
<1> QED
  BY <1>2, <1>3 DEF r

\* The first call leaves the queue.
LEMMA ChainTail ==
  ASSUME NEW q \in Seq(Press \cup Motion), q # <<>>,
         NEW p, NEW first, NEW last, NEW gone, Chain(q, p, first, last, gone)
  PROVE  /\ Head(q).kind = "move" \/ Head(q).by # p => Chain(Tail(q), p, first, last, gone)
         /\ Head(q).kind = "press" /\ Head(q).by = p =>
              /\ Follows(first, Allows(Head(q)), gone)
              /\ Chain(Tail(q), p, Leaves(Head(q)), last, gone)
<1> DEFINE r == Tail(q)
           h == Head(q)
<1>1. /\ r \in Seq(Press \cup Motion) /\ h \in Press \cup Motion /\ h = q[1] /\ 1 \in DOMAIN q
      /\ \A i \in DOMAIN r : i \in Nat /\ i + 1 \in DOMAIN q /\ r[i] = q[i + 1]
      /\ \A i \in DOMAIN q : i \in Nat /\ (i = 1 \/ (i - 1 \in DOMAIN r /\ r[i - 1] = q[i]))
  BY TailPlaces
<1>0. \A i \in DOMAIN q : 1 <= i
  OBVIOUS
<1>2. h.kind \in {"press", "move"}
  <2>1. \A c \in Press \cup Motion : c.kind \in {"press", "move"}
    BY DEF Press, Motion
  <2> QED
    BY <1>1, <2>1
<1> HIDE DEF r, h
<1>3. \A i \in Of(r, p) : i \in Nat /\ i >= 1 /\ i + 1 \in Of(q, p) /\ r[i] = q[i + 1]
  <2>1. \A i \in Of(r, p) : i \in DOMAIN r
    BY DEF Of
  <2>2. \A i \in DOMAIN r : i >= 1
    BY <1>1
  <2> QED
    BY <1>1, <2>1, <2>2 DEF Of
<1>4. \A i \in Of(q, p) : i \in Nat /\ 1 <= i /\ (i # 1 => i - 1 \in Of(r, p))
  BY <1>0, <1>1 DEF Of
<1>5. 1 \in Of(q, p) <=> h.kind = "press" /\ h.by = p
  BY <1>1 DEF Of
<1>6. ASSUME 1 \notin Of(q, p) PROVE Chain(r, p, first, last, gone)
  <2>1. Of(r, p) = {} => Of(q, p) = {}
    BY <1>4, <1>6
  <2>2. ASSUME NEW i \in Of(r, p), \A j \in Of(r, p) : i <= j PROVE Follows(first, Allows(r[i]), gone)
    <3>1. \A j \in Of(q, p) : i + 1 <= j
      BY <1>3, <1>4, <1>6, <2>2
    <3> QED
      BY <1>3, <3>1 DEF Chain
  <2>3. ASSUME NEW i \in Of(r, p), \A j \in Of(r, p) : j <= i PROVE Follows(Leaves(r[i]), last, gone)
    <3>1. \A j \in Of(q, p) : j <= i + 1
      BY <1>3, <1>4, <1>6, <2>3
    <3> QED
      BY <1>3, <3>1 DEF Chain
  <2>4. ASSUME NEW i \in Of(r, p), NEW j \in Of(r, p), i < j, \A k \in Of(r, p) : k <= i \/ j <= k
        PROVE  Follows(Leaves(r[i]), Allows(r[j]), gone)
    <3>1. i + 1 < j + 1 /\ \A k \in Of(q, p) : k <= i + 1 \/ j + 1 <= k
      BY <1>3, <1>4, <1>6, <2>4
    <3> QED
      BY <1>3, <3>1 DEF Chain
  <2> QED
    BY <2>1, <2>2, <2>3, <2>4 DEF Chain
<1>7. ASSUME 1 \in Of(q, p)
      PROVE  Follows(first, Allows(h), gone) /\ Chain(r, p, Leaves(h), last, gone)
  <2>1. Follows(first, Allows(h), gone)
    BY <1>1, <1>4, <1>7 DEF Chain
  <2>2. Of(r, p) = {} => Follows(Leaves(h), last, gone)
    <3>1. Of(r, p) = {} => \A j \in Of(q, p) : j <= 1
      BY <1>4
    <3> QED
      BY <1>1, <1>7, <3>1 DEF Chain
  <2>3. ASSUME NEW i \in Of(r, p), \A j \in Of(r, p) : i <= j PROVE Follows(Leaves(h), Allows(r[i]), gone)
    <3>1. 1 < i + 1 /\ \A k \in Of(q, p) : k <= 1 \/ i + 1 <= k
      BY <1>3, <1>4, <2>3
    <3> QED
      BY <1>1, <1>3, <1>7, <3>1 DEF Chain
  <2>4. ASSUME NEW i \in Of(r, p), \A j \in Of(r, p) : j <= i PROVE Follows(Leaves(r[i]), last, gone)
    <3>1. \A j \in Of(q, p) : j <= i + 1
      BY <1>3, <1>4, <2>4
    <3> QED
      BY <1>3, <3>1 DEF Chain
  <2>5. ASSUME NEW i \in Of(r, p), NEW j \in Of(r, p), i < j, \A k \in Of(r, p) : k <= i \/ j <= k
        PROVE  Follows(Leaves(r[i]), Allows(r[j]), gone)
    <3>1. i + 1 < j + 1 /\ \A k \in Of(q, p) : k <= i + 1 \/ j + 1 <= k
      BY <1>3, <1>4, <2>5
    <3> QED
      BY <1>3, <3>1 DEF Chain
  <2> QED
    BY <2>1, <2>2, <2>3, <2>4, <2>5 DEF Chain
<1> QED
  BY <1>2, <1>5, <1>6, <1>7 DEF r, h

\* What the phones press, or never released.
Pressed == {open[p] : p \in Phones} \cup unreleased

Applied == Keysyms \cup Buttons
PadTyped ==
  /\ session \in Environment /\ backend \in {"starting", "wayland", "ydotool", "none"}
  /\ extent \in Nat /\ cursor \in 0..extent
  /\ calls \in Seq(Press \cup Motion)
  /\ typing \in [Phones -> Sendable \cup {NoKey}]
  /\ open \in [Phones -> Applied \cup {NoKey}]

\* Before the backend is chosen nothing has been sent.
Unstarted == backend = "starting" => calls = <<>> /\ typing = Idle /\ keysDown = {} /\ cursor = 0

KeysExplained == \A d \in keysDown : \E k \in Pressed \ {NoKey} : d = Pressing(k)
ShiftExplained == shift => backend = "wayland" /\ \E k \in Pressed \ {NoKey} : NeedsShift(k)
TypedRight == typed.alone /\ typed.asked # NoKey /\ Place(typed.asked)[2] <= 2 => typed.got = typed.asked

\* The inductive invariant behind KeyboardFollowsPhones.
PadInv ==
  /\ PadTyped /\ Unstarted
  /\ \A p \in Phones : Chain(calls, p, open[p], typing[p], unreleased)
  /\ KeysExplained /\ ShiftExplained /\ TypedRight

\* It holds at the start.
LEMMA PadStarts == PadInit => PadInv
<1> SUFFICES ASSUME PadInit PROVE PadInv
  OBVIOUS
<1>1. PadTyped
  <2>1. session \in Environment /\ Fallback \in Nat
    BY InputBackendsAssumption DEF PadInit
  <2>2. Idle \in [Phones -> Sendable \cup {NoKey}] /\ Idle \in [Phones -> Applied \cup {NoKey}]
    BY DEF Idle
  <2>3. <<>> \in Seq(Press \cup Motion) /\ 0 \in 0..Fallback
    BY <2>1
  <2> QED
    BY <2>1, <2>2, <2>3 DEF PadInit, PadTyped
<1>2. \A p \in Phones : Chain(calls, p, open[p], typing[p], unreleased)
  <2>1. \A p \in Phones : Of(<<>>, p) = {}
    BY DEF Of
  <2> QED
    BY <2>1 DEF PadInit, Idle, Chain, Follows
<1>3. Unstarted /\ KeysExplained /\ ShiftExplained /\ TypedRight
  BY DEF PadInit, Unstarted, KeysExplained, ShiftExplained, TypedRight
<1> QED
  BY <1>1, <1>2, <1>3 DEF PadInv

\* A backend is chosen.
LEMMA DetectKeeps == PadInv /\ (DetectWayland \/ DetectYdotool) => PadInv'
<1> SUFFICES ASSUME PadInv, DetectWayland \/ DetectYdotool PROVE PadInv'
  OBVIOUS
<1>1. /\ backend = "starting" /\ UNCHANGED <<session, typing, calls, keysDown, shift, cursor, open, unreleased, typed>>
      /\ backend' \in {"wayland", "ydotool", "none"}
  BY DEF DetectWayland, DetectYdotool
<1>2. \A size \in Sizes : Known(size) \in Nat
  BY InputBackendsAssumption DEF Known, Sizes
<1>3. session.x11 \in Sizes /\ session.env \in Sizes /\ OutputSize(session.modes) \in Sizes /\ Unknown \in Sizes
  <2>1. session.x11 \in Sizes /\ session.env \in Sizes
        /\ session.modes \in Seq([size : Nat, current : BOOLEAN])
    BY DEF PadInv, PadTyped, Environment
  <2> QED
    BY <2>1, SizeType DEF Sizes
<1>4. extent' \in Nat
  BY <1>2, <1>3 DEF DetectWayland, DetectYdotool, ScreenSize
<1>5. cursor = 0 /\ keysDown = {} /\ ~shift
  BY <1>1 DEF PadInv, Unstarted, ShiftExplained
<1>6. PadTyped'
  BY <1>1, <1>4, <1>5 DEF PadInv, PadTyped
<1>7. Unstarted' /\ KeysExplained' /\ ShiftExplained' /\ TypedRight'
  BY <1>1, <1>5 DEF Unstarted, KeysExplained, ShiftExplained, TypedRight, PadInv
<1> QED
  BY <1>1, <1>6, <1>7 DEF PadInv

\* The clauses about the keyboard read the queue only through the chains.
LEMMA KeyboardStays ==
  ASSUME KeysExplained, ShiftExplained, TypedRight, UNCHANGED <<backend, keysDown, shift, open, typed>>,
         unreleased \subseteq unreleased'
  PROVE  KeysExplained' /\ ShiftExplained' /\ TypedRight'
<1>1. \A k : Pressing(k)' = Pressing(k)
  BY DEF Pressing
<1>2. Pressed \ {NoKey} \subseteq (Pressed \ {NoKey})'
  BY DEF Pressed
<1> QED
  BY <1>1, <1>2 DEF KeysExplained, ShiftExplained, TypedRight

\* What phones send joins the queue's chains.
LEMMA SendKeeps ==
  ASSUME PadInv,
         (\E p \in Phones : SendRelease(p) \/ \E k \in Sendable : SendPress(p, k)) \/ \E x \in Int : SendMove(x)
  PROVE  PadInv'
<1>1. \A c \in Press \cup Motion : Append(calls, c) \in Seq(Press \cup Motion)
  BY DEF PadInv, PadTyped
<1>2. ASSUME NEW x \in Int, SendMove(x) PROVE PadInv'
  <2> DEFINE m == [kind |-> "move", x |-> x]
  <2>1. m \in Press \cup Motion /\ m.kind = "move"
    BY DEF Motion
  <2> HIDE DEF m
  <2>2. calls' = Append(calls, m) /\ backend # "starting" 
        /\ UNCHANGED <<session, backend, extent, typing, keysDown, shift, cursor, open, unreleased, typed>>
    BY <1>2 DEF SendMove, m
  <2>3. \A p \in Phones : Chain(Append(calls, m), p, open[p], typing[p], unreleased)
    BY <2>1, ChainAppend DEF PadInv, PadTyped
  <2>4. PadTyped' /\ Unstarted'
    BY <1>1, <2>1, <2>2 DEF PadInv, PadTyped, Unstarted
  <2>5. KeysExplained' /\ ShiftExplained' /\ TypedRight'
    BY <2>2, KeyboardStays DEF PadInv
  <2> QED
    BY <2>2, <2>3, <2>4, <2>5 DEF PadInv
<1>3. ASSUME NEW p \in Phones, NEW m \in Press, m.by = p, typing[p] = Allows(m), backend # "starting",
             calls' = Append(calls, m), typing' = [typing EXCEPT ![p] = Leaves(m)],
             UNCHANGED <<session, backend, extent, keysDown, shift, cursor, open, unreleased, typed>>
      PROVE  PadInv'
  <2>1. m.kind = "press" /\ m.what \in Sendable
    BY <1>3 DEF Press
  <2>2. /\ typing' \in [Phones -> Sendable \cup {NoKey}]
        /\ typing'[p] = Leaves(m) /\ \A q \in Phones \ {p} : typing'[q] = typing[q]
    BY <1>3, <2>1 DEF PadInv, PadTyped, Leaves
  <2>3. Chain(calls', p, open[p], typing'[p], unreleased)
    BY <1>3, <2>1, <2>2, ChainAppend DEF PadInv, PadTyped
  <2>4. ASSUME NEW q \in Phones \ {p} PROVE Chain(calls', q, open[q], typing'[q], unreleased)
    <3>1. m.by # q
      BY <1>3, <2>4
    <3> QED
      BY <1>3, <2>2, <3>1, ChainAppend DEF PadInv, PadTyped
  <2>5. PadTyped' /\ Unstarted'
    BY <1>1, <1>3, <2>2 DEF PadInv, PadTyped, Unstarted
  <2>6. KeysExplained' /\ ShiftExplained' /\ TypedRight'
    BY <1>3, KeyboardStays DEF PadInv
  <2> QED
    BY <1>3, <2>3, <2>4, <2>5, <2>6 DEF PadInv
<1>4. ASSUME NEW p \in Phones, NEW w \in Sendable, NEW pressed \in BOOLEAN
      PROVE  /\ Call(p, w, pressed) \in Press /\ Call(p, w, pressed).by = p
             /\ Allows(Call(p, w, pressed)) = IF pressed THEN NoKey ELSE w
             /\ Leaves(Call(p, w, pressed)) = IF pressed THEN w ELSE NoKey
  BY DEF Call, Press, Allows, Leaves
<1>5. ASSUME NEW p \in Phones, NEW k \in Sendable, SendPress(p, k) PROVE PadInv'
  <2>1. PICK m : m = Call(p, k, TRUE)
    OBVIOUS
  <2>2. m \in Press /\ m.by = p /\ Allows(m) = NoKey /\ Leaves(m) = k
    BY <1>4, <2>1
  <2> QED
    BY <1>3, <1>5, <2>1, <2>2 DEF SendPress
<1>6. ASSUME NEW p \in Phones, SendRelease(p) PROVE PadInv'
  <2>0. typing[p] \in Sendable /\ backend # "starting"
    BY <1>6 DEF SendRelease, PadInv, PadTyped, Unstarted, Idle
  <2>1. CASE calls' = Append(calls, Call(p, typing[p], FALSE)) /\ UNCHANGED unreleased
    <3>1. PICK m : m = Call(p, typing[p], FALSE)
      OBVIOUS
    <3>2. m \in Press /\ m.by = p /\ Allows(m) = typing[p] /\ Leaves(m) = NoKey
      BY <1>4, <2>0, <3>1
    <3> QED
      BY <1>3, <1>6, <2>0, <2>1, <3>1, <3>2 DEF SendRelease
  <2>2. CASE unreleased' = unreleased \cup {typing[p]} /\ UNCHANGED calls
    <3>1. /\ typing' = [typing EXCEPT ![p] = NoKey]
          /\ UNCHANGED <<session, backend, extent, keysDown, shift, cursor, open, typed>>
      BY <1>6 DEF SendRelease
    <3>2. /\ typing' \in [Phones -> Sendable \cup {NoKey}]
          /\ typing'[p] = NoKey /\ \A q \in Phones \ {p} : typing'[q] = typing[q]
      BY <3>1 DEF PadInv, PadTyped
    <3>3. \A q \in Phones : Chain(calls, q, open[q], typing'[q], unreleased')
      BY <2>2, <3>2, ChainGrows DEF PadInv
    <3>4. PadTyped' /\ Unstarted'
      BY <2>0, <2>2, <3>1, <3>2 DEF PadInv, PadTyped, Unstarted
    <3>5. KeysExplained' /\ ShiftExplained' /\ TypedRight'
      BY <2>2, <3>1, KeyboardStays DEF PadInv
    <3> QED
      BY <2>2, <3>1, <3>3, <3>4, <3>5 DEF PadInv
  <2> QED
    BY <1>6, <2>1, <2>2 DEF SendRelease
<1> QED
  BY <1>2, <1>5, <1>6

\* The call that the backend takes.
LEMMA TakenCall ==
  ASSUME PadInv, Applying("press")
  PROVE  /\ calls # <<>> /\ backend # "starting" /\ calls' = Tail(calls)
         /\ Head(calls) \in Press /\ Head(calls).kind = "press"
         /\ Head(calls).by \in Phones /\ Head(calls).what \in Sendable /\ Head(calls).pressed \in BOOLEAN
         /\ Follows(open[Head(calls).by], Allows(Head(calls)), unreleased)
<1>1. calls # <<>> /\ Head(calls).kind = "press" /\ calls' = Tail(calls) /\ backend # "starting"
  BY DEF Applying, PadInv, Unstarted
<1>2. Head(calls) \in Press \cup Motion
  BY <1>1, TailPlaces DEF PadInv, PadTyped
<1>3. \A m \in Motion : m.kind = "move"
  BY DEF Motion
<1>4. \A m \in Press : m.by \in Phones /\ m.what \in Sendable /\ m.pressed \in BOOLEAN
  BY DEF Press
<1>5. Head(calls) \in Press
  BY <1>1, <1>2, <1>3
<1>6. Follows(open[Head(calls).by], Allows(Head(calls)), unreleased)
  BY <1>1, <1>4, <1>5, ChainTail DEF PadInv, PadTyped
<1> QED
  BY <1>1, <1>4, <1>5, <1>6

\* The chains go on from what the call left behind.
LEMMA TakenChains ==
  ASSUME PadInv, Applying("press"), NEW f \in Applied \cup {NoKey},
         open' = [open EXCEPT ![Head(calls).by] = f], unreleased \subseteq unreleased',
         \A a : Follows(Leaves(Head(calls)), a, unreleased) => Follows(f, a, unreleased'),
         UNCHANGED <<session, backend, extent, typing, cursor>>
  PROVE  /\ PadTyped' /\ Unstarted'
         /\ \A p \in Phones : Chain(calls', p, open'[p], typing'[p], unreleased')
<1>1. PICK by : by = Head(calls).by
  OBVIOUS
<1>2. open' \in [Phones -> Applied \cup {NoKey}] /\ open'[by] = f /\ \A p \in Phones \ {by} : open'[p] = open[p]
  BY <1>1, TakenCall DEF PadInv, PadTyped
<1>3. calls' \in Seq(Press \cup Motion)
  BY TakenCall, TailPlaces DEF PadInv, PadTyped
<1>4. Chain(calls', by, f, typing[by], unreleased')
  <2>1. Chain(Tail(calls), by, Leaves(Head(calls)), typing[by], unreleased)
    BY <1>1, TakenCall, ChainTail DEF PadInv, PadTyped
  <2>2. \A k, a : Follows(k, a, unreleased) => Follows(k, a, unreleased')
    BY DEF Follows
  <2> QED
    BY <2>1, <2>2, TakenCall DEF Chain
<1>5. ASSUME NEW p \in Phones \ {by} PROVE Chain(calls', p, open[p], typing[p], unreleased')
  <2>1. Chain(Tail(calls), p, open[p], typing[p], unreleased)
    BY <1>1, <1>5, TakenCall, ChainTail DEF PadInv, PadTyped
  <2>2. \A k, a : Follows(k, a, unreleased) => Follows(k, a, unreleased')
    BY DEF Follows
  <2> QED
    BY <2>1, <2>2, TakenCall DEF Chain
<1>6. PadTyped' /\ Unstarted'
  BY <1>2, <1>3, TakenCall DEF PadInv, PadTyped, Unstarted
<1> QED
  BY <1>2, <1>4, <1>5, <1>6

\* What was typed while nothing else was down is what was asked for.
LEMMA TypedAlone ==
  ASSUME PadInv, Applying("press"), Head(calls).pressed, NEW k \in Keysyms, k = Head(calls).what,
         unreleased = {}, \A p \in Phones \ {Head(calls).by} : open[p] = NoKey, Place(k)[2] <= 2
  PROVE  Got(Place(k)[1], ShiftAfter(k, TRUE)) = k
<1>1. /\ Layout[Place(k)[1]][Place(k)[2]] = k /\ Place(k)[2] \in DOMAIN Layout[Place(k)[1]]
      /\ Place(k)[2] \in Nat \ {0} /\ Place(k)[1] \in DOMAIN Layout
  BY PlaceHasKeysym
<1>2. Layout[Place(k)[1]] \in Seq(Keysyms)
  BY <1>1, InputBackendsAssumption
<1>3. CASE NeedsShift(k)
  <2>1. Place(k)[2] = 2 /\ Len(Layout[Place(k)[1]]) > 1
    BY <1>1, <1>2, <1>3 DEF NeedsShift
  <2> QED
    BY <1>1, <1>3, <2>1 DEF ShiftAfter, Got
<1>4. CASE ~NeedsShift(k)
  <2>1. Place(k)[2] = 1
    BY <1>1, <1>4 DEF NeedsShift
  <2>2. open[Head(calls).by] = NoKey
    BY TakenCall DEF Follows, Allows
  <2>3. Pressed \ {NoKey} = {}
    BY <2>2 DEF Pressed
  <2>4. ~shift
    BY <2>3 DEF PadInv, ShiftExplained
  <2> QED
    BY <1>1, <1>4, <2>1, <2>4 DEF ShiftAfter, Got
<1> QED
  BY <1>3, <1>4

\* The backend presses or releases a key or a button.
LEMMA ApplyKeeps == PadInv /\ Apply => PadInv'
<1> SUFFICES ASSUME PadInv, Apply PROVE PadInv'
  OBVIOUS
<1>0. Applying("press")
  BY DEF Apply
<1>1. PICK c : c = Head(calls)
  OBVIOUS
<1>2. PICK w : w = c.what
  OBVIOUS
<1>3. /\ w \notin Strangers
      /\ keysDown' = IF c.pressed THEN keysDown \cup {Pressing(w)} ELSE keysDown \ {Pressing(w)}
      /\ open' = [open EXCEPT ![c.by] = IF c.pressed THEN w ELSE NoKey]
      /\ UNCHANGED <<session, backend, extent, typing, cursor, padLeft, unreleased>>
  BY <1>1, <1>2 DEF Apply
<1>4. shift' = IF backend = "wayland" /\ w \in Keysyms THEN ShiftAfter(w, c.pressed) ELSE shift
  BY <1>1, <1>2 DEF Apply
<1>5. typed' = IF backend = "wayland" /\ w \in Keysyms /\ c.pressed
               THEN [asked |-> w, got |-> Got(Place(w)[1], shift'),
                     alone |-> unreleased = {} /\ \A p \in Phones \ {c.by} : open[p] = NoKey]
               ELSE typed
  BY <1>1, <1>2 DEF Apply
<1>6. w \in Applied /\ c.by \in Phones /\ c.pressed \in BOOLEAN /\ w # NoKey
      /\ Follows(open[c.by], IF c.pressed THEN NoKey ELSE w, unreleased)
  BY <1>0, <1>1, <1>2, <1>3, TakenCall, InputBackendsAssumption DEF Sendable, Applied, Allows
<1>7. /\ PadTyped' /\ Unstarted'
      /\ \A p \in Phones : Chain(calls', p, open'[p], typing'[p], unreleased')
  <2>1. PICK f : f = IF c.pressed THEN w ELSE NoKey
    OBVIOUS
  <2>2. f \in Applied \cup {NoKey} /\ Leaves(Head(calls)) = f
    BY <1>1, <1>2, <1>6, <2>1 DEF Leaves
  <2> QED
    BY <1>0, <1>1, <1>3, <2>1, <2>2, TakenChains
<1>8. \A k : Pressing(k)' = Pressing(k)
  BY <1>3 DEF Pressing
<1>9. open'[c.by] = (IF c.pressed THEN w ELSE NoKey) /\ \A p \in Phones \ {c.by} : open'[p] = open[p]
  BY <1>3, <1>6 DEF PadInv, PadTyped
<1>10. ASSUME NEW k \in Pressed \ {NoKey}, c.pressed \/ k # w PROVE k \in (Pressed \ {NoKey})'
  <2>1. k \in unreleased \/ \E p \in Phones \ {c.by} : k = open[p]
    BY <1>6, <1>10 DEF Pressed, Follows
  <2> QED
    BY <1>3, <1>9, <1>10, <2>1 DEF Pressed
<1>11. c.pressed => w \in (Pressed \ {NoKey})'
  BY <1>6, <1>9 DEF Pressed
<1>12. KeysExplained'
  <2> SUFFICES ASSUME NEW d \in keysDown' PROVE \E k \in (Pressed \ {NoKey})' : d = Pressing(k)
    BY <1>8 DEF KeysExplained
  <2>1. CASE c.pressed /\ d = Pressing(w)
    BY <1>11, <2>1
  <2>2. CASE d \in keysDown /\ (c.pressed \/ d # Pressing(w))
    <3>1. PICK k \in Pressed \ {NoKey} : d = Pressing(k)
      BY <2>2 DEF PadInv, KeysExplained
    <3>2. c.pressed \/ k # w
      BY <2>2, <3>1
    <3> QED
      BY <1>10, <3>1, <3>2
  <2> QED
    BY <1>3, <1>6, <2>1, <2>2
<1>13. ShiftExplained'
  <2> SUFFICES ASSUME shift' PROVE backend' = "wayland" /\ \E k \in (Pressed \ {NoKey})' : NeedsShift(k)
    BY DEF ShiftExplained
  <2>1. CASE backend = "wayland" /\ w \in Keysyms /\ NeedsShift(w)
    <3>1. c.pressed
      BY <1>4, <2>1 DEF ShiftAfter
    <3> QED
      BY <1>3, <1>11, <2>1, <3>1
  <2>2. CASE ~(backend = "wayland" /\ w \in Keysyms /\ NeedsShift(w))
    <3>1. shift
      BY <1>4, <2>2 DEF ShiftAfter
    <3>2. PICK k \in Pressed \ {NoKey} : NeedsShift(k) /\ backend = "wayland"
      BY <3>1 DEF PadInv, ShiftExplained
    <3>3. k # w
      BY <2>2, <3>2 DEF NeedsShift
    <3> QED
      BY <1>3, <1>10, <3>2, <3>3
  <2> QED
    BY <2>1, <2>2
<1>14. TypedRight'
  <2>1. CASE ~(backend = "wayland" /\ w \in Keysyms /\ c.pressed)
    BY <1>5, <2>1 DEF PadInv, TypedRight
  <2>2. CASE backend = "wayland" /\ w \in Keysyms /\ c.pressed
    <3>1. /\ typed'.asked = w /\ typed'.got = Got(Place(w)[1], shift') /\ shift' = ShiftAfter(w, TRUE)
          /\ typed'.alone = (unreleased = {} /\ \A p \in Phones \ {c.by} : open[p] = NoKey)
      BY <1>4, <1>5, <2>2
    <3>2. unreleased = {} /\ (\A p \in Phones \ {c.by} : open[p] = NoKey) /\ Place(w)[2] <= 2
            => Got(Place(w)[1], ShiftAfter(w, TRUE)) = w
      BY <1>0, <1>1, <1>2, <2>2, TypedAlone
    <3> QED
      BY <3>1, <3>2 DEF TypedRight
  <2> QED
    BY <2>1, <2>2
<1> QED
  BY <1>7, <1>12, <1>13, <1>14 DEF PadInv

\* A call without effect: what its phone had down before it is a key it never released.
LEMMA IdleCall ==
  ASSUME PadInv, Applying("press"), Head(calls).pressed \/ Head(calls).what \in Strangers,
         UNCHANGED <<session, backend, extent, typing, keysDown, shift, cursor, open, unreleased, typed>>
  PROVE  PadInv'
<1>1. PICK by \in Phones : by = Head(calls).by
  BY TakenCall
<1>2. open[by] \in Applied \cup {NoKey} /\ open = [open EXCEPT ![by] = open[by]]
  BY DEF PadInv, PadTyped
<1>3. open[by] = NoKey \/ open[by] \in unreleased
  <2>1. Follows(open[by], Allows(Head(calls)), unreleased)
    BY <1>1, TakenCall
  <2>2. Head(calls).what \in Strangers => open[by] # Head(calls).what
    BY <1>2, InputBackendsAssumption DEF Applied
  <2> QED
    BY <2>1, <2>2 DEF Follows, Allows
<1>4. \A a : Follows(open[by], a, unreleased)
  BY <1>3 DEF Follows
<1>5. /\ PadTyped' /\ Unstarted'
      /\ \A p \in Phones : Chain(calls', p, open'[p], typing'[p], unreleased')
  <2>1. PICK f : f = open[by]
    OBVIOUS
  <2>2. f \in Applied \cup {NoKey} /\ open' = [open EXCEPT ![Head(calls).by] = f] /\ unreleased \subseteq unreleased'
    BY <1>1, <1>2, <2>1
  <2>3. \A a : Follows(Leaves(Head(calls)), a, unreleased) => Follows(f, a, unreleased')
    BY <1>4, <2>1
  <2> QED
    BY <2>2, <2>3, TakenChains
<1>6. KeysExplained' /\ ShiftExplained' /\ TypedRight'
  BY KeyboardStays DEF PadInv
<1> QED
  BY <1>5, <1>6 DEF PadInv

\* ydotool fails.
LEMMA FailKeeps == PadInv /\ RunFails => PadInv'
<1> SUFFICES ASSUME PadInv, RunFails PROVE PadInv'
  OBVIOUS
<1>0. Applying("press")
  BY DEF RunFails
<1>1. PICK c : c = Head(calls)
  OBVIOUS
<1>2. /\ backend = "ydotool"
      /\ unreleased' = IF c.pressed THEN unreleased ELSE unreleased \cup {c.what}
      /\ open' = IF c.pressed THEN open ELSE [open EXCEPT ![c.by] = NoKey]
      /\ UNCHANGED <<session, backend, extent, typing, keysDown, shift, cursor, typed>>
  BY <1>1 DEF RunFails
<1>3. c.pressed \in BOOLEAN /\ c.by \in Phones /\ Follows(open[c.by], Allows(c), unreleased)
  BY <1>0, <1>1, TakenCall
<1>4. CASE c.pressed
  BY <1>0, <1>1, <1>2, <1>4, IdleCall
<1>5. CASE ~c.pressed
  <2>1. /\ PadTyped' /\ Unstarted'
        /\ \A p \in Phones : Chain(calls', p, open'[p], typing'[p], unreleased')
    <3>1. \A a : Follows(NoKey, a, unreleased')
      BY DEF Follows
    <3>2. open' = [open EXCEPT ![Head(calls).by] = NoKey] /\ unreleased \subseteq unreleased' /\ NoKey \in Applied \cup {NoKey}
      BY <1>1, <1>2, <1>5
    <3> QED
      BY <1>0, <1>2, <3>1, <3>2, TakenChains
  <2>2. Pressed \ {NoKey} \subseteq (Pressed \ {NoKey})'
    <3>1. open[c.by] = NoKey \/ open[c.by] \in unreleased'
      BY <1>2, <1>3, <1>5 DEF Follows, Allows
    <3>2. \A p \in Phones \ {c.by} : open'[p] = open[p]
      BY <1>2, <1>3, <1>5 DEF PadInv, PadTyped
    <3> QED
      BY <1>2, <1>5, <3>1, <3>2 DEF Pressed
  <2>3. \A k : Pressing(k)' = Pressing(k)
    BY <1>2 DEF Pressing
  <2>4. KeysExplained' /\ ShiftExplained' /\ TypedRight'
    BY <1>2, <2>2, <2>3 DEF PadInv, KeysExplained, ShiftExplained, TypedRight
  <2> QED
    BY <2>1, <2>4 DEF PadInv
<1> QED
  BY <1>3, <1>4, <1>5

\* The pointer moves.
LEMMA MoveKeeps == PadInv /\ Move => PadInv'
<1> SUFFICES ASSUME PadInv, Move PROVE PadInv'
  OBVIOUS
<1>1. /\ calls # <<>> /\ Head(calls).kind = "move" /\ calls' = Tail(calls)
      /\ cursor' = (Clamped(Head(calls).x) * extent) \div Unit
      /\ UNCHANGED <<session, backend, extent, typing, keysDown, shift, open, unreleased, typed>>
  BY DEF Move, Applying
<1>2. calls' \in Seq(Press \cup Motion) /\ Head(calls) \in Press \cup Motion
  BY <1>1, TailPlaces DEF PadInv, PadTyped
<1>3. Head(calls).x \in Int
  <2>1. (\A m \in Press : m.kind = "press") /\ \A m \in Motion : m.x \in Int
    BY DEF Press, Motion
  <2> QED
    BY <1>1, <1>2, <2>1
<1>4. \A x \in Int : Clamped(x) \in 0..Unit
  BY InputBackendsAssumption DEF Clamped
<1>5. cursor' \in 0..extent
  <2>1. PICK a : a = Clamped(Head(calls).x)
    OBVIOUS
  <2> QED
    BY <1>1, <1>3, <1>4, <2>1, ScaledFits DEF PadInv, PadTyped
<1>6. \A p \in Phones : Chain(calls', p, open[p], typing[p], unreleased)
  BY <1>1, ChainTail DEF PadInv, PadTyped
<1>7. PadTyped' /\ Unstarted'
  BY <1>1, <1>2, <1>5 DEF PadInv, PadTyped, Unstarted
<1>8. KeysExplained' /\ ShiftExplained' /\ TypedRight'
  BY <1>1, KeyboardStays DEF PadInv
<1> QED
  BY <1>1, <1>6, <1>7, <1>8 DEF PadInv

\* Every step keeps it.
LEMMA PadStep == PadInv /\ [PadNext]_padVars => PadInv'
<1> SUFFICES ASSUME PadInv, [PadNext]_padVars PROVE PadInv'
  OBVIOUS
<1>1. CASE DetectWayland \/ DetectYdotool
  BY <1>1, DetectKeeps
<1>2. CASE \E p \in Phones : SendRelease(p) \/ \E k \in Sendable : SendPress(p, k)
  BY <1>2, SendKeeps
<1>3. CASE \E x \in {-1, 0, 1, Unit + 1} : SendMove(x)
  <2>1. \A x \in {-1, 0, 1, Unit + 1} : x \in Int
    BY InputBackendsAssumption
  <2> QED
    BY <1>3, <2>1, SendKeeps
<1>4. CASE Apply
  BY <1>4, ApplyKeeps
<1>5. CASE Skip
  BY <1>5, IdleCall DEF Skip
<1>6. CASE RunFails
  BY <1>6, FailKeeps
<1>7. CASE Move
  BY <1>7, MoveKeeps
<1>8. CASE UNCHANGED padVars
  <2>1. UNCHANGED <<session, backend, extent, typing, calls, keysDown, shift, cursor, open, unreleased, typed>>
    BY <1>8 DEF padVars
  <2>2. PadTyped' /\ Unstarted'
    BY <2>1 DEF PadInv, PadTyped, Unstarted
  <2>3. KeysExplained' /\ ShiftExplained' /\ TypedRight'
    BY <2>1, KeyboardStays DEF PadInv
  <2> QED
    BY <2>1, <2>2, <2>3 DEF PadInv
<1> QED
  BY <1>1, <1>2, <1>3, <1>4, <1>5, <1>6, <1>7, <1>8 DEF PadNext, Sendable

\* However many phones type, drop or flood, and whatever keymap the machine has: nothing and
\* no Shift stays down without a press that explains it, a key typed alone is the key asked
\* for, and the pointer stays on the screen.
THEOREM KeyboardIsTheirs == PadSpec => []KeyboardFollowsPhones
<1>1. PadInv => KeyboardFollowsPhones
  <2> SUFFICES ASSUME PadInv PROVE KeyboardFollowsPhones
    OBVIOUS
  <2>1. \A k : k \in Pressed \ {NoKey} => k \in ({open[p] : p \in Phones} \ {NoKey}) \cup unreleased
    BY DEF Pressed
  <2>2. keysDown \subseteq {Pressing(k) : k \in ({open[p] : p \in Phones} \ {NoKey}) \cup unreleased}
    BY <2>1 DEF PadInv, KeysExplained
  <2>3. shift => \E k \in ({open[p] : p \in Phones} \ {NoKey}) \cup unreleased : NeedsShift(k)
    BY <2>1 DEF PadInv, ShiftExplained
  <2> QED
    BY <2>2, <2>3 DEF PadInv, PadTyped, TypedRight, KeyboardFollowsPhones
<1> QED
  BY <1>1, PadStarts, PadStep, PTL DEF PadSpec
=============================================================================
