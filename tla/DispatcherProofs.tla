--------------------------- MODULE DispatcherProofs ---------------------------
(***************************************************************************)
(* What the queue policy of Dispatcher does to a queue, for every set of   *)
(* codes, every capacity and every reserve.                                *)
(***************************************************************************)
EXTENDS Dispatcher, SequenceTheorems, FiniteSetTheorems, TLAPS

LEMMA RemoveAtFacts ==
  ASSUME NEW S, NEW q \in Seq(S), NEW i \in 1..Len(q)
  PROVE  /\ RemoveAt(q, i) \in Seq(S)
         /\ Len(RemoveAt(q, i)) = Len(q) - 1
         /\ \A j \in 1..Len(q)-1 :
              RemoveAt(q, i)[j] = IF j < i THEN q[j] ELSE q[j+1]
<1> DEFINE front == SubSeq(q, 1, i-1)
          back == SubSeq(q, i+1, Len(q))
<1>1. /\ front \in Seq(S)
      /\ Len(front) = i-1
      /\ \A j \in 1..i-1 : front[j] = q[j]
  BY SubSeqProperties
<1>2. /\ back \in Seq(S)
      /\ Len(back) = Len(q) - i
      /\ \A j \in 1..Len(q)-i : back[j] = q[i+j]
  BY SubSeqProperties
<1>3. RemoveAt(q, i) = front \o back
  BY DEF RemoveAt
<1> HIDE DEF front, back
<1>4. /\ front \o back \in Seq(S)
      /\ Len(front \o back) = Len(q) - 1
  BY <1>1, <1>2
<1>5. ASSUME NEW j \in 1..Len(q)-1
      PROVE  (front \o back)[j] = IF j < i THEN q[j] ELSE q[j+1]
  <2>1. (front \o back)[j] = IF j <= Len(front) THEN front[j]
                                                ELSE back[j - Len(front)]
    BY <1>1, <1>2
  <2>2. CASE j < i
    BY <2>1, <2>2, <1>1
  <2>3. CASE ~(j < i)
    <3>1. back[j - (i-1)] = q[i + (j - (i-1))]
      BY <2>3, <1>2
    <3> QED BY <2>1, <2>3, <3>1, <1>1
  <2> QED BY <2>2, <2>3
<1> QED BY <1>3, <1>4, <1>5

LEMMA MinFact ==
  ASSUME NEW T, T \subseteq Nat, T # {}
  PROVE  Min(T) \in T /\ \A y \in T : Min(T) <= y
<1> DEFINE R == OpToRel(<, Nat)
<1>1. PICK x \in T : \A y \in T : <<y, x>> \notin R
  BY NatLessThanWellFounded, WFMin
<1>2. ASSUME NEW y \in T
      PROVE  x <= y
  <2>1. x \in Nat /\ y \in Nat
    OBVIOUS
  <2>2. y < x => <<y, x>> \in R
    BY <2>1 DEF OpToRel
  <2> HIDE DEF R
  <2>3. ~(y < x)
    BY <1>1, <2>2
  <2> QED BY <2>1, <2>3
<1> QED BY <1>2 DEF Min

-----------------------------------------------------------------------------
(* Counting the batches make_room_locked may sacrifice. *)

LEMMA DroppableFinite ==
  ASSUME NEW q \in Seq(Batches)
  PROVE  /\ Droppable(q) \subseteq 1..Len(q)
         /\ IsFiniteSet(Droppable(q))
         /\ Cardinality(Droppable(q)) \in Nat
         /\ Cardinality(Droppable(q)) <= Len(q)
<1>1. Len(q) \in Nat /\ DOMAIN q = 1..Len(q)
  OBVIOUS
<1>2. Droppable(q) \subseteq 1..Len(q)
  BY <1>1 DEF Droppable
<1>3. IsFiniteSet(1..Len(q)) /\ Cardinality(1..Len(q)) = Len(q)
  BY <1>1, FS_Interval
<1> QED BY <1>1, <1>2, <1>3, FS_Subset, FS_CardinalityType

LEMMA FirstDroppable ==
  ASSUME NEW q \in Seq(Batches), Droppable(q) # {}
  PROVE  /\ Min(Droppable(q)) \in Droppable(q)
         /\ Min(Droppable(q)) \in 1..Len(q)
         /\ \A j \in Droppable(q) : Min(Droppable(q)) <= j
<1>1. Droppable(q) \subseteq 1..Len(q)
  BY DroppableFinite
<1> QED BY <1>1, MinFact

LEMMA DroppableAppend ==
  ASSUME NEW q \in Seq(Batches), NEW b \in Batches
  PROVE  /\ Append(q, b) \in Seq(Batches)
         /\ Len(Append(q, b)) = Len(q) + 1
         /\ b.kind \in {"Motion", "Repeat"} =>
              Cardinality(Droppable(Append(q, b)))
                = Cardinality(Droppable(q)) + 1
         /\ b.kind \notin {"Motion", "Repeat"} =>
              Cardinality(Droppable(Append(q, b)))
                = Cardinality(Droppable(q))
<1>1. /\ Append(q, b) \in Seq(Batches)
      /\ Len(Append(q, b)) = Len(q) + 1
      /\ Len(q) \in Nat
      /\ \A i \in 1..Len(q) : Append(q, b)[i] = q[i]
      /\ Append(q, b)[Len(q)+1] = b
      /\ DOMAIN Append(q, b) = 1..Len(q)+1
      /\ DOMAIN q = 1..Len(q)
  OBVIOUS
<1>2. Len(q)+1 \notin Droppable(q)
  BY <1>1 DEF Droppable
<1>3. CASE b.kind \in {"Motion", "Repeat"}
  <2>1. Droppable(Append(q, b)) = Droppable(q) \cup {Len(q)+1}
    BY <1>1, <1>3 DEF Droppable
  <2> QED BY <1>1, <1>2, <1>3, <2>1, DroppableFinite, FS_AddElement
<1>4. CASE b.kind \notin {"Motion", "Repeat"}
  <2>1. Droppable(Append(q, b)) = Droppable(q)
    BY <1>1, <1>4 DEF Droppable
  <2> QED BY <1>1, <1>4, <2>1
<1> QED BY <1>3, <1>4

LEMMA DroppableRemove ==
  ASSUME NEW q \in Seq(Batches), NEW i \in Droppable(q)
  PROVE  /\ RemoveAt(q, i) \in Seq(Batches)
         /\ Len(RemoveAt(q, i)) = Len(q) - 1
         /\ Cardinality(Droppable(RemoveAt(q, i)))
              <= Cardinality(Droppable(q)) - 1
<1> DEFINE r == RemoveAt(q, i)
          f == [j \in Droppable(r) |-> IF j < i THEN j ELSE j+1]
<1>1. Len(q) \in Nat /\ DOMAIN q = 1..Len(q) /\ i \in 1..Len(q)
  BY DroppableFinite
<1>2. /\ r \in Seq(Batches)
      /\ Len(r) = Len(q) - 1
      /\ \A j \in 1..Len(q)-1 : r[j] = IF j < i THEN q[j] ELSE q[j+1]
  BY <1>1, RemoveAtFacts
<1> HIDE DEF r
<1>3. DOMAIN r = 1..Len(q)-1
  BY <1>1, <1>2
<1>4. \A j \in Droppable(r) :
         /\ j \in 1..Len(q)-1
         /\ f[j] \in Droppable(q) \ {i}
  BY <1>1, <1>2, <1>3 DEF Droppable
<1>5. f \in Injection(Droppable(r), Droppable(q) \ {i})
  <2>1. f \in [Droppable(r) -> Droppable(q) \ {i}]
    BY <1>4
  <2>2. ASSUME NEW a \in Droppable(r), NEW b \in Droppable(r), f[a] = f[b]
        PROVE  a = b
    <3>1. a \in Nat /\ b \in Nat /\ i \in Nat
      BY <1>1, <1>4
    <3>2. (IF a < i THEN a ELSE a+1) = (IF b < i THEN b ELSE b+1)
      BY <2>2
    <3> QED BY <3>1, <3>2
  <2> QED BY <2>1, <2>2 DEF Injection, IsInjective
<1>6. /\ IsFiniteSet(Droppable(q) \ {i})
      /\ Cardinality(Droppable(q) \ {i}) = Cardinality(Droppable(q)) - 1
  BY DroppableFinite, FS_RemoveElement
<1>7. Cardinality(Droppable(r)) <= Cardinality(Droppable(q) \ {i})
  BY <1>5, <1>6, FS_Injection DEF ExistsInjection
<1> QED BY <1>2, <1>6, <1>7 DEF r

LEMMA DroppableTail ==
  ASSUME NEW q \in Seq(Batches), q # <<>>
  PROVE  /\ Tail(q) \in Seq(Batches)
         /\ Len(Tail(q)) = Len(q) - 1
         /\ Cardinality(Droppable(Tail(q))) <= Cardinality(Droppable(q))
<1> DEFINE f == [j \in Droppable(Tail(q)) |-> j+1]
<1>1. /\ Len(q) \in Nat \ {0}
      /\ DOMAIN q = 1..Len(q)
      /\ Tail(q) \in Seq(Batches)
      /\ Len(Tail(q)) = Len(q) - 1
      /\ DOMAIN Tail(q) = 1..Len(q)-1
      /\ \A j \in 1..Len(q)-1 : Tail(q)[j] = q[j+1]
  OBVIOUS
<1>2. \A j \in Droppable(Tail(q)) : j \in Nat /\ f[j] \in Droppable(q)
  BY <1>1 DEF Droppable
<1>3. f \in Injection(Droppable(Tail(q)), Droppable(q))
  BY <1>2 DEF Injection, IsInjective
<1> QED BY <1>1, <1>3, DroppableFinite, FS_Injection DEF ExistsInjection

-----------------------------------------------------------------------------
(* What an accepted batch does to the queue. *)

LEMMA LimitFacts ==
  ASSUME NEW b \in Batches
  PROVE  /\ NormalLimit \in Nat
         /\ Limit(b) \in Nat
         /\ IsRelease(b) => b.kind \notin {"Motion", "Repeat"}
         /\ ~IsRelease(b) => Limit(b) = NormalLimit
  BY CapacityAssumption DEF NormalLimit, Limit, IsRelease, Batches, Kinds

LEMMA CoalesceFacts ==
  ASSUME NEW q \in Seq(Batches), NEW b \in Batches, Coalesces(q, b)
  PROVE  /\ Enqueue(q, b) \in Seq(Batches)
         /\ Len(Enqueue(q, b)) = Len(q)
         /\ Droppable(Enqueue(q, b)) = Droppable(q)
<1>1. /\ Len(q) \in Nat \ {0}
      /\ DOMAIN q = 1..Len(q)
      /\ q[Len(q)].kind = "Motion"
      /\ b.kind = "Motion"
  BY DEF Coalesces, Last
<1> DEFINE e == [q EXCEPT ![Len(q)] = b]
<1>2. /\ e \in Seq(Batches)
      /\ Len(e) = Len(q)
      /\ \A j \in 1..Len(q) : e[j] = IF j = Len(q) THEN b ELSE q[j]
  BY <1>1, ExceptSeq
<1>3. Enqueue(q, b) = e
  BY DEF Enqueue
<1> HIDE DEF e
<1>4. DOMAIN e = 1..Len(q)
  BY <1>2, LenProperties
<1>5. Droppable(e) = Droppable(q)
  BY <1>1, <1>2, <1>4 DEF Droppable
<1> QED BY <1>2, <1>3, <1>5

LEMMA MakeRoomFacts ==
  ASSUME NEW q \in Seq(Batches), NEW b \in Batches, HasRoom(q, b)
  PROVE  /\ MakeRoom(q, b) \in Seq(Batches)
         /\ \/ Len(q) < Limit(b) /\ MakeRoom(q, b) = q
            \/ \E i \in Droppable(q) :
                 /\ MakeRoom(q, b) = RemoveAt(q, i)
                 /\ Len(MakeRoom(q, b)) = Len(q) - 1
                 /\ Cardinality(Droppable(MakeRoom(q, b)))
                      <= Cardinality(Droppable(q)) - 1
<1>1. CASE Len(q) < Limit(b)
  BY <1>1 DEF MakeRoom
<1>2. CASE ~(Len(q) < Limit(b))
  <2>1. Droppable(q) # {}
    BY <1>2 DEF HasRoom
  <2>2. Min(Droppable(q)) \in Droppable(q)
    BY <2>1, FirstDroppable
  <2>3. MakeRoom(q, b) = RemoveAt(q, Min(Droppable(q)))
    BY <1>2 DEF MakeRoom
  <2> QED BY <2>2, <2>3, DroppableRemove
<1> QED BY <1>1, <1>2

\* The length plus the number of droppable batches.
Weight(q) == Len(q) + Cardinality(Droppable(q))

LEMMA WeightType ==
  ASSUME NEW q \in Seq(Batches)
  PROVE  Weight(q) \in Nat
  BY DroppableFinite DEF Weight

LEMMA AppendWeight ==
  ASSUME NEW q \in Seq(Batches), NEW b \in Batches
  PROVE  Weight(Append(q, b)) = Weight(q)
           + (IF b.kind \in {"Motion", "Repeat"} THEN 2 ELSE 1)
  BY DroppableAppend, DroppableFinite DEF Weight

\* An accepted release adds at most one to the weight. An accepted ordinary
\* batch leaves the queue in its ordinary share, or pays with an eviction.
LEMMA EnqueueWeight ==
  ASSUME NEW q \in Seq(Batches), NEW b \in Batches,
         Coalesces(q, b) \/ HasRoom(q, b)
  PROVE  /\ Enqueue(q, b) \in Seq(Batches)
         /\ IsRelease(b) => Weight(Enqueue(q, b)) <= Weight(q) + 1
         /\ ~IsRelease(b) =>
              \/ Len(Enqueue(q, b)) <= NormalLimit
              \/ /\ b.kind \in {"Motion", "Repeat"}
                 /\ Weight(Enqueue(q, b)) <= Weight(q)
              \/ /\ b.kind \notin {"Motion", "Repeat"}
                 /\ Weight(Enqueue(q, b)) <= Weight(q) - 1
<1> DEFINE r == MakeRoom(q, b)
<1>1. CASE Coalesces(q, b)
  <2>1. b.kind = "Motion"
    BY <1>1 DEF Coalesces
  <2>2. ~IsRelease(b)
    BY <2>1, LimitFacts
  <2>3. Enqueue(q, b) \in Seq(Batches) /\ Weight(Enqueue(q, b)) = Weight(q)
    BY <1>1, CoalesceFacts DEF Weight
  <2> QED BY <2>1, <2>2, <2>3, WeightType
<1>2. CASE ~Coalesces(q, b) /\ Len(q) < Limit(b)
  <2>1. Enqueue(q, b) = Append(q, b)
    BY <1>2 DEF Enqueue, MakeRoom
  <2>2. Weight(Append(q, b)) = Weight(q)
          + (IF b.kind \in {"Motion", "Repeat"} THEN 2 ELSE 1)
    BY AppendWeight
  <2>3. CASE IsRelease(b)
    BY <2>1, <2>2, <2>3, LimitFacts, DroppableAppend, WeightType
  <2>4. CASE ~IsRelease(b)
    <3>1. Len(q) < NormalLimit
      BY <1>2, <2>4, LimitFacts
    <3>2. Len(Append(q, b)) <= NormalLimit
      BY <3>1, LimitFacts, DroppableAppend, LenProperties
    <3> QED BY <2>1, <2>4, <3>2, DroppableAppend
  <2> QED BY <2>3, <2>4
<1>3. CASE ~Coalesces(q, b) /\ ~(Len(q) < Limit(b))
  <2>1. /\ r \in Seq(Batches)
        /\ Len(r) = Len(q) - 1
        /\ Cardinality(Droppable(r)) <= Cardinality(Droppable(q)) - 1
    BY <1>3, MakeRoomFacts
  <2>2. Enqueue(q, b) = Append(r, b)
    BY <1>3 DEF Enqueue
  <2> HIDE DEF r
  <2>3. Weight(Append(r, b)) = Weight(r)
          + (IF b.kind \in {"Motion", "Repeat"} THEN 2 ELSE 1)
    BY <2>1, AppendWeight
  <2>4. Weight(r) <= Weight(q) - 2 /\ Len(q) \in Nat
    BY <2>1, DroppableFinite DEF Weight
  <2>5. Append(r, b) \in Seq(Batches)
    BY <2>1
  <2> QED BY <2>1, <2>2, <2>3, <2>4, <2>5, WeightType, LimitFacts
<1> QED BY <1>1, <1>2, <1>3
-----------------------------------------------------------------------------
(* Motions that coalesce never lie next to each other. *)

\* All that can be evicted is motion of the pointer, no two in a row.
Spread(q) ==
  \A i \in Droppable(q) :
    /\ q[i].kind = "Motion" /\ q[i].stream = "Pointer"
    /\ i+1 \notin Droppable(q)

\* Then at most every other batch can be evicted: the places behind the
\* evictable ones are as many, and none of them is evictable.
LEMMA SpreadCount ==
  ASSUME NEW q \in Seq(Batches), Spread(q)
  PROVE  2 * Cardinality(Droppable(q)) <= Len(q) + 1
<1> DEFINE D == Droppable(q)
           E == {i+1 : i \in D}
           f == [i \in D |-> i+1]
<1>1. /\ D \subseteq 1..Len(q) /\ IsFiniteSet(D) /\ Cardinality(D) \in Nat
      /\ Len(q) \in Nat
  BY DroppableFinite, LenProperties
<1>2. D \cap E = {}
  BY DEF Spread
<1> HIDE DEF D
<1>3. f \in Bijection(D, E)
  <2>1. f \in [D -> E]
    OBVIOUS
  <2>2. \A a, b \in D : f[a] = f[b] => a = b
    BY <1>1
  <2>3. \A e \in E : \E i \in D : f[i] = e
    OBVIOUS
  <2> QED BY <2>1, <2>2, <2>3
          DEF Bijection, Injection, IsInjective, Surjection
<1>4. IsFiniteSet(E) /\ Cardinality(E) = Cardinality(D)
  <2>1. ExistsBijection(D, E)
    BY <1>3 DEF ExistsBijection
  <2> HIDE DEF E, f
  <2> QED BY <1>1, <2>1, FS_Bijection
<1>5. D \cup E \subseteq 1..Len(q)+1
  <2>1. \A i \in D : i \in 1..Len(q)+1 /\ i+1 \in 1..Len(q)+1
    BY <1>1
  <2> QED BY <2>1
<1>6. /\ IsFiniteSet(1..Len(q)+1) /\ Cardinality(1..Len(q)+1) = Len(q) + 1
  <2> DEFINE n == Len(q) + 1
  <2>1. n \in Int /\ 1 \in Int /\ ~(1 > n) /\ n-1+1 = n
    BY <1>1
  <2> HIDE DEF n
  <2>2. IsFiniteSet(1..n) /\ Cardinality(1..n) = n
    BY <2>1, FS_Interval
  <2> QED BY <2>2 DEF n
<1> HIDE DEF E
<1>7. Cardinality(D \cup E) = Cardinality(D) + Cardinality(E)
  <2>1. Cardinality(D \cap E) = 0
    BY <1>2, FS_EmptySet
  <2>2. Cardinality(D \cup E)
          = Cardinality(D) + Cardinality(E) - Cardinality(D \cap E)
    BY <1>1, <1>4, FS_Union
  <2> QED BY <1>1, <1>4, <2>1, <2>2
<1>8. Cardinality(D \cup E) <= Len(q) + 1
  BY <1>5, <1>6, FS_Subset
<1> QED BY <1>1, <1>4, <1>7, <1>8 DEF D

LEMMA SpreadTail ==
  ASSUME NEW q \in Seq(Batches), q # <<>>, Spread(q)
  PROVE  Spread(Tail(q))
<1>1. /\ Len(q) \in Nat \ {0}
      /\ DOMAIN q = 1..Len(q)
      /\ DOMAIN Tail(q) = 1..Len(q)-1
      /\ \A j \in 1..Len(q)-1 : Tail(q)[j] = q[j+1]
  OBVIOUS
<1>2. ASSUME NEW i \in Droppable(Tail(q))
      PROVE  i \in Nat /\ i+1 \in Droppable(q) /\ Tail(q)[i] = q[i+1]
  BY <1>1 DEF Droppable
<1>3. ASSUME NEW i \in Droppable(Tail(q))
      PROVE  i+1 \notin Droppable(Tail(q))
  <2>1. i+1+1 \notin Droppable(q)
    BY <1>2 DEF Spread
  <2> QED BY <1>2, <2>1
<1> QED BY <1>2, <1>3 DEF Spread

\* make_room_locked takes the first of them, which joins no two others.
LEMMA SpreadMakeRoom ==
  ASSUME NEW q \in Seq(Batches), NEW b \in Batches, HasRoom(q, b), Spread(q)
  PROVE  /\ Spread(MakeRoom(q, b))
         /\ Len(MakeRoom(q, b)) \in Droppable(MakeRoom(q, b))
              => Len(q) \in Droppable(q)
<1>1. CASE Len(q) < Limit(b)
  BY <1>1 DEF MakeRoom
<1>2. CASE ~(Len(q) < Limit(b))
  <2> DEFINE m == Min(Droppable(q))
             r == RemoveAt(q, m)
  <2>1. Droppable(q) # {} /\ MakeRoom(q, b) = r
    BY <1>2 DEF HasRoom, MakeRoom
  <2>2. /\ m \in 1..Len(q) /\ m \in Nat /\ Len(q) \in Nat
        /\ \A j \in Droppable(q) : m <= j
    BY <2>1, FirstDroppable, LenProperties
  <2> HIDE DEF m
  <2>3. /\ r \in Seq(Batches) /\ Len(r) = Len(q) - 1
        /\ \A j \in 1..Len(q)-1 : r[j] = IF j < m THEN q[j] ELSE q[j+1]
    BY <2>2, RemoveAtFacts
  <2>4. DOMAIN r = 1..Len(q)-1 /\ DOMAIN q = 1..Len(q)
    BY <2>2, <2>3, LenProperties
  <2> HIDE DEF r
  <2>5. ASSUME NEW j \in Droppable(r)
        PROVE  /\ j \in Nat /\ j+1 \in Droppable(q) /\ r[j] = q[j+1]
    <3>1. j \in 1..Len(q)-1 /\ r[j].kind \in {"Motion", "Repeat"}
      BY <2>4 DEF Droppable
    <3>2. j >= m
      <4>1. CASE j < m
        <5>1. j \in Droppable(q)
          BY <2>2, <2>3, <2>4, <3>1, <4>1 DEF Droppable
        <5> QED BY <2>2, <3>1, <4>1, <5>1
      <4> QED BY <2>2, <3>1, <4>1
    <3>3. r[j] = q[j+1]
      BY <2>2, <2>3, <3>1, <3>2
    <3> QED BY <2>2, <2>4, <3>1, <3>3 DEF Droppable
  <2>6. ASSUME NEW j \in Droppable(r)
        PROVE  j+1 \notin Droppable(r)
    <3>1. j+1+1 \notin Droppable(q)
      BY <2>5 DEF Spread
    <3> QED BY <2>5, <3>1
  <2>7. Spread(r)
    BY <2>5, <2>6 DEF Spread
  <2>8. Len(r) \in Droppable(r) => Len(q) \in Droppable(q)
    <3>1. Len(r) + 1 = Len(q)
      BY <2>2, <2>3
    <3> QED BY <2>5, <3>1
  <2> QED BY <2>1, <2>7, <2>8
<1> QED BY <1>1, <1>2

LEMMA SpreadAppend ==
  ASSUME NEW q \in Seq(Batches), NEW b \in Batches, Spread(q),
         \/ b.kind \notin {"Motion", "Repeat"}
         \/ /\ b.kind = "Motion" /\ b.stream = "Pointer"
            /\ Len(q) \notin Droppable(q)
  PROVE  Spread(Append(q, b))
<1>1. /\ Len(q) \in Nat
      /\ \A i \in 1..Len(q) : Append(q, b)[i] = q[i]
      /\ Append(q, b)[Len(q)+1] = b
      /\ DOMAIN Append(q, b) = 1..Len(q)+1
      /\ DOMAIN q = 1..Len(q)
  OBVIOUS
<1>2. ASSUME NEW i \in Droppable(Append(q, b))
      PROVE  i \in 1..Len(q)+1 /\ (i = Len(q)+1 \/ i \in Droppable(q))
  BY <1>1 DEF Droppable
<1>3. ASSUME NEW i \in Droppable(Append(q, b))
      PROVE  /\ Append(q, b)[i].kind = "Motion"
             /\ Append(q, b)[i].stream = "Pointer"
  <2>1. CASE i = Len(q)+1
    <3>1. Append(q, b)[i] = b
      BY <1>1, <2>1
    <3>2. b.kind \in {"Motion", "Repeat"}
      BY <3>1 DEF Droppable
    <3> QED BY <3>1, <3>2
  <2>2. CASE i \in Droppable(q)
    <3>1. Append(q, b)[i] = q[i]
      BY <1>1, <2>2 DEF Droppable
    <3> QED BY <2>2, <3>1 DEF Spread
  <2> QED BY <1>2, <2>1, <2>2
<1>4. ASSUME NEW i \in Droppable(Append(q, b)), i+1 \in Droppable(Append(q, b))
      PROVE  FALSE
  <2>1. i \in 1..Len(q)+1 /\ i+1 \in 1..Len(q)+1
    BY <1>2, <1>4
  <2>2. i \in Droppable(q)
    BY <1>1, <1>2, <2>1
  <2>3. i+1 \notin Droppable(q)
    BY <2>2 DEF Spread
  <2>4. i+1 = Len(q)+1
    BY <1>2, <1>4, <2>3
  <2>5. i = Len(q)
    <3>1. i \in Nat /\ Len(q) \in Nat
      BY <1>1, <2>1
    <3> QED BY <2>4, <3>1
  <2>6. b.kind \in {"Motion", "Repeat"}
    BY <1>1, <1>4, <2>4 DEF Droppable
  <2> QED BY <2>2, <2>5, <2>6
<1> QED BY <1>3, <1>4 DEF Spread

\* Dispatcher::submit keeps the motions of the pointer apart: what would
\* follow another motion replaces it.
LEMMA SpreadEnqueue ==
  ASSUME NEW q \in Seq(Batches), NEW b \in Batches, Spread(q),
         Coalesces(q, b) \/ HasRoom(q, b),
         b.kind # "Repeat", b.kind = "Motion" => b.stream = "Pointer"
  PROVE  Spread(Enqueue(q, b))
<1>1. Len(q) \in Nat /\ DOMAIN q = 1..Len(q)
  BY LenProperties
<1>2. CASE Coalesces(q, b)
  <2> DEFINE e == Enqueue(q, b)
  <2>1. /\ b.kind = "Motion" /\ b.stream = "Pointer"
        /\ e = [q EXCEPT ![Len(q)] = b]
    BY <1>2 DEF Coalesces, Enqueue
  <2>2. Droppable(e) = Droppable(q)
    BY <1>2, CoalesceFacts
  <2>3. Droppable(q) \subseteq 1..Len(q)
    BY DroppableFinite
  <2>4. \A i \in 1..Len(q) : e[i] = IF i = Len(q) THEN b ELSE q[i]
    BY <1>1, <2>1
  <2> HIDE DEF e
  <2>5. ASSUME NEW i \in Droppable(q)
        PROVE  e[i].kind = "Motion" /\ e[i].stream = "Pointer"
    BY <2>1, <2>3, <2>4 DEF Spread
  <2>6. Spread(e)
    BY <2>2, <2>5 DEF Spread
  <2> QED BY <2>6 DEF e
<1>3. CASE ~Coalesces(q, b)
  <2> DEFINE r == MakeRoom(q, b)
  <2>1. r \in Seq(Batches)
    BY <1>3, MakeRoomFacts
  <2>2. Spread(r) /\ (Len(r) \in Droppable(r) => Len(q) \in Droppable(q))
    BY <1>3, SpreadMakeRoom
  <2>3. Enqueue(q, b) = Append(r, b)
    BY <1>3 DEF Enqueue
  <2> HIDE DEF r
  <2>4. b.kind = "Motion" => Len(q) \notin Droppable(q)
    <3> SUFFICES ASSUME b.kind = "Motion", Len(q) \in Droppable(q)
                 PROVE  FALSE
      OBVIOUS
    <3>1. q[Len(q)].kind = "Motion" /\ q[Len(q)].stream = "Pointer"
      BY DEF Spread
    <3>2. q # <<>>
      BY <1>1 DEF Droppable
    <3> QED BY <1>3, <3>1, <3>2 DEF Coalesces, Last
  <2> QED BY <2>1, <2>2, <2>3, <2>4, SpreadAppend
<1> QED BY <1>2, <1>3
=============================================================================
