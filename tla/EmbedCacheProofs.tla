-------------------------- MODULE EmbedCacheProofs ---------------------------
(***************************************************************************)
(* For any number of threads, any batches and any capacity: the cache's    *)
(* queue and map agree and stay bounded, replies are the model's own       *)
(* embeddings, and the cache implements FifoSet.                           *)
(***************************************************************************)
EXTENDS EmbedCache, SequenceTheorems, TLAPS

\* What the eviction loop leaves of a consistent queue.
LEMMA StoreConsistent ==
  ASSUME TypeOK, NEW all \in Seq(Keys), NEW k \in Keys, NEW v \in Vectors,
         \A i, j \in DOMAIN all : all[i] = all[j] => i = j,
         Range(all) = (DOMAIN map) \cup {k},
         Store(all, k, v)
  PROVE  /\ CacheConsistent'
         /\ order' \in Seq(Keys)
         /\ DOMAIN map' \subseteq Keys
         /\ \A x \in DOMAIN map' : map'[x] = IF x = k THEN v ELSE map[x]
         /\ map' \in [DOMAIN map' -> Vectors]
<1> DEFINE n == Excess(all)
           evicted == {all[i] : i \in 1..n}
<1> USE ConstantsOK
<1>1. n \in 0..Len(all) /\ Len(all) - n <= Capacity
  BY DEF Excess
<1>2. /\ order' = SubSeq(all, n + 1, Len(all))
      /\ map' = [x \in ((DOMAIN map) \cup {k}) \ evicted |-> IF x = k THEN v ELSE map[x]]
  BY DEF Store
<1> HIDE DEF n
<1>3. /\ order' \in Seq(Keys)
      /\ Len(order') = Len(all) - n
      /\ \A i \in 1..Len(order') : order'[i] = all[i + n]
  BY <1>1, <1>2
<1>4. Range(order') = Range(all) \ evicted
  <2>1. ASSUME NEW x \in Range(all) \ evicted PROVE x \in Range(order')
    <3>1. PICK i \in 1..Len(all) : x = all[i]
      BY DEF Range
    <3>2. i \notin 1..n
      BY <2>1, <3>1
    <3>3. i - n \in 1..Len(order') /\ order'[i - n] = all[i]
      BY <1>1, <1>3, <3>1, <3>2
    <3>4. QED
      BY <3>1, <3>3, <1>3 DEF Range
  <2>2. ASSUME NEW x \in Range(order') PROVE x \in Range(all) \ evicted
    <3>1. PICK i \in 1..Len(order') : x = order'[i]
      BY <1>3 DEF Range
    <3>2. i + n \in 1..Len(all) /\ i + n \notin 1..n /\ x = all[i + n]
      BY <1>1, <1>3, <3>1
    <3>3. \A j \in 1..n : j \in 1..Len(all) /\ all[j] # all[i + n]
      BY <1>1, <3>2
    <3>4. QED
      BY <3>2, <3>3 DEF Range
  <2>3. QED
    BY <2>1, <2>2
<1>5. \A i, j \in DOMAIN order' : order'[i] = order'[j] => i = j
  <2> SUFFICES ASSUME NEW i \in DOMAIN order', NEW j \in DOMAIN order', order'[i] = order'[j]
               PROVE  i = j
    OBVIOUS
  <2>1. /\ i \in Nat /\ i + n \in DOMAIN all /\ order'[i] = all[i + n]
        /\ j \in Nat /\ j + n \in DOMAIN all /\ order'[j] = all[j + n]
    BY <1>1, <1>3
  <2>2. i + n = j + n
    BY <2>1
  <2>3. QED
    BY <1>1, <2>1, <2>2
<1>6. CacheConsistent'
  BY <1>1, <1>2, <1>3, <1>4, <1>5 DEF CacheConsistent
<1>7. QED
  BY <1>2, <1>3, <1>6 DEF TypeOK

\* insert() keeps the cache consistent.
LEMMA InsertConsistent ==
  ASSUME TypeOK, CacheConsistent, NEW k \in Keys, NEW v \in Vectors, Insert(k, v)
  PROVE  /\ CacheConsistent'
         /\ order' \in Seq(Keys)
         /\ DOMAIN map' \subseteq Keys
         /\ \A x \in DOMAIN map' : map'[x] = IF x = k THEN v ELSE map[x]
         /\ map' \in [DOMAIN map' -> Vectors]
<1> DEFINE all == IF k \in DOMAIN map THEN order ELSE Append(order, k)
<1>1. Store(all, k, v)
  BY DEF Insert
<1>2. all \in Seq(Keys) /\ (\A i, j \in DOMAIN all : all[i] = all[j] => i = j)
      /\ Range(all) = (DOMAIN map) \cup {k}
  <2>1. CASE k \in DOMAIN map
    BY <2>1 DEF CacheConsistent, TypeOK
  <2>2. CASE k \notin DOMAIN map
    <3>1. /\ all \in Seq(Keys) /\ Len(all) = Len(order) + 1 /\ all[Len(order) + 1] = k
          /\ \A i \in 1..Len(order) : all[i] = order[i] /\ order[i] # k
      BY <2>2 DEF CacheConsistent, TypeOK, Range
    <3>2. \A i, j \in DOMAIN all : all[i] = all[j] => i = j
      BY <3>1 DEF CacheConsistent, TypeOK
    <3>3. Range(all) \subseteq (DOMAIN map) \cup {k}
      BY <3>1 DEF CacheConsistent, TypeOK, Range
    <3>4. (DOMAIN map) \subseteq Range(all)
      <4>1. ASSUME NEW x \in Range(order) PROVE x \in Range(all)
        <5>0. x \in {order[i] : i \in DOMAIN order} /\ DOMAIN order = 1..Len(order)
          BY DEF Range, TypeOK
        <5>1. PICK i \in 1..Len(order) : x = order[i]
          BY <5>0
        <5>2. i \in DOMAIN all /\ x = all[i]
          BY <3>1, <5>1 DEF TypeOK
        <5>3. QED
          BY <5>2 DEF Range
      <4>2. QED
        BY <4>1 DEF CacheConsistent
    <3>5. k \in Range(all)
      <4>1. Len(order) + 1 \in DOMAIN all
        BY <3>1 DEF TypeOK
      <4>2. QED
        BY <3>1, <4>1 DEF Range
    <3>6. QED
      BY <3>1, <3>2, <3>3, <3>4, <3>5
  <2>3. QED
    BY <2>1, <2>2
<1> HIDE DEF all
<1>3. QED
  BY <1>1, <1>2, StoreConsistent

-----------------------------------------------------------------------------
\* What is in the cache, and in the slots of a batch, is the model's answer.
CacheRight == \A k \in DOMAIN map : map[k] = Embedding[k]

SlotsRight ==
  \A c \in Conns :
    /\ Len(found[c]) = Len(batch[c])
    /\ \A i \in 1..Len(found[c]) : found[c][i] \in {Null, Embedding[batch[c][i]]}
    /\ pc[c] = "reply" => Misses(found[c]) = {}

CacheInv == TypeOK /\ CacheConsistent /\ CacheRight /\ SlotsRight

LEMMA InitInv == Init => CacheInv
  BY ConstantsOK DEF Init, CacheInv, TypeOK, CacheConsistent, CacheRight, SlotsRight,
     Phases, Range

\* Lookup fills the slots of a batch from the cache.
LEMMA LookupInv == ASSUME CacheInv, NEW c \in Conns, Lookup(c) PROVE CacheInv'
<1> USE ConstantsOK
<1> DEFINE slots(b) == [i \in 1..Len(b) |-> IF b[i] \in DOMAIN map THEN map[b[i]] ELSE Null]
<1>1. PICK b \in Batches :
        /\ batch' = [batch EXCEPT ![c] = b]
        /\ found' = [found EXCEPT ![c] = slots(b)]
        /\ pc' = [pc EXCEPT ![c] = IF Misses(slots(b)) = {} THEN "reply" ELSE "infer"]
  BY DEF Lookup
<1>2. b \in Seq(Keys)
  OBVIOUS
<1>3. /\ slots(b) \in Seq(Vectors \cup {Null})
      /\ Len(slots(b)) = Len(b)
      /\ \A i \in 1..Len(b) : slots(b)[i] \in {Null, Embedding[b[i]]}
  BY <1>2 DEF CacheInv, TypeOK, CacheRight
<1> HIDE DEF slots
<1>4. UNCHANGED <<map, order, lock>>
  BY DEF Lookup
<1>5. TypeOK'
  BY <1>1, <1>2, <1>3, <1>4 DEF CacheInv, TypeOK, Phases
<1>6. SlotsRight'
  BY <1>1, <1>2, <1>3 DEF CacheInv, TypeOK, SlotsRight
<1>7. QED
  BY <1>4, <1>5, <1>6 DEF CacheInv, CacheConsistent, CacheRight

\* One insert, with the slot of the thread that computed it.
LEMMA StoreOneInv == ASSUME CacheInv, NEW c \in Conns, StoreOne(c) PROVE CacheInv'
<1> USE ConstantsOK DEF CacheInv
<1>1. PICK i \in Misses(found[c]) :
        /\ Insert(batch[c][i], Embedding[batch[c][i]])
        /\ found' = [found EXCEPT ![c][i] = Embedding[batch[c][i]]]
  BY DEF StoreOne
<1>2. i \in 1..Len(found[c]) /\ batch[c][i] \in Keys /\ Embedding[batch[c][i]] \in Vectors
  BY DEF TypeOK, SlotsRight, Misses
<1>3. UNCHANGED <<lock, pc, batch>> /\ pc[c] = "store"
  BY DEF StoreOne
<1>4. /\ CacheConsistent'
      /\ order' \in Seq(Keys)
      /\ DOMAIN map' \subseteq Keys
      /\ \A x \in DOMAIN map' : map'[x] = IF x = batch[c][i] THEN Embedding[batch[c][i]] ELSE map[x]
      /\ map' \in [DOMAIN map' -> Vectors]
  BY <1>1, <1>2, InsertConsistent
<1>5. CacheRight'
  BY <1>1, <1>2, <1>4 DEF CacheRight, Insert, Store
<1>6. TypeOK' /\ SlotsRight'
  BY <1>1, <1>2, <1>3, <1>4 DEF TypeOK, SlotsRight
<1>7. QED
  BY <1>4, <1>5, <1>6

LEMMA StepInv == CacheInv /\ [Next]_vars => CacheInv'
<1> SUFFICES ASSUME CacheInv, [Next]_vars PROVE CacheInv'
  OBVIOUS
<1> USE ConstantsOK
<1>1. ASSUME NEW c \in Conns, InferFails(c) \/ Reply(c) PROVE CacheInv'
  <2>1. /\ pc' = [pc EXCEPT ![c] = "idle"] /\ batch' = [batch EXCEPT ![c] = <<>>]
        /\ found' = [found EXCEPT ![c] = <<>>] /\ UNCHANGED <<map, order, lock>>
    BY <1>1 DEF InferFails, Reply, Forget
  <2>2. TypeOK'
    BY <2>1 DEF CacheInv, TypeOK, Phases
  <2>3. SlotsRight'
    BY <2>1 DEF CacheInv, TypeOK, SlotsRight
  <2>4. QED
    BY <2>1, <2>2, <2>3 DEF CacheInv, CacheConsistent, CacheRight
<1>2. ASSUME NEW c \in Conns, Acquire(c) \/ Release(c) PROVE CacheInv'
  <2>1. TypeOK'
    BY <1>2 DEF Acquire, Release, CacheInv, TypeOK, Phases
  <2>2. SlotsRight'
    <3>1. /\ UNCHANGED <<batch, found>>
          /\ \A d \in Conns : pc'[d] = "reply" => pc[d] = "reply" \/ Misses(found[d]) = {}
      BY <1>2 DEF Acquire, Release, CacheInv, TypeOK
    <3>2. QED
      BY <3>1 DEF CacheInv, SlotsRight, Misses
  <2>3. QED
    BY <1>2, <2>1, <2>2 DEF Acquire, Release, CacheInv, CacheConsistent, CacheRight
<1>3. CASE UNCHANGED vars
  BY <1>3 DEF vars, CacheInv, TypeOK, CacheConsistent, CacheRight, SlotsRight
<1>4. QED
  BY <1>1, <1>2, <1>3, LookupInv, StoreOneInv DEF Next

\* Every thread's batch, slots and place keep their types, and a lock has one holder
\* or none (daemon.rs, embed_cached).
THEOREM TypeCorrect == Spec => []TypeOK
<1>1. CacheInv => TypeOK
  BY DEF CacheInv
<1>2. QED
  BY InitInv, StepInv, <1>1, PTL DEF Spec

\* The queue and the map of the cache agree and stay within the capacity.
THEOREM CacheStaysConsistent == Spec => []CacheConsistent
<1>1. CacheInv => CacheConsistent
  BY DEF CacheInv
<1>2. QED
  BY InitInv, StepInv, <1>1, PTL DEF Spec

\* Every reply carries the model's embedding of every text of the request.
THEOREM RepliesAreRight == Spec => []RepliesAreEmbeddings
<1>1. CacheInv => RepliesAreEmbeddings
  BY ConstantsOK DEF CacheInv, TypeOK, SlotsRight, RepliesAreEmbeddings, Misses
<1>2. QED
  BY InitInv, StepInv, <1>1, PTL DEF Spec

\* On the keys, an insert is FifoSet's Add, or nothing when the key is there.
LEMMA InsertIsAdd ==
  ASSUME NEW k \in Keys, NEW v, Insert(k, v),
         order \in Seq(Keys), Len(order) <= Capacity, Range(order) = DOMAIN map
  PROVE  [Fifo!Next]_order
<1> USE ConstantsOK
<1>1. CASE k \in DOMAIN map
  <2>1. order' = SubSeq(order, Excess(order) + 1, Len(order))
    BY <1>1 DEF Insert, Store
  <2>2. Excess(order) = 0
    BY DEF Excess
  <2>3. order' = order
    BY <2>1, <2>2
  <2>4. QED
    BY <2>3
<1>2. CASE k \notin DOMAIN map
  <2> DEFINE all == Append(order, k)
  <2>1. all \in Seq(Keys) /\ Len(all) = Len(order) + 1
    OBVIOUS
  <2>2. order' = SubSeq(all, Excess(all) + 1, Len(all))
    BY <1>2 DEF Insert, Store
  <2>3. CASE Len(order) < Capacity
    <3>1. Excess(all) = 0
      BY <2>1, <2>3 DEF Excess
    <3>2. SubSeq(all, 1, Len(all)) = all
      BY <2>1
    <3>3. order' = all
      BY <2>2, <3>1, <3>2
    <3>4. QED
      BY <1>2, <2>3, <3>3 DEF Fifo!Next, Fifo!Add, Fifo!Range, Range
  <2>4. CASE Len(order) = Capacity
    <3>1. Excess(all) = 1
      BY <2>1, <2>4 DEF Excess
    <3>2. order' = SubSeq(all, 2, Len(all))
      BY <2>2, <3>1
    <3>3. SubSeq(all, 2, Len(all)) = Append(Tail(order), k)
      <4>1. order # <<>>
        BY <2>4
      <4>2. /\ SubSeq(all, 2, Len(all)) \in Seq(Keys)
            /\ Append(Tail(order), k) \in Seq(Keys)
            /\ Len(SubSeq(all, 2, Len(all))) = Len(order)
            /\ Len(Append(Tail(order), k)) = Len(order)
        BY <2>1, <4>1
      <4>3. ASSUME NEW i \in 1..Len(order)
            PROVE  SubSeq(all, 2, Len(all))[i] = Append(Tail(order), k)[i]
        BY <2>1, <4>1
      <4>4. QED
        BY <4>2, <4>3, SeqEqual
    <3>4. QED
      BY <1>2, <2>4, <3>2, <3>3 DEF Fifo!Next, Fifo!Add, Fifo!Range, Range
  <2>5. QED
    BY <2>3, <2>4
<1>3. QED
  BY <1>1, <1>2

\* The cache implements the bounded FIFO.
THEOREM CacheIsFifo == Spec => FifoSpec
<1>1. Init => Fifo!Init
  BY DEF Init, Fifo!Init
<1>2. CacheInv /\ [Next]_vars => [Fifo!Next]_order
  <2> SUFFICES ASSUME CacheInv, Next PROVE [Fifo!Next]_order
    BY DEF vars
  <2> USE ConstantsOK
  <2>1. ASSUME NEW c \in Conns, StoreOne(c) PROVE [Fifo!Next]_order
    <3>1. PICK i \in Misses(found[c]) : Insert(batch[c][i], Embedding[batch[c][i]])
      BY <2>1 DEF StoreOne
    <3>2. /\ batch[c][i] \in Keys
          /\ order \in Seq(Keys) /\ Len(order) <= Capacity /\ Range(order) = DOMAIN map
      BY DEF CacheInv, TypeOK, CacheConsistent, SlotsRight, Misses
    <3>3. QED
      BY <3>1, <3>2, InsertIsAdd
  <2>2. QED
    BY <2>1 DEF Next, Lookup, InferFails, Acquire, Release, Reply
<1>3. QED
  BY InitInv, StepInv, <1>1, <1>2, PTL DEF Spec, FifoSpec, Fifo!Spec
=============================================================================
