----------------------------- MODULE EmbedCache ------------------------------
(***************************************************************************)
(* The daemon's embedding cache and the connection threads that share it   *)
(* behind one mutex.  A thread looks a whole batch up under the lock, runs *)
(* the model on the misses WITHOUT the lock, then takes the lock again to  *)
(* store what it computed; other threads look up, insert and evict in the  *)
(* meantime.  Hit and miss counters, framing and read timeouts are left    *)
(* out; the model itself is the constant function Embedding.               *)
(***************************************************************************)
EXTENDS Naturals, Sequences, Functions

CONSTANTS
  Conns,      \* connection threads
  Keys,       \* cache keys: a text with its normalize flag, hashed
  Batches,    \* the texts of a request, as sequences of keys
  Vectors,
  Embedding,  \* what the model computes for a key
  Capacity,   \* PANDA_EMBED_CACHE_CAP, when it is not 0
  Null        \* an empty slot of a batch, no lock holder

ASSUME ConstantsOK ==
  /\ Capacity \in Nat \ {0}
  /\ Embedding \in [Keys -> Vectors]
  /\ Batches \subseteq Seq(Keys)
  /\ Null \notin Vectors \cup Conns

VARIABLES
  map,    \* key -> embedding
  order,  \* insertion order of the keys
  lock,   \* thread that holds the mutex across several inserts
  pc, batch, found

vars == <<map, order, lock, pc, batch, found>>

Phases == {"idle", "infer", "store", "reply"}

Init ==
  /\ map = <<>>
  /\ order = <<>>
  /\ lock = Null
  /\ pc = [c \in Conns |-> "idle"]
  /\ batch = [c \in Conns |-> <<>>]
  /\ found = [c \in Conns |-> <<>>]

\* How many of the oldest keys the eviction loop pops.
Excess(keys) == IF Len(keys) > Capacity THEN Len(keys) - Capacity ELSE 0

\* The order becomes `all` and k is mapped to v; the keys in excess leave both.
Store(all, k, v) ==
  LET evicted == {all[i] : i \in 1..Excess(all)}
  IN  /\ order' = SubSeq(all, Excess(all) + 1, Len(all))
      /\ map' = [x \in ((DOMAIN map) \cup {k}) \ evicted |-> IF x = k THEN v ELSE map[x]]

MutInsertAlwaysPushes(k, v) == Store(Append(order, k), k, v)

MutMoveToBack(k, v) == Store(Append(SelectSeq(order, LAMBDA x : x # k), k), k, v)

\* EmbedCache::insert: a key joins the order only when it is new.
Insert(k, v) == Store(IF k \in DOMAIN map THEN order ELSE Append(order, k), k, v)

Misses(slots) == {i \in DOMAIN slots : slots[i] = Null}

\* lookup_batch, one critical section: hits are copied out of the cache.
Lookup(c) ==
  /\ pc[c] = "idle"
  /\ lock = Null
  /\ \E b \in Batches :
       LET slots == [i \in 1..Len(b) |-> IF b[i] \in DOMAIN map THEN map[b[i]] ELSE Null]
       IN  /\ batch' = [batch EXCEPT ![c] = b]
           /\ found' = [found EXCEPT ![c] = slots]
           /\ pc' = [pc EXCEPT ![c] = IF Misses(slots) = {} THEN "reply" ELSE "infer"]
  /\ UNCHANGED <<map, order, lock>>

\* The thread ends and its locals with it.
Forget(c) ==
  /\ pc' = [pc EXCEPT ![c] = "idle"]
  /\ batch' = [batch EXCEPT ![c] = <<>>]
  /\ found' = [found EXCEPT ![c] = <<>>]

\* embed_uncached failed: `?` answers with an error and stores nothing.
InferFails(c) ==
  /\ pc[c] = "infer"
  /\ Forget(c)
  /\ UNCHANGED <<map, order, lock>>

\* The model has answered; the thread takes the lock to store the misses.
Acquire(c) ==
  /\ pc[c] = "infer"
  /\ lock = Null
  /\ lock' = c
  /\ pc' = [pc EXCEPT ![c] = "store"]
  /\ UNCHANGED <<map, order, batch, found>>

MutStoresEmptySlot(c) ==
  /\ pc[c] = "store"
  /\ \E i \in Misses(found[c]) :
       /\ \A j \in Misses(found[c]) : i <= j
       /\ Insert(batch[c][i], found[c][i])
       /\ found' = [found EXCEPT ![c][i] = Embedding[batch[c][i]]]
  /\ UNCHANGED <<lock, pc, batch>>

MutMisaligned(c) ==
  /\ pc[c] = "store"
  /\ \E i \in Misses(found[c]) :
       /\ \A j \in Misses(found[c]) : i <= j
       /\ Insert(batch[c][i], Embedding[batch[c][1]])
       /\ found' = [found EXCEPT ![c][i] = Embedding[batch[c][1]]]
  /\ UNCHANGED <<lock, pc, batch>>

\* One round of the loop over the misses, in their order: the vector goes to
\* the cache and to the thread's own slot.
StoreOne(c) ==
  /\ pc[c] = "store"
  /\ \E i \in Misses(found[c]) :
       /\ \A j \in Misses(found[c]) : i <= j
       /\ Insert(batch[c][i], Embedding[batch[c][i]])
       /\ found' = [found EXCEPT ![c][i] = Embedding[batch[c][i]]]
  /\ UNCHANGED <<lock, pc, batch>>

MutKeepsLock(c) ==
  /\ pc[c] = "store"
  /\ Misses(found[c]) = {}
  /\ pc' = [pc EXCEPT ![c] = "reply"]
  /\ UNCHANGED <<map, order, lock, batch, found>>

Release(c) ==
  /\ pc[c] = "store"
  /\ Misses(found[c]) = {}
  /\ lock' = Null
  /\ pc' = [pc EXCEPT ![c] = "reply"]
  /\ UNCHANGED <<map, order, batch, found>>

Reply(c) ==
  /\ pc[c] = "reply"
  /\ Forget(c)
  /\ UNCHANGED <<map, order, lock>>

Next ==
  \E c \in Conns :
    Lookup(c) \/ InferFails(c) \/ Acquire(c) \/ StoreOne(c) \/ Release(c) \/ Reply(c)

\* A thread that holds the mutex runs; inference may take for ever.
Fairness == \A c \in Conns : WF_vars(StoreOne(c) \/ Release(c))

Spec == Init /\ [][Next]_vars
FairSpec == Spec /\ Fairness

-----------------------------------------------------------------------------
\* Types of the cache, the lock and the connection threads.
TypeOK ==
  /\ DOMAIN map \subseteq Keys /\ map \in [DOMAIN map -> Vectors]
  /\ order \in Seq(Keys)
  /\ lock \in Conns \cup {Null}
  /\ pc \in [Conns -> Phases]
  /\ batch \in [Conns -> Seq(Keys)]
  /\ found \in [Conns -> Seq(Vectors \cup {Null})]

\* embed_cache.rs:72: the map never outgrows the capacity, and the order queue
\* lists each key of the map exactly once, whatever batches interleave; a
\* queue that drifted would evict the wrong key or grow without bound.
CacheConsistent ==
  /\ Range(order) = DOMAIN map
  /\ \A i, j \in DOMAIN order : order[i] = order[j] => i = j
  /\ Len(order) <= Capacity

\* daemon.rs:387 "Every slot is Some now": what a thread replies is the model's
\* own embedding of every text, though other threads may have evicted or
\* inserted those keys between its lookup and its store.
RepliesAreEmbeddings ==
  \A c \in Conns : pc[c] = "reply" =>
    found[c] = [i \in 1..Len(batch[c]) |-> Embedding[batch[c][i]]]

\* daemon.rs:363: "the cache lock is released while the model runs" -- the lock
\* always comes back, though no inference is assumed to end.
LockComesBack == lock # Null ~> lock = Null

\* The cache behaves as a bounded FIFO of keys (embed_cache.rs:10).
Fifo == INSTANCE FifoSet WITH Bound <- Capacity, keys <- order
FifoSpec == Fifo!Spec
=============================================================================
