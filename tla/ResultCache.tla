----------------------------- MODULE ResultCache -----------------------------
(***************************************************************************)
(* ResultCache of result_cache.rs as a value: compressed outputs by raw    *)
(* text and "output unchanged" redirects by noise-stripped text.  A cached *)
(* output is the call that compressed it and when (fields `of` and `made`):*)
(* its bytes are that call's.  The command hint, part of both keys, is one *)
(* and the same.                                                           *)
(***************************************************************************)
EXTENDS Naturals, FiniteSets

CONSTANTS
  MaxCached,  \* MAX_ENTRIES, 200 in the code
  Ttl,        \* CACHE_TTL_SECS, an hour
  GlobalTtl   \* GLOBAL_TTL_SECS, a day

ASSUME CacheBounds == MaxCached \in Nat \ {0} /\ Ttl \in Nat /\ GlobalTtl \in Nat

EmptyCache == [raw |-> <<>>, norm |-> <<>>]

\* A HashMap without one key, with one key set, and without the stale keys.
Without(f, k) == [x \in (DOMAIN f) \ {k} |-> f[x]]
With(f, k, v) == [x \in (DOMAIN f) \cup {k} |-> IF x = k THEN v ELSE f[x]]
Retain(f, now, ttl) == [x \in {y \in DOMAIN f : now <= f[y].ts + ttl} |-> f[x]]

\* min_by_key on ts: any one of the oldest, for the map's order is arbitrary.
Oldest(f) == {k \in DOMAIN f : \A x \in DOMAIN f : f[k].ts <= f[x].ts}

\* The maps insert may leave: at capacity an oldest key goes, whether or not
\* the key being inserted is already there.
Inserted(f, k, v) ==
  IF Cardinality(DOMAIN f) < MaxCached
  THEN {With(f, k, v)}
  ELSE {With(Without(f, old), k, v) : old \in Oldest(f)}

MutKeepsRedirects(c, now) == [raw |-> Retain(c.raw, now, Ttl), norm |-> c.norm]

MutEvictsEarly(c, now) ==
  [raw |-> Retain(c.raw, now, Ttl - 1), norm |-> Retain(c.norm, now, Ttl - 1)]

evict_old(c, now) == [raw |-> Retain(c.raw, now, Ttl), norm |-> Retain(c.norm, now, Ttl)]

MutNoGlobalTtl(c, now) == c

evict_global_old(c, now) == [raw |-> Retain(c.raw, now, GlobalTtl), norm |-> c.norm]

\* What load_global and save_global let through.
RawOnly(c) == [raw |-> c.raw, norm |-> <<>>]
=============================================================================
