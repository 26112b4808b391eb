--------------------------- MODULE BashHookProofs ----------------------------
(***************************************************************************)
(* For any number of overlapping calls, sessions and texts, any bounds and *)
(* any process deaths: every session value keeps its entries in order, and *)
(* "same output as turn N" has its referent; a cached answer is a           *)
(* compression of the very text, no older than the lifetimes of both caches *)
(* together, and a redirect has an earlier referent in its own session.     *)
(* When calls do not overlap, the cache files are whole, and what a call    *)
(* answered its session answers again for as long as the cache keeps it.    *)
(***************************************************************************)
EXTENDS BashHook, FiniteSetTheorems, TLAPS

-----------------------------------------------------------------------------
(* What the operators on caches return.                                    *)

\* Every element of any map `Inserted` may leave is the new one or an old one.
LEMMA InsertedMap ==
  ASSUME NEW f, NEW k, NEW v, NEW g \in Inserted(f, k, v)
  PROVE  /\ g = [x \in DOMAIN g |-> g[x]]
         /\ k \in DOMAIN g /\ g[k] = v
         /\ DOMAIN g \subseteq DOMAIN f \cup {k}
         /\ \A x \in DOMAIN g : x # k => g[x] = f[x]
<1>1. CASE g = With(f, k, v)
  BY <1>1 DEF With
<1>2. CASE \E old \in Oldest(f) : g = With(Without(f, old), k, v)
  BY <1>2 DEF With, Without
<1>3. QED
  BY <1>1, <1>2 DEF Inserted

LEMMA InsertedTyped ==
  ASSUME NEW f, NEW keys, NEW values, IsMap(f, keys, values),
         NEW k \in keys, NEW v \in values, NEW g \in Inserted(f, k, v)
  PROVE  IsMap(g, keys, values)
<1>1. \A x \in DOMAIN g : x \in keys /\ g[x] \in values
  BY InsertedMap DEF IsMap
<1>2. QED
  BY <1>1, InsertedMap DEF IsMap

LEMMA RetainMap ==
  ASSUME NEW f, NEW t, NEW ttl, NEW keys, NEW values, IsMap(f, keys, values)
  PROVE  /\ IsMap(Retain(f, t, ttl), keys, values)
         /\ \A x \in DOMAIN Retain(f, t, ttl) :
              x \in DOMAIN f /\ Retain(f, t, ttl)[x] = f[x] /\ t <= f[x].ts + ttl
  BY DEF Retain, IsMap

LEMMA EmptyIsCache == IsCache(EmptyCache)
  BY DEF IsCache, IsMap, EmptyCache

LEMMA EvictedIsCache ==
  ASSUME NEW x, IsCache(x), NEW t
  PROVE  /\ IsCache(evict_old(x, t)) /\ IsCache(evict_global_old(x, t)) /\ IsCache(RawOnly(x))
<1>1. IsCache(evict_old(x, t))
  BY RetainMap DEF IsCache, evict_old
<1>2. IsCache(evict_global_old(x, t))
  BY RetainMap DEF IsCache, evict_global_old
<1>3. IsCache(RawOnly(x))
  BY DEF IsCache, RawOnly, IsMap
<1>4. QED
  BY <1>1, <1>2, <1>3

-----------------------------------------------------------------------------
(* Sessions.                                                               *)

\* An ordered session value all of whose entries lie in the past.
Ordered(s, t) ==
  /\ s \in SessionStates
  /\ EntriesAscend(s)
  /\ \A i \in DOMAIN s.entries : s.entries[i].ts <= t

LEMMA EmptyOrdered == ASSUME NEW t PROVE Ordered(EmptySession, t)
  BY SessionBound DEF Ordered, EmptySession, SessionStates, EntriesAscend

\* record() keeps a session ordered: the new entry has the next turn and the latest
\* time, and what is left without the oldest entry is as many turns on.
LEMMA RecordOrdered ==
  ASSUME NEW s, NEW t \in Times, Ordered(s, t),
         NEW c \in Calls, NEW text \in Texts, NEW embedded \in BOOLEAN
  PROVE  Ordered(Record(s, c, Cmd[text], text, embedded, t), t)
<1> DEFINE new == [turn |-> s.total_turns + 1, of |-> c, cmd |-> Cmd[text], ts |-> t,
                   text |-> text, embedded |-> embedded]
           all == Append(s.entries, new)
           r == Record(s, c, Cmd[text], text, embedded, t)
<1>1. /\ s \in SessionStates /\ s.entries \in Seq(SessionEntries) /\ s.total_turns \in Nat
      /\ Len(s.entries) <= MaxEntries /\ Len(s.entries) \in Nat
      /\ t \in Nat
  BY HookConstants, SessionBound DEF Ordered, SessionStates, EntriesAscend, Times
<1>0. /\ Len(s.entries) = IF s.total_turns < MaxEntries THEN s.total_turns ELSE MaxEntries
      /\ MaxEntries \in Nat \ {0}
  BY SessionBound DEF Ordered, EntriesAscend
<1>2. new \in SessionEntries
  BY <1>1 DEF SessionEntries
<1>3. /\ all \in Seq(SessionEntries) /\ Len(all) = Len(s.entries) + 1
      /\ \A i \in 1..Len(s.entries) : all[i] = s.entries[i]
      /\ all[Len(all)] = new
  BY <1>1, <1>2
<1>4. /\ r.entries = IF Len(all) > MaxEntries THEN Tail(all) ELSE all
      /\ r.total_turns = s.total_turns + 1
      /\ r = [entries |-> r.entries, total_turns |-> r.total_turns]
  BY DEF Record, Pushed
<1>5. \A i, j \in 1..Len(all) :
        /\ all[i].turn = s.total_turns - Len(s.entries) + i /\ all[i].ts <= t
        /\ i < j => all[i].ts <= all[j].ts
  <2>0. new.turn = s.total_turns + 1 /\ new.ts = t
    OBVIOUS
  <2> HIDE DEF new, all
  <2>1. ASSUME NEW i \in 1..Len(s.entries)
        PROVE  /\ all[i] = s.entries[i] /\ all[i].ts \in Nat
               /\ all[i].turn = s.total_turns - Len(s.entries) + i /\ all[i].ts <= t
    <3>1. s.entries[i] \in SessionEntries
      BY <1>1
    <3>2. s.entries[i].ts \in Nat
      BY <3>1, HookConstants DEF SessionEntries, Times
    <3>3. s.entries[i].turn = s.total_turns - Len(s.entries) + i /\ s.entries[i].ts <= t
      BY <1>1 DEF Ordered, EntriesAscend
    <3>4. QED
      BY <1>3, <3>2, <3>3
  <2>2. \A i, j \in 1..Len(s.entries) : i < j => all[i].ts <= all[j].ts
    <3>1. \A i, j \in DOMAIN s.entries : i < j => s.entries[i].ts <= s.entries[j].ts
      BY Zenon DEF Ordered, EntriesAscend
    <3>2. DOMAIN s.entries = 1..Len(s.entries)
      BY <1>1
    <3>3. QED
      BY <2>1, <3>1, <3>2
  <2>3. ASSUME NEW i \in 1..Len(all), NEW j \in 1..Len(all)
        PROVE  /\ all[i].turn = s.total_turns - Len(s.entries) + i /\ all[i].ts <= t
               /\ i < j => all[i].ts <= all[j].ts
    <3>1. Len(s.entries) \in Nat /\ Len(all) = Len(s.entries) + 1
      BY <1>1, <1>3
    <3>2. CASE i = Len(all)
      <4>1. all[i].turn = s.total_turns + 1 /\ all[i].ts = t /\ ~(i < j) /\ t <= t
        BY <1>1, <1>3, <2>0, <3>1, <3>2
      <4>2. s.total_turns + 1 = s.total_turns - Len(s.entries) + i
        BY <1>1, <3>1, <3>2
      <4>3. QED
        BY <4>1, <4>2
    <3>3. CASE i \in 1..Len(s.entries) /\ j = Len(all)
      BY <1>1, <1>3, <2>0, <2>1, <3>1, <3>3
    <3>4. CASE i \in 1..Len(s.entries) /\ j \in 1..Len(s.entries)
      BY <1>1, <2>1, <2>2, <3>1, <3>4
    <3>5. QED
      BY <3>1, <3>2, <3>3, <3>4
  <2>4. QED
    BY <2>3
<1> HIDE DEF new, all, r
<1>6. CASE Len(all) > MaxEntries
  <2>1. /\ r.entries \in Seq(SessionEntries) /\ Len(r.entries) = Len(s.entries)
        /\ \A i \in 1..Len(r.entries) : r.entries[i] = all[i + 1] /\ i + 1 \in 1..Len(all)
    <3>1. MaxEntries \in Nat /\ Len(all) \in Nat /\ r.entries = Tail(all) /\ all # <<>>
      BY <1>0, <1>1, <1>3, <1>4, <1>6
    <3>2. QED
      BY <1>1, <1>3, <3>1
  <2>0. DOMAIN r.entries = 1..Len(r.entries)
    BY <2>1
  <2>2. ASSUME NEW i \in 1..Len(r.entries)
        PROVE  r.entries[i].turn = r.total_turns - Len(r.entries) + i /\ r.entries[i].ts <= t
    <3>1. all[i + 1].turn = s.total_turns - Len(s.entries) + (i + 1) /\ all[i + 1].ts <= t
      BY <1>5, <2>1
    <3>2. Len(s.entries) \in Nat /\ s.total_turns \in Nat /\ i \in Nat
      BY <1>1
    <3>3. s.total_turns - Len(s.entries) + (i + 1) = s.total_turns + 1 - Len(s.entries) + i
      BY <3>2
    <3>4. r.entries[i] = all[i + 1] /\ Len(r.entries) = Len(s.entries) /\ r.total_turns = s.total_turns + 1
      BY <1>4, <2>1
    <3>5. r.entries[i].turn = s.total_turns + 1 - Len(s.entries) + i /\ r.entries[i].ts <= t
      BY <3>1, <3>3, <3>4, Zenon
    <3>6. r.total_turns - Len(r.entries) + i = s.total_turns + 1 - Len(s.entries) + i
      BY <3>2, <3>4
    <3>7. QED
      BY <3>5, <3>6, Zenon
  <2>3. \A i, j \in DOMAIN r.entries : i < j => r.entries[i].ts <= r.entries[j].ts
    <3> SUFFICES ASSUME NEW i \in 1..Len(r.entries), NEW j \in 1..Len(r.entries), i < j
                 PROVE  r.entries[i].ts <= r.entries[j].ts
      BY <2>1
    <3>1. i + 1 < j + 1
      OBVIOUS
    <3>2. QED
      BY <1>5, <2>1, <3>1
  <2>4. r \in SessionStates
    <3>1. r.entries \in Seq(SessionEntries) /\ r.total_turns \in Nat
      BY <1>1, <1>4, <2>1
    <3>2. QED
      BY <1>4, <3>1 DEF SessionStates
  <2>5. Len(r.entries) = IF r.total_turns < MaxEntries THEN r.total_turns ELSE MaxEntries
    <3>1. /\ Len(s.entries) \in Nat /\ Len(s.entries) + 1 > MaxEntries
          /\ Len(r.entries) = Len(s.entries) /\ r.total_turns = s.total_turns + 1
      BY <1>1, <1>3, <1>4, <1>6, <2>1
    <3>2. QED
      BY <1>0, <1>1, <3>1
  <2>6. QED
    BY <2>0, <2>2, <2>3, <2>4, <2>5, Zenon DEF Ordered, EntriesAscend, r
<1>7. CASE ~(Len(all) > MaxEntries)
  <2>1. r.entries = all
    BY <1>4, <1>7
  <2>2. r \in SessionStates
    BY <1>1, <1>3, <1>4, <2>1 DEF SessionStates
  <2>3. /\ Len(r.entries) = IF r.total_turns < MaxEntries THEN r.total_turns ELSE MaxEntries
        /\ r.total_turns - Len(r.entries) = s.total_turns - Len(s.entries)
    BY <1>0, <1>1, <1>3, <1>4, <1>7, <2>1
  <2>4. DOMAIN r.entries = 1..Len(all)
    BY <1>3, <2>1
  <2>5. QED
    BY <1>5, <2>1, <2>2, <2>3, <2>4 DEF Ordered, EntriesAscend, r
<1>8. QED
  BY <1>6, <1>7

LEMMA RecordTyped ==
  ASSUME NEW s \in SessionStates, NEW t \in Times, NEW c \in Calls, NEW text \in Texts,
         NEW embedded \in BOOLEAN
  PROVE  Record(s, c, Cmd[text], text, embedded, t) \in SessionStates
<1> DEFINE new == [turn |-> s.total_turns + 1, of |-> c, cmd |-> Cmd[text], ts |-> t,
                   text |-> text, embedded |-> embedded]
           all == Append(s.entries, new)
<1>1. s.entries \in Seq(SessionEntries) /\ s.total_turns \in Nat
  BY DEF SessionStates
<1>2. new \in SessionEntries
  BY <1>1 DEF SessionEntries
<1>3. Record(s, c, Cmd[text], text, embedded, t)
        = [entries |-> IF Len(all) > MaxEntries THEN Tail(all) ELSE all,
           total_turns |-> s.total_turns + 1]
  BY DEF Record, Pushed
<1> HIDE DEF new
<1>4. all \in Seq(SessionEntries) /\ Len(all) = Len(s.entries) + 1
  BY <1>1, <1>2
<1>5. Tail(all) \in Seq(SessionEntries)
  BY <1>1, <1>4
<1>6. QED
  BY <1>1, <1>3, <1>4, <1>5 DEF SessionStates

-----------------------------------------------------------------------------
(* Types.                                                                  *)

LEMMA EmptyIsSession == EmptySession \in SessionStates
  BY DEF EmptySession, SessionStates

LEMMA LoadsTyped ==
  ASSUME TypeOK
  PROVE  /\ \A s \in Sessions : LoadSession(s) \in SessionStates
         /\ \A f \in Caches : IsCache(LoadCache(f))
  BY EmptyIsSession, EmptyIsCache DEF TypeOK, LoadSession, LoadCache

LEMMA TypeInit == Init => TypeOK
  BY HookConstants, EmptyIsSession, EmptyIsCache
  DEF Init, TypeOK, Times, NoAnswer, Answers, Running, SaveKinds

\* What a call that has begun is about.
LEMMA JobTyped ==
  ASSUME TypeOK, NEW c \in Calls, pc[c] # "idle"
  PROVE  job[c] \in Jobs /\ SessionOf(c) \in Sessions /\ Text(c) \in Texts
  BY DEF TypeOK, Jobs, SessionOf, Text

LEMMA AnswerTyped ==
  ASSUME TypeOK, NEW c \in Calls, NEW kind, NEW of, NEW turn \in Nat, NEW made \in Times,
         \/ kind = "none" /\ of = Never
         \/ kind \in {"cached", "unchanged", "same", "full"} /\ of \in Calls,
         Answer(c, kind, of, turn, made)
  PROVE  /\ answer' \in [Calls -> Answers]
         /\ \A d \in Calls : answer'[d].of = Never => answer'[d].kind = "none"
         /\ pc' \in [Calls -> Running \cup {"idle", "exited"}]
         /\ \A d \in Calls : d # c => pc'[d] = pc[d]
         /\ pc'[c] = "returned"
<1>1. [kind |-> kind, of |-> of, turn |-> turn, made |-> made] \in Answers
  BY DEF Answers
<1>2. QED
  BY <1>1, HookConstants DEF Answer, TypeOK, Running

\* The steps of the call itself.
LEMMA TypeCall ==
  ASSUME TypeOK, NEW c \in Calls,
         Begin(c) \/ Tier1(c) \/ Tier2(c) \/ Tier3(c) \/ Poll(c) \/ Compress(c) \/ Store(c)
  PROVE  TypeOK'
<1> USE HookConstants DEF files, copies, Goto
<1>t. /\ now \in Times /\ now \in Nat
  BY DEF TypeOK, Times
<1>n. Nat \subseteq Nat /\ 0 \in Nat /\ 0 \in Times
  BY DEF Times
<1>1. CASE Begin(c)
  <2>1. PICK s \in Sessions, t \in Texts :
          /\ job' = [job EXCEPT ![c] = [session |-> s, text |-> t, began |-> now]]
          /\ sess' = [sess EXCEPT ![c] = LoadSession(s)]
    BY <1>1 DEF Begin
  <2>2. [session |-> s, text |-> t, began |-> now] \in Jobs
    BY <1>t DEF Jobs
  <2>3. /\ job' \in [Calls -> {Never} \cup Jobs] /\ job'[c] # Never
        /\ \A d \in Calls : d # c => job'[d] = job[d]
    BY <2>1, <2>2 DEF TypeOK
  <2>4. sess' \in [Calls -> SessionStates]
    BY <2>1, LoadsTyped DEF TypeOK
  <2>5. /\ pc' = [pc EXCEPT ![c] = "tier1"]
        /\ UNCHANGED <<now, files, rc, grc, saves, answer>>
    BY <1>1 DEF Begin
  <2>6. QED
    BY <2>3, <2>4, <2>5 DEF TypeOK, Running
<1>2. CASE Tier1(c)
  <2> DEFINE cache == evict_old(LoadCache(SessionOf(c)), now)
  <2>1. pc[c] = "tier1" /\ SessionOf(c) \in Caches /\ Text(c) \in Texts
    BY <1>2, JobTyped DEF Tier1, Caches
  <2>2. IsCache(cache)
    BY <2>1, LoadsTyped, EvictedIsCache
  <2>3. CASE Text(c) \in DOMAIN cache.raw
    <3>1. cache.raw[Text(c)] \in RawEntries
      BY <2>2, <2>3 DEF IsCache, IsMap
    <3>2. /\ Answer(c, "cached", cache.raw[Text(c)].of, 0, cache.raw[Text(c)].made)
          /\ UNCHANGED <<now, files, job, copies, saves>>
      BY <1>2, <2>3 DEF Tier1
    <3>3. cache.raw[Text(c)].of \in Calls /\ cache.raw[Text(c)].made \in Times
      BY <3>1 DEF RawEntries
    <3> HIDE DEF cache
    <3>4. QED
      BY <2>1, <3>2, <3>3, <1>n, AnswerTyped DEF TypeOK
  <2>4. CASE Text(c) \notin DOMAIN cache.raw
    <3>1. /\ Goto(c, "tier2") /\ rc' = [rc EXCEPT ![c] = cache]
          /\ UNCHANGED <<now, files, job, sess, grc, saves>>
      BY <1>2, <2>4 DEF Tier1
    <3> HIDE DEF cache
    <3>2. QED
      BY <2>1, <2>2, <3>1 DEF TypeOK, Running
  <2>5. QED
    BY <2>3, <2>4
<1>3. CASE Tier2(c)
  <2> DEFINE cache == evict_global_old(RawOnly(LoadCache(Global)), now)
  <2>1. pc[c] = "tier2" /\ SessionOf(c) \in Caches /\ Text(c) \in Texts /\ Global \in Caches
    BY <1>3, JobTyped DEF Tier2, Caches
  <2>2. IsCache(cache)
    BY <2>1, LoadsTyped, EvictedIsCache
  <2>3. CASE Text(c) \in DOMAIN cache.raw
    <3> DEFINE hit == cache.raw[Text(c)]
    <3>1. hit \in RawEntries
      BY <2>2, <2>3 DEF IsCache, IsMap
    <3>2. PICK raw \in Inserted(rc[c].raw, Text(c), Entry(hit.of, hit.made, now)) :
            rc' = [rc EXCEPT ![c] = [raw |-> raw, norm |-> rc[c].norm]]
      BY <1>3, <2>3 DEF Tier2
    <3>3. /\ Answer(c, "cached", hit.of, 0, hit.made)
          /\ saves' = [saves EXCEPT ![c]["rc"] = "pending"]
          /\ UNCHANGED <<now, files, job, sess, grc>>
      BY <1>3, <2>3 DEF Tier2
    <3>4. hit.of \in Calls /\ hit.made \in Times
      BY <3>1 DEF RawEntries
    <3>5. Entry(hit.of, hit.made, now) \in RawEntries
      BY <1>t, <3>4 DEF Entry, RawEntries
    <3>6. IsCache(rc[c])
      BY DEF TypeOK
    <3> HIDE DEF hit
    <3>7. IsMap(raw, Texts, RawEntries)
      BY <2>1, <3>2, <3>5, <3>6, InsertedTyped DEF IsCache
    <3>8. IsCache([raw |-> raw, norm |-> rc[c].norm])
      BY <3>6, <3>7 DEF IsCache
    <3>9. /\ DOMAIN rc' = Calls /\ \A d \in Calls : IsCache(rc'[d])
      BY <3>2, <3>8 DEF TypeOK
    <3>10. saves' \in [Calls -> [SaveKinds ->
             {"none", "pending", "open", "moved", "replaced", "written", "done"}]]
      BY <3>3 DEF TypeOK, SaveKinds
    <3>11. QED
      BY <2>1, <3>3, <3>4, <3>9, <3>10, <1>n, AnswerTyped DEF TypeOK
  <2>4. CASE Text(c) \notin DOMAIN cache.raw
    <3>1. /\ Goto(c, "tier3") /\ grc' = [grc EXCEPT ![c] = cache]
          /\ UNCHANGED <<now, files, job, sess, rc, saves>>
      BY <1>3, <2>4 DEF Tier2
    <3> HIDE DEF cache
    <3>2. QED
      BY <2>1, <2>2, <3>1 DEF TypeOK, Running
  <2>5. QED
    BY <2>3, <2>4
<1>4. CASE Tier3(c)
  <2>1. pc[c] = "tier3" /\ Text(c) \in Texts /\ IsCache(rc[c])
    BY <1>4, JobTyped DEF Tier3, TypeOK
  <2>2. CASE Norm[Text(c)] \in DOMAIN rc[c].norm
    <3> DEFINE redirect == rc[c].norm[Norm[Text(c)]]
    <3>1. redirect \in NormEntries
      BY <2>1, <2>2 DEF IsCache, IsMap
    <3>2. redirect.of \in Calls /\ redirect.turn \in Nat /\ redirect.ts \in Times
      BY <3>1 DEF NormEntries
    <3>3. /\ Answer(c, "unchanged", redirect.of, redirect.turn, redirect.ts)
          /\ UNCHANGED <<now, files, job, copies, saves>>
      BY <1>4, <2>2 DEF Tier3
    <3> HIDE DEF redirect
    <3>4. QED
      BY <2>1, <3>2, <3>3, AnswerTyped DEF TypeOK
  <2>3. CASE Norm[Text(c)] \notin DOMAIN rc[c].norm
    BY <1>4, <2>1, <2>3 DEF Tier3, TypeOK, Running
  <2>4. QED
    BY <2>2, <2>3
<1>5. CASE Poll(c)
  <2>1. pc[c] = "poll" /\ Text(c) \in Texts /\ sess[c] \in SessionStates
    BY <1>5, JobTyped DEF Poll, TypeOK
  <2>2. CASE Goto(c, "compress")
    BY <1>5, <2>1, <2>2 DEF Poll, TypeOK, Running
  <2>3. ASSUME NEW i \in DOMAIN sess[c].entries,
               Answer(c, "same", sess[c].entries[i].of, sess[c].entries[i].turn,
                      sess[c].entries[i].ts)
        PROVE  TypeOK'
    <3>1. sess[c].entries[i] \in SessionEntries
      BY <2>1 DEF SessionStates
    <3>2. /\ sess[c].entries[i].of \in Calls /\ sess[c].entries[i].turn \in Nat
          /\ sess[c].entries[i].ts \in Times
      BY <3>1 DEF SessionEntries
    <3>3. UNCHANGED <<now, files, job, copies, saves>>
      BY <1>5 DEF Poll
    <3>4. QED
      BY <2>1, <2>3, <3>2, <3>3, AnswerTyped DEF TypeOK
  <2>4. QED
    BY <1>5, <2>2, <2>3 DEF Poll, SimilarRecent, OfCommand
<1>6. CASE Compress(c)
  <2>1. pc[c] = "compress" /\ Text(c) \in Texts /\ sess[c] \in SessionStates
    BY <1>6, JobTyped DEF Compress, TypeOK
  <2>u. UNCHANGED <<now, files, job, rc, grc>>
    BY <1>6 DEF Compress
  <2>2. CASE Answer(c, "none", Never, 0, 0) /\ UNCHANGED <<sess, saves>>
    BY <2>1, <2>2, <2>u, <1>n, AnswerTyped DEF TypeOK
  <2>3. ASSUME NEW embedded \in BOOLEAN, Goto(c, "store"), Recorded(c, embedded)
        PROVE  TypeOK'
    <3>1. Record(sess[c], c, Cmd[Text(c)], Text(c), embedded, now) \in SessionStates
      BY <2>1, <1>t, RecordTyped
    <3>2. sess' \in [Calls -> SessionStates]
      BY <2>3, <3>1 DEF TypeOK, Recorded
    <3>3. saves' \in [Calls -> [SaveKinds ->
             {"none", "pending", "open", "moved", "replaced", "written", "done"}]]
      BY <2>3 DEF TypeOK, SaveKinds, Recorded
    <3>4. QED
      BY <2>1, <2>3, <2>u, <3>2, <3>3 DEF TypeOK, Running
  <2>4. CASE Goto(c, "store") /\ UNCHANGED <<sess, saves>>
    BY <2>1, <2>4, <2>u DEF TypeOK, Running
  <2>5. QED
    BY <1>6, <2>2, <2>3, <2>4 DEF Compress
<1>7. CASE Store(c)
  <2>1. pc[c] = "store" /\ Text(c) \in Texts /\ IsCache(rc[c]) /\ IsCache(grc[c])
    BY <1>7, JobTyped DEF Store, TypeOK
  <2> DEFINE redirect == [of |-> c, turn |-> turn_num(c), ts |-> now]
  <2>2. PICK raw \in Inserted(rc[c].raw, Text(c), Entry(c, now, now)),
             graw \in Inserted(grc[c].raw, Text(c), Entry(c, now, now)),
             norm \in Inserted(rc[c].norm, Norm[Text(c)], redirect) :
               /\ rc' = [rc EXCEPT ![c] = [raw |-> raw, norm |-> norm]]
               /\ grc' = [grc EXCEPT ![c] = [raw |-> graw, norm |-> grc[c].norm]]
    BY <1>7 DEF Store
  <2>3. turn_num(c) \in Nat
    BY DEF turn_num, TypeOK, SessionStates
  <2>4. Entry(c, now, now) \in RawEntries /\ redirect \in NormEntries
    BY <1>t, <2>3 DEF Entry, RawEntries, NormEntries
  <2>5. /\ Answer(c, "full", c, 0, now)
        /\ saves' = [saves EXCEPT ![c]["rc"] = "pending", ![c]["grc"] = "pending"]
        /\ UNCHANGED <<now, files, job, sess>>
    BY <1>7 DEF Store
  <2> HIDE DEF redirect
  <2>6. IsMap(raw, Texts, RawEntries) /\ IsMap(graw, Texts, RawEntries)
    BY <2>1, <2>2, <2>4, InsertedTyped DEF IsCache
  <2>7. IsMap(norm, {Norm[t] : t \in Texts}, NormEntries)
    BY <2>1, <2>2, <2>4, InsertedTyped DEF IsCache
  <2>8. /\ IsCache([raw |-> raw, norm |-> norm])
        /\ IsCache([raw |-> graw, norm |-> grc[c].norm])
    BY <2>1, <2>6, <2>7 DEF IsCache
  <2>9. /\ DOMAIN rc' = Calls /\ DOMAIN grc' = Calls
        /\ \A d \in Calls : IsCache(rc'[d]) /\ IsCache(grc'[d])
    BY <2>2, <2>8 DEF TypeOK
  <2>10. saves' \in [Calls -> [SaveKinds ->
             {"none", "pending", "open", "moved", "replaced", "written", "done"}]]
    BY <2>5 DEF TypeOK, SaveKinds
  <2>11. QED
    BY <2>1, <2>5, <2>9, <2>10, <1>t, <1>n, AnswerTyped DEF TypeOK
<1>8. QED
  BY <1>1, <1>2, <1>3, <1>4, <1>5, <1>6, <1>7

\* The detached saves, and the process's end.
LEMMA TypeSave ==
  ASSUME TypeOK, NEW c \in Calls,
         \/ SessionOpen(c) \/ SessionWrite(c) \/ Exit(c) \/ Kill(c)
         \/ \E k \in {"rc", "grc"} : CacheOpen(c, k) \/ CacheWrite(c, k) \/ CacheRename(c, k)
  PROVE  TypeOK'
<1> USE HookConstants DEF files, copies
<1> DEFINE Phases == {"none", "pending", "open", "moved", "replaced", "written", "done"}
<1>1. ASSUME NEW k \in SaveKinds, NEW from, NEW to \in Phases, Save(c, k, from, to)
      PROVE  saves' \in [Calls -> [SaveKinds -> Phases]] /\ pc[c] # "idle"
  BY <1>1 DEF Save, Alive, TypeOK
<1>2. ASSUME NEW k \in {"rc", "grc"}, pc[c] # "idle"
      PROVE  FileOf(c, k) \in Caches /\ IsCache(Content(c, k))
  BY <1>2, JobTyped, EvictedIsCache DEF FileOf, Content, Caches, TypeOK
<1>3. CASE SessionOpen(c)
  <2>1. Save(c, "session", "pending", "open")
    BY <1>3 DEF SessionOpen
  <2>2. saves' \in [Calls -> [SaveKinds -> Phases]] /\ pc[c] # "idle"
    BY <1>1, <2>1 DEF SaveKinds
  <2>3. SessionOf(c) \in Sessions
    BY <2>2, JobTyped
  <2>4. QED
    BY <1>3, <2>2, <2>3 DEF SessionOpen, TypeOK
<1>4. CASE SessionWrite(c)
  <2>1. Save(c, "session", "open", "done")
    BY <1>4 DEF SessionWrite
  <2>2. saves' \in [Calls -> [SaveKinds -> Phases]] /\ pc[c] # "idle"
    BY <1>1, <2>1 DEF SaveKinds
  <2>3. SessionOf(c) \in Sessions
    BY <2>2, JobTyped
  <2>4. PICK content \in Overwritten(sessionFile[SessionOf(c)], sess[c]) :
          sessionFile' = [sessionFile EXCEPT ![SessionOf(c)] = content]
    BY <1>4 DEF SessionWrite
  <2>5. content \in {Torn} \cup SessionStates
    BY DEF Overwritten, TypeOK
  <2>6. sessionFile' \in [Sessions -> {Torn} \cup SessionStates]
    BY <2>3, <2>4, <2>5 DEF TypeOK
  <2>7. QED
    BY <1>4, <2>2, <2>6 DEF SessionWrite, TypeOK
<1>5. ASSUME NEW k \in {"rc", "grc"}, CacheOpen(c, k) PROVE TypeOK'
  <2>1. Save(c, k, "pending", "open")
    BY <1>5 DEF CacheOpen
  <2>2. saves' \in [Calls -> [SaveKinds -> Phases]] /\ pc[c] # "idle"
    BY <1>1, <2>1 DEF SaveKinds
  <2>3. /\ tmpFile' = [tmpFile EXCEPT ![FileOf(c, k)] = Torn]
        /\ UNCHANGED <<now, sessionFile, cacheFile, pc, job, copies, answer>>
    BY <1>5 DEF CacheOpen
  <2>4. QED
    BY <1>2, <2>2, <2>3 DEF TypeOK
<1>6. ASSUME NEW k \in {"rc", "grc"}, CacheWrite(c, k) PROVE TypeOK'
  <2>1. PICK from \in {"open", "moved", "replaced"} : Save(c, k, from, "written")
    BY <1>6 DEF CacheWrite
  <2>2. saves' \in [Calls -> [SaveKinds -> Phases]] /\ pc[c] # "idle"
    BY <1>1, <2>1 DEF SaveKinds
  <2>3. FileOf(c, k) \in Caches /\ IsCache(Content(c, k))
    BY <1>2, <2>2
  <2>4. ASSUME NEW old, NEW content \in Overwritten(old, Content(c, k))
        PROVE  content = Torn \/ IsCache(content)
    BY <2>3 DEF Overwritten
  <2>5. /\ DOMAIN cacheFile' = Caches /\ DOMAIN tmpFile' = Caches
        /\ \A f \in Caches : cacheFile'[f] # Torn => IsCache(cacheFile'[f])
        /\ \A f \in Caches : tmpFile'[f] \notin {Torn, Never} => IsCache(tmpFile'[f])
    BY <1>6, <2>3, <2>4 DEF CacheWrite, TypeOK
  <2>6. UNCHANGED <<now, sessionFile, pc, job, copies, answer>>
    BY <1>6 DEF CacheWrite
  <2>7. QED
    BY <2>2, <2>5, <2>6 DEF TypeOK
<1>7. ASSUME NEW k \in {"rc", "grc"}, CacheRename(c, k) PROVE TypeOK'
  <2>1. pc[c] # "idle"
    BY <1>7 DEF CacheRename, Alive
  <2>2. FileOf(c, k) \in Caches
    BY <1>2, <2>1
  <2>3. UNCHANGED <<now, sessionFile, pc, job, copies, answer>>
    BY <1>7 DEF CacheRename
  <2>4. /\ DOMAIN cacheFile' = Caches /\ DOMAIN tmpFile' = Caches
        /\ \A f \in Caches : cacheFile'[f] # Torn => IsCache(cacheFile'[f])
        /\ \A f \in Caches : tmpFile'[f] \notin {Torn, Never} => IsCache(tmpFile'[f])
    BY <1>7, <2>2 DEF CacheRename, TypeOK
  <2>5. CASE tmpFile[FileOf(c, k)] = Never
    <3>1. saves' = [saves EXCEPT ![c][k] = "done"]
      BY <1>7, <2>5 DEF CacheRename
    <3>2. saves' \in [Calls -> [SaveKinds -> Phases]]
      BY <3>1 DEF TypeOK, SaveKinds
    <3>3. QED
      BY <2>3, <2>4, <3>2 DEF TypeOK
  <2>6. CASE tmpFile[FileOf(c, k)] # Never
    <3>1. \A phase \in Phases : AfterRename(phase) \in Phases
      BY DEF AfterRename
    <3>2. saves' = [d \in Calls |-> [j \in SaveKinds |->
                   IF d = c /\ j = k THEN "done"
                   ELSE IF j # "session" /\ Alive(d) /\ FileOf(d, j) = FileOf(c, k)
                        THEN AfterRename(saves[d][j])
                        ELSE saves[d][j]]]
      BY <1>7, <2>6 DEF CacheRename
    <3>3. \A d \in Calls, j \in SaveKinds : saves[d][j] \in Phases
      BY DEF TypeOK
    <3>4. saves' \in [Calls -> [SaveKinds -> Phases]]
      BY <3>1, <3>2, <3>3
    <3>5. QED
      BY <2>3, <2>4, <3>4 DEF TypeOK
  <2>7. QED
    BY <2>5, <2>6
<1>8. ASSUME Gone(c), pc[c] # "idle",
             answer' = answer \/ answer' = [answer EXCEPT ![c] = NoAnswer]
      PROVE  TypeOK'
  <2>1. NoAnswer \in Answers /\ NoAnswer.kind = "none"
    BY DEF NoAnswer, Answers, Times
  <2>2. /\ answer' \in [Calls -> Answers]
        /\ \A d \in Calls : answer'[d].of = Never => answer'[d].kind = "none"
    BY <1>8, <2>1 DEF TypeOK
  <2>3. saves' \in [Calls -> [SaveKinds -> Phases]]
    BY <1>8 DEF Gone, TypeOK
  <2>4. QED
    BY <1>8, <2>2, <2>3, EmptyIsSession, EmptyIsCache DEF Gone, TypeOK
<1>9. CASE Exit(c)
  BY <1>8, <1>9 DEF Exit
<1>10. CASE Kill(c)
  BY <1>8, <1>10 DEF Kill, Running
<1>11. QED
  BY <1>3, <1>4, <1>5, <1>6, <1>7, <1>9, <1>10

LEMMA TypeStep == TypeOK /\ [Next]_vars => TypeOK'
<1> SUFFICES ASSUME TypeOK, [Next]_vars PROVE TypeOK'
  OBVIOUS
<1>1. CASE Tick
  BY <1>1, HookConstants DEF Tick, TypeOK, Times, files, copies
<1>2. CASE UNCHANGED vars
  BY <1>2 DEF vars, TypeOK
<1>3. QED
  BY <1>1, <1>2, TypeCall, TypeSave DEF Next, Steps

\* Files hold whole values or nothing readable, and every call, cache and
\* session is of its type, whatever overlaps and whatever dies.
THEOREM TypeCorrect == Spec => []TypeOK
  BY TypeInit, TypeStep, PTL DEF Spec
-----------------------------------------------------------------------------
(* Sessions stay in order.                                                 *)

\* Inductive: no session value, saved or in memory, is ahead of the clock.
SessionsOrdered ==
  /\ \A s \in Sessions : sessionFile[s] # Torn => Ordered(sessionFile[s], now)
  /\ \A c \in Calls : Ordered(sess[c], now)

LEMMA OrderedLater ==
  ASSUME NEW t \in Nat, NEW u \in Nat, t <= u, NEW s, Ordered(s, t)
  PROVE  Ordered(s, u)
<1>1. \A i \in DOMAIN s.entries : s.entries[i] \in SessionEntries
  BY DEF Ordered, SessionStates
<1>2. \A i \in DOMAIN s.entries : s.entries[i].ts \in Nat /\ s.entries[i].ts <= t
  BY <1>1, HookConstants DEF Ordered, SessionEntries, Times
<1>3. QED
  BY <1>2 DEF Ordered

LEMMA OrderedStep == TypeOK /\ SessionsOrdered /\ [Next]_vars => SessionsOrdered'
<1> SUFFICES ASSUME TypeOK, SessionsOrdered, [Next]_vars PROVE SessionsOrdered'
  OBVIOUS
<1> USE DEF files, copies
<1>1. CASE Tick
  <2>1. now \in Nat /\ now' \in Nat /\ now <= now' /\ UNCHANGED <<sessionFile, sess>>
    BY <1>1, HookConstants DEF Tick, TypeOK, Times
  <2>2. QED
    BY <2>1, OrderedLater DEF SessionsOrdered
<1>2. CASE UNCHANGED <<now, sessionFile, sess>>
  BY <1>2 DEF SessionsOrdered
<1>3. ASSUME NEW c \in Calls, Begin(c) PROVE SessionsOrdered'
  <2>1. PICK s \in Sessions : sess' = [sess EXCEPT ![c] = LoadSession(s)]
    BY <1>3 DEF Begin
  <2>2. Ordered(LoadSession(s), now)
    BY EmptyOrdered DEF LoadSession, SessionsOrdered
  <2>3. UNCHANGED <<now, sessionFile>>
    BY <1>3 DEF Begin
  <2>4. QED
    BY <2>1, <2>2, <2>3 DEF SessionsOrdered, TypeOK
<1>4. ASSUME NEW c \in Calls, Compress(c) PROVE SessionsOrdered'
  <2>1. Text(c) \in Texts /\ now \in Times
    BY <1>4, JobTyped DEF Compress, TypeOK
  <2>2. UNCHANGED <<now, sessionFile>>
    BY <1>4 DEF Compress
  <2>3. ASSUME NEW embedded \in BOOLEAN, Recorded(c, embedded) PROVE SessionsOrdered'
    <3>1. Ordered(Record(sess[c], c, Cmd[Text(c)], Text(c), embedded, now), now)
      BY <2>1, RecordOrdered DEF SessionsOrdered
    <3>2. sess' = [sess EXCEPT ![c] = Record(sess[c], c, Cmd[Text(c)], Text(c), embedded, now)]
      BY <2>3 DEF Recorded
    <3>3. QED
      BY <2>2, <3>1, <3>2 DEF SessionsOrdered, TypeOK
  <2>4. QED
    BY <1>2, <1>4, <2>2, <2>3 DEF Compress
<1>5. ASSUME NEW c \in Calls, SessionOpen(c) PROVE SessionsOrdered'
  BY <1>5 DEF SessionOpen, SessionsOrdered, TypeOK
<1>6. ASSUME NEW c \in Calls, SessionWrite(c) PROVE SessionsOrdered'
  <2>1. PICK content \in Overwritten(sessionFile[SessionOf(c)], sess[c]) :
          sessionFile' = [sessionFile EXCEPT ![SessionOf(c)] = content]
    BY <1>6 DEF SessionWrite
  <2>2. content = Torn \/ Ordered(content, now)
    BY DEF Overwritten, SessionsOrdered
  <2>3. UNCHANGED <<now, sess>>
    BY <1>6 DEF SessionWrite
  <2>4. QED
    BY <2>1, <2>2, <2>3 DEF SessionsOrdered, TypeOK
<1>7. ASSUME NEW c \in Calls, Gone(c) PROVE SessionsOrdered'
  BY <1>7, EmptyOrdered DEF Gone, SessionsOrdered, TypeOK
<1>8. ASSUME NEW c \in Calls, Tier1(c) \/ Tier2(c) \/ Tier3(c) \/ Poll(c) \/ Store(c)
      PROVE  UNCHANGED <<now, sessionFile, sess>>
  BY <1>8 DEF Tier1, Tier2, Tier3, Poll, Store
<1>9. ASSUME NEW c \in Calls, NEW k, CacheOpen(c, k) \/ CacheWrite(c, k) \/ CacheRename(c, k)
      PROVE  UNCHANGED <<now, sessionFile, sess>>
  BY <1>9 DEF CacheOpen, CacheWrite, CacheRename
<1>10. QED
  BY <1>1, <1>2, <1>3, <1>4, <1>5, <1>6, <1>7, <1>8, <1>9 DEF Next, Steps, Exit, Kill, vars

\* Whatever overlaps and dies, every session value holds the last calls recorded in it,
\* up to MaxEntries, by consecutive turns at times that never go back (record,
\* session.rs:248-286), which the early stop of find_similar_recent relies on.
THEOREM SessionsInOrder == Spec => []SessionsAscend
<1>1. Init => SessionsOrdered
  BY EmptyOrdered DEF Init, SessionsOrdered
<1>2. TypeOK /\ SessionsOrdered => SessionsAscend
  BY EmptyOrdered DEF SessionsOrdered, SessionsAscend, LoadSession, Ordered
<1>3. QED
  BY <1>1, <1>2, TypeInit, TypeStep, OrderedStep, PTL DEF Spec
-----------------------------------------------------------------------------
(* What entries say.                                                       *)

\* The calls that may have recorded their output: they are past the poll.
Recorders == {c \in Calls : pc[c] \in {"store", "returned", "exited"}}

\* Every entry of a session value of s names a recorder of that session and says
\* which text it had.
EntriesTrue(x, s, recorders, js) ==
  \A i \in DOMAIN x.entries :
    LET e == x.entries[i]
    IN  e.of \in recorders /\ js[e.of].session = s /\ js[e.of].text = e.text /\ Cmd[e.text] = e.cmd

SessionsTrue ==
  /\ \A s \in Sessions : sessionFile[s] # Torn => EntriesTrue(sessionFile[s], s, Recorders, job)
  /\ \A c \in Calls : EntriesTrue(sess[c], SessionOf(c), Recorders, job)

Begun == \A c \in Calls : job[c] # Never => job[c].began <= now

\* What PollHasReferent says of one call, and that both calls are past the poll.
SameTrue(c) ==
  LET d == answer[c].of
  IN  /\ c \in Recorders /\ d \in Recorders
      /\ d # c /\ SessionOf(d) = SessionOf(c) /\ Cmd[Text(d)] = Cmd[Text(c)]
      /\ <<Text(d), Text(c)>> \in Similar
      /\ job[c].began <= answer[c].made + RecentWindow

PollInv ==
  /\ SessionsTrue /\ Begun
  /\ \A c \in Calls : answer[c].kind = "same" => SameTrue(c)

LEMMA EmptyTrue == ASSUME NEW s, NEW rs, NEW js PROVE EntriesTrue(EmptySession, s, rs, js)
  BY DEF EntriesTrue, EmptySession

LEMMA EntriesLast ==
  ASSUME NEW x, NEW s, NEW rs, NEW js, NEW rs2, NEW js2, EntriesTrue(x, s, rs, js),
         \A c \in rs : c \in rs2 /\ js2[c] = js[c]
  PROVE  EntriesTrue(x, s, rs2, js2)
  BY DEF EntriesTrue

\* record() keeps a session value true if its call counts as a recorder.
LEMMA RecordTrue ==
  ASSUME NEW x \in SessionStates, NEW c \in Calls, NEW text \in Texts, NEW embedded, NEW t,
         NEW s, NEW rs, NEW js, EntriesTrue(x, s, rs, js),
         c \in rs, js[c].session = s, js[c].text = text
  PROVE  EntriesTrue(Record(x, c, Cmd[text], text, embedded, t), s, rs, js)
<1> DEFINE new == [turn |-> x.total_turns + 1, of |-> c, cmd |-> Cmd[text], ts |-> t,
                   text |-> text, embedded |-> embedded]
           all == Append(x.entries, new)
           r == Record(x, c, Cmd[text], text, embedded, t)
           old == x.entries
<1>1. old \in Seq(SessionEntries) /\ Len(old) \in Nat /\ DOMAIN old = 1..Len(old)
  BY DEF SessionStates
<1>2. new.of = c /\ new.text = text /\ new.cmd = Cmd[text]
  OBVIOUS
<1>3. r.entries = IF Len(all) > MaxEntries THEN Tail(all) ELSE all
  BY DEF Record, Pushed
<1> HIDE DEF new, r
<1>4. /\ Len(all) = Len(old) + 1 /\ DOMAIN all = 1..Len(all)
      /\ \A i \in 1..Len(all) : all[i] = new \/ \E j \in DOMAIN old : all[i] = old[j]
  BY <1>1
<1>5. \A i \in DOMAIN Tail(all) : \E j \in 1..Len(all) : Tail(all)[i] = all[j]
  <2>1. all \in Seq(SessionEntries \cup {new})
    BY <1>1
  <2> HIDE DEF all, old
  <2>2. DOMAIN Tail(all) = 1..(Len(all) - 1) /\ \A i \in 1..(Len(all) - 1) : Tail(all)[i] = all[i + 1]
    BY <1>1, <1>4, <2>1
  <2>3. QED
    BY <1>1, <1>4, <2>2
<1>6. \A i \in DOMAIN r.entries : r.entries[i] = new \/ \E j \in DOMAIN old : r.entries[i] = old[j]
  BY <1>3, <1>4, <1>5
<1>7. QED
  BY <1>2, <1>6 DEF EntriesTrue, r

-----------------------------------------------------------------------------
\* Recorders stay recorders and keep their jobs; time does not go back.
RecordersLast ==
  /\ \A c \in Recorders : c \in Recorders' /\ job'[c] = job[c]
  /\ now \in Nat /\ now' \in Nat /\ now <= now'

\* A step that begins no call and moves none back.
LEMMA PcLast ==
  ASSUME TypeOK, UNCHANGED <<now, job>>, NEW c \in Calls, NEW l,
         pc' = [pc EXCEPT ![c] = l], c \in Recorders => l \in {"store", "returned", "exited"}
  PROVE  RecordersLast
  BY HookConstants DEF RecordersLast, Recorders, TypeOK, Times

LEMMA BegunLasts ==
  ASSUME TypeOK, Begun, RecordersLast, UNCHANGED job PROVE Begun'
<1> SUFFICES ASSUME NEW c \in Calls, job[c] # Never PROVE job[c].began <= now'
  BY DEF Begun
<1>1. job[c].began <= now /\ job[c].began \in Nat
  BY HookConstants DEF Begun, TypeOK, Jobs, Times
<1>2. QED
  BY <1>1 DEF RecordersLast

LEMMA SameLasts ==
  ASSUME NEW c \in Calls, SameTrue(c), RecordersLast, answer'[c] = answer[c]
  PROVE  SameTrue(c)'
  BY DEF SameTrue, RecordersLast, SessionOf, Text

\* A step that leaves the sessions and answers alone.
LEMMA PollFrame ==
  ASSUME TypeOK, PollInv, RecordersLast, UNCHANGED <<job, sessionFile, sess>>,
         \A c \in Calls : answer'[c].kind = "same" => SameTrue(c)' \/ answer'[c] = answer[c]
  PROVE  PollInv'
<1>1. SessionsTrue'
  BY EntriesLast DEF PollInv, SessionsTrue, RecordersLast, SessionOf
<1>2. \A c \in Calls : answer'[c].kind = "same" => SameTrue(c)'
  BY SameLasts DEF PollInv
<1>3. QED
  BY <1>1, <1>2, BegunLasts DEF PollInv

LEMMA PollStep == TypeOK /\ PollInv /\ [Next]_vars => PollInv'
<1> SUFFICES ASSUME TypeOK, PollInv, [Next]_vars PROVE PollInv'
  OBVIOUS
<1> USE DEF files, copies
<1>0. now \in Nat /\ now \in Times
  BY HookConstants DEF TypeOK, Times
<1>1. CASE Tick
  <2>1. RecordersLast /\ UNCHANGED <<job, sessionFile, sess, answer>>
    BY <1>0, <1>1 DEF Tick, RecordersLast, Recorders
  <2>2. QED
    BY <2>1, PollFrame
<1>2. ASSUME UNCHANGED <<now, pc, job, sessionFile, sess, answer>> PROVE PollInv'
  <2>1. RecordersLast
    BY <1>0, <1>2 DEF RecordersLast, Recorders
  <2>2. QED
    BY <1>2, <2>1, PollFrame
<1>3. ASSUME NEW c \in Calls, Begin(c) PROVE PollInv'
  <2>1. PICK s \in Sessions, t \in Texts :
          /\ job' = [job EXCEPT ![c] = [session |-> s, text |-> t, began |-> now]]
          /\ sess' = [sess EXCEPT ![c] = LoadSession(s)]
    BY <1>3 DEF Begin
  <2>2. pc[c] = "idle" /\ pc' = [pc EXCEPT ![c] = "tier1"] /\ UNCHANGED <<now, sessionFile, answer>>
    BY <1>3 DEF Begin, Goto
  <2>3. /\ job'[c] = [session |-> s, text |-> t, began |-> now]
        /\ \A d \in Calls : d # c => job'[d] = job[d]
    BY <2>1 DEF TypeOK
  <2>4. RecordersLast
    BY <1>0, <2>2, <2>3 DEF RecordersLast, Recorders, TypeOK
  <2>5. Begun'
    BY <1>0, <2>2, <2>3 DEF Begun, PollInv
  <2>6. EntriesTrue(LoadSession(s), s, Recorders, job)
    BY EmptyTrue DEF LoadSession, PollInv, SessionsTrue
  <2>7. EntriesTrue(LoadSession(s), s, Recorders', job')
    BY <2>4, <2>6, EntriesLast DEF RecordersLast
  <2>8. \A d \in Calls : EntriesTrue(sess[d], SessionOf(d), Recorders, job)'
    <3> SUFFICES ASSUME NEW d \in Calls PROVE EntriesTrue(sess'[d], job'[d].session, Recorders', job')
      BY DEF SessionOf
    <3>1. CASE d = c
      BY <2>1, <2>3, <2>7, <3>1 DEF TypeOK
    <3>2. CASE d # c
      <4>1. sess'[d] = sess[d] /\ job'[d] = job[d] /\ EntriesTrue(sess[d], job[d].session, Recorders, job)
        BY <2>1, <2>3, <3>2 DEF TypeOK, PollInv, SessionsTrue, SessionOf
      <4>2. QED
        BY <2>4, <4>1, EntriesLast DEF RecordersLast
    <3>3. QED
      BY <3>1, <3>2
  <2>9. SessionsTrue'
    BY <2>2, <2>4, <2>8, EntriesLast DEF PollInv, SessionsTrue, RecordersLast
  <2>10. QED
    BY <2>2, <2>4, <2>5, <2>9, SameLasts DEF PollInv
<1>4. ASSUME NEW c \in Calls, NEW kind, NEW of, NEW turn, NEW made,
             Answer(c, kind, of, turn, made), kind # "same", c \notin Recorders \/ pc[c] = "store",
             UNCHANGED <<now, job, sessionFile, sess>>
      PROVE  PollInv'
  <2>1. /\ pc' = [pc EXCEPT ![c] = "returned"]
        /\ answer'[c].kind = kind /\ \A d \in Calls : d # c => answer'[d] = answer[d]
    BY <1>4 DEF Answer, TypeOK
  <2>2. RecordersLast
    BY <1>4, <2>1, PcLast
  <2>3. QED
    BY <1>4, <2>1, <2>2, PollFrame
<1>5. ASSUME NEW c \in Calls, NEW l, Goto(c, l), c \notin Recorders,
             UNCHANGED <<now, job, sessionFile, sess>>
      PROVE  PollInv'
  BY <1>5, PcLast, PollFrame DEF Goto
<1>6. ASSUME NEW c \in Calls, Tier1(c) \/ Tier2(c) \/ Tier3(c) PROVE PollInv'
  <2>1. c \notin Recorders /\ UNCHANGED <<now, job, sessionFile, sess>>
    BY <1>6 DEF Tier1, Tier2, Tier3, Recorders
  <2>2. \/ Goto(c, "tier2") \/ Goto(c, "tier3") \/ Goto(c, "poll")
        \/ \E kind \in {"cached", "unchanged"} : \E of, turn, made : Answer(c, kind, of, turn, made)
    BY <1>6 DEF Tier1, Tier2, Tier3
  <2>3. QED
    BY <1>4, <1>5, <2>1, <2>2
<1>7. ASSUME NEW c \in Calls, Store(c) PROVE PollInv'
  BY <1>4, <1>7 DEF Store
<1>8. ASSUME NEW c \in Calls, Poll(c) PROVE PollInv'
  <2>1. c \notin Recorders /\ pc[c] = "poll" /\ UNCHANGED <<now, files, job, copies, saves>>
    BY <1>8 DEF Poll, Recorders
  <2>2. CASE Goto(c, "compress")
    BY <1>5, <2>1, <2>2
  <2>3. ASSUME NEW i \in SimilarRecent(sess[c], Cmd[Text(c)], Text(c), now),
               Answer(c, "same", sess[c].entries[i].of, sess[c].entries[i].turn,
                      sess[c].entries[i].ts)
        PROVE  PollInv'
    <3> DEFINE e == sess[c].entries[i]
    <3>1. /\ i \in DOMAIN sess[c].entries /\ e.cmd = Cmd[Text(c)]
          /\ <<e.text, Text(c)>> \in Similar
          /\ i >= i => Recent(e, now)
      BY <2>3 DEF SimilarRecent, OfCommand
    <3>2. /\ sess[c].entries \in Seq(SessionEntries) /\ job[c] \in Jobs
      BY <2>1, JobTyped DEF TypeOK, SessionStates
    <3>3. i \in Nat /\ e \in SessionEntries
      BY <3>1, <3>2
    <3>4. e.ts \in Nat /\ job[c].began \in Nat /\ job[c].began <= now /\ RecentWindow \in Nat
      BY <3>2, <3>3, HookConstants DEF SessionEntries, Jobs, Times, PollInv, Begun
    <3>5. now <= e.ts + RecentWindow
      BY <3>1, <3>3 DEF Recent
    <3>6. /\ e.of \in Recorders /\ SessionOf(e.of) = SessionOf(c)
          /\ Text(e.of) = e.text /\ Cmd[e.text] = e.cmd
      BY <3>1 DEF PollInv, SessionsTrue, EntriesTrue, SessionOf, Text
    <3> DEFINE of == e.of
               ts == e.ts
    <3>7. Answer(c, "same", of, e.turn, ts)
      BY <2>3
    <3>8. /\ of \in Recorders /\ of # c /\ SessionOf(of) = SessionOf(c)
          /\ Cmd[Text(of)] = Cmd[Text(c)] /\ <<Text(of), Text(c)>> \in Similar
          /\ job[c].began <= ts + RecentWindow
      BY <1>0, <2>1, <3>1, <3>4, <3>5, <3>6
    <3> HIDE DEF of, ts
    <3>9. /\ pc' = [pc EXCEPT ![c] = "returned"]
          /\ answer'[c].of = of /\ answer'[c].made = ts
          /\ \A d \in Calls : d # c => answer'[d] = answer[d]
      BY <3>7 DEF Answer, TypeOK
    <3>10. RecordersLast
      BY <2>1, <3>9, PcLast
    <3>11. c \in Recorders' /\ of \in Recorders'
      BY <3>8, <3>9, <3>10 DEF RecordersLast, Recorders, TypeOK
    <3>12. SameTrue(c)'
      BY <2>1, <3>8, <3>9, <3>11 DEF SameTrue, SessionOf, Text
    <3>13. QED
      BY <2>1, <3>9, <3>10, <3>12, PollFrame
  <2>4. QED
    BY <1>8, <2>2, <2>3 DEF Poll
<1>9. ASSUME NEW c \in Calls, Compress(c) PROVE PollInv'
  <2>1. c \notin Recorders /\ pc[c] = "compress" /\ UNCHANGED <<now, sessionFile, job>>
    BY <1>9 DEF Compress, Recorders
  <2>2. ASSUME NEW embedded \in BOOLEAN, Goto(c, "store"), Recorded(c, embedded) PROVE PollInv'
    <3>1. /\ pc' = [pc EXCEPT ![c] = "store"] /\ UNCHANGED answer
          /\ sess' = [sess EXCEPT ![c] = Record(sess[c], c, Cmd[Text(c)], Text(c), embedded, now)]
      BY <2>2 DEF Goto, Recorded
    <3>2. RecordersLast /\ c \in Recorders'
      BY <2>1, <3>1, PcLast DEF Recorders, TypeOK
    <3>3. EntriesTrue(sess[c], job'[c].session, Recorders', job')
      BY <2>1, <3>2, EntriesLast DEF PollInv, SessionsTrue, RecordersLast, SessionOf
    <3>4. sess[c] \in SessionStates /\ Text(c) \in Texts /\ job'[c].text = Text(c)
      BY <2>1, JobTyped DEF TypeOK, Text
    <3>5. EntriesTrue(Record(sess[c], c, Cmd[Text(c)], Text(c), embedded, now),
                      job'[c].session, Recorders', job')
      BY <3>2, <3>3, <3>4, RecordTrue
    <3>6. \A d \in Calls : EntriesTrue(sess[d], SessionOf(d), Recorders, job)'
      <4> SUFFICES ASSUME NEW d \in Calls
                   PROVE  EntriesTrue(sess'[d], job'[d].session, Recorders', job')
        BY DEF SessionOf
      <4>1. CASE d = c
        BY <3>1, <3>5, <4>1 DEF TypeOK
      <4>2. CASE d # c
        <5>1. sess'[d] = sess[d] /\ EntriesTrue(sess[d], job'[d].session, Recorders, job)
          BY <2>1, <3>1, <4>2 DEF TypeOK, PollInv, SessionsTrue, SessionOf
        <5>2. QED
          BY <3>2, <5>1, EntriesLast DEF RecordersLast
      <4>3. QED
        BY <4>1, <4>2
    <3>7. SessionsTrue'
      BY <2>1, <3>2, <3>6, EntriesLast DEF PollInv, SessionsTrue, RecordersLast
    <3>8. QED
      BY <2>1, <3>1, <3>2, <3>7, BegunLasts, SameLasts DEF PollInv
  <2>3. CASE Answer(c, "none", Never, 0, 0) /\ UNCHANGED <<sess, saves>>
    BY <1>4, <2>1, <2>3
  <2>4. CASE Goto(c, "store") /\ UNCHANGED <<sess, saves>>
    BY <1>5, <2>1, <2>4
  <2>5. QED
    BY <1>9, <2>2, <2>3, <2>4 DEF Compress
<1>10. ASSUME NEW c \in Calls, Gone(c),
              answer' = answer \/ answer' = [answer EXCEPT ![c] = NoAnswer]
       PROVE  PollInv'
  <2>1. /\ pc' = [pc EXCEPT ![c] = "exited"] /\ sess' = [sess EXCEPT ![c] = EmptySession]
        /\ UNCHANGED <<now, job, sessionFile>>
    BY <1>10 DEF Gone
  <2>2. RecordersLast
    BY <2>1, PcLast
  <2>3. \A d \in Calls : sess'[d] = sess[d] \/ sess'[d] = EmptySession
    BY <2>1 DEF TypeOK
  <2>4. SessionsTrue'
    BY <2>1, <2>2, <2>3, EmptyTrue, EntriesLast DEF PollInv, SessionsTrue, RecordersLast, SessionOf
  <2>5. \A d \in Calls : answer'[d].kind = "same" => answer'[d] = answer[d]
    BY <1>10 DEF NoAnswer, TypeOK
  <2>6. QED
    BY <2>1, <2>2, <2>4, <2>5, BegunLasts, SameLasts DEF PollInv
<1>11. ASSUME NEW c \in Calls, SessionOpen(c) \/ SessionWrite(c) PROVE PollInv'
  <2>1. UNCHANGED <<now, pc, job, sess, answer>>
    BY <1>11 DEF SessionOpen, SessionWrite
  <2>2. RecordersLast
    BY <1>0, <2>1 DEF RecordersLast, Recorders
  <2>3. PICK x \in {Torn, sess[c]} : sessionFile' = [sessionFile EXCEPT ![SessionOf(c)] = x]
    BY <1>11 DEF SessionOpen, SessionWrite, Overwritten
  <2>4. EntriesTrue(sess[c], SessionOf(c), Recorders, job)
    BY DEF PollInv, SessionsTrue
  <2>5. \A s \in Sessions : sessionFile'[s] # Torn => EntriesTrue(sessionFile'[s], s, Recorders, job)
    BY <2>3, <2>4 DEF PollInv, SessionsTrue, TypeOK
  <2>6. SessionsTrue'
    BY <2>1, <2>2, <2>5, EntriesLast DEF PollInv, SessionsTrue, RecordersLast, SessionOf
  <2>7. QED
    BY <2>1, <2>2, <2>6, BegunLasts, SameLasts DEF PollInv
<1>12. ASSUME NEW c \in Calls, NEW k, CacheOpen(c, k) \/ CacheWrite(c, k) \/ CacheRename(c, k)
       PROVE  PollInv'
  BY <1>2, <1>12 DEF CacheOpen, CacheWrite, CacheRename
<1>13. QED
  BY <1>1, <1>2, <1>3, <1>6, <1>7, <1>8, <1>9, <1>10, <1>11, <1>12
  DEF Next, Steps, Exit, Kill, vars

\* "Same output as turn N" names a call of the same session and command with a
\* similar output within the window (find_similar_recent, session.rs:191-214),
\* in a session file that any process may overwrite, tear or lose.
THEOREM PollsRefer == Spec => []PollHasReferent
<1>1. Init => PollInv
  BY EmptyTrue DEF Init, PollInv, SessionsTrue, Begun, NoAnswer
<1>2. PollInv => PollHasReferent
  BY DEF PollInv, SameTrue, PollHasReferent
<1>3. QED
  BY <1>1, <1>2, TypeInit, TypeStep, PollStep, PTL DEF Spec

-----------------------------------------------------------------------------
(* The result cache.                                                       *)

\* The calls that are through: finished, or dead.
Told == {c \in Calls : pc[c] \in {"returned", "exited"}}

\* How much later than it was made an entry may be stamped.
Lag(f) == IF f = Global THEN 0 ELSE GlobalTtl

\* Every entry of a cache that belongs in file f is of a finished call on just
\* that text, and every redirect of one of the same session on an equal text.
Sound(x, f, told, js) ==
  /\ \A k \in DOMAIN x.raw :
       /\ x.raw[k].of \in told /\ js[x.raw[k].of].text = k
       /\ x.raw[k].ts <= x.raw[k].made + Lag(f)
  /\ \A k \in DOMAIN x.norm :
       /\ x.norm[k].of \in told /\ Norm[js[x.norm[k].of].text] = k
       /\ js[x.norm[k].of].session = f

FilesSound ==
  \A f \in Caches :
    /\ cacheFile[f] # Torn => Sound(cacheFile[f], f, Told, job)
    /\ tmpFile[f] \notin {Torn, Never} => Sound(tmpFile[f], f, Told, job)

CopySound(c) ==
  /\ pc[c] \in {"idle", "tier1"} => rc[c] = EmptyCache
  /\ Sound(rc[c], SessionOf(c), Told, job)
  /\ Sound(grc[c], Global, Told, job)
  /\ job[c] # Never => job[c].began <= now
  /\ pc[c] \in {"tier2", "tier3"} =>
       \A k \in DOMAIN rc[c].norm : job[c].began <= rc[c].norm[k].ts + Ttl

CopiesSound == \A c \in Calls : CopySound(c)

\* What the three properties say of one call and its answer.
Faithful(c, a) ==
  /\ a.kind \in {"cached", "unchanged"} => c \in Told /\ a.of \in Told
  /\ a.kind = "cached" => Text(a.of) = Text(c) /\ job[c].began <= a.made + GlobalTtl + Ttl
  /\ a.kind = "unchanged" =>
       /\ a.of # c /\ SessionOf(a.of) = SessionOf(c) /\ Norm[Text(a.of)] = Norm[Text(c)]
       /\ job[c].began <= a.made + Ttl

AnswersFaithful == \A c \in Calls : Faithful(c, answer[c])

CacheInv == FilesSound /\ CopiesSound /\ AnswersFaithful

-----------------------------------------------------------------------------
(* Soundness of one cache.                                                 *)

LEMMA EmptySound == ASSUME NEW f, NEW told, NEW js PROVE Sound(EmptyCache, f, told, js)
  BY DEF Sound, EmptyCache

\* Finished calls stay finished and keep their jobs, so soundness lasts.
LEMMA SoundLasts ==
  ASSUME NEW x, NEW f, NEW told, NEW js, NEW told2, NEW js2, Sound(x, f, told, js),
         \A c \in told : c \in told2 /\ js2[c] = js[c]
  PROVE  Sound(x, f, told2, js2)
  BY DEF Sound

\* Eviction and the restriction to raw outputs only remove.
LEMMA SoundLess ==
  ASSUME NEW x, IsCache(x), NEW f, NEW told, NEW js, Sound(x, f, told, js), NEW t
  PROVE  /\ Sound(evict_old(x, t), f, told, js)
         /\ Sound(evict_global_old(x, t), f, told, js)
         /\ Sound(RawOnly(x), f, told, js)
<1>1. Sound(evict_old(x, t), f, told, js)
  BY DEF Sound, evict_old, Retain
<1>2. Sound(evict_global_old(x, t), f, told, js)
  BY DEF Sound, evict_global_old, Retain
<1>3. Sound(RawOnly(x), f, told, js)
  BY DEF Sound, RawOnly
<1>4. QED
  BY <1>1, <1>2, <1>3

LEMMA SoundRaw ==
  ASSUME NEW x, NEW f, NEW told, NEW js, Sound(x, f, told, js),
         NEW k, NEW e, e.of \in told, js[e.of].text = k, e.ts <= e.made + Lag(f),
         NEW raw \in Inserted(x.raw, k, e), NEW norm, norm = x.norm
  PROVE  Sound([raw |-> raw, norm |-> norm], f, told, js)
  BY InsertedMap DEF Sound

LEMMA SoundNorm ==
  ASSUME NEW x, NEW f, NEW told, NEW js, Sound(x, f, told, js),
         NEW k, NEW e, e.of \in told, Norm[js[e.of].text] = k, js[e.of].session = f,
         NEW norm \in Inserted(x.norm, k, e), NEW raw, raw = x.raw
  PROVE  Sound([raw |-> raw, norm |-> norm], f, told, js)
  BY InsertedMap DEF Sound

-----------------------------------------------------------------------------
(* Frames.                                                                 *)

LEMMA ToldHaveJobs == ASSUME TypeOK, NEW c \in Told PROVE pc[c] # "idle" /\ job[c] \in Jobs
  BY JobTyped DEF Told

\* A step that loses no finished call keeps every file and copy it leaves alone
\* sound, and every answer it leaves alone faithful.
Lasts ==
  /\ \A c \in Told : c \in Told' /\ job'[c] = job[c]
  /\ now' \in Nat /\ now <= now'

LEMMA FaithfulLasts ==
  ASSUME NEW c \in Calls, NEW a, Faithful(c, a), Lasts
  PROVE  Faithful(c, a)'
  BY DEF Faithful, Lasts, Text, SessionOf

LEMMA StepLasts ==
  ASSUME TypeOK, [Next]_vars
  PROVE  Lasts
<1> USE DEF files, copies
<1>0. now \in Nat
  BY HookConstants DEF TypeOK, Times
<1>1. ASSUME NEW c \in Calls, c \notin Told, \A d \in Calls : d # c => pc'[d] = pc[d],
             \A d \in Told : job'[d] = job[d], now' = now
      PROVE  Lasts
  BY <1>0, <1>1 DEF Lasts, Told
<1>2. CASE Tick
  BY <1>0, <1>2 DEF Tick, Lasts, Told
<1>3. CASE UNCHANGED <<now, pc, job>>
  BY <1>0, <1>3 DEF Lasts, Told
<1>4. ASSUME NEW c \in Calls, Begin(c) PROVE Lasts
  <2>1. c \notin Told /\ UNCHANGED now
    BY <1>4 DEF Begin, Told
  <2>2. \A d \in Told : job'[d] = job[d]
    BY <1>4, <2>1 DEF Begin, TypeOK, Told
  <2>3. \A d \in Calls : d # c => pc'[d] = pc[d]
    BY <1>4 DEF Begin, Goto, TypeOK
  <2>4. QED
    BY <1>1, <2>1, <2>2, <2>3
<1>5. ASSUME NEW c \in Calls, Tier1(c) \/ Tier2(c) \/ Tier3(c) \/ Poll(c) \/ Compress(c) \/ Store(c)
      PROVE  Lasts
  <2>1. c \notin Told /\ UNCHANGED <<now, job>>
    BY <1>5 DEF Tier1, Tier2, Tier3, Poll, Compress, Store, Told
  <2>2. \A d \in Calls : d # c => pc'[d] = pc[d]
    BY <1>5 DEF Tier1, Tier2, Tier3, Poll, Compress, Store, Answer, Goto, TypeOK
  <2>3. QED
    BY <1>1, <2>1, <2>2
<1>6. ASSUME NEW c \in Calls, Gone(c) PROVE Lasts
  <2>1. pc' = [pc EXCEPT ![c] = "exited"] /\ UNCHANGED <<now, job>>
    BY <1>6 DEF Gone
  <2>2. QED
    BY <1>0, <2>1 DEF Lasts, Told, TypeOK
<1>7. ASSUME NEW c \in Calls, SessionOpen(c) \/ SessionWrite(c) PROVE UNCHANGED <<now, pc, job>>
  BY <1>7 DEF SessionOpen, SessionWrite
<1>8. ASSUME NEW c \in Calls, NEW k, CacheOpen(c, k) \/ CacheWrite(c, k) \/ CacheRename(c, k)
      PROVE  UNCHANGED <<now, pc, job>>
  BY <1>8 DEF CacheOpen, CacheWrite, CacheRename
<1>9. QED
  BY <1>2, <1>3, <1>4, <1>5, <1>6, <1>7, <1>8 DEF Next, Steps, Exit, Kill, vars

\* What is left to show of a step: the files it writes, the copies and the
\* answer of the one call that takes it.
FilesKept ==
  \A f \in Caches :
    /\ cacheFile'[f] # Torn => Sound(cacheFile'[f], f, Told, job)
    /\ tmpFile'[f] \notin {Torn, Never} => Sound(tmpFile'[f], f, Told, job)

LEMMA FilesLast == ASSUME FilesKept, Lasts PROVE FilesSound'
  BY SoundLasts DEF FilesKept, FilesSound, Lasts

LEMMA LoadsSound ==
  ASSUME TypeOK, FilesSound, NEW f \in Caches
  PROVE  Sound(LoadCache(f), f, Told, job)
  BY EmptySound DEF LoadCache, FilesSound

LEMMA CopyLasts ==
  ASSUME TypeOK, Lasts, NEW c \in Calls, CopySound(c),
         rc'[c] = rc[c], grc'[c] = grc[c], job'[c] = job[c],
         pc'[c] \in {"idle", "tier1", "tier2", "tier3"} => pc'[c] = pc[c]
  PROVE  CopySound(c)'
<1>1. Sound(rc[c], SessionOf(c), Told, job)' /\ Sound(grc[c], Global, Told, job)'
  BY SoundLasts DEF CopySound, Lasts, SessionOf
<1>2. job'[c] # Never => job'[c].began <= now'
  <2>1. job[c] # Never => job[c].began \in Nat
    BY HookConstants DEF TypeOK, Jobs, Times
  <2>2. now \in Nat
    BY HookConstants DEF TypeOK, Times
  <2>3. QED
    BY <2>1, <2>2 DEF CopySound, Lasts
<1>3. QED
  BY <1>1, <1>2 DEF CopySound

\* A step of call c, if it leaves c sound and truthful, leaves all so.
LEMMA CallKeeps ==
  ASSUME TypeOK, CacheInv, Lasts, NEW c \in Calls, UNCHANGED <<cacheFile, tmpFile>>,
         \A d \in Calls : d # c => /\ rc'[d] = rc[d] /\ grc'[d] = grc[d] /\ pc'[d] = pc[d]
                                   /\ job'[d] = job[d] /\ answer'[d] = answer[d],
         CopySound(c)', Faithful(c, answer[c])'
  PROVE  CacheInv'
<1>1. FilesSound'
  BY FilesLast DEF FilesKept, CacheInv, FilesSound
<1>2. ASSUME NEW d \in Calls, d # c PROVE CopySound(d)' /\ Faithful(d, answer[d])'
  <2>1. CopySound(d)'
    BY <1>2, CopyLasts DEF CacheInv, CopiesSound
  <2>2. Faithful(d, answer[d])
    BY DEF CacheInv, AnswersFaithful
  <2>3. QED
    BY <1>2, <2>1, <2>2, FaithfulLasts
<1>3. QED
  BY <1>1, <1>2 DEF CacheInv, CopiesSound, AnswersFaithful

\* A step that touches neither copies nor jobs nor answers only has to keep
\* the files sound.
LEMMA FileKeeps ==
  ASSUME TypeOK, CacheInv, Lasts, FilesKept, UNCHANGED <<pc, job, rc, grc, answer>>
  PROVE  CacheInv'
<1>1. \A c \in Calls : CopySound(c)'
  BY CopyLasts DEF CacheInv, CopiesSound
<1>2. \A c \in Calls : Faithful(c, answer[c])'
  BY FaithfulLasts DEF CacheInv, AnswersFaithful
<1>3. QED
  BY <1>1, <1>2, FilesLast DEF CacheInv, CopiesSound, AnswersFaithful

-----------------------------------------------------------------------------
(* The steps.                                                              *)

LEMMA CacheCall ==
  ASSUME TypeOK, CacheInv, Lasts, NEW c \in Calls,
         Begin(c) \/ Tier1(c) \/ Tier2(c) \/ Tier3(c) \/ Poll(c) \/ Compress(c) \/ Store(c)
  PROVE  CacheInv'
<1> USE DEF files, copies
<1>t. now \in Nat /\ GlobalTtl \in Nat /\ Ttl \in Nat
  BY HookConstants, CacheBounds DEF TypeOK, Times
<1>c. CopySound(c) /\ Faithful(c, answer[c]) /\ FilesSound
  BY DEF CacheInv, CopiesSound, AnswersFaithful
<1>a. c \notin Told /\ UNCHANGED <<now, cacheFile, tmpFile>>
  BY DEF Begin, Tier1, Tier2, Tier3, Poll, Compress, Store, Told
<1>s. Faithful(c, answer[c])'
        <=> /\ answer'[c].kind \in {"cached", "unchanged"} => c \in Told' /\ answer'[c].of \in Told'
            /\ answer'[c].kind = "cached" =>
                 /\ job'[answer'[c].of].text = job'[c].text
                 /\ job'[c].began <= answer'[c].made + GlobalTtl + Ttl
            /\ answer'[c].kind = "unchanged" =>
                 /\ answer'[c].of # c /\ job'[answer'[c].of].session = job'[c].session
                 /\ Norm[job'[answer'[c].of].text] = Norm[job'[c].text]
                 /\ job'[c].began <= answer'[c].made + Ttl
  BY DEF Faithful, Text, SessionOf
<1>1. CASE Begin(c)
  <2>1. PICK s \in Sessions, t \in Texts :
          job' = [job EXCEPT ![c] = [session |-> s, text |-> t, began |-> now]]
    BY <1>1 DEF Begin
  <2>2. /\ pc' = [pc EXCEPT ![c] = "tier1"] /\ pc[c] = "idle"
        /\ UNCHANGED <<rc, grc, answer>>
    BY <1>1 DEF Begin, Goto
  <2>3. job'[c] = [session |-> s, text |-> t, began |-> now] /\ pc'[c] = "tier1"
    BY <2>1, <2>2 DEF TypeOK
  <2>4. rc[c] = EmptyCache /\ Sound(grc[c], Global, Told, job)
    BY <1>c, <2>2 DEF CopySound
  <2>5. CopySound(c)'
    BY <1>a, <1>t, <2>2, <2>3, <2>4, EmptySound, SoundLasts DEF CopySound, Lasts
  <2>6. Faithful(c, answer[c])'
    BY <1>c, <1>a, <2>2, <1>s DEF Faithful
  <2>7. \A d \in Calls : d # c => pc'[d] = pc[d] /\ job'[d] = job[d]
    BY <2>1, <2>2 DEF TypeOK
  <2>8. QED
    BY <1>a, <2>2, <2>5, <2>6, <2>7, CallKeeps
<1>2. ASSUME NEW to, to \notin {"idle", "tier1", "tier2", "tier3"}, Goto(c, to),
             UNCHANGED <<job, rc, grc>>
      PROVE  CacheInv'
  <2>1. pc'[c] = to /\ UNCHANGED answer /\ \A d \in Calls : d # c => pc'[d] = pc[d]
    BY <1>2 DEF Goto, TypeOK
  <2>2. CopySound(c)'
    BY <1>2, <1>c, <2>1, CopyLasts
  <2>3. QED
    BY <1>2, <1>a, <1>c, <2>1, <2>2, FaithfulLasts, CallKeeps
<1>3. ASSUME NEW kind, NEW of, NEW turn, NEW made, Answer(c, kind, of, turn, made),
             UNCHANGED job, Sound(rc[c], SessionOf(c), Told, job)',
             Sound(grc[c], Global, Told, job)',
             \A d \in Calls : d # c => rc'[d] = rc[d] /\ grc'[d] = grc[d],
             kind \in {"cached", "unchanged"} => of \in Told,
             kind = "cached" => /\ job[of].text = job[c].text
                                /\ job[c].began <= made + GlobalTtl + Ttl,
             kind = "unchanged" => /\ job[of].session = job[c].session
                                   /\ Norm[job[of].text] = Norm[job[c].text]
                                   /\ job[c].began <= made + Ttl
      PROVE  CacheInv'
  <2>1. answer'[c] = [kind |-> kind, of |-> of, turn |-> turn, made |-> made]
    BY <1>3 DEF Answer, TypeOK
  <2>2. pc'[c] = "returned" /\ \A d \in Calls : d # c => pc'[d] = pc[d] /\ answer'[d] = answer[d]
    BY <1>3 DEF Answer, TypeOK
  <2>3. CopySound(c)'
    BY <1>3, <1>a, <1>c, <2>2 DEF CopySound
  <2>4. c \in Told' /\ (kind \in {"cached", "unchanged"} => of \in Told' /\ of # c)
    BY <1>3, <1>a, <2>2 DEF Told, Lasts
  <2>5. Faithful(c, answer[c])'
    BY <1>3, <1>s, <2>1, <2>4
  <2>6. QED
    BY <1>3, <1>a, <2>2, <2>3, <2>5, CallKeeps
<1>k. /\ Sound(rc[c], SessionOf(c), Told', job') /\ Sound(grc[c], Global, Told', job')
      /\ SessionOf(c) = job[c].session /\ Text(c) = job[c].text
  BY <1>c, SoundLasts DEF CopySound, Lasts, SessionOf, Text
<1>4. CASE Tier1(c)
  <2> DEFINE cache == evict_old(LoadCache(SessionOf(c)), now)
  <2>1. /\ pc[c] = "tier1" /\ SessionOf(c) \in Sessions /\ SessionOf(c) \in Caches
        /\ job[c] \in Jobs /\ job[c].began <= now
    BY <1>4, <1>c, JobTyped, HookConstants DEF Tier1, Caches, CopySound
  <2>2. /\ IsCache(LoadCache(SessionOf(c))) /\ IsCache(cache)
        /\ Sound(cache, SessionOf(c), Told, job)
    BY <1>c, <2>1, LoadsTyped, LoadsSound, EvictedIsCache, SoundLess
  <2>3. job[c].began \in Nat
    BY <2>1, HookConstants DEF Jobs, Times
  <2>4. CASE Text(c) \in DOMAIN cache.raw
    <3> DEFINE e == cache.raw[Text(c)]
    <3>1. e \in RawEntries /\ now <= e.ts + Ttl
      BY <2>2, <2>4, RetainMap DEF IsCache, IsMap, evict_old, Retain
    <3>2. e.made \in Nat /\ e.ts \in Nat
      BY <3>1, HookConstants DEF RawEntries, Times
    <3>3. e.of \in Told /\ job[e.of].text = Text(c) /\ e.ts <= e.made + GlobalTtl
      BY <2>1, <2>2, <2>4, HookConstants DEF Sound, Lag
    <3>4. Answer(c, "cached", e.of, 0, e.made) /\ UNCHANGED <<job, rc, grc>>
      BY <1>4, <2>4 DEF Tier1
    <3> HIDE DEF e
    <3>5. job[c].began <= e.made + GlobalTtl + Ttl
      BY <1>t, <2>1, <2>3, <3>1, <3>2, <3>3
    <3>6. Sound(rc[c], SessionOf(c), Told, job)' /\ Sound(grc[c], Global, Told, job)'
      BY <1>k, <3>4 DEF SessionOf
    <3>7. QED
      BY <1>3, <1>k, <3>3, <3>4, <3>5, <3>6
  <2>5. CASE Text(c) \notin DOMAIN cache.raw
    <3>1. Goto(c, "tier2") /\ rc' = [rc EXCEPT ![c] = cache] /\ UNCHANGED <<job, grc>>
      BY <1>4, <2>5 DEF Tier1
    <3>2. \A k \in DOMAIN cache.norm : job[c].began <= cache.norm[k].ts + Ttl
      <4> SUFFICES ASSUME NEW k \in DOMAIN cache.norm
                   PROVE  job[c].began <= cache.norm[k].ts + Ttl
        OBVIOUS
      <4>1. cache.norm[k] \in NormEntries /\ now <= cache.norm[k].ts + Ttl
        BY <2>2 DEF IsCache, IsMap, evict_old, Retain
      <4>2. cache.norm[k].ts \in Nat
        BY <4>1, HookConstants DEF NormEntries, Times
      <4> HIDE DEF cache
      <4>3. QED
        BY <1>t, <2>1, <2>3, <4>1, <4>2
    <3> HIDE DEF cache
    <3>3. /\ pc'[c] = "tier2" /\ rc'[c] = cache /\ grc'[c] = grc[c] /\ UNCHANGED answer
          /\ \A d \in Calls : d # c => pc'[d] = pc[d] /\ rc'[d] = rc[d]
      BY <3>1 DEF Goto, TypeOK
    <3>4. Sound(cache, SessionOf(c), Told', job')
      BY <2>2, SoundLasts DEF Lasts
    <3>5. CopySound(c)'
      BY <1>k, <1>a, <2>1, <3>1, <3>2, <3>3, <3>4 DEF CopySound, SessionOf
    <3>6. QED
      BY <1>a, <1>c, <3>1, <3>3, <3>5, FaithfulLasts, CallKeeps
  <2>6. QED
    BY <2>4, <2>5
<1>5. CASE Tier2(c)
  <2> DEFINE cache == evict_global_old(RawOnly(LoadCache(Global)), now)
  <2>1. /\ pc[c] = "tier2" /\ SessionOf(c) \in Sessions /\ Global \in Caches
        /\ job[c] \in Jobs /\ job[c].began <= now
    BY <1>5, <1>c, JobTyped, HookConstants DEF Tier2, Caches, CopySound
  <2>2. IsCache(cache) /\ Sound(cache, Global, Told, job)
    BY <1>c, <2>1, LoadsTyped, LoadsSound, EvictedIsCache, SoundLess
  <2>3. job[c].began \in Nat
    BY <2>1, HookConstants DEF Jobs, Times
  <2>4. CASE Text(c) \in DOMAIN cache.raw
    <3> DEFINE e == cache.raw[Text(c)]
    <3>1. e \in RawEntries /\ now <= e.ts + GlobalTtl
      BY <2>2, <2>4 DEF IsCache, IsMap, evict_global_old, Retain
    <3>2. e.made \in Nat /\ e.ts \in Nat
      BY <3>1, HookConstants DEF RawEntries, Times
    <3>3. e.of \in Told /\ job[e.of].text = Text(c) /\ e.ts <= e.made + 0
      BY <2>2, <2>4 DEF Sound, Lag
    <3>4. PICK raw \in Inserted(rc[c].raw, Text(c), Entry(e.of, e.made, now)) :
            rc' = [rc EXCEPT ![c] = [raw |-> raw, norm |-> rc[c].norm]]
      BY <1>5, <2>4 DEF Tier2
    <3>5. Answer(c, "cached", e.of, 0, e.made) /\ UNCHANGED <<job, grc>>
      BY <1>5, <2>4 DEF Tier2
    <3> HIDE DEF e
    <3>6. job[c].began <= e.made + GlobalTtl + Ttl /\ now <= e.made + GlobalTtl
      BY <1>t, <2>1, <2>3, <3>1, <3>2, <3>3
    <3> DEFINE copy == Entry(e.of, e.made, now)
    <3>7. /\ copy.of \in Told' /\ job'[copy.of].text = Text(c)
          /\ copy.ts <= copy.made + Lag(SessionOf(c))
      BY <2>1, <3>3, <3>5, <3>6, HookConstants DEF Entry, Lag, Lasts
    <3> HIDE DEF copy
    <3>8. Sound([raw |-> raw, norm |-> rc[c].norm], SessionOf(c), Told', job')
      BY <1>k, <3>4, <3>7, SoundRaw DEF copy
    <3>9. rc'[c] = [raw |-> raw, norm |-> rc[c].norm] /\ \A d \in Calls : d # c => rc'[d] = rc[d]
      BY <3>4 DEF TypeOK
    <3>10. Sound(rc[c], SessionOf(c), Told, job)' /\ Sound(grc[c], Global, Told, job)'
      BY <1>k, <3>5, <3>8, <3>9 DEF SessionOf
    <3>11. QED
      BY <1>3, <1>k, <3>3, <3>5, <3>6, <3>9, <3>10
  <2>5. CASE Text(c) \notin DOMAIN cache.raw
    <3>1. Goto(c, "tier3") /\ grc' = [grc EXCEPT ![c] = cache] /\ UNCHANGED <<job, rc>>
      BY <1>5, <2>5 DEF Tier2
    <3> HIDE DEF cache
    <3>3. /\ pc'[c] = "tier3" /\ grc'[c] = cache /\ UNCHANGED answer
          /\ \A d \in Calls : d # c => pc'[d] = pc[d] /\ grc'[d] = grc[d]
      BY <3>1 DEF Goto, TypeOK
    <3>4. Sound(cache, Global, Told', job')
      BY <2>2, SoundLasts DEF Lasts
    <3>5. \A k \in DOMAIN rc[c].norm : job[c].began <= rc[c].norm[k].ts + Ttl
      BY <1>c, <2>1 DEF CopySound
    <3>6. CopySound(c)'
      BY <1>k, <1>a, <2>1, <3>1, <3>3, <3>4, <3>5 DEF CopySound, SessionOf
    <3>7. QED
      BY <1>a, <1>c, <3>1, <3>3, <3>6, FaithfulLasts, CallKeeps
  <2>6. QED
    BY <2>4, <2>5
<1>6. CASE Tier3(c)
  <2> DEFINE e == rc[c].norm[Norm[Text(c)]]
  <2>1. pc[c] = "tier3" /\ UNCHANGED <<job, rc, grc>>
    BY <1>6 DEF Tier3
  <2>2. CASE Norm[Text(c)] \in DOMAIN rc[c].norm
    <3>1. /\ e.of \in Told /\ Norm[job[e.of].text] = Norm[Text(c)]
          /\ job[e.of].session = SessionOf(c) /\ job[c].began <= e.ts + Ttl
      BY <1>c, <2>1, <2>2 DEF CopySound, Sound
    <3>2. Answer(c, "unchanged", e.of, e.turn, e.ts)
      BY <1>6, <2>2 DEF Tier3
    <3> HIDE DEF e
    <3>3. Sound(rc[c], SessionOf(c), Told, job)' /\ Sound(grc[c], Global, Told, job)'
      BY <1>k, <2>1 DEF SessionOf
    <3>4. QED
      BY <1>3, <1>k, <2>1, <3>1, <3>2, <3>3
  <2>3. CASE Norm[Text(c)] \notin DOMAIN rc[c].norm
    BY <1>2, <1>6, <2>1, <2>3 DEF Tier3
  <2>4. QED
    BY <2>2, <2>3
<1>7. ASSUME NEW kind, NEW of, NEW turn, NEW made, kind \notin {"cached", "unchanged"},
             Answer(c, kind, of, turn, made), UNCHANGED <<job, rc, grc>>
      PROVE  CacheInv'
  <2>1. Sound(rc[c], SessionOf(c), Told, job)' /\ Sound(grc[c], Global, Told, job)'
    BY <1>k, <1>7 DEF SessionOf
  <2>2. QED
    BY <1>3, <1>7, <2>1
<1>8. CASE Poll(c) \/ Compress(c)
  <2>1. UNCHANGED <<job, rc, grc>>
    BY <1>8 DEF Poll, Compress
  <2>2. CASE Goto(c, "compress") \/ Goto(c, "store")
    BY <1>2, <2>1, <2>2
  <2>3. ASSUME NEW kind \in {"same", "none"}, NEW of, NEW turn, NEW made,
               Answer(c, kind, of, turn, made)
        PROVE  CacheInv'
    BY <1>7, <2>1, <2>3
  <2>4. CASE Poll(c)
    <3>1. CASE Goto(c, "compress")
      BY <2>2, <3>1
    <3>2. CASE \E i \in DOMAIN sess[c].entries :
                 Answer(c, "same", sess[c].entries[i].of, sess[c].entries[i].turn,
                        sess[c].entries[i].ts)
      BY <2>3, <3>2
    <3>3. QED
      BY <2>4, <3>1, <3>2 DEF Poll, SimilarRecent, OfCommand
  <2>5. CASE Compress(c)
    BY <2>2, <2>3, <2>5 DEF Compress
  <2>6. QED
    BY <1>8, <2>4, <2>5
<1>9. CASE Store(c)
  <2> DEFINE e == Entry(c, now, now)
             redirect == [of |-> c, turn |-> turn_num(c), ts |-> now]
  <2>1. PICK raw \in Inserted(rc[c].raw, Text(c), e),
             graw \in Inserted(grc[c].raw, Text(c), e),
             norm \in Inserted(rc[c].norm, Norm[Text(c)], redirect) :
               /\ rc' = [rc EXCEPT ![c] = [raw |-> raw, norm |-> norm]]
               /\ grc' = [grc EXCEPT ![c] = [raw |-> graw, norm |-> grc[c].norm]]
    BY <1>9 DEF Store
  <2>2. Answer(c, "full", c, 0, now) /\ UNCHANGED job
    BY <1>9 DEF Store
  <2>3. c \in Told'
    BY <2>2 DEF Answer, Told, TypeOK
  <2>4. \A f \in Caches : e.of \in Told' /\ job'[e.of].text = Text(c) /\ e.ts <= e.made + Lag(f)
    BY <1>t, <1>k, <2>2, <2>3 DEF Entry, Lag
  <2>5. /\ redirect.of \in Told' /\ Norm[job'[redirect.of].text] = Norm[Text(c)]
        /\ job'[redirect.of].session = SessionOf(c)
    BY <1>k, <2>2, <2>3
  <2>6. SessionOf(c) \in Caches /\ Global \in Caches
    BY <1>9, JobTyped DEF Store, Caches
  <2> HIDE DEF e, redirect
  <2>7. Sound([raw |-> raw, norm |-> rc[c].norm], SessionOf(c), Told', job')
    BY <1>k, <2>1, <2>4, <2>6, SoundRaw
  <2>8. Sound([raw |-> raw, norm |-> norm], SessionOf(c), Told', job')
    <3> DEFINE between == [raw |-> raw, norm |-> rc[c].norm]
    <3>1. between.norm = rc[c].norm /\ between.raw = raw
      OBVIOUS
    <3> HIDE DEF between
    <3>2. Sound(between, SessionOf(c), Told', job')
      BY <2>7 DEF between
    <3>3. QED
      BY <2>1, <2>5, <3>1, <3>2, SoundNorm
  <2>9. Sound([raw |-> graw, norm |-> grc[c].norm], Global, Told', job')
    BY <1>k, <2>1, <2>4, <2>6, SoundRaw
  <2>10. /\ rc'[c] = [raw |-> raw, norm |-> norm]
         /\ grc'[c] = [raw |-> graw, norm |-> grc[c].norm]
         /\ \A d \in Calls : d # c => rc'[d] = rc[d] /\ grc'[d] = grc[d]
    BY <2>1 DEF TypeOK
  <2>11. Sound(rc[c], SessionOf(c), Told, job)' /\ Sound(grc[c], Global, Told, job)'
    BY <2>2, <2>8, <2>9, <2>10 DEF SessionOf
  <2>12. QED
    BY <1>3, <2>2, <2>10, <2>11
<1>10. QED
  BY <1>1, <1>4, <1>5, <1>6, <1>8, <1>9
LEMMA CacheSave ==
  ASSUME TypeOK, CacheInv, Lasts, NEW c \in Calls, NEW k \in {"rc", "grc"},
         CacheOpen(c, k) \/ CacheWrite(c, k) \/ CacheRename(c, k)
  PROVE  CacheInv'
<1> USE DEF files, copies
<1>1. pc[c] # "idle" /\ UNCHANGED <<pc, job, rc, grc, answer>>
  BY DEF CacheOpen, CacheWrite, CacheRename, Save, Alive
<1>2. /\ FileOf(c, k) \in Caches
      /\ Sound(Content(c, k), FileOf(c, k), Told, job)
  <2>1. /\ SessionOf(c) \in Sessions
        /\ Sound(rc[c], SessionOf(c), Told, job) /\ Sound(grc[c], Global, Told, job)
        /\ IsCache(grc[c])
    BY <1>1, JobTyped DEF CacheInv, CopiesSound, CopySound, TypeOK
  <2>2. QED
    BY <2>1, SoundLess DEF FileOf, Content, Caches
<1>3. ASSUME NEW old, NEW content \in Overwritten(old, Content(c, k))
      PROVE  content = Torn \/ Sound(content, FileOf(c, k), Told, job)
  BY <1>2, <1>3 DEF Overwritten
<1>4. FilesSound
  BY DEF CacheInv
<1>5. CASE CacheOpen(c, k)
  <2>1. tmpFile' = [tmpFile EXCEPT ![FileOf(c, k)] = Torn] /\ UNCHANGED cacheFile
    BY <1>5 DEF CacheOpen
  <2>2. FilesKept
    BY <1>2, <1>4, <2>1 DEF FilesKept, FilesSound, TypeOK
  <2>3. QED
    BY <1>1, <2>2, FileKeeps
<1>6. CASE CacheWrite(c, k)
  <2>1. FilesKept
    BY <1>2, <1>3, <1>4, <1>6 DEF CacheWrite, FilesKept, FilesSound, TypeOK
  <2>2. QED
    BY <1>1, <2>1, FileKeeps
<1>7. CASE CacheRename(c, k)
  <2>1. FilesKept
    BY <1>2, <1>4, <1>7 DEF CacheRename, FilesKept, FilesSound, TypeOK
  <2>2. QED
    BY <1>1, <2>1, FileKeeps
<1>8. QED
  BY <1>5, <1>6, <1>7

LEMMA CacheGone ==
  ASSUME TypeOK, CacheInv, Lasts, NEW c \in Calls, Exit(c) \/ Kill(c)
  PROVE  CacheInv'
<1> USE DEF files, copies
<1>1. Gone(c) /\ (UNCHANGED answer \/ answer' = [answer EXCEPT ![c] = NoAnswer])
  BY DEF Exit, Kill
<1>2. /\ pc'[c] = "exited" /\ rc'[c] = EmptyCache /\ grc'[c] = EmptyCache /\ now' = now
      /\ UNCHANGED <<job, cacheFile, tmpFile>>
      /\ \A d \in Calls : d # c => /\ pc'[d] = pc[d] /\ rc'[d] = rc[d] /\ grc'[d] = grc[d]
                                   /\ answer'[d] = answer[d]
  BY <1>1 DEF Gone, TypeOK
<1>3. CopySound(c)'
  BY <1>2, EmptySound DEF CacheInv, CopiesSound, CopySound
<1>4. Faithful(c, answer[c])'
  <2>1. CASE answer' = [answer EXCEPT ![c] = NoAnswer]
    BY <2>1 DEF Faithful, NoAnswer, TypeOK
  <2>2. CASE UNCHANGED answer
    BY <2>2, FaithfulLasts DEF CacheInv, AnswersFaithful
  <2>3. QED
    BY <1>1, <2>1, <2>2
<1>5. QED
  BY <1>2, <1>3, <1>4, CallKeeps

LEMMA CacheStep == TypeOK /\ CacheInv /\ [Next]_vars => CacheInv'
<1> SUFFICES ASSUME TypeOK, CacheInv, [Next]_vars PROVE CacheInv'
  OBVIOUS
<1>1. Lasts
  BY StepLasts
<1>2. ASSUME UNCHANGED <<cacheFile, tmpFile, pc, job, rc, grc, answer>> PROVE CacheInv'
  <2>1. FilesKept
    BY <1>2 DEF FilesKept, CacheInv, FilesSound
  <2>2. QED
    BY <1>1, <1>2, <2>1, FileKeeps
<1>3. CASE Tick \/ UNCHANGED vars
  BY <1>2, <1>3 DEF Tick, vars, files, copies
<1>4. ASSUME NEW c \in Calls, SessionOpen(c) \/ SessionWrite(c) PROVE CacheInv'
  BY <1>2, <1>4 DEF SessionOpen, SessionWrite, copies
<1>5. QED
  BY <1>1, <1>3, <1>4, CacheCall, CacheSave, CacheGone DEF Next, Steps

LEMMA CacheInit == Init => CacheInv
  BY EmptySound
  DEF Init, CacheInv, FilesSound, CopiesSound, CopySound, AnswersFaithful, Faithful, NoAnswer

-----------------------------------------------------------------------------
\* Every saved or loaded cache says of each text only what a finished call on
\* that text produced, in files that any process may overwrite at any time.
THEOREM CachesSound == Spec => []CacheInv
  BY TypeInit, TypeStep, CacheInit, CacheStep, PTL DEF Spec

\* A cached answer is a compression of exactly the text asked for
\* (result_cache.rs:6-8).
THEOREM HitsAreExact == Spec => []HitsMatch
<1>1. CacheInv => HitsMatch
  BY DEF CacheInv, AnswersFaithful, Faithful, HitsMatch
<1>2. QED
  BY <1>1, CachesSound, PTL

\* A cached answer is at most the two lifetimes old when its call begins: the
\* re-stamped copy of tier 2 (hook.rs:299) is not copied again.
THEOREM HitsAreYoung == Spec => []CachedAge
<1>1. CacheInv => CachedAge
  BY DEF CacheInv, AnswersFaithful, Faithful, CachedAge
<1>2. QED
  BY <1>1, CachesSound, PTL

\* "Output unchanged" always refers to another, finished call of the same
\* session, equal up to noise and recent enough (result_cache.rs:96-107).
THEOREM RedirectsRefer == Spec => []RedirectHasReferent
<1>1. CacheInv => RedirectHasReferent
  BY DEF CacheInv, AnswersFaithful, Faithful, RedirectHasReferent
<1>2. QED
  BY <1>1, CachesSound, PTL
-----------------------------------------------------------------------------
(* Calls one at a time.  Only one call has threads, its two cache files    *)
(* are not the same, and so what it renames is what it wrote.              *)

CacheKinds == {"rc", "grc"}

Alone == \A c, d \in Calls : Alive(c) /\ Alive(d) => c = d

\* How far the save of cache k of call c is.
SaveSound(c, k) ==
  /\ saves[c][k] \in {"none", "pending", "open", "written", "done"}
  /\ saves[c][k] # "none" => pc[c] = "returned"
  /\ saves[c][k] = "open" => tmpFile[FileOf(c, k)] = Torn
  /\ saves[c][k] = "written" => tmpFile[FileOf(c, k)] = Content(c, k)

Solo == Alone /\ CachesIntact /\ \A c \in Calls, k \in CacheKinds : SaveSound(c, k)

LEMMA CacheIsWhole == ASSUME NEW x, IsCache(x) PROVE x # Torn
<1>1. IsMap(x.raw, Texts, RawEntries) => x.raw \in Maps(Texts, RawEntries)
  BY DEF IsMap, Maps
<1>2. IsMap(x.norm, {Norm[t] : t \in Texts}, NormEntries)
        => x.norm \in Maps({Norm[t] : t \in Texts}, NormEntries)
  BY DEF IsMap, Maps
<1>3. x \in CacheValues
  BY <1>1, <1>2 DEF IsCache, CacheValues
<1>4. QED
  BY <1>3, HookConstants

\* While a call has not returned nobody saves a cache.
LEMMA NoSaves ==
  ASSUME Solo, NEW c \in Calls, Alive(c), pc[c] # "returned"
  PROVE  \A d \in Calls, k \in CacheKinds : saves[d][k] = "none"
  BY DEF Solo, Alone, SaveSound, Alive

\* A step after which nobody but c may be alive, and no thread has opened a file.
LEMMA SoloFresh ==
  ASSUME CachesIntact, UNCHANGED cacheFile, NEW c \in Calls, \A d \in Calls : Alive(d)' => d = c,
         \A d \in Calls, k \in CacheKinds :
           saves'[d][k] = "none" \/ (saves'[d][k] = "pending" /\ pc'[d] = "returned")
  PROVE  Solo'
<1>1. Alone' /\ CachesIntact'
  BY DEF Alone, CachesIntact
<1>2. ASSUME NEW d \in Calls, NEW k \in CacheKinds PROVE SaveSound(d, k)'
  BY DEF SaveSound
<1>3. QED
  BY <1>1, <1>2 DEF Solo

LEMMA SoloCall ==
  ASSUME TypeOK, Solo, NEW c \in Calls,
         Tier1(c) \/ Tier2(c) \/ Tier3(c) \/ Poll(c) \/ Compress(c) \/ Store(c)
  PROVE  Solo'
<1> USE DEF files, copies
<1>1. Alive(c) /\ pc[c] # "returned" /\ UNCHANGED cacheFile
  BY DEF Tier1, Tier2, Tier3, Poll, Compress, Store, Alive
<1>2. \A d \in Calls, k \in CacheKinds : saves[d][k] = "none"
  BY <1>1, NoSaves
<1>3. \A d \in Calls : d # c => pc'[d] = pc[d]
  <2>1. \E l : pc' = [pc EXCEPT ![c] = l]
    BY DEF Tier1, Tier2, Tier3, Poll, Compress, Store, Answer, Goto
  <2>2. QED
    BY <2>1 DEF TypeOK
<1>4. \A d \in Calls : Alive(d)' => d = c
  BY <1>1, <1>3 DEF Solo, Alone, Alive
<1>5. \A d \in Calls, k \in CacheKinds :
        saves'[d][k] = "none" \/ (saves'[d][k] = "pending" /\ pc'[d] = "returned")
  <2>1. CASE UNCHANGED saves
    BY <1>2, <2>1
  <2>2. CASE saves' = [saves EXCEPT ![c]["session"] = "pending"]
    BY <1>2, <2>2 DEF TypeOK, SaveKinds, CacheKinds
  <2>3. CASE /\ pc' = [pc EXCEPT ![c] = "returned"]
             /\ \/ saves' = [saves EXCEPT ![c]["rc"] = "pending"]
                \/ saves' = [saves EXCEPT ![c]["rc"] = "pending", ![c]["grc"] = "pending"]
    BY <1>2, <2>3 DEF TypeOK, SaveKinds, CacheKinds
  <2>4. QED
    BY <2>1, <2>2, <2>3 DEF Tier1, Tier2, Tier3, Poll, Compress, Recorded, Store, Answer
<1>6. QED
  BY <1>1, <1>4, <1>5, SoloFresh DEF Solo

\* The threads of the one call that has returned.
LEMMA SoloSave ==
  ASSUME TypeOK, Solo, NEW c \in Calls, NEW k \in CacheKinds,
         CacheOpen(c, k) \/ CacheWrite(c, k) \/ CacheRename(c, k)
  PROVE  Solo'
<1> USE DEF files, copies
<1>1. /\ Alive(c) /\ saves[c][k] # "none" /\ pc[c] = "returned"
      /\ UNCHANGED <<pc, job, rc, grc>>
  <2>1. Alive(c) /\ saves[c][k] # "none" /\ UNCHANGED <<pc, job, rc, grc>>
    BY DEF CacheOpen, CacheWrite, CacheRename, Save
  <2>2. QED
    BY <2>1 DEF Solo, SaveSound
<1>2. \A d \in Calls : d # c => pc[d] # "returned" /\ ~Alive(d)
  BY <1>1 DEF Solo, Alone, Alive
<1>3. /\ FileOf(c, k) \in Caches /\ IsCache(Content(c, k)) /\ Content(c, k) # Torn
      /\ \A j \in CacheKinds : j # k => FileOf(c, j) # FileOf(c, k)
  <2>1. SessionOf(c) \in Sessions /\ IsCache(rc[c]) /\ IsCache(grc[c])
    BY <1>1, JobTyped DEF TypeOK
  <2>2. IsCache(Content(c, k))
    BY <2>1, EvictedIsCache DEF Content
  <2>3. QED
    BY <2>1, <2>2, CacheIsWhole, HookConstants DEF FileOf, Caches, CacheKinds
<1>4. \A d \in Calls, j \in CacheKinds :
        UNCHANGED <<FileOf(d, j), Content(d, j)>> /\ (d # c => saves[d][j] = "none")
  BY <1>1, <1>2 DEF FileOf, SessionOf, Content, Solo, SaveSound
<1>5. k \in SaveKinds /\ SaveSound(c, k) /\ Alone' /\ \A d \in Calls, j \in CacheKinds : j \in SaveKinds
  BY <1>1 DEF CacheKinds, SaveKinds, Solo, Alone, Alive
<1>6. ASSUME NEW to \in {"open", "written", "done"},
             \A d \in Calls, j \in CacheKinds :
               saves'[d][j] = IF d = c /\ j = k THEN to ELSE saves[d][j],
             \A f \in Caches : f # FileOf(c, k) => tmpFile'[f] = tmpFile[f],
             to = "open" => tmpFile'[FileOf(c, k)] = Torn,
             to = "written" => tmpFile'[FileOf(c, k)] = Content(c, k)
      PROVE  \A d \in Calls, j \in CacheKinds : SaveSound(d, j)'
  <2> SUFFICES ASSUME NEW d \in Calls, NEW j \in CacheKinds PROVE SaveSound(d, j)'
    OBVIOUS
  <2>1. CASE d = c /\ j = k
    BY <1>1, <1>4, <1>6, <2>1 DEF SaveSound
  <2>2. CASE d # c
    BY <1>4, <1>6, <2>2 DEF SaveSound
  <2>3. CASE d = c /\ j # k
    <3>1. FileOf(c, j) \in Caches /\ FileOf(c, j) # FileOf(c, k)
      BY <1>1, <1>3, <2>3, JobTyped DEF FileOf, Caches
    <3>2. SaveSound(c, j)
      BY DEF Solo
    <3>3. QED
      BY <1>1, <1>4, <1>6, <2>3, <3>1, <3>2 DEF SaveSound
  <2>4. QED
    BY <2>1, <2>2, <2>3
<1>7. ASSUME NEW from, NEW to, Save(c, k, from, to)
      PROVE  \A d \in Calls, j \in CacheKinds :
               saves'[d][j] = IF d = c /\ j = k THEN to ELSE saves[d][j]
  BY <1>5, <1>7 DEF Save, TypeOK
<1>8. CASE CacheOpen(c, k)
  <2>1. /\ Save(c, k, "pending", "open") /\ UNCHANGED cacheFile
        /\ tmpFile' = [tmpFile EXCEPT ![FileOf(c, k)] = Torn]
    BY <1>8 DEF CacheOpen
  <2>2. \A f \in Caches : f # FileOf(c, k) => tmpFile'[f] = tmpFile[f]
    BY <2>1 DEF TypeOK
  <2>3. tmpFile'[FileOf(c, k)] = Torn
    BY <1>3, <2>1 DEF TypeOK
  <2>4. \A d \in Calls, j \in CacheKinds : SaveSound(d, j)'
    BY <1>6, <1>7, <2>1, <2>2, <2>3
  <2>5. QED
    BY <1>5, <2>1, <2>4 DEF Solo, CachesIntact
<1>9. CASE CacheWrite(c, k)
  <2>1. /\ Save(c, k, "open", "written") /\ UNCHANGED cacheFile
        /\ \E content \in Overwritten(tmpFile[FileOf(c, k)], Content(c, k)) :
             tmpFile' = [tmpFile EXCEPT ![FileOf(c, k)] = content]
    BY <1>5, <1>9 DEF CacheWrite, Save, SaveSound
  <2>2. tmpFile' = [tmpFile EXCEPT ![FileOf(c, k)] = Content(c, k)]
    BY <1>5, <2>1 DEF Overwritten, SaveSound, Save
  <2>3. \A f \in Caches : f # FileOf(c, k) => tmpFile'[f] = tmpFile[f]
    BY <2>2 DEF TypeOK
  <2>4. tmpFile'[FileOf(c, k)] = Content(c, k)
    BY <1>3, <2>2 DEF TypeOK
  <2>5. \A d \in Calls, j \in CacheKinds : SaveSound(d, j)'
    BY <1>6, <1>7, <2>1, <2>3, <2>4
  <2>6. QED
    BY <1>5, <2>1, <2>5 DEF Solo, CachesIntact
<1>10. CASE CacheRename(c, k)
  <2>1. saves[c][k] = "written" /\ tmpFile[FileOf(c, k)] = Content(c, k)
    BY <1>5, <1>10 DEF CacheRename, SaveSound
  <2>2. \A d \in Calls, j \in CacheKinds :
          saves'[d][j] = IF d = c /\ j = k THEN "done" ELSE saves[d][j]
    <3>1. CASE tmpFile[FileOf(c, k)] = Never
      BY <1>5, <1>10, <3>1 DEF CacheRename, TypeOK
    <3>2. CASE tmpFile[FileOf(c, k)] # Never
      <4>1. \A d \in Calls, j \in CacheKinds :
              saves'[d][j] = IF d = c /\ j = k THEN "done"
                             ELSE IF j # "session" /\ Alive(d) /\ FileOf(d, j) = FileOf(c, k)
                                  THEN AfterRename(saves[d][j])
                                  ELSE saves[d][j]
        BY <1>5, <1>10, <3>2 DEF CacheRename
      <4>2. \A d \in Calls, j \in CacheKinds :
              ~(d = c /\ j = k) => ~(Alive(d) /\ FileOf(d, j) = FileOf(c, k))
        BY <1>2, <1>3
      <4>3. QED
        BY <4>1, <4>2
    <3>3. QED
      BY <3>1, <3>2
  <2>3. \A f \in Caches : f # FileOf(c, k) => tmpFile'[f] = tmpFile[f]
    BY <1>10 DEF CacheRename, TypeOK
  <2>4. \A d \in Calls, j \in CacheKinds : SaveSound(d, j)'
    BY <1>6, <2>2, <2>3
  <2>5. CachesIntact'
    BY <1>3, <1>10, <2>1 DEF CacheRename, Solo, CachesIntact, TypeOK
  <2>6. QED
    BY <1>5, <2>4, <2>5 DEF Solo
<1>11. QED
  BY <1>8, <1>9, <1>10

LEMMA SoloStep == ASSUME ~Parallel PROVE TypeOK /\ Solo /\ [Next]_vars => Solo'
<1> SUFFICES ASSUME TypeOK, Solo, [Next]_vars PROVE Solo'
  OBVIOUS
<1> USE DEF files, copies
<1>1. ASSUME UNCHANGED <<cacheFile, tmpFile, pc, job, rc, grc>>,
             \A d \in Calls, k \in CacheKinds : saves'[d][k] = saves[d][k]
      PROVE  Solo'
  <2>1. Alone' /\ CachesIntact'
    BY <1>1 DEF Solo, Alone, Alive, CachesIntact
  <2>2. ASSUME NEW d \in Calls, NEW k \in CacheKinds PROVE SaveSound(d, k)'
    <3>1. SaveSound(d, k)
      BY DEF Solo
    <3>2. QED
      BY <1>1, <3>1 DEF SaveSound, FileOf, SessionOf, Content
  <2>3. QED
    BY <2>1, <2>2 DEF Solo
<1>2. CASE Tick \/ UNCHANGED vars
  BY <1>1, <1>2 DEF Tick, vars
<1>3. ASSUME NEW c \in Calls, SessionOpen(c) \/ SessionWrite(c) PROVE Solo'
  <2>1. UNCHANGED <<cacheFile, tmpFile, pc, job, rc, grc>>
    BY <1>3 DEF SessionOpen, SessionWrite
  <2>2. \A d \in Calls, k \in CacheKinds : saves'[d][k] = saves[d][k]
    BY <1>3 DEF SessionOpen, SessionWrite, Save, TypeOK, SaveKinds, CacheKinds
  <2>3. QED
    BY <1>1, <2>1, <2>2
<1>4. ASSUME NEW c \in Calls, Begin(c) PROVE Solo'
  <2>1. \A d \in Calls : pc[d] \in {"idle", "exited"}
    BY <1>4 DEF Begin
  <2>2. pc' = [pc EXCEPT ![c] = "tier1"] /\ UNCHANGED <<cacheFile, saves>>
    BY <1>4 DEF Begin, Goto
  <2>3. \A d \in Calls : Alive(d)' => d = c
    BY <2>1, <2>2 DEF Alive, TypeOK
  <2>4. \A d \in Calls, k \in CacheKinds : saves'[d][k] = "none"
    BY <2>1, <2>2 DEF Solo, SaveSound
  <2>5. QED
    BY <2>2, <2>3, <2>4, SoloFresh DEF Solo
<1>5. ASSUME NEW c \in Calls, Gone(c), Alive(c) PROVE Solo'
  <2>1. /\ pc' = [pc EXCEPT ![c] = "exited"] /\ UNCHANGED cacheFile
        /\ saves' = [saves EXCEPT ![c] = [k \in SaveKinds |-> "none"]]
    BY <1>5 DEF Gone
  <2>2. \A d \in Calls : ~Alive(d)'
    BY <1>5, <2>1 DEF Solo, Alone, Alive, TypeOK
  <2>3. \A d \in Calls, k \in CacheKinds : saves'[d][k] = "none"
    BY <1>5, <2>1 DEF Solo, Alone, SaveSound, Alive, CacheKinds, SaveKinds, TypeOK
  <2>4. QED
    BY <2>1, <2>2, <2>3, SoloFresh DEF Solo
<1>6. ASSUME NEW c \in Calls, Exit(c) \/ Kill(c) PROVE Solo'
  BY <1>5, <1>6 DEF Exit, Kill, Alive, Running
<1>7. QED
  BY <1>2, <1>3, <1>4, <1>6, SoloCall, SoloSave DEF Next, Steps, CacheKinds

LEMMA SoloInit == Init => Solo
<1> SUFFICES ASSUME Init PROVE Solo
  OBVIOUS
<1>1. Alone /\ \A c \in Calls, k \in CacheKinds : SaveSound(c, k)
  BY DEF Init, Alone, Alive, SaveSound, CacheKinds, SaveKinds
<1>2. CachesIntact
  BY EmptyIsCache, CacheIsWhole DEF Init, CachesIntact
<1>3. QED
  BY <1>1, <1>2 DEF Solo

\* As long as calls do not overlap, no process death and no lost save leaves a
\* cache file that does not parse: the rename moves what its own thread wrote
\* (result_cache.rs:76-81).
THEOREM CachesStayWhole == ASSUME ~Parallel PROVE Spec => []CachesIntact
<1>1. TypeOK /\ Solo /\ [Next]_vars => Solo'
  BY SoloStep
<1>2. Solo => CachesIntact
  BY DEF Solo
<1>3. QED
  BY <1>1, <1>2, TypeInit, TypeStep, SoloInit, PTL DEF Spec
-----------------------------------------------------------------------------
(* Frozen outputs, for brief calls one at a time and no more texts than a  *)
(* cache holds.  A cached answer is a promise to its session.  It is kept  *)
(* by every value that is or may become the session's cache together with  *)
(* every value that is or may become the global one.                       *)

Unsaved(c, k) == saves[c][k] \in {"pending", "open", "written"}
Missed(c) == pc[c] \in {"tier3", "poll", "compress", "store"}
HoldsRc(c) == pc[c] = "tier2" \/ Missed(c) \/ Unsaved(c, "rc")
HoldsGrc(c) == Missed(c) \/ Unsaved(c, "grc")

\* What a session's cache, and the global one, are or may become.
SessionRaw(s, raw) ==
  raw = cacheFile[s].raw \/ \E c \in Calls : HoldsRc(c) /\ SessionOf(c) = s /\ raw = rc[c].raw
GlobalRaw(raw) ==
  raw = cacheFile[Global].raw \/ \E c \in Calls : HoldsGrc(c) /\ raw = grc[c].raw

\* At time n the session's cache answers t with the output of call `of`, made at
\* time `made`; or it does not answer and the global one does.
Kept(sraw, graw, t, of, made, n) ==
  n <= made + Ttl =>
    \/ t \in DOMAIN sraw /\ sraw[t].of = of /\ made <= sraw[t].ts
    \/ /\ t \in DOMAIN sraw => sraw[t].ts + Ttl < n
       /\ t \in DOMAIN graw /\ graw[t].of = of /\ made <= graw[t].ts

Promises ==
  \A c \in Calls : answer[c].kind = "cached" =>
    \A sraw, graw : SessionRaw(SessionOf(c), sraw) /\ GlobalRaw(graw) =>
      Kept(sraw, graw, Text(c), answer[c].of, answer[c].made, now)

\* No entry was made after it was stamped, or stamped in the future.
Dated(raw, n) == \A t \in DOMAIN raw : raw[t].made <= raw[t].ts /\ raw[t].ts <= n

Dates ==
  /\ \A f \in Caches : Dated(cacheFile[f].raw, now)
  /\ \A c \in Calls : /\ Dated(rc[c].raw, now) /\ Dated(grc[c].raw, now)
                      /\ Alive(c) => job[c].began = now
                      /\ answer[c].kind = "cached" => answer[c].made <= now

\* Until it stores, a call's copies are what it loaded, without its text.
Misses ==
  \A c \in Calls :
    /\ pc[c] = "tier2" => rc[c] = evict_old(cacheFile[SessionOf(c)], now)
    /\ pc[c] = "tier2" \/ Missed(c) => Text(c) \notin DOMAIN rc[c].raw
    /\ Missed(c) => Text(c) \notin DOMAIN grc[c].raw

Frozen == Dates /\ Misses /\ Promises /\ FrozenOutputs

\* Every text has room in a cache.
Roomy == IsFiniteSet(Texts) /\ Cardinality(Texts) <= MaxCached

LEMMA EntryTyped ==
  ASSUME NEW x, IsCache(x), NEW t \in DOMAIN x.raw
  PROVE  /\ t \in Texts /\ x.raw[t].of \in Calls /\ x.raw[t].made \in Nat /\ x.raw[t].ts \in Nat
<1>1. t \in Texts /\ x.raw[t] \in RawEntries
  BY DEF IsCache, IsMap
<1>2. QED
  BY <1>1, HookConstants DEF RawEntries, Times

\* A new text evicts nothing.
LEMMA HasRoom ==
  ASSUME Roomy, NEW f, DOMAIN f \subseteq Texts, NEW k \in Texts, k \notin DOMAIN f
  PROVE  Cardinality(DOMAIN f) < MaxCached
<1>1. /\ IsFiniteSet(Texts \ {k}) /\ Cardinality(Texts \ {k}) = Cardinality(Texts) - 1
      /\ Cardinality(Texts) \in Nat
  BY FS_RemoveElement, FS_CardinalityType DEF Roomy
<1>2. DOMAIN f \in SUBSET (Texts \ {k})
  OBVIOUS
<1>3. /\ IsFiniteSet(DOMAIN f) /\ Cardinality(DOMAIN f) <= Cardinality(Texts \ {k})
  BY <1>1, <1>2, FS_Subset
<1>4. Cardinality(DOMAIN f) \in Nat /\ Cardinality(Texts \ {k}) \in Nat
  BY <1>1, <1>3, FS_CardinalityType
<1>5. QED
  BY <1>1, <1>3, <1>4, CacheBounds DEF Roomy

-----------------------------------------------------------------------------
(* Kept promises.                                                          *)

\* A raw map with numbers for times.
Timed(raw) == \A t \in DOMAIN raw : raw[t].made \in Nat /\ raw[t].ts \in Nat

LEMMA CacheTimed == ASSUME NEW x, IsCache(x) PROVE Timed(x.raw)
  BY EntryTyped DEF Timed

LEMMA KeptLater ==
  ASSUME NEW sraw, Timed(sraw), NEW graw, NEW t, NEW of, NEW made \in Nat, NEW n \in Nat,
         Kept(sraw, graw, t, of, made, n)
  PROVE  Kept(sraw, graw, t, of, made, n + 1)
  BY CacheBounds DEF Kept, Timed

\* Eviction by age breaks no promise that is still due.
LEMMA KeptEvicted ==
  ASSUME NEW sraw, Timed(sraw), NEW graw, NEW t, NEW of, NEW made \in Nat, NEW n \in Nat,
         Kept(sraw, graw, t, of, made, n)
  PROVE  Kept(Retain(sraw, n, Ttl), graw, t, of, made, n)
  BY CacheBounds DEF Kept, Timed, Retain

LEMMA KeptGlobalEvicted ==
  ASSUME Ttl <= GlobalTtl, NEW sraw, NEW graw, Timed(graw), NEW t, NEW of, NEW made \in Nat,
         NEW n \in Nat, Kept(sraw, graw, t, of, made, n)
  PROVE  Kept(sraw, Retain(graw, n, GlobalTtl), t, of, made, n)
  BY CacheBounds DEF Kept, Retain, Timed

\* Nor does an entry of a text that had none, if it keeps the promise itself.
LEMMA KeptInserted ==
  ASSUME NEW sraw, NEW graw, NEW t, NEW of, NEW made \in Nat, NEW n \in Nat,
         Kept(sraw, graw, t, of, made, n), NEW k, NEW raw, k \notin DOMAIN sraw,
         DOMAIN raw = DOMAIN sraw \cup {k}, \A u \in DOMAIN sraw : raw[u] = sraw[u],
         t = k /\ n <= made + Ttl => raw[k].of = of /\ made <= raw[k].ts
  PROVE  Kept(raw, graw, t, of, made, n)
  BY DEF Kept

LEMMA KeptGlobalInserted ==
  ASSUME NEW sraw, NEW graw, NEW t, NEW of, NEW made, NEW n,
         Kept(sraw, graw, t, of, made, n), NEW k, NEW raw, k \notin DOMAIN graw,
         DOMAIN raw = DOMAIN graw \cup {k}, \A u \in DOMAIN graw : raw[u] = graw[u]
  PROVE  Kept(sraw, raw, t, of, made, n)
  BY DEF Kept

-----------------------------------------------------------------------------
(* Frames.                                                                 *)

\* Promises made and times are numbers.
LEMMA CachedTyped ==
  ASSUME TypeOK, CacheInv, NEW d \in Calls, answer[d].kind = "cached"
  PROVE  /\ answer[d].made \in Nat /\ d \in Told /\ pc[d] # "idle"
<1>1. answer[d].made \in Nat
  BY HookConstants DEF TypeOK, Answers, Times
<1>2. d \in Told
  BY DEF CacheInv, AnswersFaithful, Faithful
<1>3. QED
  BY <1>1, <1>2 DEF Told

\* A step that gives no new cached answer.
LEMMA FrozenSame ==
  ASSUME FrozenOutputs,
         \A c \in Calls : answer'[c].kind = "cached" => answer'[c] = answer[c] /\ job'[c] = job[c]
  PROVE  FrozenOutputs'
<1> SUFFICES ASSUME NEW c \in Calls, NEW d \in Calls,
                    answer'[c].kind = "cached" /\ answer'[d].kind = "cached",
                    (SessionOf(c) = SessionOf(d))', (Text(c) = Text(d))',
                    job'[d].began <= answer'[c].made + Ttl, job'[c].began <= answer'[d].made + Ttl
             PROVE  answer'[c].of = answer'[d].of
  BY DEF FrozenOutputs
<1>1. /\ answer'[c] = answer[c] /\ job'[c] = job[c]
      /\ answer'[d] = answer[d] /\ job'[d] = job[d]
  OBVIOUS
<1>2. QED
  BY <1>1 DEF FrozenOutputs, SessionOf, Text

\* A step that moreover makes no new value of a cache and lets no time pass.
LEMMA PromisesLast ==
  ASSUME TypeOK, CacheInv, Promises, now' = now,
         \A c \in Calls : answer'[c].kind = "cached" => answer'[c] = answer[c] /\ job'[c] = job[c],
         \A s \in Sessions : \A raw : SessionRaw(s, raw)' => SessionRaw(s, raw),
         \A raw : GlobalRaw(raw)' => GlobalRaw(raw)
  PROVE  Promises'
<1> SUFFICES ASSUME NEW c \in Calls, answer'[c].kind = "cached", NEW sraw, NEW graw,
                    SessionRaw(SessionOf(c), sraw)', GlobalRaw(graw)'
             PROVE  Kept(sraw, graw, Text(c)', answer'[c].of, answer'[c].made, now)
  BY DEF Promises, Kept
<1>1. answer'[c] = answer[c] /\ SessionOf(c)' = SessionOf(c) /\ Text(c)' = Text(c)
  BY DEF SessionOf, Text
<1>2. SessionOf(c) \in Sessions
  BY <1>1, CachedTyped, JobTyped
<1>3. SessionRaw(SessionOf(c), sraw) /\ GlobalRaw(graw)
  BY <1>1, <1>2
<1>4. QED
  BY <1>1, <1>3 DEF Promises

\* A step that leaves the caches alone, after which no copy is held that was not
\* held before.
LEMMA FrozenFrame ==
  ASSUME TypeOK, CacheInv, Frozen, UNCHANGED <<now, cacheFile>>,
         \A c \in Calls :
           /\ answer'[c].kind = "cached" => answer'[c] = answer[c] /\ job'[c] = job[c]
           /\ HoldsRc(c)' => HoldsRc(c) /\ rc'[c] = rc[c] /\ job'[c] = job[c]
           /\ HoldsGrc(c)' => HoldsGrc(c) /\ grc'[c] = grc[c]
           /\ rc'[c] \in {rc[c], EmptyCache} /\ grc'[c] \in {grc[c], EmptyCache}
           /\ Alive(c)' => job'[c].began = now
           /\ pc'[c] = "tier2" => pc[c] = "tier2"
           /\ Missed(c)' => Missed(c)
  PROVE  Frozen'
<1>1. Dates'
  <2>1. Dated(EmptyCache.raw, now)
    BY DEF Dated, EmptyCache
  <2>2. QED
    BY <2>1 DEF Frozen, Dates
<1>2. Misses'
  BY DEF Frozen, Misses, SessionOf, Text, HoldsRc, HoldsGrc
<1>3. \A s, raw : SessionRaw(s, raw)' => SessionRaw(s, raw)
  BY DEF SessionRaw, SessionOf
<1>4. \A raw : GlobalRaw(raw)' => GlobalRaw(raw)
  BY DEF GlobalRaw
<1>5. Promises'
  BY <1>3, <1>4, PromisesLast DEF Frozen
<1>6. FrozenOutputs'
  BY FrozenSame DEF Frozen
<1>7. QED
  BY <1>1, <1>2, <1>5, <1>6 DEF Frozen
-----------------------------------------------------------------------------
(* The steps.                                                              *)

\* A call that looks up its text has the only copies there are.
LEMMA LookingAlone ==
  ASSUME TypeOK, Solo, NEW c \in Calls, Alive(c), pc[c] # "returned"
  PROVE  /\ \A d \in Calls : d # c => ~HoldsRc(d) /\ ~HoldsGrc(d) /\ ~Alive(d)
         /\ HoldsRc(c) <=> pc[c] = "tier2" \/ Missed(c)
         /\ HoldsGrc(c) <=> Missed(c)
<1>1. \A d \in Calls : ~Unsaved(d, "rc") /\ ~Unsaved(d, "grc")
  BY NoSaves DEF Unsaved, CacheKinds
<1>2. \A d \in Calls : d # c => ~Alive(d)
  BY DEF Solo, Alone
<1>3. QED
  BY <1>1, <1>2 DEF HoldsRc, HoldsGrc, Missed, Alive

\* A new cached answer that agrees with all that are still due.
LEMMA FrozenAnswer ==
  ASSUME TypeOK, Frozen, UNCHANGED job, NEW c \in Calls, Alive(c), NEW of, NEW made,
         answer'[c].kind = "cached", answer'[c].of = of, answer'[c].made = made,
         \A d \in Calls : d # c => answer'[d] = answer[d],
         \A d \in Calls : /\ answer[d].kind = "cached"
                          /\ SessionOf(d) = SessionOf(c) /\ Text(d) = Text(c)
                          /\ now <= answer[d].made + Ttl
                          => answer[d].of = of
  PROVE  FrozenOutputs'
<1>1. job[c].began = now
  BY DEF Frozen, Dates
<1> SUFFICES ASSUME NEW d \in Calls, NEW e \in Calls,
                    answer'[d].kind = "cached" /\ answer'[e].kind = "cached",
                    (SessionOf(d) = SessionOf(e))', (Text(d) = Text(e))',
                    job'[e].began <= answer'[d].made + Ttl, job'[d].began <= answer'[e].made + Ttl
             PROVE  answer'[d].of = answer'[e].of
  BY DEF FrozenOutputs
<1>2. SessionOf(d) = SessionOf(e) /\ Text(d) = Text(e)
  BY DEF SessionOf, Text
<1>3. CASE d = c /\ e = c
  BY <1>3
<1>4. CASE d # c /\ e # c
  BY <1>2, <1>4 DEF Frozen, FrozenOutputs
<1>5. CASE d # c /\ e = c
  BY <1>1, <1>2, <1>5
<1>6. CASE d = c /\ e # c
  BY <1>1, <1>2, <1>6
<1>7. QED
  BY <1>3, <1>4, <1>5, <1>6

LEMMA LoadsWhole ==
  ASSUME TypeOK, Solo, NEW f \in Caches
  PROVE  /\ LoadCache(f) = cacheFile[f] /\ IsCache(cacheFile[f]) /\ Timed(cacheFile[f].raw)
<1>1. cacheFile[f] # Torn
  BY DEF Solo, CachesIntact
<1>2. IsCache(cacheFile[f])
  BY <1>1 DEF TypeOK
<1>3. QED
  BY <1>1, <1>2, CacheTimed DEF LoadCache

LEMMA FrozenTier1 ==
  ASSUME TypeOK, CacheInv, Solo, Frozen, NEW c \in Calls, Tier1(c)
  PROVE  Frozen'
<1> USE DEF files, copies
<1> DEFINE s == SessionOf(c)
           file == cacheFile[s]
           cache == evict_old(file, now)
<1>1. /\ pc[c] = "tier1" /\ Alive(c) /\ UNCHANGED <<now, files, job, sess, grc, saves>>
  BY DEF Tier1, Alive
<1>2. s \in Caches /\ Global \in Caches /\ Text(c) \in Texts /\ now \in Nat
  BY <1>1, JobTyped, HookConstants DEF Caches, TypeOK, Times
<1>3. LoadCache(s) = file /\ IsCache(file) /\ Timed(file.raw) /\ IsCache(cache)
  BY <1>2, LoadsWhole, EvictedIsCache
<1>4. /\ \A d \in Calls : d # c => ~HoldsRc(d) /\ ~HoldsGrc(d) /\ ~Alive(d)
      /\ ~HoldsRc(c) /\ ~HoldsGrc(c)
  BY <1>1, LookingAlone DEF Missed
<1>5. SessionRaw(s, file.raw) /\ GlobalRaw(cacheFile[Global].raw)
  BY DEF SessionRaw, GlobalRaw
<1>6. Dated(file.raw, now)
  BY <1>2 DEF Frozen, Dates
<1>7. cache.raw = Retain(file.raw, now, Ttl)
  BY DEF evict_old
<1>8. CASE Text(c) \in DOMAIN cache.raw
  <2> DEFINE t == Text(c)
             e == cache.raw[t]
  <2>1. /\ Answer(c, "cached", e.of, 0, e.made) /\ UNCHANGED rc
    BY <1>3, <1>8 DEF Tier1
  <2>2. t \in DOMAIN file.raw /\ e = file.raw[t] /\ now <= e.ts + Ttl
    BY <1>7, <1>8 DEF Retain
  <2>3. e.made \in Nat /\ e.ts \in Nat /\ e.made <= e.ts /\ e.ts <= now
    BY <1>3, <1>6, <2>2 DEF Timed, Dated
  <2> DEFINE of == e.of
             made == e.made
  <2>4. /\ answer'[c] = [kind |-> "cached", of |-> of, turn |-> 0, made |-> made]
        /\ pc'[c] = "returned" /\ \A d \in Calls : d # c => answer'[d] = answer[d] /\ pc'[d] = pc[d]
    BY <2>1 DEF Answer, TypeOK
  <2>5. made \in Nat /\ made <= now
    BY <1>2, <2>3
  <2> HIDE DEF of, made
  <2>6. answer'[c].kind = "cached" /\ answer'[c].of = of /\ answer'[c].made = made
    BY <2>4
  <2>7. /\ \A d \in Calls : ~HoldsRc(d)' /\ ~HoldsGrc(d)'
        /\ pc'[c] # "tier2" /\ ~Missed(c)'
    BY <1>1, <1>4, <2>4 DEF HoldsRc, HoldsGrc, Missed, Unsaved
  <2>8. /\ \A d \in Calls : pc'[d] # "tier2" /\ ~Missed(d)'
    BY <2>7 DEF HoldsRc
  <2>9. Misses'
    BY <2>8 DEF Misses
  <2>10. Dates'
    BY <1>1, <2>1, <2>4, <2>5, <2>6 DEF Frozen, Dates, Alive
  <2>11. \A d \in Calls : /\ answer[d].kind = "cached" /\ SessionOf(d) = s /\ Text(d) = t
                          /\ now <= answer[d].made + Ttl
                          => answer[d].of = of
    <3> SUFFICES ASSUME NEW d \in Calls, answer[d].kind = "cached", SessionOf(d) = s, Text(d) = t,
                        now <= answer[d].made + Ttl
                 PROVE  answer[d].of = of
      OBVIOUS
    <3>1. Kept(file.raw, cacheFile[Global].raw, t, answer[d].of, answer[d].made, now)
      BY <1>5 DEF Frozen, Promises
    <3>2. ~(file.raw[t].ts + Ttl < now)
      BY <1>2, <2>2, <2>3, CacheBounds
    <3>3. QED
      BY <2>2, <3>1, <3>2 DEF Kept, of
  <2>12. FrozenOutputs'
    BY <1>1, <2>4, <2>6, <2>11, FrozenAnswer
  <2>13. Promises'
    <3> SUFFICES ASSUME NEW d \in Calls, answer'[d].kind = "cached", NEW sraw, NEW graw,
                        SessionRaw(SessionOf(d), sraw)', GlobalRaw(graw)'
                 PROVE  Kept(sraw, graw, Text(d)', answer'[d].of, answer'[d].made, now')
      BY DEF Promises, Kept
    <3>1. SessionOf(d)' = SessionOf(d) /\ Text(d)' = Text(d) /\ now' = now
      BY <1>1 DEF SessionOf, Text
    <3>2. sraw = cacheFile[SessionOf(d)].raw /\ graw = cacheFile[Global].raw
      BY <1>1, <2>7, <3>1 DEF SessionRaw, GlobalRaw
    <3>3. CASE d # c
      <4>1. answer'[d] = answer[d]
        BY <2>4, <3>3
      <4>2. QED
        BY <3>1, <3>2, <4>1 DEF Frozen, Promises, SessionRaw, GlobalRaw
    <3>4. CASE d = c
      BY <2>2, <2>3, <2>6, <3>1, <3>2, <3>4 DEF Kept, of, made
    <3>5. QED
      BY <3>3, <3>4
  <2>14. QED
    BY <2>9, <2>10, <2>12, <2>13 DEF Frozen
<1>9. CASE Text(c) \notin DOMAIN cache.raw
  <2>1. Goto(c, "tier2") /\ rc' = [rc EXCEPT ![c] = cache]
    BY <1>3, <1>9 DEF Tier1
  <2> HIDE DEF cache
  <2>2. /\ rc'[c] = cache /\ pc'[c] = "tier2" /\ UNCHANGED answer
        /\ \A d \in Calls : d # c => rc'[d] = rc[d] /\ pc'[d] = pc[d]
    BY <2>1 DEF Goto, TypeOK
  <2>3. /\ \A d \in Calls : d # c => ~HoldsRc(d)' /\ ~HoldsGrc(d)' /\ ~Alive(d)'
        /\ ~HoldsGrc(c)'
    BY <1>1, <1>4, <2>2 DEF HoldsRc, HoldsGrc, Missed, Unsaved, Alive
  <2>4. Misses'
    BY <1>1, <1>9, <2>2, <2>3 DEF Misses, cache, HoldsRc, Missed, SessionOf, Text
  <2>5. Dated(cache.raw, now)
    BY <1>6, <1>7 DEF Dated, Retain
  <2>6. Dates'
    BY <1>1, <2>2, <2>3, <2>5 DEF Frozen, Dates
  <2>7. Promises'
    <3> SUFFICES ASSUME NEW d \in Calls, answer[d].kind = "cached", NEW sraw, NEW graw,
                        SessionRaw(SessionOf(d), sraw)', GlobalRaw(graw)'
                 PROVE  Kept(sraw, graw, Text(d), answer[d].of, answer[d].made, now)
      BY <1>1, <2>2 DEF Promises, Kept, SessionOf, Text
    <3>1. SessionOf(d)' = SessionOf(d)
      BY <1>1 DEF SessionOf
    <3>2. graw = cacheFile[Global].raw /\ GlobalRaw(graw)
      BY <1>1, <2>3 DEF GlobalRaw
    <3>3. CASE sraw = cacheFile[SessionOf(d)].raw
      BY <3>2, <3>3 DEF Frozen, Promises, SessionRaw
    <3>4. CASE SessionOf(d) = s /\ sraw = cache.raw
      <4>1. Kept(file.raw, graw, Text(d), answer[d].of, answer[d].made, now)
        BY <1>5, <3>2, <3>4 DEF Frozen, Promises
      <4>2. answer[d].made \in Nat
        BY CachedTyped
      <4>3. QED
        BY <1>2, <1>3, <1>7, <3>4, <4>1, <4>2, KeptEvicted
    <3>5. SessionOf(c)' = s
      BY <1>1 DEF SessionOf
    <3>6. QED
      BY <1>1, <2>2, <2>3, <3>1, <3>3, <3>4, <3>5 DEF SessionRaw
  <2>8. FrozenOutputs'
    BY <1>1, <2>2, FrozenSame DEF Frozen
  <2>9. QED
    BY <2>4, <2>6, <2>7, <2>8 DEF Frozen
<1>10. QED
  BY <1>8, <1>9
LEMMA FrozenTier2 ==
  ASSUME Ttl <= GlobalTtl, Roomy, TypeOK, CacheInv, Solo, Frozen, NEW c \in Calls, Tier2(c)
  PROVE  Frozen'
<1> USE DEF files, copies
<1> DEFINE s == SessionOf(c)
           t == Text(c)
           file == cacheFile[s]
           global == cacheFile[Global]
           cache == evict_global_old(RawOnly(global), now)
<1>1. /\ pc[c] = "tier2" /\ Alive(c) /\ UNCHANGED <<now, files, job, sess>>
  BY DEF Tier2, Alive
<1>2. s \in Caches /\ Global \in Caches /\ t \in Texts /\ now \in Nat
  BY <1>1, JobTyped, HookConstants DEF Caches, TypeOK, Times
<1>3. /\ LoadCache(Global) = global /\ IsCache(global) /\ Timed(global.raw)
      /\ IsCache(file) /\ Timed(file.raw) /\ IsCache(rc[c]) /\ Timed(rc[c].raw)
  BY <1>2, LoadsWhole, CacheTimed DEF TypeOK
<1>4. /\ \A d \in Calls : d # c => ~HoldsRc(d) /\ ~HoldsGrc(d) /\ ~Alive(d)
      /\ HoldsRc(c) /\ ~HoldsGrc(c)
  BY <1>1, LookingAlone DEF Missed
<1>5. /\ SessionRaw(s, file.raw) /\ GlobalRaw(global.raw) /\ SessionRaw(s, rc[c].raw)
  BY <1>4 DEF SessionRaw, GlobalRaw
<1>6. Dated(file.raw, now) /\ Dated(global.raw, now) /\ Dated(rc[c].raw, now)
  BY <1>2 DEF Frozen, Dates
<1>7. cache.raw = Retain(global.raw, now, GlobalTtl)
  BY DEF evict_global_old, RawOnly
<1>8. /\ t \notin DOMAIN rc[c].raw
      /\ t \in DOMAIN file.raw => file.raw[t].ts + Ttl < now
  <2>0. t \notin DOMAIN rc[c].raw /\ rc[c] = evict_old(cacheFile[SessionOf(c)], now)
    BY <1>1 DEF Frozen, Misses
  <2>1. t \notin DOMAIN rc[c].raw /\ rc[c].raw = Retain(file.raw, now, Ttl)
    BY <2>0 DEF evict_old
  <2>2. t \in DOMAIN file.raw => ~(now <= file.raw[t].ts + Ttl)
    BY <2>1 DEF Retain
  <2>3. QED
    BY <1>2, <1>3, <2>1, <2>2, CacheBounds DEF Timed
<1>9. CASE t \in DOMAIN cache.raw
  <2> DEFINE e == cache.raw[t]
  <2>1. PICK raw \in Inserted(rc[c].raw, t, Entry(e.of, e.made, now)) :
          rc' = [rc EXCEPT ![c] = [raw |-> raw, norm |-> rc[c].norm]]
    BY <1>3, <1>9 DEF Tier2
  <2>2. /\ Answer(c, "cached", e.of, 0, e.made) /\ UNCHANGED grc
        /\ saves' = [saves EXCEPT ![c]["rc"] = "pending"]
    BY <1>3, <1>9 DEF Tier2
  <2>3. t \in DOMAIN global.raw /\ e = global.raw[t]
    BY <1>7, <1>9 DEF Retain
  <2>4. e.made \in Nat /\ e.ts \in Nat /\ e.made <= e.ts /\ e.ts <= now
    BY <1>3, <1>6, <2>3 DEF Timed, Dated
  <2> DEFINE of == e.of
             made == e.made
  <2>5. /\ answer'[c] = [kind |-> "cached", of |-> of, turn |-> 0, made |-> made]
        /\ pc'[c] = "returned" /\ \A d \in Calls : d # c => answer'[d] = answer[d] /\ pc'[d] = pc[d]
    BY <2>2 DEF Answer, TypeOK
  <2>6. made \in Nat /\ made <= now
    BY <1>2, <2>4
  <2>7. raw \in Inserted(rc[c].raw, t, Entry(of, made, now))
    BY <2>1
  <2>8. t \in DOMAIN global.raw /\ global.raw[t].of = of /\ made <= global.raw[t].ts
    BY <2>3, <2>4
  <2> HIDE DEF of, made, cache
  <2>9. /\ DOMAIN raw = DOMAIN rc[c].raw \cup {t} /\ raw[t] = Entry(of, made, now)
        /\ \A u \in DOMAIN rc[c].raw : raw[u] = rc[c].raw[u]
    <3> DEFINE f == rc[c].raw
               v == Entry(of, made, now)
    <3>1. DOMAIN f \subseteq Texts /\ t \in Texts /\ t \notin DOMAIN f /\ raw \in Inserted(f, t, v)
      BY <1>2, <1>3, <1>8, <2>7 DEF IsCache, IsMap
    <3> HIDE DEF f, v, t
    <3>2. raw = With(f, t, v)
      BY <3>1, HasRoom DEF Inserted
    <3>3. DOMAIN raw = DOMAIN f \cup {t} /\ raw[t] = v /\ \A u \in DOMAIN f : raw[u] = f[u]
      BY <3>1, <3>2 DEF With
    <3>4. QED
      BY <3>3 DEF f, v
  <2>10. raw[t].of = of /\ raw[t].made = made /\ raw[t].ts = now
    BY <2>9 DEF Entry
  <2>11. answer'[c].kind = "cached" /\ answer'[c].of = of /\ answer'[c].made = made
    BY <2>5
  <2>12. /\ rc'[c] = [raw |-> raw, norm |-> rc[c].norm]
         /\ \A d \in Calls : d # c => rc'[d] = rc[d]
    BY <2>1 DEF TypeOK
  <2>13. \A d \in Calls : /\ d # c => saves'[d] = saves[d]
                          /\ saves'[d]["grc"] = saves[d]["grc"]
    BY <2>2 DEF TypeOK, SaveKinds
  <2>14. /\ \A d \in Calls : d # c => ~HoldsRc(d)' /\ ~Alive(d)'
         /\ \A d \in Calls : pc'[d] # "tier2" /\ ~Missed(d)' /\ ~HoldsGrc(d)'
    BY <1>1, <1>4, <2>5, <2>13 DEF HoldsRc, HoldsGrc, Missed, Unsaved, Alive
  <2>15. Misses'
    BY <2>14 DEF Misses
  <2>16. Dates'
    <3>1. Dated(raw, now)
      BY <1>2, <1>6, <2>6, <2>9, <2>10 DEF Dated
    <3>2. QED
      BY <1>1, <2>2, <2>5, <2>6, <2>11, <2>12, <2>14, <3>1 DEF Frozen, Dates
  <2>17. \A d \in Calls : /\ answer[d].kind = "cached" /\ SessionOf(d) = s /\ Text(d) = t
                          /\ now <= answer[d].made + Ttl
                          => answer[d].of = of
    <3> SUFFICES ASSUME NEW d \in Calls, answer[d].kind = "cached", SessionOf(d) = s, Text(d) = t,
                        now <= answer[d].made + Ttl
                 PROVE  answer[d].of = of
      OBVIOUS
    <3>1. Kept(rc[c].raw, global.raw, t, answer[d].of, answer[d].made, now)
      BY <1>5 DEF Frozen, Promises
    <3>2. QED
      BY <1>8, <2>8, <3>1 DEF Kept
  <2>18. FrozenOutputs'
    BY <1>1, <2>5, <2>11, <2>17, FrozenAnswer
  <2>19. Promises'
    <3> SUFFICES ASSUME NEW d \in Calls, answer'[d].kind = "cached", NEW sraw, NEW graw,
                        SessionRaw(SessionOf(d), sraw)', GlobalRaw(graw)'
                 PROVE  Kept(sraw, graw, Text(d), answer'[d].of, answer'[d].made, now)
      BY <1>1 DEF Promises, Kept, Text
    <3>1. SessionOf(d)' = SessionOf(d) /\ SessionOf(c)' = s
      BY <1>1 DEF SessionOf
    <3>2. graw = global.raw
      BY <1>1, <2>14 DEF GlobalRaw
    <3>3. \/ sraw = cacheFile[SessionOf(d)].raw
          \/ SessionOf(d) = s /\ sraw = raw
      BY <1>1, <2>12, <2>14, <3>1 DEF SessionRaw
    <3>4. CASE d = c
      <4>1. CASE sraw = file.raw
        BY <1>8, <2>8, <2>11, <3>2, <3>4, <4>1 DEF Kept
      <4>2. CASE sraw = raw
        BY <2>6, <2>9, <2>10, <2>11, <3>2, <3>4, <4>2 DEF Kept
      <4>3. QED
        BY <3>3, <3>4, <4>1, <4>2
    <3>5. CASE d # c
      <4>1. answer'[d] = answer[d] /\ answer[d].made \in Nat /\ answer[d].made <= now
        BY <2>5, <3>5, CachedTyped DEF Frozen, Dates
      <4>2. CASE sraw = cacheFile[SessionOf(d)].raw
        BY <3>2, <4>1, <4>2 DEF Frozen, Promises, SessionRaw, GlobalRaw
      <4>3. CASE SessionOf(d) = s /\ sraw = raw
        <5>1. Kept(rc[c].raw, global.raw, Text(d), answer[d].of, answer[d].made, now)
          BY <1>5, <4>1, <4>3 DEF Frozen, Promises
        <5>2. Text(d) = t /\ now <= answer[d].made + Ttl
                => raw[t].of = answer[d].of /\ answer[d].made <= raw[t].ts
          BY <2>10, <2>17, <4>1, <4>3
        <5>3. QED
          BY <1>2, <1>8, <2>9, <3>2, <4>1, <4>3, <5>1, <5>2, KeptInserted
      <4>4. QED
        BY <3>3, <4>2, <4>3
    <3>6. QED
      BY <3>4, <3>5
  <2>20. QED
    BY <2>15, <2>16, <2>18, <2>19 DEF Frozen
<1>10. CASE t \notin DOMAIN cache.raw
  <2>1. Goto(c, "tier3") /\ grc' = [grc EXCEPT ![c] = cache] /\ UNCHANGED <<rc, saves>>
    BY <1>3, <1>10 DEF Tier2
  <2> HIDE DEF cache
  <2>2. /\ grc'[c] = cache /\ pc'[c] = "tier3" /\ UNCHANGED answer
        /\ \A d \in Calls : d # c => grc'[d] = grc[d] /\ pc'[d] = pc[d]
    BY <2>1 DEF Goto, TypeOK
  <2>3. /\ \A d \in Calls : d # c => ~HoldsRc(d)' /\ ~HoldsGrc(d)' /\ ~Alive(d)'
    BY <1>1, <1>4, <2>1, <2>2 DEF HoldsRc, HoldsGrc, Missed, Unsaved, Alive
  <2>4. Misses'
    <3>1. \A d \in Calls : pc'[d] = "tier2" \/ Missed(d)' => d = c
      BY <2>3 DEF HoldsRc
    <3>2. pc'[c] # "tier2" /\ Text(c)' = t
      BY <1>1, <2>2 DEF Text
    <3>3. QED
      BY <1>8, <1>10, <2>1, <2>2, <3>1, <3>2 DEF Misses
  <2>5. Dated(cache.raw, now)
    BY <1>6, <1>7 DEF Dated, Retain
  <2>6. Dates'
    BY <1>1, <2>1, <2>2, <2>3, <2>5 DEF Frozen, Dates
  <2>7. Promises'
    <3> SUFFICES ASSUME NEW d \in Calls, answer[d].kind = "cached", NEW sraw, NEW graw,
                        SessionRaw(SessionOf(d), sraw)', GlobalRaw(graw)'
                 PROVE  Kept(sraw, graw, Text(d), answer[d].of, answer[d].made, now)
      BY <1>1, <2>2 DEF Promises, Kept, SessionOf, Text
    <3>1. SessionRaw(SessionOf(d), sraw)
      BY <1>1, <1>4, <2>1, <2>3 DEF SessionRaw, SessionOf
    <3>2. graw = global.raw \/ graw = cache.raw
      BY <1>1, <2>2, <2>3 DEF GlobalRaw
    <3>3. Kept(sraw, global.raw, Text(d), answer[d].of, answer[d].made, now)
      BY <1>5, <3>1 DEF Frozen, Promises
    <3>4. answer[d].made \in Nat
      BY CachedTyped
    <3>5. QED
      BY <1>2, <1>3, <1>7, <3>2, <3>3, <3>4, KeptGlobalEvicted
  <2>8. FrozenOutputs'
    BY <1>1, <2>2, FrozenSame DEF Frozen
  <2>9. QED
    BY <2>4, <2>6, <2>7, <2>8 DEF Frozen
<1>11. QED
  BY <1>9, <1>10

\* Both caches get the new output: no promise about its text is due.
LEMMA FrozenStore ==
  ASSUME Roomy, TypeOK, CacheInv, Solo, Frozen, NEW c \in Calls, Store(c)
  PROVE  Frozen'
<1> USE DEF files, copies
<1> DEFINE s == SessionOf(c)
           t == Text(c)
           e == Entry(c, now, now)
<1>1. pc[c] = "store" /\ Missed(c) /\ Alive(c) /\ UNCHANGED <<now, files, job, sess>>
  BY DEF Store, Missed, Alive
<1>2. t \in Texts /\ now \in Nat /\ IsCache(rc[c]) /\ IsCache(grc[c])
  BY <1>1, JobTyped, HookConstants DEF TypeOK, Times
<1>3. /\ \A d \in Calls : d # c => ~HoldsRc(d) /\ ~HoldsGrc(d) /\ ~Alive(d)
      /\ HoldsRc(c) /\ HoldsGrc(c)
  BY <1>1, LookingAlone DEF Missed
<1>4. t \notin DOMAIN rc[c].raw /\ t \notin DOMAIN grc[c].raw
  BY <1>1 DEF Frozen, Misses
<1>5. PICK raw \in Inserted(rc[c].raw, t, e), graw \in Inserted(grc[c].raw, t, e) :
        /\ \E norm : rc' = [rc EXCEPT ![c] = [raw |-> raw, norm |-> norm]]
        /\ grc' = [grc EXCEPT ![c] = [raw |-> graw, norm |-> grc[c].norm]]
  BY DEF Store
<1>6. /\ Answer(c, "full", c, 0, now)
      /\ saves' = [saves EXCEPT ![c]["rc"] = "pending", ![c]["grc"] = "pending"]
  BY DEF Store
<1>7. /\ e.of = c /\ e.made = now /\ e.ts = now
  BY DEF Entry
<1> HIDE DEF e
<1>8. /\ DOMAIN raw = DOMAIN rc[c].raw \cup {t} /\ raw[t] = e
      /\ \A u \in DOMAIN rc[c].raw : raw[u] = rc[c].raw[u]
      /\ DOMAIN graw = DOMAIN grc[c].raw \cup {t} /\ graw[t] = e
      /\ \A u \in DOMAIN grc[c].raw : graw[u] = grc[c].raw[u]
  <2> DEFINE f == rc[c].raw
             g == grc[c].raw
  <2>1. /\ DOMAIN f \subseteq Texts /\ t \in Texts /\ t \notin DOMAIN f /\ raw \in Inserted(f, t, e)
        /\ DOMAIN g \subseteq Texts /\ t \notin DOMAIN g /\ graw \in Inserted(g, t, e)
    BY <1>2, <1>4, <1>5 DEF IsCache, IsMap
  <2> HIDE DEF f, g, t
  <2>2. raw = With(f, t, e) /\ graw = With(g, t, e)
    BY <2>1, HasRoom DEF Inserted
  <2>3. /\ DOMAIN raw = DOMAIN f \cup {t} /\ raw[t] = e /\ \A u \in DOMAIN f : raw[u] = f[u]
        /\ DOMAIN graw = DOMAIN g \cup {t} /\ graw[t] = e /\ \A u \in DOMAIN g : graw[u] = g[u]
    BY <2>1, <2>2 DEF With
  <2>4. QED
    BY <2>3 DEF f, g
<1>9. /\ rc'[c].raw = raw /\ grc'[c].raw = graw
      /\ \A d \in Calls : d # c => rc'[d] = rc[d] /\ grc'[d] = grc[d]
  BY <1>5 DEF TypeOK
<1>10. /\ answer'[c].kind = "full" /\ pc'[c] = "returned"
       /\ \A d \in Calls : d # c => answer'[d] = answer[d] /\ pc'[d] = pc[d]
  BY <1>6 DEF Answer, TypeOK
<1>11. \A d \in Calls : d # c => saves'[d] = saves[d]
  BY <1>6 DEF TypeOK
<1>12. /\ \A d \in Calls : d # c => ~HoldsRc(d)' /\ ~HoldsGrc(d)' /\ ~Alive(d)'
       /\ \A d \in Calls : pc'[d] # "tier2" /\ ~Missed(d)'
  BY <1>3, <1>10, <1>11 DEF HoldsRc, HoldsGrc, Missed, Unsaved, Alive
<1>13. Misses'
  BY <1>12 DEF Misses
<1>14. Dates'
  <2>1. Dated(rc[c].raw, now) /\ Dated(grc[c].raw, now)
    BY DEF Frozen, Dates
  <2>2. Dated(raw, now) /\ Dated(graw, now)
    BY <1>2, <1>7, <1>8, <2>1 DEF Dated
  <2>3. QED
    BY <1>1, <1>9, <1>10, <1>12, <2>2 DEF Frozen, Dates
<1>15. FrozenOutputs'
  BY <1>1, <1>10, FrozenSame DEF Frozen
<1>16. Promises'
  <2> SUFFICES ASSUME NEW d \in Calls, answer'[d].kind = "cached", NEW sr, NEW gr,
                      SessionRaw(SessionOf(d), sr)', GlobalRaw(gr)'
               PROVE  Kept(sr, gr, Text(d), answer'[d].of, answer'[d].made, now)
    BY <1>1 DEF Promises, Kept, Text
  <2>1. /\ answer'[d] = answer[d] /\ answer[d].kind = "cached" /\ answer[d].made \in Nat
        /\ SessionOf(d)' = SessionOf(d) /\ SessionOf(c)' = s
    BY <1>1, <1>10, CachedTyped DEF SessionOf
  <2> DEFINE K(x, y) == Kept(x, y, Text(d), answer[d].of, answer[d].made, now)
  <2>2. \A x, y : SessionRaw(SessionOf(d), x) /\ GlobalRaw(y) => K(x, y)
    BY <2>1 DEF Frozen, Promises
  <2>3. GlobalRaw(cacheFile[Global].raw) /\ GlobalRaw(grc[c].raw) /\ SessionRaw(s, rc[c].raw)
    BY <1>3 DEF SessionRaw, GlobalRaw
  <2>4. SessionRaw(SessionOf(d), sr) \/ (SessionOf(d) = s /\ sr = raw)
    BY <1>1, <1>9, <1>12, <2>1 DEF SessionRaw
  <2>5. gr = cacheFile[Global].raw \/ gr = graw
    BY <1>1, <1>9, <1>12 DEF GlobalRaw
  <2>6. ASSUME NEW x, SessionRaw(SessionOf(d), x) PROVE K(x, gr)
    <3>1. K(x, cacheFile[Global].raw) /\ K(x, grc[c].raw)
      BY <2>2, <2>3, <2>6
    <3>2. K(x, graw)
      BY <1>4, <1>8, <3>1, KeptGlobalInserted
    <3>3. QED
      BY <2>5, <3>1, <3>2
  <2>7. CASE SessionOf(d) = s /\ sr = raw
    <3>1. K(rc[c].raw, gr) /\ K(rc[c].raw, grc[c].raw)
      BY <2>2, <2>3, <2>6, <2>7
    <3>2. Text(d) = t => ~(now <= answer[d].made + Ttl)
      BY <1>4, <3>1 DEF Kept
    <3>3. QED
      BY <1>2, <1>4, <1>8, <2>1, <2>7, <3>1, <3>2, KeptInserted
  <2>8. QED
    BY <2>1, <2>4, <2>6, <2>7
<1>17. QED
  BY <1>13, <1>14, <1>15, <1>16 DEF Frozen

\* The steps that look nothing up and store nothing in a cache.
LEMMA FrozenCall ==
  ASSUME ~Parallel, TypeOK, CacheInv, Solo, Frozen, NEW c \in Calls,
         Begin(c) \/ Tier3(c) \/ Poll(c) \/ Compress(c)
  PROVE  Frozen'
<1> USE DEF files, copies
<1>1. \A d \in Calls : Alive(d) => job[d].began = now
  BY DEF Frozen, Dates
<1>2. CASE Begin(c)
  <2>1. /\ \A d \in Calls : pc[d] \in {"idle", "exited"}
        /\ pc[c] = "idle" /\ UNCHANGED <<now, cacheFile, rc, grc, saves, answer>>
        /\ pc' = [pc EXCEPT ![c] = "tier1"]
        /\ \E s \in Sessions, t \in Texts :
             job' = [job EXCEPT ![c] = [session |-> s, text |-> t, began |-> now]]
    BY <1>2 DEF Begin, Goto
  <2>2. /\ pc'[c] = "tier1" /\ job'[c].began = now
        /\ \A d \in Calls : d # c => pc'[d] = pc[d] /\ job'[d] = job[d]
    BY <2>1 DEF TypeOK
  <2>3. answer[c].kind # "cached"
    BY <2>1, CachedTyped
  <2>4. \A d \in Calls, k \in CacheKinds : saves[d][k] = "none"
    BY <2>1 DEF Solo, SaveSound
  <2>5. \A d \in Calls : ~HoldsRc(d)' /\ ~HoldsGrc(d)'
    BY <2>1, <2>2, <2>4 DEF HoldsRc, HoldsGrc, Missed, Unsaved, CacheKinds
  <2>6. \A d \in Calls : pc'[d] # "tier2" /\ ~Missed(d)'
    BY <2>5 DEF HoldsRc
  <2>7. \A d \in Calls : Alive(d)' => d = c
    BY <2>1, <2>2 DEF Alive
  <2>8. QED
    BY <2>1, <2>2, <2>3, <2>5, <2>6, <2>7, FrozenFrame
<1>3. CASE Tier3(c) \/ Poll(c) \/ Compress(c)
  <2>1. /\ Missed(c) /\ Alive(c) /\ UNCHANGED <<now, cacheFile, job, rc, grc>>
        /\ \A d \in Calls : saves'[d]["rc"] = saves[d]["rc"] /\ saves'[d]["grc"] = saves[d]["grc"]
    <3>1. UNCHANGED saves \/ saves' = [saves EXCEPT ![c]["session"] = "pending"]
      BY <1>3 DEF Tier3, Poll, Compress, Recorded
    <3>2. \A d \in Calls : saves'[d]["rc"] = saves[d]["rc"] /\ saves'[d]["grc"] = saves[d]["grc"]
      BY <3>1 DEF TypeOK, SaveKinds
    <3>3. pc[c] \in {"tier3", "poll", "compress"} /\ UNCHANGED <<now, cacheFile, job, rc, grc>>
      BY <1>3 DEF Tier3, Poll, Compress
    <3>4. QED
      BY <3>2, <3>3 DEF Missed, Alive
  <2>2. /\ pc'[c] \in {"poll", "compress", "store", "returned"}
        /\ \A d \in Calls : d # c => pc'[d] = pc[d]
    BY <1>3 DEF Tier3, Poll, Compress, Answer, Goto, TypeOK
  <2>3. \A d \in Calls : answer'[d].kind = "cached" => answer'[d] = answer[d]
    <3>1. UNCHANGED answer \/ \E kind \in {"unchanged", "same", "none"} : \E of, turn, made :
                                Answer(c, kind, of, turn, made)
      BY <1>3 DEF Tier3, Poll, Compress, Goto
    <3>2. QED
      BY <3>1 DEF Answer, TypeOK
  <2>4. \A d \in Calls : /\ Missed(d)' => Missed(d)
                         /\ pc'[d] = "tier2" => pc[d] = "tier2"
                         /\ Alive(d)' => Alive(d)
    BY <2>1, <2>2 DEF Missed, Alive
  <2>5. \A d \in Calls : (HoldsRc(d)' => HoldsRc(d)) /\ (HoldsGrc(d)' => HoldsGrc(d))
    <3>1. HoldsRc(c) /\ HoldsGrc(c)
      BY <2>1 DEF HoldsRc, HoldsGrc
    <3>2. ASSUME NEW d \in Calls, d # c
          PROVE  (HoldsRc(d)' => HoldsRc(d)) /\ (HoldsGrc(d)' => HoldsGrc(d))
      BY <2>1, <2>2, <3>2 DEF HoldsRc, HoldsGrc, Unsaved, Missed
    <3>3. QED
      BY <3>1, <3>2
  <2>6. \A d \in Calls : Alive(d)' => job'[d].began = now
    BY <1>1, <2>1, <2>4
  <2>7. ASSUME NEW d \in Calls
        PROVE  /\ answer'[d].kind = "cached" => answer'[d] = answer[d] /\ job'[d] = job[d]
               /\ HoldsRc(d)' => HoldsRc(d) /\ rc'[d] = rc[d] /\ job'[d] = job[d]
               /\ HoldsGrc(d)' => HoldsGrc(d) /\ grc'[d] = grc[d]
               /\ rc'[d] \in {rc[d], EmptyCache} /\ grc'[d] \in {grc[d], EmptyCache}
               /\ Alive(d)' => job'[d].began = now
               /\ pc'[d] = "tier2" => pc[d] = "tier2"
               /\ Missed(d)' => Missed(d)
    BY <2>1, <2>3, <2>4, <2>5, <2>6
  <2>8. QED
    BY <2>1, <2>7, FrozenFrame
<1>4. QED
  BY <1>2, <1>3

\* A process that is gone takes its copies and unfinished saves with it.
LEMMA FrozenGone ==
  ASSUME TypeOK, CacheInv, Solo, Frozen, NEW c \in Calls, Exit(c) \/ Kill(c)
  PROVE  Frozen'
<1> USE DEF files
<1>1. /\ UNCHANGED <<now, cacheFile, job>> /\ pc' = [pc EXCEPT ![c] = "exited"]
      /\ rc' = [rc EXCEPT ![c] = EmptyCache] /\ grc' = [grc EXCEPT ![c] = EmptyCache]
      /\ saves' = [saves EXCEPT ![c] = [k \in SaveKinds |-> "none"]]
  BY DEF Exit, Kill, Gone
<1>2. \A d \in Calls : answer'[d].kind = "cached" => answer'[d] = answer[d]
  <2>1. UNCHANGED answer \/ answer' = [answer EXCEPT ![c] = NoAnswer]
    BY DEF Exit, Kill
  <2>2. QED
    BY <2>1 DEF NoAnswer, TypeOK
<1>3. /\ pc'[c] = "exited" /\ rc'[c] = EmptyCache /\ grc'[c] = EmptyCache
      /\ saves'[c]["rc"] = "none" /\ saves'[c]["grc"] = "none"
      /\ \A d \in Calls : d # c => /\ pc'[d] = pc[d] /\ saves'[d] = saves[d]
                                   /\ rc'[d] = rc[d] /\ grc'[d] = grc[d]
  BY <1>1 DEF TypeOK, SaveKinds
<1>4. ~HoldsRc(c)' /\ ~HoldsGrc(c)' /\ ~Missed(c)' /\ ~Alive(c)' /\ pc'[c] # "tier2"
  BY <1>3 DEF HoldsRc, HoldsGrc, Missed, Unsaved, Alive
<1>5. \A d \in Calls : d # c => /\ HoldsRc(d)' => HoldsRc(d)
                                /\ HoldsGrc(d)' => HoldsGrc(d)
                                /\ Missed(d)' => Missed(d)
                                /\ Alive(d)' => Alive(d)
  BY <1>3 DEF HoldsRc, HoldsGrc, Missed, Unsaved, Alive
<1>6. \A d \in Calls : Alive(d) => job[d].began = now
  BY DEF Frozen, Dates
<1>7. \A d \in Calls :
        /\ answer'[d].kind = "cached" => answer'[d] = answer[d] /\ job'[d] = job[d]
        /\ HoldsRc(d)' => HoldsRc(d) /\ rc'[d] = rc[d] /\ job'[d] = job[d]
        /\ HoldsGrc(d)' => HoldsGrc(d) /\ grc'[d] = grc[d]
        /\ rc'[d] \in {rc[d], EmptyCache} /\ grc'[d] \in {grc[d], EmptyCache}
        /\ Alive(d)' => job'[d].began = now
        /\ pc'[d] = "tier2" => pc[d] = "tier2"
        /\ Missed(d)' => Missed(d)
  BY <1>1, <1>2, <1>3, <1>4, <1>5, <1>6
<1>8. QED
  BY <1>1, <1>7, FrozenFrame

\* What a thread renames into place is the copy it saves: no new value.
LEMMA FrozenSave ==
  ASSUME TypeOK, CacheInv, Solo, Frozen, NEW c \in Calls,
         \/ SessionOpen(c) \/ SessionWrite(c)
         \/ \E k \in CacheKinds : CacheOpen(c, k) \/ CacheWrite(c, k) \/ CacheRename(c, k)
  PROVE  Frozen'
<1> USE DEF copies
<1>1. CASE SessionOpen(c) \/ SessionWrite(c)
  <2>1. /\ UNCHANGED <<now, cacheFile, pc, job, rc, grc, answer>>
        /\ \E to : saves' = [saves EXCEPT ![c]["session"] = to]
    BY <1>1 DEF SessionOpen, SessionWrite, Save
  <2>2. \A d \in Calls : saves'[d]["rc"] = saves[d]["rc"] /\ saves'[d]["grc"] = saves[d]["grc"]
    BY <2>1 DEF TypeOK, SaveKinds
  <2>3. \A d \in Calls : /\ HoldsRc(d)' => HoldsRc(d)
                         /\ HoldsGrc(d)' => HoldsGrc(d)
                         /\ Missed(d)' => Missed(d)
    BY <2>1, <2>2 DEF HoldsRc, HoldsGrc, Missed, Unsaved
  <2>4. \A d \in Calls : Alive(d)' => job'[d].began = now
    BY <2>1 DEF Frozen, Dates, Alive
  <2>5. QED
    BY <2>1, <2>3, <2>4, FrozenFrame
<1>2. ASSUME NEW k \in CacheKinds, CacheOpen(c, k) \/ CacheWrite(c, k) \/ CacheRename(c, k)
      PROVE  Frozen'
  <2> DEFINE f == FileOf(c, k)
  <2>1. /\ Alive(c) /\ SaveSound(c, k) /\ saves[c][k] \in {"pending", "open", "written"}
        /\ UNCHANGED <<now, pc, job, rc, grc, answer>>
    BY <1>2 DEF CacheOpen, CacheWrite, CacheRename, Save, Solo, SaveSound
  <2>2. pc[c] = "returned" /\ \A d \in Calls : d # c => ~Alive(d)
    BY <2>1 DEF SaveSound, Solo, Alone
  <2>3. \A d \in Calls : d # c => saves[d]["rc"] = "none" /\ saves[d]["grc"] = "none"
    BY <2>2 DEF Solo, SaveSound, CacheKinds, Alive
  <2>4. f \in Caches /\ \A j \in CacheKinds : j # k => FileOf(c, j) # f
    BY <2>2, JobTyped, HookConstants DEF FileOf, Caches, CacheKinds
  <2>5. \A d \in Calls, j \in CacheKinds :
          saves'[d][j] \in {"pending", "open", "written"} => saves[d][j] \in {"pending", "open", "written"}
    <3>1. ASSUME NEW from, NEW to, Save(c, k, from, to)
          PROVE  \A d \in Calls, j \in CacheKinds : d # c \/ j # k => saves'[d][j] = saves[d][j]
      BY <3>1 DEF Save, TypeOK, CacheKinds, SaveKinds
    <3>2. CASE CacheOpen(c, k) \/ CacheWrite(c, k)
      <4>1. \A d \in Calls, j \in CacheKinds : d # c \/ j # k => saves'[d][j] = saves[d][j]
        BY <3>1, <3>2 DEF CacheOpen, CacheWrite
      <4>2. QED
        BY <2>1, <4>1
    <3>3. CASE CacheRename(c, k)
      <4>1. CASE tmpFile[f] = Never
        BY <2>1, <3>3, <4>1 DEF CacheRename, TypeOK, CacheKinds, SaveKinds
      <4>2. CASE tmpFile[f] # Never
        <5>1. \A d \in Calls, j \in CacheKinds :
                saves'[d][j] = IF d = c /\ j = k THEN "done"
                               ELSE IF j # "session" /\ Alive(d) /\ FileOf(d, j) = f
                                    THEN AfterRename(saves[d][j])
                                    ELSE saves[d][j]
          BY <3>3, <4>2 DEF CacheRename, CacheKinds, SaveKinds
        <5>2. \A d \in Calls, j \in CacheKinds :
                ~(d = c /\ j = k) => ~(Alive(d) /\ FileOf(d, j) = f)
          BY <2>2, <2>4
        <5>3. QED
          BY <5>1, <5>2
      <4>3. QED
        BY <4>1, <4>2
    <3>4. QED
      BY <1>2, <3>2, <3>3
  <2>6. cacheFile' = cacheFile \/ cacheFile' = [cacheFile EXCEPT ![f] = Content(c, k)]
    BY <1>2, <2>1 DEF CacheOpen, CacheWrite, CacheRename, Save, SaveSound
  <2>7. \A d \in Calls : (HoldsRc(d)' => HoldsRc(d)) /\ (HoldsGrc(d)' => HoldsGrc(d))
    <3>1. \A d \in Calls, j \in CacheKinds : Unsaved(d, j)' => Unsaved(d, j)
      BY <2>5 DEF Unsaved
    <3>2. \A d \in Calls : /\ Unsaved(d, "rc")' => Unsaved(d, "rc")
                           /\ Unsaved(d, "grc")' => Unsaved(d, "grc")
      BY <3>1 DEF CacheKinds
    <3>3. QED
      BY <2>1, <3>2 DEF HoldsRc, HoldsGrc, Missed
  <2>8. Content(c, k).raw = IF k = "rc" THEN rc[c].raw ELSE grc[c].raw
    BY DEF Content, RawOnly
  <2>9. Unsaved(c, k)
    BY <2>1 DEF Unsaved
  <2>10. \A e \in Caches : cacheFile'[e] = cacheFile[e] \/ (e = f /\ cacheFile'[e] = Content(c, k))
    BY <2>6 DEF TypeOK
  <2>11. \A s \in Sessions : \A raw : SessionRaw(s, raw)' => SessionRaw(s, raw)
    <3> SUFFICES ASSUME NEW s \in Sessions, NEW raw, SessionRaw(s, raw)' PROVE SessionRaw(s, raw)
      OBVIOUS
    <3>1. CASE raw = cacheFile'[s].raw /\ cacheFile'[s] # cacheFile[s]
      <4>1. s = f /\ raw = Content(c, k).raw
        BY <2>10, <3>1 DEF Caches
      <4>2. k = "rc" /\ f = SessionOf(c)
        BY <4>1, HookConstants DEF FileOf
      <4>3. HoldsRc(c)
        BY <2>9, <4>2 DEF HoldsRc
      <4>4. QED
        BY <2>8, <4>1, <4>2, <4>3 DEF SessionRaw
    <3>2. CASE raw = cacheFile[s].raw
      BY <3>2 DEF SessionRaw
    <3>3. CASE \E d \in Calls : HoldsRc(d)' /\ SessionOf(d)' = s /\ raw = rc'[d].raw
      BY <2>1, <2>7, <3>3 DEF SessionRaw, SessionOf
    <3>4. QED
      BY <3>1, <3>2, <3>3 DEF SessionRaw
  <2>12. \A raw : GlobalRaw(raw)' => GlobalRaw(raw)
    <3> SUFFICES ASSUME NEW raw, GlobalRaw(raw)' PROVE GlobalRaw(raw)
      OBVIOUS
    <3>1. CASE raw = cacheFile'[Global].raw /\ cacheFile'[Global] # cacheFile[Global]
      <4>1. Global = f /\ raw = Content(c, k).raw
        BY <2>10, <3>1 DEF Caches
      <4>2. k # "rc"
        BY <2>2, <4>1, JobTyped, HookConstants DEF FileOf
      <4>3. HoldsGrc(c)
        BY <2>9, <4>2 DEF HoldsGrc, CacheKinds
      <4>4. QED
        BY <2>8, <4>1, <4>2, <4>3 DEF GlobalRaw
    <3>2. CASE raw = cacheFile[Global].raw
      BY <3>2 DEF GlobalRaw
    <3>3. CASE \E d \in Calls : HoldsGrc(d)' /\ raw = grc'[d].raw
      BY <2>1, <2>7, <3>3 DEF GlobalRaw
    <3>4. QED
      BY <3>1, <3>2, <3>3 DEF GlobalRaw
  <2>13. Dates'
    <3>1. Dated(Content(c, k).raw, now)
      BY <2>8 DEF Frozen, Dates
    <3>2. \A e \in Caches : Dated(cacheFile'[e].raw, now)
      BY <2>10, <3>1 DEF Frozen, Dates
    <3>3. QED
      BY <2>1, <3>2 DEF Frozen, Dates, Alive
  <2>14. Misses'
    BY <2>1, <2>2 DEF Misses, Missed, Alive
  <2>15. Promises'
    BY <2>1, <2>11, <2>12, PromisesLast DEF Frozen
  <2>16. FrozenOutputs'
    BY <2>1, FrozenSame DEF Frozen
  <2>17. QED
    BY <2>13, <2>14, <2>15, <2>16 DEF Frozen
<1>3. QED
  BY <1>1, <1>2

\* While no call runs time may pass: promises run out.
LEMMA FrozenTick ==
  ASSUME TypeOK, CacheInv, Solo, Frozen, Tick, Quiet
  PROVE  Frozen'
<1> USE DEF files, copies
<1>1. now \in Nat /\ now' = now + 1 /\ UNCHANGED <<files, pc, job, copies, saves, answer>>
  BY HookConstants DEF Tick, TypeOK, Times
<1>2. \A c \in Calls : pc[c] \in {"idle", "exited"}
  BY DEF Quiet
<1>3. \A c \in Calls : ~HoldsRc(c)' /\ ~HoldsGrc(c)' /\ pc'[c] # "tier2" /\ ~Missed(c)' /\ ~Alive(c)'
  <2>1. \A c \in Calls : saves[c]["rc"] = "none" /\ saves[c]["grc"] = "none"
    BY <1>2 DEF Solo, SaveSound, CacheKinds
  <2>2. QED
    BY <1>1, <1>2, <2>1 DEF HoldsRc, HoldsGrc, Missed, Unsaved, Alive
<1>4. Misses'
  BY <1>3 DEF Misses
<1>5. Dates'
  <2>1. ASSUME NEW raw, Timed(raw), Dated(raw, now) PROVE Dated(raw, now + 1)
    BY <1>1, <2>1 DEF Timed, Dated
  <2>2. \A f \in Caches : Timed(cacheFile[f].raw)
    BY LoadsWhole
  <2>3. \A c \in Calls : Timed(rc[c].raw) /\ Timed(grc[c].raw)
    BY CacheTimed DEF TypeOK
  <2>4. \A f \in Caches : Dated(cacheFile'[f].raw, now')
    BY <1>1, <2>1, <2>2 DEF Frozen, Dates
  <2>5. \A c \in Calls : Dated(rc'[c].raw, now') /\ Dated(grc'[c].raw, now')
    BY <1>1, <2>1, <2>3 DEF Frozen, Dates
  <2>6. \A c \in Calls : answer[c].kind = "cached" => answer[c].made <= now + 1
    BY <1>1, CachedTyped DEF Frozen, Dates
  <2>7. QED
    BY <1>1, <1>3, <2>4, <2>5, <2>6 DEF Dates
<1>6. Promises'
  <2> SUFFICES ASSUME NEW c \in Calls, answer[c].kind = "cached", NEW sraw, NEW graw,
                      SessionRaw(SessionOf(c), sraw)', GlobalRaw(graw)'
               PROVE  Kept(sraw, graw, Text(c), answer[c].of, answer[c].made, now + 1)
    BY <1>1 DEF Promises, Kept, SessionOf, Text
  <2>1. SessionOf(c)' = SessionOf(c) /\ SessionOf(c) \in Caches /\ answer[c].made \in Nat
    BY <1>1, CachedTyped, JobTyped DEF SessionOf, Caches
  <2>2. sraw = cacheFile[SessionOf(c)].raw /\ graw = cacheFile[Global].raw
    BY <1>1, <1>3, <2>1 DEF SessionRaw, GlobalRaw
  <2>3. Kept(sraw, graw, Text(c), answer[c].of, answer[c].made, now)
    BY <2>2 DEF Frozen, Promises, SessionRaw, GlobalRaw
  <2>4. Timed(sraw)
    BY <2>1, <2>2, LoadsWhole
  <2>5. QED
    BY <1>1, <2>1, <2>3, <2>4, KeptLater
<1>7. FrozenOutputs'
  BY <1>1, FrozenSame DEF Frozen
<1>8. QED
  BY <1>4, <1>5, <1>6, <1>7 DEF Frozen

LEMMA FrozenStep ==
  ASSUME ~Parallel, Ttl <= GlobalTtl, Roomy
  PROVE  TypeOK /\ CacheInv /\ Solo /\ Frozen /\ [Next /\ (Tick => Quiet)]_vars => Frozen'
<1> SUFFICES ASSUME TypeOK, CacheInv, Solo, Frozen, [Next /\ (Tick => Quiet)]_vars PROVE Frozen'
  OBVIOUS
<1>1. CASE UNCHANGED vars
  BY <1>1 DEF vars, files, copies, Frozen, Dates, Misses, Promises, FrozenOutputs, Missed, HoldsRc, HoldsGrc,
              Unsaved, SessionRaw, GlobalRaw, SessionOf, Text, Alive
<1>2. CASE Tick /\ Quiet
  BY <1>2, FrozenTick
<1>3. ASSUME NEW c \in Calls, Steps(c) PROVE Frozen'
  BY <1>3, FrozenCall, FrozenTier1, FrozenTier2, FrozenStore, FrozenGone, FrozenSave DEF Steps, CacheKinds
<1>4. QED
  BY <1>1, <1>2, <1>3 DEF Next

LEMMA FrozenInit == Init => Frozen
<1> SUFFICES ASSUME Init PROVE Frozen
  OBVIOUS
<1>1. \A c \in Calls : answer[c].kind # "cached" /\ pc[c] = "idle"
  BY DEF Init, NoAnswer
<1>2. Dates
  BY <1>1 DEF Init, Dates, Dated, EmptyCache, Alive
<1>3. QED
  BY <1>1, <1>2 DEF Frozen, Misses, Missed, Promises, FrozenOutputs

\* "Frozen - byte-identical on every hit" (result_cache.rs:28): for any number of
\* brief calls one at a time that may die at any step, and no more texts than a
\* cache holds, the hits of a session on a text return one compression while it
\* lives.  The invariant says where each answer given is still kept.
THEOREM OutputsFrozen ==
  ASSUME ~Parallel, Ttl <= GlobalTtl, Roomy
  PROVE  BriefSpec => []FrozenOutputs
<1>1. TypeOK /\ Solo /\ [Next /\ (Tick => Quiet)]_vars => Solo'
  BY SoloStep
<1>2. TypeOK /\ CacheInv /\ [Next /\ (Tick => Quiet)]_vars => CacheInv'
  BY CacheStep
<1>3. TypeOK /\ [Next /\ (Tick => Quiet)]_vars => TypeOK'
  BY TypeStep
<1>4. TypeOK /\ CacheInv /\ Solo /\ Frozen /\ [Next /\ (Tick => Quiet)]_vars => Frozen'
  BY FrozenStep
<1>5. Frozen => FrozenOutputs
  BY DEF Frozen
<1>6. QED
  BY <1>1, <1>2, <1>3, <1>4, <1>5, TypeInit, CacheInit, SoloInit, FrozenInit, PTL DEF BriefSpec
=============================================================================
