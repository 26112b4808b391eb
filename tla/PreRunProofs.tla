---------------------------- MODULE PreRunProofs -----------------------------
(***************************************************************************)
(* For any number of overlapping calls, any commands, worlds and hashes,   *)
(* any process deaths and any interleaving of the saves: what a hit of the *)
(* pre-run cache prints is what one run filed under the same words and the *)
(* same hash, and a marker names a run of the same command.                *)
(***************************************************************************)
EXTENDS PreRun, FiniteSetTheorems, TLAPS

-----------------------------------------------------------------------------
(* What is known of a text that call d prints or keeps, of a cache and of  *)
(* a session, when `S` are the settled calls, `js` their jobs and `tx` what *)
(* they print.                                                             *)

Shown(d, js) == Prints[js[d].cmd][js[d].ran]

\* A text as dedup gets it: no marker, and whole unless it is a delta.
Unmarked(t, lines) ==
  t \in Texts /\ t.of = Never /\ (~IsDelta(t) => t.lines = lines)

Honest(d, t, S, js, tx) ==
  /\ t \in Texts
  /\ IsMarker(t) =>
       /\ t.of \in S
       /\ DeltaKey[js[t.of].cmd] = DeltaKey[js[d].cmd]
       /\ tx[t.of] \in {Never, [t EXCEPT !.of = Never]}
       /\ js[d].cmd \in StateCommands /\ ~IsDelta(t) => Shown(t.of, js) = Shown(d, js)
  /\ ~IsDelta(t) /\ (IsMarker(t) => js[d].cmd \in StateCommands) => t.lines = Shown(d, js)

\* Call d printed t, or died, and it is filed under slot s and hash k.
Filed(s, k, d, t, S, js, tx) ==
  /\ d \in S /\ Slot[js[d].cmd] = s /\ js[d].key = k
  /\ tx[d] \in {Never, t}
  /\ Honest(d, t, S, js, tx)

CacheSound(x, S, js, tx, time) ==
  /\ DOMAIN x \subseteq Slots
  /\ \A s \in DOMAIN x :
       /\ x[s].ts \in Nat /\ x[s].ts <= time
       /\ Filed(s, x[s].key, x[s].of, x[s].output, S, js, tx)

Entries ==
  [turn : Nat, of : Calls, cmd : {DeltaKey[m] : m \in Commands}, ts : Nat, text : Texts,
   embedded : BOOLEAN]

Ordered(s, time) ==
  /\ s \in [entries : Seq(Entries), total_turns : Nat]
  /\ Session!EntriesAscend(s)
  /\ \A i \in DOMAIN s.entries : s.entries[i].ts <= time

\* What an entry says of the call that recorded it.
Recorded(e, S, js, tx) ==
  /\ e.of \in S /\ e.cmd = DeltaKey[js[e.of].cmd]
  /\ Unmarked(e.text, Shown(e.of, js))
  /\ tx[e.of] \in {Never, e.text}

SessionSound(s, S, js, tx, time) ==
  /\ Ordered(s, time)
  /\ \A i \in DOMAIN s.entries : Recorded(s.entries[i], S, js, tx)

-----------------------------------------------------------------------------
(* The inductive invariant.                                                *)

\* The calls that ran their command and say so no other way any more.
Settled == {c \in Calls : pc[c] \in Saving \cup {"done"} /\ job[c].ran \in Worlds}

Keys == {Unknown} \cup {Fingerprint[s][w] : s \in Slots, w \in Worlds}
Jobs == [cmd : Commands, key : Keys, keyed : Worlds, ran : Worlds \cup {Never},
         from : Calls \cup {Never}]

CallSound(c) ==
  /\ pc[c] # "idle" =>
       /\ job[c] \in Jobs
       /\ job[c].key # Unknown => job[c].key = Fingerprint[Slot[job[c].cmd]][job[c].keyed]
  /\ pc[c] \in {"idle", "lookup", "execute"} => text[c] = Never
  /\ pc[c] \in {"lookup", "execute"} => job[c].ran = Never
  /\ pc[c] \in Saving \cup {"delta", "dedup"} => job[c].ran \in Worlds
  /\ pc[c] = "delta" => text[c] = Whole(Shown(c, job))
  /\ pc[c] = "dedup" => Unmarked(text[c], Shown(c, job))
  /\ pc[c] \in Saving => Honest(c, text[c], Settled, job, text)
  /\ pc[c] = "done" /\ job[c].ran \in Worlds =>
       text[c] = Never \/ Honest(c, text[c], Settled, job, text)
  /\ pc[c] = "done" /\ job[c].ran \notin Worlds =>
       /\ job[c].key # Unknown
       /\ Filed(Slot[job[c].cmd], job[c].key, job[c].from, text[c], Settled, job, text)

CopySound(c) ==
  /\ SessionSound(sess[c], Settled, job, text, now)
  /\ CacheSound(cache[c], Settled, job, text, now)

FilesSound ==
  /\ sessionFile # Torn => SessionSound(sessionFile, Settled, job, text, now)
  /\ cacheFile # Torn => CacheSound(cacheFile, Settled, job, text, now)
  /\ tmpFile \notin {Torn, Never} => CacheSound(tmpFile, Settled, job, text, now)

Shapes ==
  /\ now \in 0..MaxTime /\ world \in Worlds
  /\ pc \in [Calls -> Running \cup {"idle", "done"}]
  /\ DOMAIN job = Calls /\ DOMAIN text = Calls /\ DOMAIN sess = Calls /\ DOMAIN cache = Calls

RunInv ==
  /\ Shapes /\ FilesSound
  /\ \A c \in Calls : CallSound(c) /\ CopySound(c)

-----------------------------------------------------------------------------
(* Sessions.                                                               *)

LEMMA EmptyOrdered == ASSUME NEW time PROVE Ordered(Session!EmptySession, time)
  BY RunConstants DEF Ordered, Session!EmptySession, Session!EntriesAscend

Added(s, c, cmd, t, time) == Session!Record(s, c, cmd, t, TRUE, time)

OldOrNew(e, s, c, cmd, t) ==
  (\E j \in DOMAIN s.entries : e = s.entries[j]) \/ (e.of = c /\ e.cmd = cmd /\ e.text = t)

\* record() keeps a session ordered: the new entry has the next turn.
LEMMA RecordOrdered ==
  ASSUME NEW s, NEW time \in Nat, Ordered(s, time),
         NEW c \in Calls, NEW cmd \in {DeltaKey[m] : m \in Commands}, NEW t \in Texts
  PROVE  /\ Ordered(Added(s, c, cmd, t, time), time)
         /\ \A i \in DOMAIN Added(s, c, cmd, t, time).entries :
              OldOrNew(Added(s, c, cmd, t, time).entries[i], s, c, cmd, t)
<1> DEFINE new == [turn |-> s.total_turns + 1, of |-> c, cmd |-> cmd, ts |-> time,
                   text |-> t, embedded |-> TRUE]
           all == Append(s.entries, new)
           r == Added(s, c, cmd, t, time)
<1>1. /\ s.entries \in Seq(Entries) /\ s.total_turns \in Nat /\ Len(s.entries) <= MaxEntries
  BY RunConstants DEF Ordered, Session!EntriesAscend
<1>0. /\ Len(s.entries) = IF s.total_turns < MaxEntries THEN s.total_turns ELSE MaxEntries
      /\ MaxEntries \in Nat /\ Len(s.entries) \in Nat /\ s.total_turns \in Nat
  BY <1>1, RunConstants DEF Ordered, Session!EntriesAscend
<1>2. new \in Entries /\ new.turn = s.total_turns + 1 /\ new.ts = time
      /\ new.of = c /\ new.cmd = cmd /\ new.text = t
  BY <1>1 DEF Entries
<1> HIDE DEF new
<1>3. /\ all \in Seq(Entries) /\ Len(all) = Len(s.entries) + 1
      /\ \A i \in 1..Len(s.entries) : all[i] = s.entries[i]
      /\ all[Len(all)] = new
  BY <1>1, <1>2
<1>4. /\ r.entries = IF Len(all) > MaxEntries THEN Tail(all) ELSE all
      /\ r.total_turns = s.total_turns + 1
      /\ r = [entries |-> r.entries, total_turns |-> r.total_turns]
  BY DEF Added, Session!Record, Session!Pushed, new
<1> HIDE DEF all, r
<1>r. ASSUME r.entries \in Seq(Entries)
      PROVE  r \in [entries : Seq(Entries), total_turns : Nat]
  <2>1. r.total_turns \in Nat
    BY <1>1, <1>4
  <2>2. [entries |-> r.entries, total_turns |-> r.total_turns]
          \in [entries : Seq(Entries), total_turns : Nat]
    BY <1>r, <2>1
  <2>3. QED
    BY <1>4, <2>2
<1>5. ASSUME NEW i \in 1..Len(s.entries)
      PROVE  /\ all[i] = s.entries[i] /\ all[i].turn \in Nat /\ all[i].ts \in Nat
             /\ all[i].turn = s.total_turns - Len(s.entries) + i /\ all[i].ts <= time
  <2>1. s.entries[i] \in Entries
    BY <1>1
  <2>2. s.entries[i].turn = s.total_turns - Len(s.entries) + i /\ s.entries[i].ts <= time
    BY <1>1 DEF Ordered, Session!EntriesAscend
  <2>3. QED
    BY <1>3, <2>1, <2>2 DEF Entries
<1>6. ASSUME NEW i \in 1..Len(all), NEW j \in 1..Len(all)
      PROVE  /\ all[i].turn = s.total_turns - Len(s.entries) + i /\ all[i].ts <= time
             /\ i < j => all[i].ts <= all[j].ts
  <2>1. Len(s.entries) \in Nat
    BY <1>1
  <2>2. CASE i = Len(all)
    <3>1. all[i].turn = s.total_turns + 1 /\ all[i].ts = time /\ ~(i < j) /\ time <= time
      BY <1>1, <1>2, <1>3, <2>1, <2>2
    <3>2. s.total_turns + 1 = s.total_turns - Len(s.entries) + i
      BY <1>0, <1>3, <2>2
    <3>3. QED
      BY <3>1, <3>2
  <2>3. CASE i \in 1..Len(s.entries) /\ j = Len(all)
    BY <1>1, <1>2, <1>3, <1>5, <2>1, <2>3
  <2>4. CASE i \in 1..Len(s.entries) /\ j \in 1..Len(s.entries)
    <3>1. i < j => s.entries[i].ts <= s.entries[j].ts
      BY <1>1, <2>4 DEF Ordered, Session!EntriesAscend
    <3>2. QED
      BY <1>1, <1>5, <2>1, <2>4, <3>1
  <2>5. QED
    BY <1>3, <2>1, <2>2, <2>3, <2>4
<1>7. \A i \in 1..Len(all) :
        OldOrNew(all[i], s, c, cmd, t)
  BY <1>1, <1>2, <1>3 DEF OldOrNew
<1>8. CASE Len(all) > MaxEntries
  <2>1. /\ r.entries \in Seq(Entries) /\ Len(r.entries) = Len(s.entries)
        /\ \A i \in 1..Len(r.entries) : r.entries[i] = all[i + 1] /\ i + 1 \in 1..Len(all)
    <3>1. MaxEntries \in Nat /\ Len(all) \in Nat /\ r.entries = Tail(all) /\ all # <<>>
      BY <1>0, <1>1, <1>3, <1>4, <1>8
    <3>2. QED
      BY <1>1, <1>3, <3>1
  <2>2. ASSUME NEW i \in 1..Len(r.entries)
        PROVE  /\ r.entries[i].turn = r.total_turns - Len(r.entries) + i /\ r.entries[i].ts <= time
               /\ \A j \in 1..Len(r.entries) : i < j => r.entries[i].ts <= r.entries[j].ts
    <3>1. all[i + 1].turn = s.total_turns - Len(s.entries) + (i + 1) /\ all[i + 1].ts <= time
      BY <1>6, <2>1
    <3>2. Len(s.entries) \in Nat /\ s.total_turns \in Nat /\ i \in Nat
      BY <1>0
    <3>3. s.total_turns - Len(s.entries) + (i + 1) = s.total_turns + 1 - Len(s.entries) + i
      BY <3>2
    <3>4. r.entries[i] = all[i + 1] /\ Len(r.entries) = Len(s.entries) /\ r.total_turns = s.total_turns + 1
      BY <1>4, <2>1
    <3>5. r.entries[i].turn = s.total_turns + 1 - Len(s.entries) + i /\ r.entries[i].ts <= time
      BY <3>1, <3>3, <3>4, Zenon
    <3>6. r.total_turns - Len(r.entries) + i = s.total_turns + 1 - Len(s.entries) + i
      BY <3>2, <3>4
    <3>7. ASSUME NEW j \in 1..Len(r.entries), i < j PROVE r.entries[i].ts <= r.entries[j].ts
      <4>1. i + 1 < j + 1
        BY <3>7
      <4>2. QED
        BY <1>6, <2>1, <4>1
    <3>8. QED
      BY <3>5, <3>6, <3>7, Zenon
  <2>3. r \in [entries : Seq(Entries), total_turns : Nat]
    BY <1>r, <2>1
  <2>4. Ordered(r, time)
    <3>1. DOMAIN r.entries = 1..Len(r.entries)
      BY <2>1
    <3>2. /\ Len(s.entries) + 1 > MaxEntries
          /\ Len(r.entries) = Len(s.entries) /\ r.total_turns = s.total_turns + 1
      BY <1>3, <1>4, <1>8, <2>1
    <3>3. Len(r.entries) = IF r.total_turns < MaxEntries THEN r.total_turns ELSE MaxEntries
      BY <1>0, <3>2
    <3>4. QED
      BY <2>2, <2>3, <3>1, <3>3, Zenon DEF Ordered, Session!EntriesAscend
  <2>5. ASSUME NEW i \in DOMAIN r.entries PROVE OldOrNew(r.entries[i], s, c, cmd, t)
    <3>1. r.entries[i] = all[i + 1] /\ i + 1 \in 1..Len(all)
      BY <2>1
    <3>2. OldOrNew(all[i + 1], s, c, cmd, t)
      BY <1>7, <3>1
    <3>3. QED
      BY <3>1, <3>2
  <2>6. QED
    BY <2>4, <2>5 DEF r
<1>9. CASE ~(Len(all) > MaxEntries)
  <2>1. r.entries = all
    BY <1>4, <1>9
  <2>2. r \in [entries : Seq(Entries), total_turns : Nat]
    BY <1>3, <1>r, <2>1
  <2>3. /\ Len(r.entries) = IF r.total_turns < MaxEntries THEN r.total_turns ELSE MaxEntries
        /\ r.total_turns - Len(r.entries) = s.total_turns - Len(s.entries)
    BY <1>0, <1>3, <1>4, <1>9, <2>1
  <2>4. Ordered(r, time)
    <3>1. DOMAIN r.entries = 1..Len(all)
      BY <1>3, <2>1
    <3>2. QED
      BY <1>6, <2>1, <2>2, <2>3, <3>1 DEF Ordered, Session!EntriesAscend
  <2>5. \A i \in DOMAIN r.entries : OldOrNew(r.entries[i], s, c, cmd, t)
    BY <1>3, <1>7, <2>1
  <2>6. QED
    BY <2>4, <2>5 DEF r
<1>10. QED
  BY <1>8, <1>9

-----------------------------------------------------------------------------
(* Settled calls stay settled and keep their jobs, but for the producer    *)
(* they note at the end; what they print they print still, or never.       *)

Kept(S, js, tx, S2, js2, tx2) ==
  \A x \in S :
    /\ x \in S2 /\ tx2[x] \in {Never, tx[x]}
    /\ js2[x].cmd = js[x].cmd /\ js2[x].key = js[x].key /\ js2[x].ran = js[x].ran

LEMMA HonestLasts ==
  ASSUME NEW S, NEW js, NEW tx, NEW S2, NEW js2, NEW tx2, Kept(S, js, tx, S2, js2, tx2),
         NEW d \in S, NEW t, Honest(d, t, S, js, tx)
  PROVE  Honest(d, t, S2, js2, tx2)
<1>1. Shown(d, js2) = Shown(d, js) /\ js2[d].cmd = js[d].cmd
  BY DEF Kept, Shown
<1>2. ASSUME IsMarker(t)
      PROVE  /\ t.of \in S2 /\ js2[t.of].cmd = js[t.of].cmd
             /\ Shown(t.of, js2) = Shown(t.of, js)
             /\ tx2[t.of] \in {Never, [t EXCEPT !.of = Never]}
  BY <1>2 DEF Kept, Shown, Honest
<1>3. QED
  BY <1>1, <1>2 DEF Honest

LEMMA FiledLasts ==
  ASSUME NEW S, NEW js, NEW tx, NEW S2, NEW js2, NEW tx2, Kept(S, js, tx, S2, js2, tx2),
         NEW s, NEW k, NEW d, NEW t, Filed(s, k, d, t, S, js, tx)
  PROVE  Filed(s, k, d, t, S2, js2, tx2)
<1>1. d \in S2 /\ Slot[js2[d].cmd] = s /\ js2[d].key = k /\ tx2[d] \in {Never, t}
  BY DEF Filed, Kept
<1>2. Honest(d, t, S2, js2, tx2)
  BY HonestLasts DEF Filed
<1>3. QED
  BY <1>1, <1>2 DEF Filed

LEMMA CacheLasts ==
  ASSUME NEW S, NEW js, NEW tx, NEW S2, NEW js2, NEW tx2, Kept(S, js, tx, S2, js2, tx2),
         NEW time \in Nat, NEW later \in Nat, time <= later,
         NEW x, CacheSound(x, S, js, tx, time)
  PROVE  CacheSound(x, S2, js2, tx2, later)
<1>1. ASSUME NEW s \in DOMAIN x
      PROVE  Filed(s, x[s].key, x[s].of, x[s].output, S2, js2, tx2)
  BY FiledLasts DEF CacheSound
<1>2. ASSUME NEW s \in DOMAIN x PROVE x[s].ts \in Nat /\ x[s].ts <= later
  BY DEF CacheSound
<1>3. QED
  BY <1>1, <1>2 DEF CacheSound

LEMMA SessionLasts ==
  ASSUME NEW S, NEW js, NEW tx, NEW S2, NEW js2, NEW tx2, Kept(S, js, tx, S2, js2, tx2),
         NEW time \in Nat, NEW later \in Nat, time <= later,
         NEW s, SessionSound(s, S, js, tx, time)
  PROVE  SessionSound(s, S2, js2, tx2, later)
<1>1. ASSUME NEW e, Recorded(e, S, js, tx) PROVE Recorded(e, S2, js2, tx2)
  BY <1>1 DEF Recorded, Kept, Shown
<1>2. ASSUME NEW i \in DOMAIN s.entries PROVE s.entries[i].ts <= later
  <2>1. s.entries[i] \in Entries
    BY DEF SessionSound, Ordered
  <2>2. s.entries[i].ts \in Nat /\ s.entries[i].ts <= time
    BY <2>1 DEF SessionSound, Ordered, Entries
  <2>3. QED
    BY <2>2
<1>3. QED
  BY <1>1, <1>2 DEF SessionSound, Ordered

LEMMA EmptySound ==
  ASSUME NEW S, NEW js, NEW tx, NEW time
  PROVE  /\ SessionSound(Session!EmptySession, S, js, tx, time)
         /\ CacheSound(EmptyCache, S, js, tx, time)
<1>1. SessionSound(Session!EmptySession, S, js, tx, time)
  <2>1. DOMAIN Session!EmptySession.entries = {}
    BY DEF Session!EmptySession
  <2>2. QED
    BY <2>1, EmptyOrdered DEF SessionSound
<1>2. CacheSound(EmptyCache, S, js, tx, time)
  BY DEF CacheSound, EmptyCache
<1>3. QED
  BY <1>1, <1>2

LEMMA RecordSound ==
  ASSUME NEW S, NEW js, NEW tx, NEW time \in Nat, NEW s, SessionSound(s, S, js, tx, time),
         NEW c \in Calls, c \in S, js[c].cmd \in Commands, Unmarked(tx[c], Shown(c, js))
  PROVE  SessionSound(Added(s, c, DeltaKey[js[c].cmd], tx[c], time), S, js, tx, time)
<1> DEFINE r == Added(s, c, DeltaKey[js[c].cmd], tx[c], time)
<1>1. tx[c] \in Texts /\ Ordered(s, time) /\ DeltaKey[js[c].cmd] \in {DeltaKey[m] : m \in Commands}
  BY DEF SessionSound, Unmarked
<1>2. /\ Ordered(r, time)
      /\ \A i \in DOMAIN r.entries : OldOrNew(r.entries[i], s, c, DeltaKey[js[c].cmd], tx[c])
  BY <1>1, RecordOrdered
<1> HIDE DEF r
<1>3. ASSUME NEW i \in DOMAIN r.entries PROVE Recorded(r.entries[i], S, js, tx)
  BY <1>2 DEF SessionSound, Recorded, OldOrNew
<1>4. SessionSound(r, S, js, tx, time)
  BY <1>2, <1>3 DEF SessionSound
<1>5. QED
  BY <1>4 DEF r

-----------------------------------------------------------------------------
(* Caches.                                                                 *)

LEMMA EvictSound ==
  ASSUME NEW S, NEW js, NEW tx, NEW time, NEW x, CacheSound(x, S, js, tx, time)
  PROVE  CacheSound(evict_old(x), S, js, tx, time)
  BY DEF CacheSound, evict_old

\* insert() files the text of a settled call under the hash it took.
LEMMA InsertSound ==
  ASSUME NEW x, NEW c \in Calls, CacheSound(x, Settled, job, text, now), now \in Nat,
         c \in Settled, job[c].cmd \in Commands, Honest(c, text[c], Settled, job, text)
  PROVE  CacheSound(insert(c, x), Settled, job, text, now)
<1> DEFINE q == Slot[job[c].cmd]
           y == insert(c, x)
<1>1. /\ DOMAIN y = DOMAIN x \cup {q} /\ q \in Slots
      /\ y[q] = [key |-> job[c].key, output |-> text[c], ts |-> now, of |-> c]
      /\ \A s \in DOMAIN x : s # q => y[s] = x[s]
  BY DEF insert, Slots
<1> HIDE DEF y
<1>2. Filed(q, y[q].key, y[q].of, y[q].output, Settled, job, text) /\ y[q].ts = now
  BY <1>1 DEF Filed
<1>3. CacheSound(y, Settled, job, text, now)
  BY <1>1, <1>2 DEF CacheSound
<1>4. QED
  BY <1>3 DEF y

-----------------------------------------------------------------------------
(* Frames.                                                                 *)

Calm == Kept(Settled, job, text, Settled', job', text') /\ now' = now

LEMMA Clock == ASSUME Shapes PROVE now \in Nat
  BY RunConstants DEF Shapes

\* A step of one call that is not settled, or that leaves it so.
LEMMA OneCallCalm ==
  ASSUME Shapes, NEW c \in Calls, now' = now,
         \A d \in Calls : d # c =>
           /\ job'[d] = job[d] /\ text'[d] = text[d]
           /\ pc'[d] = pc[d] \/ (pc[d] \in Saving /\ pc'[d] \in Saving),
         c \in Settled =>
           /\ c \in Settled' /\ text'[c] \in {Never, text[c]}
           /\ job'[c].cmd = job[c].cmd /\ job'[c].key = job[c].key /\ job'[c].ran = job[c].ran
  PROVE  Calm
  BY DEF Calm, Kept, Settled

\* What one call's step does not touch stays as sound as it was.
LEMMA CallLasts ==
  ASSUME RunInv, Calm, NEW d \in Calls, job'[d] = job[d], text'[d] = text[d],
         pc'[d] = pc[d] \/ (pc[d] \in Saving /\ pc'[d] \in Saving)
  PROVE  CallSound(d)'
<1>1. CallSound(d) /\ pc[d] \in Running \cup {"idle", "done"}
  BY DEF RunInv, Shapes
<1>2. ASSUME d \in Settled, Honest(d, text[d], Settled, job, text)
      PROVE  Honest(d, text[d], Settled', job', text')
  BY <1>2, HonestLasts DEF Calm
<1>3. ASSUME NEW s, NEW k, NEW e, Filed(s, k, e, text[d], Settled, job, text)
      PROVE  Filed(s, k, e, text[d], Settled', job', text')
  BY <1>3, FiledLasts DEF Calm
<1>4. CASE pc'[d] = pc[d]
  <2>1. CASE pc[d] \in Saving
    <3>1. d \in Settled /\ Honest(d, text[d], Settled, job, text)
      BY <1>1, <2>1 DEF CallSound, Settled
    <3>2. QED
      BY <1>1, <1>2, <1>4, <2>1, <3>1 DEF CallSound, Saving
  <2>2. CASE pc[d] = "done" /\ job[d].ran \in Worlds
    <3>1. d \in Settled /\ (text[d] = Never \/ Honest(d, text[d], Settled, job, text))
      BY <1>1, <2>2 DEF CallSound, Settled
    <3>2. QED
      BY <1>1, <1>2, <1>4, <2>2, <3>1 DEF CallSound, Saving
  <2>3. CASE pc[d] = "done" /\ job[d].ran \notin Worlds
    <3>1. Filed(Slot[job[d].cmd], job[d].key, job[d].from, text[d], Settled, job, text)
      BY <1>1, <2>3 DEF CallSound
    <3>2. QED
      BY <1>1, <1>3, <1>4, <2>3, <3>1 DEF CallSound, Saving
  <2>4. CASE pc[d] \notin Saving \cup {"done"}
    BY <1>1, <1>4, <2>4 DEF CallSound, Shown
  <2>5. QED
    BY <2>1, <2>2, <2>3, <2>4
<1>5. CASE pc[d] \in Saving /\ pc'[d] \in Saving
  <2>1. d \in Settled /\ Honest(d, text[d], Settled, job, text)
    BY <1>1, <1>5 DEF CallSound, Settled
  <2>2. QED
    BY <1>1, <1>2, <1>5, <2>1 DEF CallSound, Saving
<1>6. QED
  BY <1>4, <1>5

LEMMA CopyLasts ==
  ASSUME RunInv, Calm, NEW d \in Calls, sess'[d] = sess[d], cache'[d] = cache[d]
  PROVE  CopySound(d)'
<1>1. SessionSound(sess[d], Settled', job', text', now)
  BY Clock, SessionLasts DEF RunInv, CopySound, Calm
<1>2. CacheSound(cache[d], Settled', job', text', now)
  BY Clock, CacheLasts DEF RunInv, CopySound, Calm
<1>3. QED
  BY <1>1, <1>2 DEF CopySound, Calm

\* The files a step may leave: those of before, or sound new ones.
LEMMA FilesLast ==
  ASSUME RunInv, Calm,
         sessionFile' = sessionFile \/ sessionFile' = Torn
           \/ SessionSound(sessionFile', Settled', job', text', now'),
         cacheFile' = cacheFile \/ cacheFile' = Torn \/ (cacheFile' = tmpFile /\ tmpFile # Never)
           \/ CacheSound(cacheFile', Settled', job', text', now'),
         tmpFile' = tmpFile \/ tmpFile' \in {Torn, Never}
           \/ CacheSound(tmpFile', Settled', job', text', now')
  PROVE  FilesSound'
<1>1. ASSUME sessionFile # Torn
      PROVE  SessionSound(sessionFile, Settled', job', text', now)
  BY <1>1, Clock, SessionLasts DEF RunInv, FilesSound, Calm
<1>2. ASSUME NEW x, CacheSound(x, Settled, job, text, now)
      PROVE  CacheSound(x, Settled', job', text', now)
  BY <1>2, Clock, CacheLasts DEF RunInv, Calm
<1>3. /\ cacheFile # Torn => CacheSound(cacheFile, Settled', job', text', now)
      /\ tmpFile \notin {Torn, Never} => CacheSound(tmpFile, Settled', job', text', now)
  BY <1>2 DEF RunInv, FilesSound
<1>4. QED
  BY <1>1, <1>3 DEF FilesSound, Calm

\* A step of call c, if it leaves c sound, leaves everything so.
LEMMA CallKeeps ==
  ASSUME RunInv, Calm, NEW c \in Calls, Shapes', FilesSound',
         \A d \in Calls : d # c =>
           /\ job'[d] = job[d] /\ text'[d] = text[d] /\ sess'[d] = sess[d] /\ cache'[d] = cache[d]
           /\ pc'[d] = pc[d] \/ (pc[d] \in Saving /\ pc'[d] \in Saving),
         CallSound(c)', CopySound(c)'
  PROVE  RunInv'
<1>1. ASSUME NEW d \in Calls PROVE CallSound(d)' /\ CopySound(d)'
  BY CallLasts, CopyLasts
<1>2. QED
  BY <1>1 DEF RunInv

\* A step that touches no file and no copy only has to leave its call sound.
LEMMA QuietCall ==
  ASSUME RunInv, NEW c \in Calls, NEW to \in Running \cup {"idle", "done"}, Goto(c, to),
         UNCHANGED <<now, files, sess, cache>>, world' \in Worlds,
         DOMAIN job' = Calls, DOMAIN text' = Calls,
         \A d \in Calls : d # c => job'[d] = job[d] /\ text'[d] = text[d],
         c \notin Settled, Calm => CallSound(c)'
  PROVE  RunInv'
<1>1. Shapes /\ Shapes'
  BY DEF RunInv, Shapes, Goto
<1>2. \A d \in Calls : d # c => job'[d] = job[d] /\ text'[d] = text[d] /\ pc'[d] = pc[d]
  BY <1>1 DEF Shapes, Goto
<1>3. Calm
  BY <1>1, <1>2, OneCallCalm
<1>4. FilesSound'
  <2>1. sessionFile' = sessionFile /\ cacheFile' = cacheFile /\ tmpFile' = tmpFile
    BY DEF files
  <2>2. QED
    BY <1>3, <2>1, FilesLast
<1>5. CopySound(c)'
  BY <1>3, CopyLasts
<1>6. CallSound(c)'
  BY <1>3
<1>7. \A d \in Calls : d # c => sess'[d] = sess[d] /\ cache'[d] = cache[d]
  OBVIOUS
<1>8. QED
  BY <1>1, <1>2, <1>3, <1>4, <1>5, <1>6, <1>7, CallKeeps

-----------------------------------------------------------------------------
(* The steps up to the command's execution.                                *)

LEMMA StartKeeps ==
  ASSUME RunInv, NEW c \in Calls, NEW m \in Commands, Start(c, m)
  PROVE  RunInv'
<1>1. PICK key \in {Unknown} \cup (IF Slot[m] = Unknown THEN {} ELSE {Fingerprint[Slot[m]][world]}) :
        job' = [job EXCEPT ![c] = [cmd |-> m, key |-> key, keyed |-> world, ran |-> Never,
                                   from |-> Never]]
  BY DEF Start
<1> DEFINE j == [cmd |-> m, key |-> key, keyed |-> world, ran |-> Never, from |-> Never]
<1>2. /\ pc[c] = "idle" /\ Goto(c, "lookup") /\ UNCHANGED <<now, world, files, text, sess, cache>>
      /\ world \in Worlds /\ DOMAIN job = Calls /\ DOMAIN text = Calls /\ Shapes /\ CallSound(c)
  BY DEF Start, RunInv, Shapes
<1>3. job'[c] = j /\ pc'[c] = "lookup" /\ text'[c] = Never
  BY <1>1, <1>2 DEF Goto, Shapes, CallSound
<1>4. j \in Jobs
  BY <1>1, <1>2 DEF Jobs, Keys, Slots
<1>5. CallSound(c)'
  BY <1>1, <1>3, <1>4 DEF CallSound, Saving
<1>6. c \notin Settled
  BY <1>2 DEF Settled, Saving
<1>7. /\ DOMAIN job' = Calls /\ DOMAIN text' = Calls
      /\ \A d \in Calls : d # c => job'[d] = job[d] /\ text'[d] = text[d]
  BY <1>1, <1>2
<1>8. "lookup" \in Running
  BY DEF Running
<1>9. QED
  BY <1>1, <1>2, <1>5, <1>6, <1>7, <1>8, QuietCall

\* A hit is what the call that filled the entry printed.
LEMMA LookupKeeps ==
  ASSUME RunInv, NEW c \in Calls, Lookup(c)
  PROVE  RunInv'
<1> DEFINE kept == Loaded(cacheFile, EmptyCache)
           slot == Slot[job[c].cmd]
<1>1. /\ pc[c] = "lookup" /\ UNCHANGED <<now, world, files, sess, cache>>
      /\ Shapes /\ world \in Worlds /\ CallSound(c) /\ DOMAIN job = Calls /\ DOMAIN text = Calls
  BY DEF Lookup, RunInv, Shapes
<1>2. job[c] \in Jobs /\ job[c].ran = Never /\ text[c] = Never
  BY <1>1 DEF CallSound
<1>3. c \notin Settled
  BY <1>1 DEF Settled, Saving
<1>4. CacheSound(kept, Settled, job, text, now)
  BY EmptySound DEF Loaded, RunInv, FilesSound
<1>5. CASE lookup(slot, job[c].key, kept)
  <2>1. /\ text' = [text EXCEPT ![c] = kept[slot].output] /\ Goto(c, "done")
        /\ job' = [job EXCEPT ![c].from = kept[slot].of]
    BY <1>5 DEF Lookup
  <2>2. /\ slot \in DOMAIN kept /\ kept[slot].key = job[c].key
        /\ Filed(slot, job[c].key, kept[slot].of, kept[slot].output, Settled, job, text)
    BY <1>4, <1>5 DEF lookup, CacheSound
  <2>3. kept[slot].of \in Calls
    BY <2>2 DEF Filed, Settled
  <2> DEFINE j == [job[c] EXCEPT !.from = kept[slot].of]
  <2>4. job' = [job EXCEPT ![c] = j]
    BY <2>1
  <2>5. /\ j \in Jobs /\ j.cmd = job[c].cmd /\ j.key = job[c].key /\ j.keyed = job[c].keyed
        /\ j.ran = Never /\ j.from = kept[slot].of
    BY <1>2, <2>3 DEF Jobs
  <2> HIDE DEF kept, slot, j
  <2>6. job'[c] = j /\ text'[c] = kept[slot].output /\ pc'[c] = "done"
    BY <1>1, <2>1, <2>4 DEF Goto, Shapes
  <2>7. ASSUME Calm PROVE CallSound(c)'
    <3>1. Filed(slot, job[c].key, kept[slot].of, kept[slot].output, Settled', job', text')
      BY <2>2, <2>7, FiledLasts DEF Calm
    <3>2. Filed(Slot[job[c].cmd], job[c].key, job[c].from, text[c], Settled, job, text)'
      BY <2>5, <2>6, <3>1 DEF slot
    <3>3. /\ job'[c] \in Jobs /\ job'[c].ran \notin Worlds /\ job'[c].key # Unknown
          /\ job'[c].key # Unknown =>
               job'[c].key = Fingerprint[Slot[job'[c].cmd]][job'[c].keyed]
      BY <1>1, <1>5, <2>5, <2>6, RunConstants DEF CallSound, lookup
    <3>4. QED
      BY <2>6, <3>2, <3>3 DEF CallSound, Saving
  <2>8. /\ DOMAIN job' = Calls /\ DOMAIN text' = Calls
        /\ \A d \in Calls : d # c => job'[d] = job[d] /\ text'[d] = text[d]
    BY <1>1, <2>1, <2>4
  <2>9. QED
    BY <1>1, <1>3, <2>1, <2>7, <2>8, QuietCall
<1>6. CASE ~lookup(slot, job[c].key, kept)
  <2>1. Goto(c, "execute") /\ UNCHANGED <<text, job>>
    BY <1>6 DEF Lookup
  <2>2. /\ job' = job /\ text' = text
        /\ pc'[c] = "execute" /\ "execute" \in Running
    BY <1>1, <2>1 DEF Goto, Shapes, Running
  <2>3. CallSound(c)'
    BY <1>1, <1>2, <2>1, <2>2 DEF CallSound, Saving
  <2>4. QED
    BY <1>1, <1>3, <2>1, <2>2, <2>3, QuietCall
<1>7. QED
  BY <1>5, <1>6

LEMMA ExecuteKeeps ==
  ASSUME RunInv, NEW c \in Calls, Execute(c)
  PROVE  RunInv'
<1>1. /\ pc[c] = "execute" /\ Goto(c, "delta") /\ UNCHANGED <<now, files, sess, cache>>
      /\ Shapes /\ world \in Worlds /\ CallSound(c) /\ DOMAIN job = Calls /\ DOMAIN text = Calls
      /\ job' = [job EXCEPT ![c].ran = world] /\ world' = Effect[job[c].cmd][world]
      /\ text' = [text EXCEPT ![c] = Whole(Prints[job[c].cmd][world])]
  BY DEF Execute, RunInv, Shapes
<1>2. job[c] \in Jobs
  BY <1>1 DEF CallSound
<1> DEFINE j == [job[c] EXCEPT !.ran = world]
<1>3. job' = [job EXCEPT ![c] = j]
  BY <1>1
<1>4. /\ j \in Jobs /\ j.cmd = job[c].cmd /\ j.key = job[c].key /\ j.keyed = job[c].keyed
      /\ j.ran = world /\ job[c].cmd \in Commands
  BY <1>1, <1>2 DEF Jobs
<1> HIDE DEF j
<1>5. /\ job'[c] = j /\ pc'[c] = "delta" /\ text'[c] = Whole(Prints[job[c].cmd][world])
      /\ "delta" \in Running /\ c \notin Settled /\ world' \in Worlds
  BY <1>1, <1>3, <1>4, RunConstants DEF Goto, Shapes, Running, Settled, Saving
<1>6. CallSound(c)'
  BY <1>1, <1>4, <1>5 DEF CallSound, Saving, Shown
<1>7. /\ DOMAIN job' = Calls /\ DOMAIN text' = Calls
      /\ \A d \in Calls : d # c => job'[d] = job[d] /\ text'[d] = text[d]
  BY <1>1, <1>3
<1>8. QED
  BY <1>1, <1>5, <1>6, <1>7, QuietCall

-----------------------------------------------------------------------------
(* Deltas and markers.                                                     *)

LEMMA LoadsSound ==
  ASSUME RunInv
  PROVE  /\ SessionSound(Loaded(sessionFile, Session!EmptySession), Settled, job, text, now)
         /\ CacheSound(Loaded(cacheFile, EmptyCache), Settled, job, text, now)
  BY EmptySound DEF Loaded, RunInv, FilesSound

\* What a command prints in some world is an unmarked text.
LEMMA WholeUnmarked ==
  ASSUME NEW m \in Commands, NEW w \in Worlds
  PROVE  /\ Unmarked(Whole(Prints[m][w]), Prints[m][w])
         /\ IsFiniteSet(Prints[m][w]) /\ Prints[m][w] \subseteq UNION Outputs
         /\ Whole(Prints[m][w]).lines = Prints[m][w]
<1>1. Prints[m][w] \in Outputs
  BY DEF Outputs
<1>2. Whole(Prints[m][w]) \in Texts
  BY <1>1 DEF Texts
<1>3. QED
  BY <1>1, <1>2, RunConstants DEF Unmarked, Whole

\* A delta is unmarked: it names the run it is taken against.
LEMMA DeltaUnmarked ==
  ASSUME NEW S, NEW js, NEW tx, NEW time, NEW s, SessionSound(s, S, js, tx, time),
         NEW key, NEW lines, IsFiniteSet(lines), lines \subseteq UNION Outputs,
         Unmarked(Whole(lines), lines), NEW t \in compute_delta(s, key, lines)
  PROVE  Unmarked(t, lines)
<1>1. PICK i \in Session!OfCommand(s, key) :
        t = IF s.entries[i].text.lines \cap lines = {} THEN Whole(lines)
            ELSE [of |-> Never, base |-> s.entries[i].of, lines |-> lines \ s.entries[i].text.lines,
                  repeated |-> Cardinality(lines \cap s.entries[i].text.lines)]
  BY DEF compute_delta
<1>2. s.entries[i] \in Entries
  BY <1>1 DEF Session!OfCommand, SessionSound, Ordered
<1>3. s.entries[i].of \in Calls /\ s.entries[i].of # Never
  BY <1>2, RunConstants DEF Entries
<1> DEFINE old == s.entries[i].text.lines
<1>4. Cardinality(lines \cap old) \in Nat
  <2>1. IsFiniteSet(lines \cap old)
    BY FS_Subset
  <2>2. QED
    BY <2>1, FS_CardinalityType
<1>5. CASE old \cap lines = {}
  BY <1>1, <1>5
<1>6. CASE old \cap lines # {}
  <2>1. t = [of |-> Never, base |-> s.entries[i].of, lines |-> lines \ old,
             repeated |-> Cardinality(lines \cap old)]
    BY <1>1, <1>6
  <2>2. lines \ old \in SUBSET UNION Outputs
    OBVIOUS
  <2> HIDE DEF old
  <2>3. t \in Texts
    BY <1>3, <1>4, <2>1, <2>2 DEF Texts
  <2>4. t.of = Never /\ IsDelta(t)
    BY <1>3, <2>1 DEF IsDelta
  <2>5. QED
    BY <2>3, <2>4 DEF Unmarked
<1>7. QED
  BY <1>5, <1>6

LEMMA DeltaKeeps ==
  ASSUME RunInv, NEW c \in Calls, Delta(c)
  PROVE  RunInv'
<1> DEFINE lines == text[c].lines
           s == Loaded(sessionFile, Session!EmptySession)
<1>1. /\ pc[c] = "delta" /\ Goto(c, "dedup") /\ UNCHANGED <<now, world, files, job, sess, cache>>
      /\ Shapes /\ world \in Worlds /\ CallSound(c) /\ DOMAIN job = Calls /\ DOMAIN text = Calls
  BY DEF Delta, RunInv, Shapes
<1>2. /\ job[c] \in Jobs /\ job[c].ran \in Worlds /\ text[c] = Whole(Shown(c, job))
      /\ job[c].cmd \in Commands
  BY <1>1 DEF CallSound, Jobs
<1>3. /\ Unmarked(text[c], lines) /\ IsFiniteSet(lines) /\ lines \subseteq UNION Outputs
      /\ lines = Shown(c, job) /\ text[c] = Whole(lines)
  BY <1>2, WholeUnmarked DEF Shown
<1>4. PICK t \in {text[c]} \cup (IF lines \in Long
                                 THEN compute_delta(s, DeltaKey[job[c].cmd], lines) ELSE {}) :
        text' = [text EXCEPT ![c] = t]
  BY DEF Delta
<1>5. SessionSound(s, Settled, job, text, now)
  BY LoadsSound
<1> HIDE DEF s, lines
<1>6. Unmarked(t, lines)
  <2>1. ASSUME t \in compute_delta(s, DeltaKey[job[c].cmd], lines) PROVE Unmarked(t, lines)
    BY <1>3, <1>5, <2>1, DeltaUnmarked
  <2>2. QED
    BY <1>3, <1>4, <2>1
<1>7. text'[c] = t /\ pc'[c] = "dedup" /\ job' = job /\ "dedup" \in Running /\ c \notin Settled
  BY <1>1, <1>4 DEF Goto, Shapes, Running, Settled, Saving
<1>8. CallSound(c)'
  BY <1>1, <1>2, <1>3, <1>6, <1>7 DEF CallSound, Saving, Shown
<1>9. /\ DOMAIN job' = Calls /\ DOMAIN text' = Calls
      /\ \A d \in Calls : d # c => job'[d] = job[d] /\ text'[d] = text[d]
  BY <1>1, <1>4, <1>7
<1>10. QED
  BY <1>1, <1>7, <1>8, <1>9, QuietCall

\* The marker that stands for an equal entry is an honest one.
LEMMA MarkerHonest ==
  ASSUME NEW S \in SUBSET Calls, NEW js, NEW tx, NEW time, NEW s,
         SessionSound(s, S, js, tx, time), NEW c, Unmarked(tx[c], Shown(c, js)),
         NEW i \in Same(s, js[c].cmd, tx[c])
  PROVE  Honest(c, [s.entries[i].text EXCEPT !.of = s.entries[i].of], S, js, tx)
<1> DEFINE e == s.entries[i]
           t == [e.text EXCEPT !.of = e.of]
<1>1. i \in DOMAIN s.entries /\ e.cmd = DeltaKey[js[c].cmd]
  BY DEF Same, find_exact, find_similar, Session!OfCommand
<1>2. Recorded(e, S, js, tx)
  BY <1>1 DEF SessionSound
<1>3. js[c].cmd \in StateCommands => e.text = tx[c]
  BY DEF Same, find_exact
<1> HIDE DEF e
<1>4. /\ e.of \in S /\ e.of \in Calls /\ e.of # Never /\ e.text \in Texts /\ e.text.of = Never
      /\ DeltaKey[js[e.of].cmd] = DeltaKey[js[c].cmd] /\ tx[e.of] \in {Never, e.text}
      /\ ~IsDelta(e.text) => e.text.lines = Shown(e.of, js)
  BY <1>1, <1>2, RunConstants DEF Recorded, Unmarked
<1>5. e.text \in [of : Calls \cup {Never}, base : Calls \cup {Never},
                  lines : SUBSET UNION Outputs, repeated : Nat]
  BY <1>4 DEF Texts, Whole
<1>6. /\ t \in Texts /\ t.of = e.of /\ t.base = e.text.base /\ t.lines = e.text.lines
      /\ [t EXCEPT !.of = Never] = e.text
  BY <1>4, <1>5 DEF Texts
<1> HIDE DEF t
<1>7. ~IsDelta(t) /\ js[c].cmd \in StateCommands =>
        t.lines = Shown(c, js) /\ Shown(e.of, js) = Shown(c, js)
  BY <1>3, <1>4, <1>6 DEF IsDelta, Unmarked
<1>8. Honest(c, t, S, js, tx)
  BY <1>4, <1>6, <1>7 DEF Honest, IsMarker
<1>9. QED
  BY <1>8 DEF t, e

LEMMA UnmarkedHonest ==
  ASSUME NEW S, NEW js, NEW tx, NEW c, NEW t, Unmarked(t, Shown(c, js))
  PROVE  Honest(c, t, S, js, tx)
  BY DEF Unmarked, Honest, IsMarker

LEMMA DedupKeeps ==
  ASSUME RunInv, NEW c \in Calls, Dedup(c)
  PROVE  RunInv'
<1> DEFINE s == Loaded(sessionFile, Session!EmptySession)
           m == job[c].cmd
           hits == IF text[c].lines \in Brief THEN {} ELSE Same(s, m, text[c])
<1>1. /\ pc[c] = "dedup" /\ UNCHANGED <<now, world, files, job, cache>> /\ Shapes /\ Shapes'
      /\ CallSound(c) /\ world \in Worlds /\ DOMAIN job = Calls /\ DOMAIN text = Calls
  BY DEF Dedup, RunInv, Shapes, Goto, Saving, Running
<1>2. /\ job[c] \in Jobs /\ job[c].ran \in Worlds /\ m \in Commands
      /\ Unmarked(text[c], Shown(c, job))
      /\ job[c].key # Unknown => job[c].key = Fingerprint[Slot[job[c].cmd]][job[c].keyed]
  BY <1>1 DEF CallSound, Jobs
<1>3. c \notin Settled /\ Settled \in SUBSET Calls
  BY <1>1 DEF Settled, Saving
<1>4. SessionSound(s, Settled, job, text, now)
  BY LoadsSound
<1> HIDE DEF s
<1>5. \/ /\ \E i \in hits : text' = [text EXCEPT ![c] = [s.entries[i].text EXCEPT !.of = s.entries[i].of]]
         /\ Goto(c, "through") /\ UNCHANGED sess
      \/ /\ sess' = [sess EXCEPT ![c] = Added(s, c, DeltaKey[m], text[c], now)]
         /\ Goto(c, "record") /\ UNCHANGED text
      \/ Goto(c, "through") /\ UNCHANGED <<text, sess>>
  BY DEF Dedup, s, Added
<1>6. \E to \in {"through", "record"} : Goto(c, to)
  BY <1>5
<1>7. /\ pc'[c] \in {"through", "record"} /\ \A d \in Calls : d # c => pc'[d] = pc[d]
      /\ DOMAIN text' = Calls /\ \A d \in Calls : d # c => text'[d] = text[d] /\ sess'[d] = sess[d]
      /\ job' = job /\ cache' = cache
  BY <1>1, <1>5, <1>6 DEF Goto, Shapes
<1>8. Calm /\ c \in Settled'
  BY <1>1, <1>2, <1>3, <1>7, OneCallCalm DEF Settled, Saving
<1>9. FilesSound'
  <2>1. sessionFile' = sessionFile /\ cacheFile' = cacheFile /\ tmpFile' = tmpFile
    BY <1>1 DEF files
  <2>2. QED
    BY <1>8, <2>1, FilesLast
<1>10. Honest(c, text'[c], Settled', job', text') /\ CopySound(c)'
  <2>1. CASE /\ \E i \in hits :
                  text' = [text EXCEPT ![c] = [s.entries[i].text EXCEPT !.of = s.entries[i].of]]
             /\ UNCHANGED sess
    <3>1. PICK i \in hits :
            text' = [text EXCEPT ![c] = [s.entries[i].text EXCEPT !.of = s.entries[i].of]]
      BY <2>1
    <3>2. i \in Same(s, m, text[c])
      BY <3>1
    <3>3. Honest(c, [s.entries[i].text EXCEPT !.of = s.entries[i].of], Settled, job, text)
      BY <1>2, <1>3, <1>4, <3>2, MarkerHonest
    <3>4. Honest(c, text'[c], Settled, job, text)
      BY <1>1, <3>1, <3>3
    <3>5. Honest(c, text'[c], Settled', job', text')
      BY <1>7, <1>8, <3>4 DEF Honest, Calm, Kept, Shown
    <3>6. CopySound(c)'
      BY <1>7, <1>8, <2>1, CopyLasts
    <3>7. QED
      BY <3>5, <3>6
  <2>2. CASE /\ sess' = [sess EXCEPT ![c] = Added(s, c, DeltaKey[m], text[c], now)]
             /\ UNCHANGED text
    <3>1. now \in Nat /\ now' = now /\ text'[c] = text[c] /\ job'[c] = job[c]
      BY <1>1, <1>7, <2>2, Clock
    <3>2. SessionSound(s, Settled', job', text', now)
      BY <1>4, <1>8, <3>1, SessionLasts DEF Calm
    <3>3. Unmarked(text'[c], Shown(c, job'))
      BY <1>2, <3>1 DEF Shown
    <3>4. SessionSound(Added(s, c, DeltaKey[job'[c].cmd], text'[c], now), Settled', job', text', now)
      BY <1>2, <1>8, <3>1, <3>2, <3>3, RecordSound
    <3>5. sess'[c] = Added(s, c, DeltaKey[m], text[c], now)
      BY <1>1, <2>2 DEF Shapes
    <3>7. CacheSound(cache[c], Settled', job', text', now)
      BY <1>8, <3>1, CacheLasts DEF Calm, RunInv, CopySound
    <3>8. CopySound(c)'
      BY <1>7, <3>1, <3>4, <3>5, <3>7 DEF CopySound
    <3>9. Honest(c, text'[c], Settled', job', text')
      BY <3>3, UnmarkedHonest
    <3>10. QED
      BY <3>8, <3>9
  <2>3. CASE UNCHANGED <<text, sess>>
    <3>1. Unmarked(text'[c], Shown(c, job'))
      BY <1>2, <1>7, <2>3 DEF Shown
    <3>2. Honest(c, text'[c], Settled', job', text')
      BY <3>1, UnmarkedHonest
    <3>3. CopySound(c)'
      BY <1>7, <1>8, <2>3, CopyLasts
    <3>4. QED
      BY <3>2, <3>3
  <2>4. QED
    BY <1>5, <2>1, <2>2, <2>3
<1>11. CallSound(c)'
  BY <1>2, <1>7, <1>10 DEF CallSound, Saving
<1>12. QED
  BY <1>1, <1>7, <1>8, <1>9, <1>10, <1>11, CallKeeps

-----------------------------------------------------------------------------
(* The saves.                                                              *)

\* A step of a saving call that goes on, or dies, and changes no job.
LEMMA SavingCalm ==
  ASSUME RunInv, NEW c \in Calls, pc[c] \in Saving, pc'[c] \in Saving,
         now' = now, job' = job, text' = text,
         \A d \in Calls : d # c => pc'[d] = pc[d] \/ (pc[d] \in Saving /\ pc'[d] \in Saving)
  PROVE  Calm /\ CallSound(c)'
<1>1. Calm
  BY OneCallCalm DEF RunInv, Settled
<1>2. QED
  BY <1>1, CallLasts

LEMMA SavedSound ==
  ASSUME RunInv, Calm, NEW c \in Calls
  PROVE  /\ SessionSound(sess[c], Settled', job', text', now')
         /\ CacheSound(cache[c], Settled', job', text', now')
         /\ SessionSound(Session!EmptySession, Settled', job', text', now')
         /\ CacheSound(EmptyCache, Settled', job', text', now')
<1>1. now \in Nat /\ now' = now
  BY Clock DEF RunInv, Calm
<1>2. SessionSound(sess[c], Settled', job', text', now)
  BY <1>1, SessionLasts DEF RunInv, CopySound, Calm
<1>3. CacheSound(cache[c], Settled', job', text', now)
  BY <1>1, CacheLasts DEF RunInv, CopySound, Calm
<1>4. QED
  BY <1>1, <1>2, <1>3, EmptySound

LEMMA SessionSaves ==
  ASSUME RunInv, NEW c \in Calls, SessionOpen(c) \/ SessionWrite(c)
  PROVE  RunInv'
<1>1. /\ pc[c] \in Saving /\ UNCHANGED <<now, world, cacheFile, tmpFile, job, text, cache>>
      /\ \E to \in {"recording", "through"} : Goto(c, to)
      /\ sess' = sess \/ sess' = [sess EXCEPT ![c] = Session!EmptySession]
      /\ sessionFile' = Torn \/ sessionFile' \in Overwritten(sessionFile, sess[c])
  BY DEF SessionOpen, SessionWrite, Saving
<1>2. /\ Shapes /\ Shapes' /\ pc'[c] \in Saving /\ \A d \in Calls : d # c => pc'[d] = pc[d]
      /\ \A d \in Calls : d # c => sess'[d] = sess[d]
      /\ sess'[c] = sess[c] \/ sess'[c] = Session!EmptySession
  BY <1>1 DEF Goto, RunInv, Shapes, Saving, Running
<1>3. Calm /\ CallSound(c)'
  BY <1>1, <1>2, SavingCalm
<1>4. sessionFile' = Torn \/ sessionFile' = sess[c]
  BY <1>1 DEF Overwritten
<1>5. FilesSound'
  BY <1>1, <1>3, <1>4, SavedSound, FilesLast
<1>6. CopySound(c)'
  BY <1>1, <1>2, <1>3, SavedSound DEF CopySound
<1>7. QED
  BY <1>1, <1>2, <1>3, <1>5, <1>6, CallKeeps

LEMMA ThroughKeeps ==
  ASSUME RunInv, NEW c \in Calls, Through(c)
  PROVE  RunInv'
<1> DEFINE x == evict_old(Loaded(cacheFile, EmptyCache))
<1>1. /\ pc[c] = "through" /\ UNCHANGED <<now, world, files, job, text, sess>>
      /\ \E to \in {"print", "create"} : Goto(c, to)
      /\ cache' = cache \/ cache' = [cache EXCEPT ![c] = insert(c, x)]
  BY DEF Through
<1>2. /\ Shapes /\ Shapes' /\ pc[c] \in Saving /\ pc'[c] \in Saving /\ now \in Nat /\ now' = now
      /\ \A d \in Calls : d # c => pc'[d] = pc[d] /\ cache'[d] = cache[d]
      /\ cache'[c] = cache[c] \/ cache'[c] = insert(c, x)
      /\ CallSound(c)
  BY <1>1, Clock DEF Goto, RunInv, Shapes, Saving, Running
<1>3. Calm /\ CallSound(c)'
  BY <1>1, <1>2, SavingCalm
<1>4. /\ c \in Settled /\ job[c].cmd \in Commands
      /\ Honest(c, text[c], Settled, job, text)
  BY <1>2 DEF CallSound, Settled, Jobs, Saving
<1>5. CacheSound(insert(c, x), Settled, job, text, now)
  <2>1. CacheSound(x, Settled, job, text, now)
    BY LoadsSound, EvictSound
  <2> HIDE DEF x
  <2>2. QED
    BY <1>2, <1>4, <2>1, InsertSound
<1> HIDE DEF x
<1>6. CacheSound(insert(c, x), Settled', job', text', now)
  BY <1>2, <1>3, <1>5, CacheLasts DEF Calm
<1>7. CopySound(c)'
  BY <1>1, <1>2, <1>3, <1>6, SavedSound DEF CopySound
<1>8. FilesSound'
  <2>1. sessionFile' = sessionFile /\ cacheFile' = cacheFile /\ tmpFile' = tmpFile
    BY <1>1 DEF files
  <2>2. QED
    BY <1>3, <2>1, FilesLast
<1>9. QED
  BY <1>1, <1>2, <1>3, <1>7, <1>8, CallKeeps

LEMMA CacheSaves ==
  ASSUME RunInv, NEW c \in Calls, CacheOpen(c) \/ CacheWrite(c) \/ CacheRename(c)
  PROVE  RunInv'
<1>1. /\ pc[c] \in Saving /\ UNCHANGED <<now, world, sessionFile, job, text, sess>>
      /\ cache' = cache \/ cache' = [cache EXCEPT ![c] = EmptyCache]
      /\ cacheFile' = cacheFile \/ cacheFile' \in Overwritten(cacheFile, cache[c])
           \/ (cacheFile' = tmpFile /\ tmpFile # Never)
      /\ tmpFile' = tmpFile \/ tmpFile' \in {Torn, Never} \/ tmpFile' \in Overwritten(tmpFile, cache[c])
  BY DEF CacheOpen, CacheWrite, CacheRename, Saving
<1>2. /\ pc' \in [Calls -> Running \cup {"idle", "done"}] /\ pc'[c] \in Saving
      /\ \A d \in Calls : d # c => pc'[d] = pc[d] \/ (pc[d] \in Saving /\ pc'[d] \in Saving)
  <2>1. pc \in [Calls -> Running \cup {"idle", "done"}]
    BY DEF RunInv, Shapes
  <2>2. CASE \E to \in Saving : Goto(c, to)
    BY <2>1, <2>2 DEF Goto, Running
  <2>3. CASE pc' = [d \in Calls |-> IF d = c THEN "print" ELSE AfterRename(pc[d])]
    <3>1. \A l : AfterRename(l) = l \/ (l \in Saving /\ AfterRename(l) \in Saving)
      BY DEF AfterRename, Saving
    <3>2. \A d \in Calls : pc'[d] = IF d = c THEN "print" ELSE AfterRename(pc[d])
      BY <2>3
    <3>3. QED
      BY <2>1, <2>3, <3>1, <3>2 DEF Saving, Running
  <2>4. QED
    BY <2>2, <2>3 DEF CacheOpen, CacheWrite, CacheRename, Saving
<1>3. /\ Shapes /\ Shapes' /\ \A d \in Calls : d # c => cache'[d] = cache[d]
      /\ cache'[c] = cache[c] \/ cache'[c] = EmptyCache
  BY <1>1, <1>2 DEF RunInv, Shapes
<1>4. Calm /\ CallSound(c)'
  BY <1>1, <1>2, SavingCalm
<1>5. CopySound(c)'
  BY <1>1, <1>3, <1>4, SavedSound DEF CopySound
<1>6. FilesSound'
  <2>1. \A old : Overwritten(old, cache[c]) \subseteq {cache[c], Torn}
    BY DEF Overwritten
  <2>2. QED
    BY <1>1, <1>4, <2>1, SavedSound, FilesLast
<1>7. QED
  BY <1>1, <1>2, <1>3, <1>4, <1>5, <1>6, CallKeeps

-----------------------------------------------------------------------------
(* Ends, and what happens outside.                                         *)

LEMMA FinishKeeps ==
  ASSUME RunInv, NEW c \in Calls, Finish(c)
  PROVE  RunInv'
<1> DEFINE j == [job[c] EXCEPT !.from = c]
<1>1. /\ pc[c] = "print" /\ Goto(c, "done") /\ UNCHANGED <<now, world, files, text, sess, cache>>
      /\ job' = [job EXCEPT ![c] = j] /\ Shapes /\ CallSound(c)
  BY DEF Finish, RunInv
<1>2. /\ job[c] \in Jobs /\ job[c].ran \in Worlds /\ Honest(c, text[c], Settled, job, text)
      /\ c \in Settled
  BY <1>1 DEF CallSound, Settled, Saving
<1>3. /\ j \in Jobs /\ j.cmd = job[c].cmd /\ j.key = job[c].key /\ j.keyed = job[c].keyed
      /\ j.ran = job[c].ran
  BY <1>2 DEF Jobs
<1> HIDE DEF j
<1>4. /\ Shapes' /\ job'[c] = j /\ pc'[c] = "done" /\ text'[c] = text[c]
      /\ \A d \in Calls : d # c => job'[d] = job[d] /\ pc'[d] = pc[d]
  BY <1>1 DEF Goto, Shapes
<1>5. Calm
  BY <1>1, <1>2, <1>3, <1>4, OneCallCalm DEF Settled
<1>6. Honest(c, text[c], Settled', job', text')
  BY <1>2, <1>5, HonestLasts DEF Calm
<1>7. CallSound(c)'
  BY <1>1, <1>2, <1>3, <1>4, <1>6 DEF CallSound, Saving
<1>8. CopySound(c)'
  BY <1>1, <1>5, CopyLasts
<1>9. FilesSound'
  <2>1. sessionFile' = sessionFile /\ cacheFile' = cacheFile /\ tmpFile' = tmpFile
    BY <1>1 DEF files
  <2>2. QED
    BY <1>5, <2>1, FilesLast
<1>10. QED
  BY <1>1, <1>4, <1>5, <1>7, <1>8, <1>9, CallKeeps

LEMMA KillKeeps ==
  ASSUME RunInv, NEW c \in Calls, Kill(c)
  PROVE  RunInv'
<1>1. /\ pc[c] \in Saving /\ Goto(c, "done") /\ UNCHANGED <<now, world, files, job>>
      /\ text' = [text EXCEPT ![c] = Never] /\ sess' = [sess EXCEPT ![c] = Session!EmptySession]
      /\ cache' = [cache EXCEPT ![c] = EmptyCache] /\ Shapes /\ CallSound(c)
  BY DEF Kill, RunInv
<1>2. /\ Shapes' /\ job' = job /\ pc'[c] = "done" /\ text'[c] = Never
      /\ sess'[c] = Session!EmptySession /\ cache'[c] = EmptyCache
      /\ \A d \in Calls : d # c => /\ text'[d] = text[d] /\ pc'[d] = pc[d]
                                    /\ sess'[d] = sess[d] /\ cache'[d] = cache[d]
  BY <1>1 DEF Goto, Shapes
<1>3. job[c] \in Jobs /\ job[c].ran \in Worlds
  BY <1>1 DEF CallSound, Saving
<1>4. Calm
  BY <1>1, <1>2, <1>3, OneCallCalm DEF Settled
<1>5. CallSound(c)'
  BY <1>1, <1>2, <1>3 DEF CallSound, Saving
<1>6. CopySound(c)'
  BY <1>2, <1>4, SavedSound DEF CopySound
<1>7. FilesSound'
  <2>1. sessionFile' = sessionFile /\ cacheFile' = cacheFile /\ tmpFile' = tmpFile
    BY <1>1 DEF files
  <2>2. QED
    BY <1>4, <2>1, FilesLast
<1>8. QED
  BY <1>2, <1>4, <1>5, <1>6, <1>7, CallKeeps

LEMMA OutsideKeeps ==
  ASSUME RunInv, Change \/ Tick \/ UNCHANGED vars
  PROVE  RunInv'
<1>1. /\ UNCHANGED <<pc, job, text, sess, cache>>
      /\ sessionFile' = sessionFile /\ cacheFile' = cacheFile /\ tmpFile' = tmpFile
      /\ now' \in 0..MaxTime /\ now <= now' /\ world' \in Worlds
  BY RunConstants DEF Change, Tick, RunInv, Shapes, vars, files
<1>2. Settled' = Settled /\ Shapes'
  BY <1>1 DEF Settled, RunInv, Shapes
<1>3. Kept(Settled, job, text, Settled', job', text')
  BY <1>1, <1>2 DEF Kept
<1>4. now \in Nat /\ now' \in Nat
  BY <1>1, Clock, RunConstants DEF RunInv
<1>5. ASSUME NEW x, CacheSound(x, Settled, job, text, now)
      PROVE  CacheSound(x, Settled', job', text', now')
  BY <1>1, <1>3, <1>4, <1>5, CacheLasts
<1>6. ASSUME NEW x, SessionSound(x, Settled, job, text, now)
      PROVE  SessionSound(x, Settled', job', text', now')
  BY <1>1, <1>3, <1>4, <1>6, SessionLasts
<1>7. FilesSound'
  BY <1>1, <1>5, <1>6 DEF RunInv, FilesSound
<1>8. ASSUME NEW c \in Calls PROVE CopySound(c)' /\ CallSound(c)'
  <2>1. CopySound(c)'
    BY <1>1, <1>5, <1>6 DEF RunInv, CopySound
  <2>2. CallSound(c)'
    BY <1>1, <1>2 DEF RunInv, CallSound, Shown
  <2>3. QED
    BY <2>1, <2>2
<1>9. QED
  BY <1>2, <1>7, <1>8 DEF RunInv

LEMMA RunStep == RunInv /\ [Next]_vars => RunInv'
<1> SUFFICES ASSUME RunInv, [Next]_vars PROVE RunInv'
  OBVIOUS
<1>1. ASSUME NEW c \in Calls, Run(c) PROVE RunInv'
  BY <1>1, StartKeeps, LookupKeeps, ExecuteKeeps, DeltaKeeps, DedupKeeps, SessionSaves,
     ThroughKeeps, CacheSaves, FinishKeeps, KillKeeps DEF Run
<1>2. QED
  BY <1>1, OutsideKeeps DEF Next

LEMMA RunInit == Init => RunInv
<1> SUFFICES ASSUME Init PROVE RunInv
  OBVIOUS
<1>1. Shapes
  BY RunConstants DEF Init, Shapes
<1>2. FilesSound
  BY EmptySound DEF Init, FilesSound
<1>3. ASSUME NEW c \in Calls PROVE CallSound(c) /\ CopySound(c)
  BY EmptySound DEF Init, CallSound, CopySound, Saving
<1>4. QED
  BY <1>1, <1>2, <1>3 DEF RunInv

-----------------------------------------------------------------------------
\* Files, copies, jobs and texts say of each other only what some call ran and
\* printed, whatever the unlocked saves and the process deaths leave.
THEOREM RunsSound == Spec => []RunInv
  BY RunInit, RunStep, PTL DEF Spec

LEMMA CachesTyped ==
  ASSUME NEW x, NEW S, NEW js, NEW tx, CacheSound(x, S, js, tx, now)
  PROVE  IsCache(x)
  BY DEF CacheSound, IsCache, Filed, Honest

\* Caches hold texts filed under known words, none from the future, and session
\* values keep at most MaxEntries entries in order, in files that any call may
\* truncate (pre_cache.rs:70-80, session.rs:248-286).
THEOREM TypeCorrect == Spec => []TypeOK
<1>1. RunInv => TypeOK
  <2> SUFFICES ASSUME RunInv PROVE TypeOK
    OBVIOUS
  <2>1. now \in 0..MaxTime /\ world \in Worlds /\ pc \in [Calls -> Running \cup {"idle", "done"}]
    BY DEF RunInv, Shapes
  <2>2. ASSUME NEW c \in Calls
        PROVE  /\ IsCache(cache[c]) /\ (text[c] # Never => text[c] \in Texts)
               /\ Session!EntriesAscend(sess[c])
    <3>1. IsCache(cache[c]) /\ Session!EntriesAscend(sess[c])
      BY CachesTyped DEF RunInv, CopySound, SessionSound, Ordered
    <3>2. CallSound(c) /\ pc[c] \in Running \cup {"idle", "done"}
      BY DEF RunInv, Shapes
    <3>3. ASSUME pc[c] = "delta" PROVE text[c] \in Texts
      <4>1. job[c].cmd \in Commands /\ job[c].ran \in Worlds /\ text[c] = Whole(Shown(c, job))
        BY <3>2, <3>3 DEF CallSound, Jobs
      <4>2. QED
        BY <4>1, WholeUnmarked DEF Shown, Unmarked
    <3>4. text[c] # Never => text[c] \in Texts
      BY <3>2, <3>3 DEF CallSound, Running, Unmarked, Honest, Filed
    <3>5. QED
      BY <3>1, <3>4
  <2>3. IsCache(Loaded(cacheFile, EmptyCache)) /\ (tmpFile \notin {Torn, Never} => IsCache(tmpFile))
    BY LoadsSound, CachesTyped DEF RunInv, FilesSound
  <2>4. Session!EntriesAscend(Loaded(sessionFile, Session!EmptySession))
    BY LoadsSound DEF SessionSound, Ordered
  <2>5. QED
    BY <2>1, <2>2, <2>3, <2>4 DEF TypeOK
<1>2. QED
  BY <1>1, RunsSound, PTL

\* What is known of an answer: the call that produced it filed just that text
\* under the words and the hash of the call that prints it, honestly.
LEMMA AnswersHonest ==
  ASSUME RunInv, NEW c \in Calls, Answered(c)
  PROVE  /\ job[c] \in Jobs /\ job[Producer(c)].ran \in Worlds /\ Producer(c) \in Settled
         /\ Honest(Producer(c), text[c], Settled, job, text)
         /\ Hit(c) => job[c].key # Unknown
         /\ Hit(c) => Filed(Slot[job[c].cmd], job[c].key, Producer(c), text[c], Settled, job, text)
<1>1. CallSound(c) /\ pc[c] = "done" /\ text[c] # Never /\ job[c] \in Jobs
  BY DEF RunInv, Answered, CallSound
<1>2. CASE job[c].ran \in Worlds
  BY <1>1, <1>2, RunConstants DEF CallSound, Hit, Producer, Settled
<1>3. CASE job[c].ran \notin Worlds
  <2>1. job[c].ran = Never /\ Producer(c) = job[c].from
    BY <1>1, <1>3 DEF Jobs, Hit, Producer, Answered
  <2>2. QED
    BY <1>1, <1>3, <2>1 DEF CallSound, Filed, Settled
<1>4. QED
  BY <1>2, <1>3

\* "Returns Some only when the key hash matches exactly" (pre_cache.rs:221).
THEOREM HitsAreRuns == Spec => []HitIsARun
<1>1. RunInv => HitIsARun
  <2> SUFFICES ASSUME RunInv, NEW c \in Calls, Hit(c)
               PROVE  /\ job[Producer(c)].ran # Never
                      /\ Slot[job[Producer(c)].cmd] = Slot[job[c].cmd]
                      /\ job[Producer(c)].key = job[c].key
                      /\ text[Producer(c)] \in {Never, text[c]}
    BY DEF HitIsARun
  <2>1. /\ job[Producer(c)].ran \in Worlds
        /\ Filed(Slot[job[c].cmd], job[c].key, Producer(c), text[c], Settled, job, text)
    BY AnswersHonest DEF Hit
  <2>2. QED
    BY <2>1, RunConstants DEF Filed
<1>2. QED
  BY <1>1, RunsSound, PTL

\* A hit of a state command is what the command prints in a world that the hash
\* does not tell from the one it was taken in (pre_cache.rs:29).
THEOREM HitsAreCurrent == Spec => []HitIsCurrent
<1>1. RunInv => HitIsCurrent
  <2> SUFFICES ASSUME RunInv, NEW c \in Calls, Hit(c), ~IsDelta(text[c]),
                      job[c].cmd \in StateCommands, job[Producer(c)].cmd = job[c].cmd,
                      job[Producer(c)].ran = job[Producer(c)].keyed
               PROVE  \E w \in Worlds : /\ Fingerprint[Slot[job[c].cmd]][w] = job[c].key
                                        /\ Prints[job[c].cmd][w] = text[c].lines
    BY DEF HitIsCurrent
  <2>1. /\ job[Producer(c)].ran \in Worlds /\ Producer(c) \in Settled
        /\ Honest(Producer(c), text[c], Settled, job, text)
        /\ job[Producer(c)].key = job[c].key /\ job[c].key # Unknown
    BY AnswersHonest DEF Hit, Filed
  <2>2. Prints[job[c].cmd][job[Producer(c)].ran] = text[c].lines
    BY <2>1 DEF Honest, Shown
  <2>3. Fingerprint[Slot[job[c].cmd]][job[Producer(c)].keyed] = job[c].key
    BY <2>1 DEF RunInv, CallSound, Settled, Saving
  <2>4. QED
    BY <2>1, <2>2, <2>3
<1>2. QED
  BY <1>1, RunsSound, PTL

\* "Same output as turn N" names a run of the same command (run.rs:216-230).
THEOREM MarkersAreHonest == Spec => []MarkersHonest
<1>1. RunInv => MarkersHonest
  <2> SUFFICES ASSUME RunInv, NEW c \in Calls, Answered(c), IsMarker(text[c])
               PROVE  /\ DeltaKey[job[text[c].of].cmd] = DeltaKey[job[Producer(c)].cmd]
                      /\ text[text[c].of] \in {Never, [text[c] EXCEPT !.of = Never]}
                      /\ job[Producer(c)].cmd \in StateCommands /\ ~IsDelta(text[c]) =>
                           Shown(text[c].of, job) = Shown(Producer(c), job)
    BY DEF MarkersHonest, Shown
  <2>1. Honest(Producer(c), text[c], Settled, job, text)
    BY AnswersHonest
  <2>2. QED
    BY <2>1 DEF Honest
<1>2. QED
  BY <1>1, RunsSound, PTL
=============================================================================
