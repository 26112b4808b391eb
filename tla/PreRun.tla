-------------------------------- MODULE PreRun --------------------------------
(***************************************************************************)
(* `panda run` of cmd/run.rs with the pre-run cache of pre_cache.rs, in    *)
(* one session.  Each call is a process: it hashes the state its command   *)
(* depends on, answers from the cache when the hash is the one kept, and   *)
(* otherwise executes the command, replaces what was shown before by a     *)
(* delta or a marker, records the output in the session and keeps it under *)
(* the hash.  It waits for its saves; nothing is locked.                   *)
(*                                                                         *)
(* An output is a set of lines, as the command's handler leaves it; a line *)
(* stands for those its embedding does not tell from it.  Left out: the    *)
(* noise store and zoom blocks (components of their own), the tee file,    *)
(* exit codes, and content-retrieval commands, which none of this touches. *)
(***************************************************************************)
EXTENDS Naturals, Sequences, FiniteSets

CONSTANTS
  Calls,
  Commands,     \* argument lists
  Slot,         \* the leading arguments the cache files a command under
  DeltaKey,     \* the command and its subcommand: what the session files it under
  StateCommands,\* the commands of config.rs's state_commands
  Worlds,       \* states of repository, cluster, containers
  Fingerprint,  \* per slot and world: the hash compute_key takes
  Unknown,      \* no hash: not cacheable, or the probe failed
  Prints,       \* per command and world: the lines it prints
  Effect,       \* per command and world: the world it leaves
  Ttl,          \* per slot, in seconds
  MaxTtl,       \* GIT_TTL_SECS, the longest
  Alike,        \* pairs of line sets with embeddings within SIMILARITY_THRESHOLD
  Long,         \* line sets of 20 lines and more
  Brief,        \* line sets of fewer than 30 tokens
  MaxEntries,
  Torn,         \* a file truncated and not yet written
  Never,
  Crowd,        \* how many calls, the first ones, may overlap
  MaxTime

ASSUME RunConstants ==
  /\ MaxTtl \in Nat /\ MaxTime \in Nat /\ MaxEntries \in Nat
  /\ \A s \in DOMAIN Ttl : Ttl[s] <= MaxTtl
  /\ Unknown \notin UNION {{Fingerprint[s][w] : w \in Worlds} : s \in DOMAIN Fingerprint}
  /\ Never \notin Calls \cup Worlds
  /\ \A m \in Commands, w \in Worlds : IsFiniteSet(Prints[m][w]) /\ Effect[m][w] \in Worlds

\* The session as a value; the polling suppressor's questions are not asked here.
Session == INSTANCE SessionState WITH RecentWindow <- 0, Similar <- {}

VARIABLES
  now,
  world,
  sessionFile,
  cacheFile,
  tmpFile,  \* the one temporary file of all saves of the cache
  pc,
  job,      \* per call: command, hash, the worlds it was taken and the command ran in,
            \* and the call that produced what is printed
  text,     \* what the call prints
  sess,     \* the copies a call has loaded
  cache

vars == <<now, world, sessionFile, cacheFile, tmpFile, pc, job, text, sess, cache>>
files == <<sessionFile, cacheFile, tmpFile>>

Slots == {Slot[m] : m \in Commands}
Outputs == {Prints[m][w] : m \in Commands, w \in Worlds}
EmptyCache == <<>>

\* What may be printed: lines, all of them or those a run `base` did not have,
\* with the number of repeated ones; or a marker that points to run `of`.
Whole(lines) == [of |-> Never, base |-> Never, lines |-> lines, repeated |-> 0]
IsMarker(t) == t.of # Never
IsDelta(t) == t.base # Never

\* A file that does not parse reads as its default.
Loaded(file, default) == IF file = Torn THEN default ELSE file

Saving == {"record", "recording", "through", "create", "open", "moved", "replaced", "written",
           "print"}
Running == Saving \cup {"lookup", "execute", "delta", "dedup"}
Busy(c) == pc[c] \in Running

Init ==
  /\ now = 0
  /\ world \in Worlds
  /\ sessionFile = Session!EmptySession
  /\ cacheFile = EmptyCache
  /\ tmpFile = Never
  /\ pc = [c \in Calls |-> "idle"]
  /\ job = [c \in Calls |-> Never]
  /\ text = [c \in Calls |-> Never]
  /\ sess = [c \in Calls |-> Session!EmptySession]
  /\ cache = [c \in Calls |-> EmptyCache]

Goto(c, l) == pc' = [pc EXCEPT ![c] = l]

\* PreCache::compute_key, before anything is executed. A failing probe gives none.
Start(c, m) ==
  /\ pc[c] = "idle"
  /\ Cardinality({d \in Calls : pc[d] # "idle"}) < Crowd \/ ~\E d \in Calls : Busy(d)
  /\ \E key \in {Unknown} \cup (IF Slot[m] = Unknown THEN {} ELSE {Fingerprint[Slot[m]][world]}) :
       job' = [job EXCEPT ![c] = [cmd |-> m, key |-> key, keyed |-> world, ran |-> Never, from |-> Never]]
  /\ Goto(c, "lookup")
  /\ UNCHANGED <<now, world, files, text, sess, cache>>

MutLookupAnyHash(slot, key, kept) ==
  key # Unknown /\ slot \in DOMAIN kept /\ now <= kept[slot].ts + Ttl[slot]

\* PreCache::lookup: the entry filed under the slot, with the same hash, not too old.
lookup(slot, key, kept) ==
  /\ key # Unknown /\ slot \in DOMAIN kept
  /\ kept[slot].key = key
  /\ now <= kept[slot].ts + Ttl[slot]

\* A hit is printed instead of running the command.
Lookup(c) ==
  LET kept == Loaded(cacheFile, EmptyCache)
      slot == Slot[job[c].cmd]
  IN  /\ pc[c] = "lookup"
      /\ IF lookup(slot, job[c].key, kept)
         THEN /\ text' = [text EXCEPT ![c] = kept[slot].output]
              /\ job' = [job EXCEPT ![c].from = kept[slot].of]
              /\ Goto(c, "done")
         ELSE /\ Goto(c, "execute")
              /\ UNCHANGED <<text, job>>
      /\ UNCHANGED <<now, world, files, sess, cache>>

Execute(c) ==
  /\ pc[c] = "execute"
  /\ job' = [job EXCEPT ![c].ran = world]
  /\ text' = [text EXCEPT ![c] = Whole(Prints[job[c].cmd][world])]
  /\ world' = Effect[job[c].cmd][world]
  /\ Goto(c, "delta")
  /\ UNCHANGED <<now, files, sess, cache>>

\* SessionState::compute_delta against some earlier entry that is close enough:
\* repeated lines give way to their number. With none repeated nothing is said.
compute_delta(s, key, lines) ==
  {LET old == s.entries[i].text
   IN  IF old.lines \cap lines = {} THEN Whole(lines)
       ELSE [of |-> Never, base |-> s.entries[i].of, lines |-> lines \ old.lines,
             repeated |-> Cardinality(lines \cap old.lines)]
   : i \in Session!OfCommand(s, key)}

\* A delta for long outputs, if the model answers and finds something close.
Delta(c) ==
  LET lines == text[c].lines
      s == Loaded(sessionFile, Session!EmptySession)
  IN  /\ pc[c] = "delta"
      /\ \E t \in {text[c]} \cup (IF lines \in Long
                                  THEN compute_delta(s, DeltaKey[job[c].cmd], lines) ELSE {}) :
           text' = [text EXCEPT ![c] = t]
      /\ Goto(c, "dedup")
      /\ UNCHANGED <<now, world, files, job, sess, cache>>

find_exact(s, key, t) == {i \in Session!OfCommand(s, key) : s.entries[i].text = t}

find_similar(s, key, t) ==
  {i \in Session!OfCommand(s, key) :
     s.entries[i].text = t \/ <<s.entries[i].text.lines, t.lines>> \in Alike}

MutSimilarOnly(s, m, t) == find_similar(s, DeltaKey[m], t)

\* State commands are compared by content, others by embedding (run.rs:216-224).
Same(s, m, t) ==
  IF m \in StateCommands THEN find_exact(s, DeltaKey[m], t) ELSE find_similar(s, DeltaKey[m], t)

\* The session is loaded again. The newest equal output becomes a marker; any
\* other text, and any brief one, is recorded. Without an embedding: nothing.
Dedup(c) ==
  LET s == Loaded(sessionFile, Session!EmptySession)
      m == job[c].cmd
      hits == IF text[c].lines \in Brief THEN {} ELSE Same(s, m, text[c])
  IN  /\ pc[c] = "dedup"
      /\ \/ /\ \E i \in hits :
                 /\ \A j \in hits : j <= i
                 /\ LET e == s.entries[i]
                    IN  text' = [text EXCEPT ![c] = [e.text EXCEPT !.of = e.of]]
            /\ Goto(c, "through")
            /\ UNCHANGED sess
         \/ /\ hits = {}
            /\ sess' = [sess EXCEPT ![c] = Session!Record(s, c, DeltaKey[m], text[c], TRUE, now)]
            /\ Goto(c, "record")
            /\ UNCHANGED text
         \/ /\ Goto(c, "through")
            /\ UNCHANGED <<text, sess>>
      /\ UNCHANGED <<now, world, files, job, cache>>

\* What a file holds after `new` is written from its start: over longer old
\* content a tail of it remains and the file no longer parses.
Overwritten(old, new) == IF old = Torn THEN {new} ELSE {new, Torn}

\* SessionState::save, in place.
SessionOpen(c) ==
  /\ pc[c] = "record"
  /\ sessionFile' = Torn
  /\ Goto(c, "recording")
  /\ UNCHANGED <<now, world, cacheFile, tmpFile, job, text, sess, cache>>

SessionWrite(c) ==
  /\ pc[c] = "recording"
  /\ sessionFile' \in Overwritten(sessionFile, sess[c])
  /\ sess' = [sess EXCEPT ![c] = Session!EmptySession]
  /\ Goto(c, "through")
  /\ UNCHANGED <<now, world, cacheFile, tmpFile, job, text, cache>>

evict_old(kept) ==
  [s \in {q \in DOMAIN kept : now <= kept[q].ts + MaxTtl} |-> kept[s]]

MutHashAgain(c, kept) ==
  [s \in DOMAIN kept \cup {Slot[job[c].cmd]} |->
     IF s = Slot[job[c].cmd]
     THEN [key |-> Fingerprint[s][world], output |-> text[c], ts |-> now, of |-> c]
     ELSE kept[s]]

\* PreCache::insert: under the hash taken before the command ran.
insert(c, kept) ==
  [s \in DOMAIN kept \cup {Slot[job[c].cmd]} |->
     IF s = Slot[job[c].cmd]
     THEN [key |-> job[c].key, output |-> text[c], ts |-> now, of |-> c]
     ELSE kept[s]]

\* The write-through, for cacheable commands, of what is about to be printed.
Through(c) ==
  /\ pc[c] = "through"
  /\ IF job[c].key = Unknown
     THEN /\ Goto(c, "print")
          /\ UNCHANGED cache
     ELSE /\ cache' = [cache EXCEPT ![c] = insert(c, evict_old(Loaded(cacheFile, EmptyCache)))]
          /\ Goto(c, "create")
  /\ UNCHANGED <<now, world, files, job, text, sess>>

\* PreCache::save: create or truncate the temporary file, ...
CacheOpen(c) ==
  /\ pc[c] = "create"
  /\ tmpFile' = Torn
  /\ Goto(c, "open")
  /\ UNCHANGED <<now, world, sessionFile, cacheFile, job, text, sess, cache>>

\* ... write it, wherever another call's rename has put it meanwhile, ...
CacheWrite(c) ==
  /\ \/ /\ pc[c] = "open"
        /\ tmpFile' \in Overwritten(tmpFile, cache[c])
        /\ UNCHANGED cacheFile
     \/ /\ pc[c] = "moved"
        /\ cacheFile' \in Overwritten(cacheFile, cache[c])
        /\ UNCHANGED tmpFile
     \/ /\ pc[c] = "replaced"
        /\ UNCHANGED <<cacheFile, tmpFile>>
  /\ cache' = [cache EXCEPT ![c] = EmptyCache]
  /\ Goto(c, "written")
  /\ UNCHANGED <<now, world, sessionFile, job, text, sess>>

AfterRename(l) == CASE l = "open" -> "moved" [] l = "moved" -> "replaced" [] OTHER -> l

\* ... and rename it, unless another call has done that.
CacheRename(c) ==
  /\ pc[c] = "written"
  /\ IF tmpFile = Never
     THEN /\ Goto(c, "print")
          /\ UNCHANGED <<cacheFile, tmpFile>>
     ELSE /\ cacheFile' = tmpFile
          /\ tmpFile' = Never
          /\ pc' = [d \in Calls |-> IF d = c THEN "print" ELSE AfterRename(pc[d])]
  /\ UNCHANGED <<now, world, sessionFile, job, text, sess, cache>>

\* The process prints and ends.
Finish(c) ==
  /\ pc[c] = "print"
  /\ job' = [job EXCEPT ![c].from = c]
  /\ Goto(c, "done")
  /\ UNCHANGED <<now, world, files, text, sess, cache>>

\* The process dies; nothing it would have printed is seen. Before its first save
\* a call leaves nothing behind, so that its death then is no case of its own.
Kill(c) ==
  /\ pc[c] \in Saving
  /\ Goto(c, "done")
  /\ text' = [text EXCEPT ![c] = Never]
  /\ sess' = [sess EXCEPT ![c] = Session!EmptySession]
  /\ cache' = [cache EXCEPT ![c] = EmptyCache]
  /\ UNCHANGED <<now, world, files, job>>

\* Someone edits, commits, deploys. Only a call's start and its execution look, so
\* that a change at any other moment is no case of its own.
Change ==
  /\ (\A c \in Calls : ~Busy(c)) \/ \E c \in Calls : pc[c] = "execute"
  /\ world' \in Worlds \ {world}
  /\ UNCHANGED <<now, files, pc, job, text, sess, cache>>

\* Time passes between calls.
Tick ==
  /\ now < MaxTime
  /\ \A c \in Calls : ~Busy(c)
  /\ now' = now + 1
  /\ UNCHANGED <<world, files, pc, job, text, sess, cache>>

Run(c) ==
  \/ \E m \in Commands : Start(c, m)
  \/ Lookup(c) \/ Execute(c) \/ Delta(c) \/ Dedup(c) \/ SessionOpen(c) \/ SessionWrite(c)
  \/ Through(c) \/ CacheOpen(c) \/ CacheWrite(c) \/ CacheRename(c) \/ Finish(c) \/ Kill(c)

Next == Change \/ Tick \/ \E c \in Calls : Run(c)

Spec == Init /\ [][Next]_vars
-----------------------------------------------------------------------------
Texts == {Whole(lines) : lines \in Outputs} \cup
         [of : Calls \cup {Never}, base : Calls \cup {Never},
          lines : SUBSET UNION Outputs, repeated : Nat]
IsCache(kept) ==
  DOMAIN kept \subseteq Slots /\ \A s \in DOMAIN kept : kept[s].output \in Texts /\ kept[s].ts <= now

\* Files hold whole values, or are torn while a call that saves is about.
TypeOK ==
  /\ now \in 0..MaxTime /\ world \in Worlds
  /\ pc \in [Calls -> Running \cup {"idle", "done"}]
  /\ \A c \in Calls : IsCache(cache[c]) /\ (text[c] # Never => text[c] \in Texts)
  /\ \A c \in Calls : Session!EntriesAscend(sess[c])
  /\ IsCache(Loaded(cacheFile, EmptyCache))
  /\ tmpFile \notin {Torn, Never} => IsCache(tmpFile)
  /\ Session!EntriesAscend(Loaded(sessionFile, Session!EmptySession))

Answered(c) == pc[c] = "done" /\ text[c] # Never
Hit(c) == Answered(c) /\ job[c].ran = Never
Producer(c) == IF Hit(c) THEN job[c].from ELSE c

\* "Returns Some only when the key hash matches exactly" (pre_cache.rs:221): what a
\* hit prints is what one run printed, or would have, that was filed under the
\* same words and took the same hash before it started, whatever order the
\* unlocked saves through one temporary file take and wherever processes die.
HitIsARun ==
  \A c \in Calls : Hit(c) =>
    LET d == Producer(c)
    IN  /\ job[d].ran # Never
        /\ Slot[job[d].cmd] = Slot[job[c].cmd] /\ job[d].key = job[c].key
        /\ text[d] \in {Never, text[c]}

\* Where a whole output is printed for a state command, or a marker for one, it
\* is what the same command prints in some world the hash does not tell from
\* the present one, provided that nothing changed between the hash and the run
\* of the call that filled the cache ("stable when the relevant state has not
\* changed", pre_cache.rs:29).
HitIsCurrent ==
  \A c \in Calls :
    LET d == Producer(c)
        m == job[c].cmd
    IN  /\ Hit(c) /\ ~IsDelta(text[c]) /\ m \in StateCommands
        /\ job[d].cmd = m /\ job[d].ran = job[d].keyed
        => \E w \in Worlds : Fingerprint[Slot[m]][w] = job[c].key /\ Prints[m][w] = text[c].lines

\* "Same output as turn N" names a run of the same command in this session and
\* repeats what it printed; for state commands, unless deltas are compared, both
\* runs printed the same lines, since similar is not enough there
\* (run.rs:216-219). Through the cache the marker of one call is another's answer.
MarkersHonest ==
  \A c \in Calls : Answered(c) /\ IsMarker(text[c]) =>
    LET d == text[c].of
        e == Producer(c)
        Out(x) == Prints[job[x].cmd][job[x].ran]
    IN  /\ DeltaKey[job[d].cmd] = DeltaKey[job[e].cmd]
        /\ text[d] \in {Never, [text[c] EXCEPT !.of = Never]}
        /\ job[e].cmd \in StateCommands /\ ~IsDelta(text[c]) => Out(d) = Out(e)

\* "A hit skips execution entirely and returns the cached output" (README.md:332):
\* skipping is right only for the command that filled the cache, and when it
\* would have changed nothing.
HitMaySkip ==
  \A c \in Calls : Hit(c) =>
    /\ job[Producer(c)].cmd = job[c].cmd
    /\ Effect[job[c].cmd][job[c].keyed] = job[c].keyed
=============================================================================
