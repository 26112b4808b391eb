------------------------------ MODULE BashHook -------------------------------
(***************************************************************************)
(* process_bash of hook.rs: one process per tool call, which loads the     *)
(* session file and two result-cache files, answers from them or runs the  *)
(* pipeline, and leaves its saves to detached threads that die with the    *)
(* process.  No file is locked.  The session file is written in place; a   *)
(* cache file through a temporary file whose name depends on the cache     *)
(* only, so that two processes share it.                                   *)
(*                                                                         *)
(* Left out: calls that pass through before any state is read (short       *)
(* output, panda's own commands), clean-room mode, which reads and writes  *)
(* none of this, and the text the pipeline produces.  The noise store and  *)
(* the zoom blocks of the same handler have modules of their own.          *)
(***************************************************************************)
EXTENDS SessionState, ResultCache

CONSTANTS
  Calls,     \* tool calls
  Sessions,
  Texts,     \* raw outputs
  Cmd,       \* the command key whose output a text is
  Norm,      \* strip_temporal_noise
  Global,    \* the file name of the cross-session cache
  Torn,      \* a file that was created or truncated and not yet written
  Never,     \* no such call, text or answer
  Parallel,  \* may calls overlap?
  Killable,  \* may a process die half way?
  MaxTime

Caches == Sessions \cup {Global}
Times == 0..MaxTime
SessionEntries ==
  [turn : Nat, of : Calls, cmd : {Cmd[t] : t \in Texts}, ts : Times, text : Texts, embedded : BOOLEAN]
SessionStates == [entries : Seq(SessionEntries), total_turns : Nat]
RawEntries == [of : Calls, made : Times, ts : Times]
NormEntries == [of : Calls, turn : Nat, ts : Times]
IsMap(f, keys, values) == DOMAIN f \subseteq keys /\ f \in [DOMAIN f -> values]
IsCache(x) ==
  /\ x = [raw |-> x.raw, norm |-> x.norm]
  /\ IsMap(x.raw, Texts, RawEntries)
  /\ IsMap(x.norm, {Norm[t] : t \in Texts}, NormEntries)
Maps(keys, values) == UNION {[d -> values] : d \in SUBSET keys}
CacheValues ==
  [raw : Maps(Texts, RawEntries), norm : Maps({Norm[t] : t \in Texts}, NormEntries)]
Jobs == [session : Sessions, text : Texts, began : Times]
Answers ==
  [kind : {"none", "cached", "unchanged", "same", "full"}, of : Calls \cup {Never},
   turn : Nat, made : Times]

ASSUME HookConstants ==
  /\ Global \notin Sessions
  /\ Never \notin Calls \cup Jobs /\ Torn \notin CacheValues
  /\ Parallel \in BOOLEAN /\ Killable \in BOOLEAN
  /\ MaxTime \in Nat /\ RecentWindow \in Nat

VARIABLES
  now,
  sessionFile,  \* per session
  cacheFile,    \* per session, and Global
  tmpFile,      \* cacheFile's temporary twin; Never when there is none
  pc,
  job,          \* session and text of a call, and when it began
  sess, rc, grc,\* the copies a call loaded and changed
  saves,        \* per call and save: how far its detached thread has come
  answer        \* what the call hands to the agent

vars == <<now, sessionFile, cacheFile, tmpFile, pc, job, sess, rc, grc, saves, answer>>
files == <<sessionFile, cacheFile, tmpFile>>
copies == <<sess, rc, grc>>

SaveKinds == {"session", "rc", "grc"}
Running == {"tier1", "tier2", "tier3", "poll", "compress", "store", "returned"}

SessionOf(c) == job[c].session
Text(c) == job[c].text

MutLoadUnchecked(s) == sessionFile[s]

\* A file that does not parse reads as its default.
LoadSession(s) == IF sessionFile[s] = Torn THEN EmptySession ELSE sessionFile[s]
LoadCache(f) == IF cacheFile[f] = Torn THEN EmptyCache ELSE cacheFile[f]

NoAnswer == [kind |-> "none", of |-> Never, turn |-> 0, made |-> 0]

Init ==
  /\ now = 0
  /\ sessionFile = [s \in Sessions |-> EmptySession]
  /\ cacheFile = [f \in Caches |-> EmptyCache]
  /\ tmpFile = [f \in Caches |-> Never]
  /\ pc = [c \in Calls |-> "idle"]
  /\ job = [c \in Calls |-> Never]
  /\ sess = [c \in Calls |-> EmptySession]
  /\ rc = [c \in Calls |-> EmptyCache]
  /\ grc = [c \in Calls |-> EmptyCache]
  /\ saves = [c \in Calls |-> [k \in SaveKinds |-> "none"]]
  /\ answer = [c \in Calls |-> NoAnswer]

Answer(c, kind, of, turn, made) ==
  /\ answer' = [answer EXCEPT ![c] = [kind |-> kind, of |-> of, turn |-> turn, made |-> made]]
  /\ pc' = [pc EXCEPT ![c] = "returned"]

Goto(c, l) ==
  /\ pc' = [pc EXCEPT ![c] = l]
  /\ UNCHANGED answer

\* A long enough output arrives for some session, whose state is loaded.
Begin(c) ==
  /\ pc[c] = "idle"
  /\ Parallel \/ \A d \in Calls : pc[d] \in {"idle", "exited"}
  /\ \E s \in Sessions, t \in Texts :
       /\ job' = [job EXCEPT ![c] = [session |-> s, text |-> t, began |-> now]]
       /\ sess' = [sess EXCEPT ![c] = LoadSession(s)]
  /\ Goto(c, "tier1")
  /\ UNCHANGED <<now, files, rc, grc, saves>>

\* Tier 1: the session's own cache answers with the bytes it keeps.
Tier1(c) ==
  /\ pc[c] = "tier1"
  /\ LET cache == evict_old(LoadCache(SessionOf(c)), now)
     IN  IF Text(c) \in DOMAIN cache.raw
         THEN /\ Answer(c, "cached", cache.raw[Text(c)].of, 0, cache.raw[Text(c)].made)
              /\ UNCHANGED rc
         ELSE /\ Goto(c, "tier2")
              /\ rc' = [rc EXCEPT ![c] = cache]
  /\ UNCHANGED <<now, files, job, sess, grc, saves>>

\* A compressed output as the caches keep it.
Entry(of, made, ts) == [of |-> of, made |-> made, ts |-> ts]

\* Tier 2: the cross-session cache answers, and its entry joins the session's
\* cache as if made now.
Tier2(c) ==
  /\ pc[c] = "tier2"
  /\ LET cache == evict_global_old(RawOnly(LoadCache(Global)), now)
     IN  IF Text(c) \in DOMAIN cache.raw
         THEN LET hit == cache.raw[Text(c)]
              IN  /\ \E raw \in Inserted(rc[c].raw, Text(c), Entry(hit.of, hit.made, now)) :
                       rc' = [rc EXCEPT ![c] = [raw |-> raw, norm |-> rc[c].norm]]
                  /\ saves' = [saves EXCEPT ![c]["rc"] = "pending"]
                  /\ Answer(c, "cached", hit.of, 0, hit.made)
                  /\ UNCHANGED grc
         ELSE /\ Goto(c, "tier3")
              /\ grc' = [grc EXCEPT ![c] = cache]
              /\ UNCHANGED <<rc, saves>>
  /\ UNCHANGED <<now, files, job, sess>>

\* Tier 3: the same output up to timestamps was seen: only a marker is shown.
Tier3(c) ==
  /\ pc[c] = "tier3"
  /\ LET key == Norm[Text(c)]
         redirect == rc[c].norm[key]
     IN  IF key \in DOMAIN rc[c].norm
         THEN Answer(c, "unchanged", redirect.of, redirect.turn, redirect.ts)
         ELSE Goto(c, "poll")
  /\ UNCHANGED <<now, files, job, copies, saves>>

\* The polling suppressor: the latest similar entry becomes a marker. With no
\* budget or no embedding the call goes on.
Poll(c) ==
  /\ pc[c] = "poll"
  /\ \/ /\ has_recent_entry(sess[c], Cmd[Text(c)], now)
        /\ LET hits == SimilarRecent(sess[c], Cmd[Text(c)], Text(c), now)
           IN  \E i \in hits :
                 /\ \A j \in hits : j <= i
                 /\ LET e == sess[c].entries[i]
                    IN  Answer(c, "same", e.of, e.turn, e.ts)
     \/ Goto(c, "compress")
  /\ UNCHANGED <<now, files, job, copies, saves>>

Recorded(c, embedded) ==
  /\ sess' = [sess EXCEPT ![c] = Record(@, c, Cmd[Text(c)], Text(c), embedded, now)]
  /\ saves' = [saves EXCEPT ![c]["session"] = "pending"]

\* The pipeline and the session passes. They may fail, take the fast path
\* (always when the session is empty), or embed the output and record it; with
\* few lines, no budget or no embedding nothing is recorded.
Compress(c) ==
  /\ pc[c] = "compress"
  /\ \/ /\ Answer(c, "none", Never, 0, 0)
        /\ UNCHANGED <<sess, saves>>
     \/ /\ Goto(c, "store")
        /\ Recorded(c, FALSE)
     \/ /\ sess[c].entries # <<>>
        /\ Goto(c, "store")
        /\ Recorded(c, TRUE) \/ UNCHANGED <<sess, saves>>
  /\ UNCHANGED <<now, files, job, rc, grc>>

\* The turn the redirect marker will name: computed after the entry was
\* recorded, from the number of entries kept.
turn_num(c) == Len(sess[c].entries) + 1

MutStoreSwapsKeys(c) ==
  /\ pc[c] = "store"
  /\ \E raw \in Inserted(rc[c].raw, Norm[Text(c)], Entry(c, now, now)),
        graw \in Inserted(grc[c].raw, Text(c), Entry(c, now, now)),
        norm \in Inserted(rc[c].norm, Norm[Text(c)], [of |-> c, turn |-> turn_num(c), ts |-> now]) :
       /\ rc' = [rc EXCEPT ![c] = [raw |-> raw, norm |-> norm]]
       /\ grc' = [grc EXCEPT ![c] = [raw |-> graw, norm |-> grc[c].norm]]
  /\ saves' = [saves EXCEPT ![c]["rc"] = "pending", ![c]["grc"] = "pending"]
  /\ Answer(c, "full", c, 0, now)
  /\ UNCHANGED <<now, files, job, sess>>

\* The finished output enters both caches and is handed out.
Store(c) ==
  /\ pc[c] = "store"
  /\ \E raw \in Inserted(rc[c].raw, Text(c), Entry(c, now, now)),
        graw \in Inserted(grc[c].raw, Text(c), Entry(c, now, now)),
        norm \in Inserted(rc[c].norm, Norm[Text(c)], [of |-> c, turn |-> turn_num(c), ts |-> now]) :
       /\ rc' = [rc EXCEPT ![c] = [raw |-> raw, norm |-> norm]]
       /\ grc' = [grc EXCEPT ![c] = [raw |-> graw, norm |-> grc[c].norm]]
  /\ saves' = [saves EXCEPT ![c]["rc"] = "pending", ![c]["grc"] = "pending"]
  /\ Answer(c, "full", c, 0, now)
  /\ UNCHANGED <<now, files, job, sess>>

\* What a file holds after `new` is written from its start: over longer old
\* content a tail of it remains and the file no longer parses.
Overwritten(old, new) == IF old = Torn THEN {new} ELSE {new, Torn}

Alive(c) == pc[c] \notin {"idle", "exited"}

Save(c, k, from, to) ==
  /\ Alive(c) /\ saves[c][k] = from
  /\ saves' = [saves EXCEPT ![c][k] = to]

\* SessionState::save: fs::write truncates, then writes.
SessionOpen(c) ==
  /\ Save(c, "session", "pending", "open")
  /\ sessionFile' = [sessionFile EXCEPT ![SessionOf(c)] = Torn]
  /\ UNCHANGED <<now, cacheFile, tmpFile, pc, job, copies, answer>>

SessionWrite(c) ==
  /\ Save(c, "session", "open", "done")
  /\ \E content \in Overwritten(sessionFile[SessionOf(c)], sess[c]) :
       sessionFile' = [sessionFile EXCEPT ![SessionOf(c)] = content]
  /\ UNCHANGED <<now, cacheFile, tmpFile, pc, job, copies, answer>>

FileOf(c, k) == IF k = "rc" THEN SessionOf(c) ELSE Global
Content(c, k) == IF k = "rc" THEN rc[c] ELSE RawOnly(grc[c])

\* save_to: create or truncate the temporary file ...
CacheOpen(c, k) ==
  /\ Save(c, k, "pending", "open")
  /\ tmpFile' = [tmpFile EXCEPT ![FileOf(c, k)] = Torn]
  /\ UNCHANGED <<now, sessionFile, cacheFile, pc, job, copies, answer>>

\* ... write it, wherever another process has renamed it meanwhile ...
CacheWrite(c, k) ==
  LET f == FileOf(c, k)
  IN  /\ \/ /\ Save(c, k, "open", "written")
            /\ \E content \in Overwritten(tmpFile[f], Content(c, k)) :
                 tmpFile' = [tmpFile EXCEPT ![f] = content]
            /\ UNCHANGED cacheFile
         \/ /\ Save(c, k, "moved", "written")
            /\ \E content \in Overwritten(cacheFile[f], Content(c, k)) :
                 cacheFile' = [cacheFile EXCEPT ![f] = content]
            /\ UNCHANGED tmpFile
         \/ /\ Save(c, k, "replaced", "written")
            /\ UNCHANGED <<cacheFile, tmpFile>>
      /\ UNCHANGED <<now, sessionFile, pc, job, copies, answer>>

\* The descriptors other threads hold on the files a rename moves and replaces.
AfterRename(phase) ==
  CASE phase = "open" -> "moved" [] phase = "moved" -> "replaced" [] OTHER -> phase

MutRenameFirst(c, k) ==
  LET f == FileOf(c, k)
  IN  /\ Alive(c) /\ saves[c][k] = "open" /\ tmpFile[f] # Never
      /\ cacheFile' = [cacheFile EXCEPT ![f] = tmpFile[f]]
      /\ tmpFile' = [tmpFile EXCEPT ![f] = Never]
      /\ saves' = [saves EXCEPT ![c][k] = "moved"]
      /\ UNCHANGED <<now, sessionFile, pc, job, copies, answer>>

\* ... and rename it into place, which fails when another process has done so.
CacheRename(c, k) ==
  LET f == FileOf(c, k)
  IN  /\ Alive(c) /\ saves[c][k] = "written"
      /\ IF tmpFile[f] = Never
         THEN /\ saves' = [saves EXCEPT ![c][k] = "done"]
              /\ UNCHANGED <<cacheFile, tmpFile>>
         ELSE /\ cacheFile' = [cacheFile EXCEPT ![f] = tmpFile[f]]
              /\ tmpFile' = [tmpFile EXCEPT ![f] = Never]
              /\ saves' = [d \in Calls |-> [j \in SaveKinds |->
                   IF d = c /\ j = k THEN "done"
                   ELSE IF j # "session" /\ Alive(d) /\ FileOf(d, j) = f
                        THEN AfterRename(saves[d][j])
                        ELSE saves[d][j]]]
      /\ UNCHANGED <<now, sessionFile, pc, job, copies, answer>>

Unfinished(c) == {k \in SaveKinds : saves[c][k] \notin {"none", "done"}}

\* The process is gone with its memory and its threads.
Gone(c) ==
  /\ pc' = [pc EXCEPT ![c] = "exited"]
  /\ sess' = [sess EXCEPT ![c] = EmptySession]
  /\ rc' = [rc EXCEPT ![c] = EmptyCache]
  /\ grc' = [grc EXCEPT ![c] = EmptyCache]
  /\ saves' = [saves EXCEPT ![c] = [k \in SaveKinds |-> "none"]]
  /\ UNCHANGED <<now, files, job>>

\* run prints the answer and returns from main; nothing joins the threads.
Exit(c) ==
  /\ pc[c] = "returned"
  /\ Gone(c)
  /\ UNCHANGED answer

\* The process dies before it has printed: the agent sees the raw output.
Kill(c) ==
  /\ Killable
  /\ pc[c] \in Running
  /\ Gone(c)
  /\ answer' = [answer EXCEPT ![c] = NoAnswer]

Tick ==
  /\ now < MaxTime
  /\ now' = now + 1
  /\ UNCHANGED <<files, pc, job, copies, saves, answer>>

Steps(c) ==
  \/ Begin(c) \/ Tier1(c) \/ Tier2(c) \/ Tier3(c) \/ Poll(c) \/ Compress(c) \/ Store(c)
  \/ Exit(c) \/ Kill(c)
  \/ SessionOpen(c) \/ SessionWrite(c)
  \/ \E k \in {"rc", "grc"} : CacheOpen(c, k) \/ CacheWrite(c, k) \/ CacheRename(c, k)

Next == Tick \/ \E c \in Calls : Steps(c)

Spec == Init /\ [][Next]_vars

\* Calls too short for the clock to tick.
Quiet == \A c \in Calls : pc[c] \in {"idle", "exited"}
BriefSpec == Init /\ [][Next /\ (Tick => Quiet)]_vars

-----------------------------------------------------------------------------
\* Files hold whole values or are torn, and a call that has begun has a job.
TypeOK ==
  /\ now \in Times
  /\ sessionFile \in [Sessions -> {Torn} \cup SessionStates]
  /\ DOMAIN cacheFile = Caches /\ DOMAIN tmpFile = Caches
  /\ \A f \in Caches : cacheFile[f] # Torn => IsCache(cacheFile[f])
  /\ \A f \in Caches : tmpFile[f] \notin {Torn, Never} => IsCache(tmpFile[f])
  /\ pc \in [Calls -> Running \cup {"idle", "exited"}]
  /\ job \in [Calls -> {Never} \cup Jobs]
  /\ \A c \in Calls : job[c] = Never => pc[c] = "idle"
  /\ sess \in [Calls -> SessionStates]
  /\ DOMAIN rc = Calls /\ DOMAIN grc = Calls
  /\ \A c \in Calls : IsCache(rc[c]) /\ IsCache(grc[c])
  /\ saves \in [Calls -> [SaveKinds ->
       {"none", "pending", "open", "moved", "replaced", "written", "done"}]]
  /\ answer \in [Calls -> Answers]
  /\ \A c \in Calls : answer[c].of = Never => answer[c].kind = "none"

\* Whatever saves are lost or torn, every session value on disk or in memory holds
\* the last calls recorded in it, by consecutive turns at times that never go back
\* (session.rs:200-201 stops its search early because "entries are pushed in
\* ascending time order").
SessionsAscend ==
  /\ \A s \in Sessions : EntriesAscend(LoadSession(s))
  /\ \A c \in Calls : EntriesAscend(sess[c])

\* A cached answer is a compression of exactly the text that was asked for,
\* though files are shared by all processes and saved in any order
\* (result_cache.rs:6-8).
HitsMatch ==
  \A c \in Calls : answer[c].kind = "cached" => Text(answer[c].of) = Text(c)

\* Tier 2 hands a day-old entry to a session as new; it is copied no further, so
\* no answer is older than the two lifetimes together.
CachedAge ==
  \A c \in Calls : answer[c].kind = "cached" => job[c].began <= answer[c].made + GlobalTtl + Ttl

\* "Output unchanged" is said only of an output that another call of the same
\* session had, equal up to noise, no longer than the redirect lifetime ago:
\* redirects never cross sessions (result_cache.rs:96-107).
RedirectHasReferent ==
  \A c \in Calls : answer[c].kind = "unchanged" =>
    LET d == answer[c].of
    IN  /\ d # c /\ SessionOf(d) = SessionOf(c) /\ Norm[Text(d)] = Norm[Text(c)]
        /\ job[c].began <= answer[c].made + Ttl

\* "Same output as turn N" is said only of a similar output of the same command
\* in the same session within the polling window (session.rs:185-190).
PollHasReferent ==
  \A c \in Calls : answer[c].kind = "same" =>
    LET d == answer[c].of
    IN  /\ d # c /\ SessionOf(d) = SessionOf(c) /\ Cmd[Text(d)] = Cmd[Text(c)]
        /\ <<Text(d), Text(c)>> \in Similar
        /\ job[c].began <= answer[c].made + RecentWindow

\* A cache file that was ever complete parses for every later process: that is
\* what the temporary file and the rename are for (result_cache.rs:76-81).
CachesIntact == \A f \in Caches : cacheFile[f] # Torn

\* "Frozen - byte-identical on every hit" (result_cache.rs:28): while an
\* output lives, the session's hits on its text return no other compression,
\* though saves be lost, as long as calls do not overlap.
FrozenOutputs ==
  \A c, d \in Calls :
    /\ answer[c].kind = "cached" /\ answer[d].kind = "cached"
    /\ SessionOf(c) = SessionOf(d) /\ Text(c) = Text(d)
    /\ job[d].began <= answer[c].made + Ttl
    /\ job[c].began <= answer[d].made + Ttl
    => answer[c].of = answer[d].of
=============================================================================
