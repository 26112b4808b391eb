------------------------------- MODULE ReadHook -------------------------------
(***************************************************************************)
(* process_read and process_edit of hook.rs on one session: what a re-read *)
(* of a file is answered with.  The session file keeps, per file, the text *)
(* last read and the modification time found afterwards; a read of an      *)
(* unchanged file is answered by a digest, of a changed one by a diff.     *)
(* Calls are processes of their own; this handler waits for its saves.     *)
(*                                                                         *)
(* A file's content is a value per region, and a read covers some of its   *)
(* regions.  Left out: reads that pass through untouched (short, binary),  *)
(* the read modes that keep no state, the lines the pipeline keeps, edit   *)
(* ranges and section embeddings (they shape its text only), texts that    *)
(* the file cache cuts at its size limit, and the re-read by edit ranges:  *)
(* it needs a centroid under a file's name, and only commands get one.     *)
(***************************************************************************)
EXTENDS Naturals, Sequences, FiniteSets

CONSTANTS
  Calls,
  Files,
  Regions,
  Ranges,    \* the sets of regions a read may ask for
  Values,    \* what a region may hold
  Huge,      \* texts set_file_cache refuses
  Similar,   \* pairs of texts embedded, once compressed, within read_dedup_threshold
  MaxEntries,\* MAX_ENTRIES, 30 in the code
  MaxFiles,  \* MAX_CACHE_FILES, 20 in the code
  Torn,      \* the session file, truncated and not yet written
  Never,     \* no such text
  MaxBusy,   \* hooks that run at a time
  MaxTime

Contents == [Regions -> Values]
Texts == UNION {[r -> Values] : r \in Ranges}
Jobs == [file : Files, text : Texts \cup {Never}]

ASSUME ReadConstants ==
  /\ MaxFiles \in Nat \ {0} /\ MaxEntries \in Nat \ {0} /\ MaxTime \in Nat
  /\ Ranges \subseteq SUBSET Regions
  /\ Never \notin Texts \cup Jobs

VARIABLES
  now,
  disk,         \* per file: its content and modification time in seconds
  sessionFile,
  pc,
  job,          \* per call: the file, and the text the tool returned
  sess,         \* the copy of the session a call has loaded
  answer,       \* what a call hands to the agent
  then,         \* where a call goes once its save is done
  shown,        \* history, while orderly: the text of each file the agent has last
  orderly       \* history: no call overlapped another or died, no change was hidden,
                \* and each file was read by one range whose text the cache takes

vars == <<now, disk, sessionFile, pc, job, sess, answer, then, shown, orderly>>

TextOf(content, range) == [x \in range |-> content[x]]

\* What matters here of a session value: which file and text each entry records,
\* and the file cache.
EmptySess == [entries |-> <<>>, cache |-> <<>>]
Loaded == IF sessionFile = Torn THEN EmptySess ELSE sessionFile

Working == {"load", "stat", "again", "pipeline", "dedup", "edited", "save", "write"}
Busy(c) == pc[c] \in Working

Init ==
  /\ now = 0
  /\ disk \in [Files -> [content : Contents, mtime : {0}]]
  /\ sessionFile = EmptySess
  /\ pc = [c \in Calls |-> "idle"]
  /\ job = [c \in Calls |-> Never]
  /\ sess = [c \in Calls |-> EmptySess]
  /\ answer = [c \in Calls |-> [kind |-> "none", base |-> Never, prev |-> Never]]
  /\ then = [c \in Calls |-> "done"]
  /\ shown = [f \in Files |-> Never]
  /\ orderly = TRUE

\* History is kept as long as it is orderly.
Forgotten == [f \in Files |-> Never]
KeepOrder(ordered) ==
  /\ orderly' = (orderly /\ ordered)
  /\ shown' = IF ordered THEN shown ELSE Forgotten

Change(f) ==
  \E content \in Contents \ {disk[f].content} :
    disk' = [disk EXCEPT ![f] = [content |-> content, mtime |-> now]]

\* Someone else changes a file.  The change is hidden when it leaves the time as
\* it is or when a call on f has not yet looked.
ExternalChange(f) ==
  /\ Change(f)
  /\ KeepOrder(disk[f].mtime < now /\ \A c \in Calls : Busy(c) => job[c].file # f)
  /\ UNCHANGED <<now, sessionFile, pc, job, sess, answer, then>>

Goto(c, l) == pc' = [pc EXCEPT ![c] = l]

Startable(c) == pc[c] = "idle" /\ Cardinality({d \in Calls : Busy(d)}) < MaxBusy

NoneBusy == \A c \in Calls : ~Busy(c)

\* Read has returned a text; the hook starts.
ReadTool(c, f, range) ==
  LET text == TextOf(disk[f].content, range)
  IN  /\ Startable(c)
      /\ job' = [job EXCEPT ![c] = [file |-> f, text |-> text]]
      /\ KeepOrder(NoneBusy /\ text \notin Huge /\ (shown[f] = Never \/ DOMAIN shown[f] = range))
      /\ Goto(c, "load")
      /\ UNCHANGED <<now, disk, sessionFile, sess, answer, then>>

\* Edit has changed a file; the hook starts.
EditTool(c, f) ==
  /\ Startable(c)
  /\ Change(f)
  /\ KeepOrder(NoneBusy /\ disk[f].mtime < now)
  /\ job' = [job EXCEPT ![c] = [file |-> f, text |-> Never]]
  /\ Goto(c, "edited")
  /\ UNCHANGED <<now, sessionFile, sess, answer, then>>

\* The answer a call has ready (`none` is the text, whole or compressed).
Prepare(c, kind, base) ==
  answer' = [answer EXCEPT ![c] = [kind |-> kind, base |-> base, prev |-> shown[job[c].file]]]

\* The process ends, and the agent has what it answered.
Exit(c) ==
  /\ Goto(c, "done")
  /\ sess' = [sess EXCEPT ![c] = EmptySess]
  /\ then' = [then EXCEPT ![c] = "done"]

Finish(c) ==
  /\ Exit(c)
  /\ shown' = IF job[c].text = Never \/ ~orderly
              THEN shown
              ELSE [shown EXCEPT ![job[c].file] = job[c].text]

Return(c, kind, base) == Prepare(c, kind, base) /\ Finish(c)
GiveText(c) == Finish(c) /\ UNCHANGED answer

Stay == UNCHANGED <<answer, shown>>

MutCacheAnyFull(cache, f, mtime, text) ==
  {[g \in DOMAIN cache \cup {f} |-> IF g = f THEN [mtime |-> mtime, text |-> text] ELSE cache[g]]}

\* set_file_cache: at capacity a new file takes the place of any other one (the
\* map's first key is an arbitrary one).
set_file_cache(cache, f, mtime, text) ==
  LET Put(kept) == [g \in kept \cup {f} |->
                      IF g = f THEN [mtime |-> mtime, text |-> text] ELSE cache[g]]
      kept == DOMAIN cache
  IN  IF text \in Huge THEN {cache}
      ELSE IF Cardinality(kept) >= MaxFiles /\ f \notin kept
      THEN {Put(kept \ {g}) : g \in kept}
      ELSE {Put(kept)}

Load(c) ==
  /\ pc[c] = "load"
  /\ sess' = [sess EXCEPT ![c] = Loaded]
  /\ Goto(c, "stat")
  /\ Stay
  /\ UNCHANGED <<now, disk, sessionFile, job, then, orderly>>

\* The call saves its session, and goes on to l.
SaveThen(c, l) == Goto(c, "save") /\ then' = [then EXCEPT ![c] = l]

\* SessionState::save is fs::write: it truncates the file,
SaveOpen(c) ==
  /\ pc[c] = "save"
  /\ sessionFile' = Torn
  /\ Goto(c, "write")
  /\ Stay
  /\ UNCHANGED <<now, disk, job, sess, then, orderly>>

MutRemembersDisk(c, f, mtime) ==
  \E cache \in set_file_cache(sess[c].cache, f, mtime, TextOf(disk[f].content, DOMAIN job[c].text)) :
    sess' = [sess EXCEPT ![c] = [entries |-> sess[c].entries, cache |-> cache]]

Remember(c, f, mtime) ==
  \E cache \in set_file_cache(sess[c].cache, f, mtime, job[c].text) :
    sess' = [sess EXCEPT ![c] = [entries |-> sess[c].entries, cache |-> cache]]

Unchanged(entry, mtime, text) == entry.mtime = mtime \/ entry.text = text

MutDigestIfNotNewer(c) ==
  LET f == job[c].file
      cache == sess[c].cache
      Same(entry, mtime, text) == entry.mtime <= mtime \/ entry.text = text
  IN  /\ pc[c] = "stat"
      /\ \/ /\ f \in DOMAIN cache /\ Same(cache[f], disk[f].mtime, job[c].text)
            /\ Return(c, "digest", cache[f].text)
         \/ /\ f \in DOMAIN cache => ~Same(cache[f], disk[f].mtime, job[c].text)
            /\ Remember(c, f, disk[f].mtime)
            /\ SaveThen(c, "again")
            /\ Stay
      /\ UNCHANGED <<now, disk, sessionFile, job, orderly>>

\* The modification time decides: a digest; or, after the file cache is
\* updated and saved, a diff or (first read, large diff) the pipeline.
Stat(c) ==
  LET f == job[c].file
      cache == sess[c].cache
  IN  /\ pc[c] = "stat"
      /\ \/ /\ f \in DOMAIN cache /\ Unchanged(cache[f], disk[f].mtime, job[c].text)
            /\ Return(c, "digest", cache[f].text)
         \/ /\ f \in DOMAIN cache => ~Unchanged(cache[f], disk[f].mtime, job[c].text)
            /\ Remember(c, f, disk[f].mtime)
            /\ \/ SaveThen(c, "again") /\ Stay
               \/ /\ f \in DOMAIN cache
                  /\ SaveThen(c, "done")
                  /\ Prepare(c, "diff", cache[f].text)
                  /\ UNCHANGED shown
      /\ UNCHANGED <<now, disk, sessionFile, job, orderly>>

\* and writes it; over another call's longer text a tail of that may remain.
\* A diff or an edit is answered once its save is done.
SaveWrite(c) ==
  /\ pc[c] = "write"
  /\ sessionFile' \in IF sessionFile = Torn THEN {sess[c]} ELSE {sess[c], Torn}
  /\ IF then[c] = "done"
     THEN Finish(c)
     ELSE Goto(c, then[c]) /\ UNCHANGED <<sess, then, shown>>
  /\ UNCHANGED <<now, disk, job, answer, orderly>>

LoadAgain(c) ==
  /\ pc[c] = "again"
  /\ sess' = [sess EXCEPT ![c] = Loaded]
  /\ Goto(c, "pipeline")
  /\ Stay
  /\ UNCHANGED <<now, disk, sessionFile, job, then, orderly>>

\* find_similar_with_threshold: entries of the file, however old.
SimilarRead(c) ==
  {i \in DOMAIN sess[c].entries :
     /\ sess[c].entries[i].file = job[c].file
     /\ <<sess[c].entries[i].text, job[c].text>> \in Similar}

\* SessionState::record, and the save.
RecordRead(c) ==
  /\ LET all == Append(sess[c].entries, [file |-> job[c].file, text |-> job[c].text])
     IN  sess' = [sess EXCEPT ![c] =
           [entries |-> IF Len(all) > MaxEntries THEN Tail(all) ELSE all, cache |-> sess[c].cache]]
  /\ SaveThen(c, "done")
  /\ Stay

\* The focus compression answers; or the pipeline fails, or yields a text whose
\* sections may be saved with the session.
Pipeline(c) ==
  /\ pc[c] = "pipeline"
  /\ \/ RecordRead(c)
     \/ GiveText(c)
     \/ Goto(c, "dedup") /\ Stay /\ UNCHANGED <<sess, then>>
     \/ SaveThen(c, "dedup") /\ Stay /\ UNCHANGED sess
  /\ UNCHANGED <<now, disk, sessionFile, job, orderly>>

\* The latest similar text of the file becomes a marker; otherwise the text is
\* recorded and given, or just given when it cannot be embedded.
Dedup(c) ==
  /\ pc[c] = "dedup"
  /\ \/ GiveText(c)
     \/ \E i \in SimilarRead(c) :
          /\ \A j \in SimilarRead(c) : j <= i
          /\ Return(c, "same", sess[c].entries[i].text)
     \/ SimilarRead(c) = {} /\ RecordRead(c)
  /\ UNCHANGED <<now, disk, sessionFile, job, orderly>>

\* The edited file still contains old_string (the new text may repeat it): the
\* edit is recorded and the file forgotten.  Otherwise nothing happens.
EditHook(c) ==
  LET f == job[c].file
  IN  /\ pc[c] = "edited"
      /\ \/ Finish(c)
         \/ /\ sess' = [sess EXCEPT ![c] =
                 [entries |-> Loaded.entries,
                  cache |-> [g \in DOMAIN Loaded.cache \ {f} |-> Loaded.cache[g]]]]
            /\ SaveThen(c, "done")
            /\ UNCHANGED shown
      /\ UNCHANGED <<now, disk, sessionFile, job, answer, orderly>>

\* A hook that dies leaves the agent with what the tool returned.
Kill(c) ==
  /\ Busy(c)
  /\ answer' = [answer EXCEPT ![c] = [kind |-> "none", base |-> Never, prev |-> Never]]
  /\ Exit(c)
  /\ KeepOrder(FALSE)
  /\ UNCHANGED <<now, disk, sessionFile, job>>

\* Seconds pass between hooks, which last a fraction of one.
Tick ==
  /\ now < MaxTime
  /\ NoneBusy
  /\ now' = now + 1
  /\ UNCHANGED <<disk, sessionFile, pc, job, sess, answer, then, shown, orderly>>

Hook(c) ==
  \/ Load(c) \/ Stat(c) \/ SaveOpen(c) \/ SaveWrite(c) \/ LoadAgain(c)
  \/ Pipeline(c) \/ Dedup(c) \/ EditHook(c) \/ Kill(c)

Next ==
  \/ Tick
  \/ \E f \in Files : ExternalChange(f)
  \/ \E c \in Calls, f \in Files : EditTool(c, f) \/ \E r \in Ranges : ReadTool(c, f, r)
  \/ \E c \in Calls : Hook(c)

Spec == Init /\ [][Next]_vars

-----------------------------------------------------------------------------
IsCache(cache) ==
  /\ DOMAIN cache \subseteq Files
  /\ IsFiniteSet(DOMAIN cache) /\ Cardinality(DOMAIN cache) <= MaxFiles
  /\ \A f \in DOMAIN cache : cache[f] \in [mtime : 0..MaxTime, text : Texts]

IsSess(s) ==
  /\ s.entries \in Seq([file : Files, text : Texts]) /\ Len(s.entries) <= MaxEntries
  /\ IsCache(s.cache)

\* The call is a read, and not at its last save.
Reading(c) ==
  pc[c] \in {"load", "stat", "again", "pipeline", "dedup"} \/ (pc[c] \in {"save", "write"} /\ then[c] # "done")

\* Types; and no session value, saved or loaded, caches more than MaxFiles files.
TypeOK ==
  /\ now \in 0..MaxTime
  /\ disk \in [Files -> [content : Contents, mtime : 0..MaxTime]]
  /\ IsSess(Loaded)
  /\ pc \in [Calls -> Working \cup {"idle", "done"}]
  /\ job \in [Calls -> {Never} \cup Jobs]
  /\ \A c \in Calls : job[c] = Never <=> pc[c] = "idle"
  /\ \A c \in Calls : Reading(c) => job[c].text \in Texts
  /\ DOMAIN sess = Calls
  /\ \A c \in Calls : IsSess(sess[c])
  /\ answer \in [Calls -> [kind : {"none", "digest", "diff", "same"},
                            base : Texts \cup {Never}, prev : Texts \cup {Never}]]
  /\ then \in [Calls -> {"again", "dedup", "done"}]
  /\ shown \in [Files -> Texts \cup {Never}]
  /\ orderly \in BOOLEAN

\* However calls, edits and deaths interleave, what a digest, a diff or a marker
\* refers to is a text some other call of the session read from the same file
\* ("Check if this file was read earlier in the session", hook.rs:904).
BaseWasRead ==
  \A c \in Calls : answer[c].kind \in {"digest", "diff", "same"} =>
    \E d \in Calls \ {c} :
      job[d] # Never /\ job[d].file = job[c].file /\ job[d].text = answer[c].base

\* As long as all goes in order the agent can rely on what it was last told of
\* a file: a digest says that the text is still that one (structure_map.rs:3-5,
\* "lets the model confirm 'this file is still the same'"), a diff starts from it.
AgentKeepsUp ==
  orderly => \A c \in Calls :
    /\ answer[c].kind = "digest" => answer[c].prev = job[c].text
    /\ answer[c].kind = "diff" => answer[c].prev = answer[c].base
=============================================================================
