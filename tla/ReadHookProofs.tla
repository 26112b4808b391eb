---------------------------- MODULE ReadHookProofs ----------------------------
(***************************************************************************)
(* Proofs about ReadHook: the types, with the capacity of the file cache,  *)
(* that digests, diffs and markers refer to texts read by other calls, and *)
(* that in orderly histories they refer to the text the agent last saw.    *)
(***************************************************************************)
EXTENDS ReadHook, FiniteSetTheorems, TLAPS

Entry == [file : Files, text : Texts]
Cached == [mtime : 0..MaxTime, text : Texts]

\* What a read returns is a text.
LEMMA TextTyped ==
  ASSUME NEW content \in Contents, NEW r \in Ranges PROVE TextOf(content, r) \in Texts
BY ReadConstants DEF TextOf, Contents, Texts

\* An empty session is a session.
LEMMA EmptyTyped == IsSess(EmptySess)
<1>1. IsCache(<<>>)
  <2>1. DOMAIN <<>> = {} /\ IsFiniteSet({}) /\ Cardinality({}) = 0
    BY FS_EmptySet
  <2> QED BY <2>1, ReadConstants DEF IsCache
<1>2. <<>> \in Seq(Entry) /\ Len(<<>>) = 0
  OBVIOUS
<1> QED BY <1>1, <1>2, ReadConstants DEF IsSess, EmptySess, Entry

\* set_file_cache keeps a cache within its capacity.
LEMMA CachePutTyped ==
  ASSUME NEW cache, IsCache(cache), NEW f \in Files, NEW m \in 0..MaxTime, NEW t \in Texts,
         NEW r \in set_file_cache(cache, f, m, t)
  PROVE  IsCache(r)
<1> DEFINE kept == DOMAIN cache
           Put(K) == [g \in K \cup {f} |-> IF g = f THEN [mtime |-> m, text |-> t] ELSE cache[g]]
<1>1. ASSUME NEW K, K \subseteq kept, Cardinality(K \cup {f}) <= MaxFiles PROVE IsCache(Put(K))
  <2>1. IsFiniteSet(K \cup {f})
    BY <1>1, FS_Subset, FS_AddElement DEF IsCache
  <2>2. DOMAIN Put(K) = K \cup {f}
    OBVIOUS
  <2>3. \A g \in K \cup {f} : Put(K)[g] \in Cached
    BY <1>1 DEF IsCache, Cached
  <2> HIDE DEF Put
  <2> QED BY <1>1, <2>1, <2>2, <2>3 DEF IsCache, Cached
<1>2. IsFiniteSet(kept) /\ Cardinality(kept) \in Nat /\ Cardinality(kept) <= MaxFiles
  BY FS_CardinalityType DEF IsCache
<1>3. CASE r = cache
  BY <1>3
<1>4. CASE f \in kept /\ r = Put(kept)
  <2>1. kept \cup {f} = kept
    BY <1>4
  <2> QED BY <1>1, <1>2, <1>4, <2>1
<1>5. CASE f \notin kept /\ Cardinality(kept) < MaxFiles /\ r = Put(kept)
  <2>1. Cardinality(kept \cup {f}) = Cardinality(kept) + 1
    BY <1>2, <1>5, FS_AddElement
  <2> QED BY <1>1, <1>2, <1>5, <2>1, ReadConstants
<1>6. ASSUME NEW g \in kept, f \notin kept, r = Put(kept \ {g}) PROVE IsCache(r)
  <2>1. IsFiniteSet(kept \ {g}) /\ Cardinality(kept \ {g}) = Cardinality(kept) - 1
    BY <1>2, FS_RemoveElement
  <2>2. Cardinality((kept \ {g}) \cup {f}) = Cardinality(kept \ {g}) + 1
    BY <1>6, <2>1, FS_AddElement
  <2>3. Cardinality((kept \ {g}) \cup {f}) <= MaxFiles
    BY <1>2, <2>1, <2>2
  <2> HIDE DEF Put
  <2> QED BY <1>1, <1>6, <2>3
<1>7. r \in (IF t \in Huge THEN {cache}
             ELSE IF Cardinality(kept) >= MaxFiles /\ f \notin kept
             THEN {Put(kept \ {g}) : g \in kept}
             ELSE {Put(kept)})
  BY Zenon DEF set_file_cache
<1> HIDE DEF Put, kept
<1>8. CASE t \notin Huge /\ Cardinality(kept) >= MaxFiles /\ f \notin kept
  <2>1. PICK g \in kept : r = Put(kept \ {g})
    BY <1>7, <1>8
  <2> QED BY <1>6, <1>8, <2>1
<1>9. CASE t \in Huge
  BY <1>3, <1>7, <1>9
<1>10. CASE t \notin Huge /\ ~(Cardinality(kept) >= MaxFiles /\ f \notin kept)
  <2>1. r = Put(kept)
    BY <1>7, <1>10
  <2>2. f \in kept \/ Cardinality(kept) < MaxFiles
    BY <1>2, <1>10, ReadConstants
  <2> QED BY <1>4, <1>5, <2>1, <2>2
<1> QED BY <1>8, <1>9, <1>10

\* Recording a read keeps at most MaxEntries entries.
LEMMA RecordTyped ==
  ASSUME NEW es \in Seq(Entry), Len(es) <= MaxEntries, NEW e \in Entry
  PROVE  LET all == Append(es, e)
             new == IF Len(all) > MaxEntries THEN Tail(all) ELSE all
         IN  new \in Seq(Entry) /\ Len(new) <= MaxEntries
<1> DEFINE all == Append(es, e)
<1>1. all \in Seq(Entry) /\ Len(all) = Len(es) + 1 /\ all # <<>>
  OBVIOUS
<1>2. Tail(all) \in Seq(Entry) /\ Len(Tail(all)) = Len(es)
  BY <1>1
<1> QED BY <1>1, <1>2, ReadConstants

\* A cache without one file is a cache.
LEMMA CacheDropTyped ==
  ASSUME NEW cache, IsCache(cache), NEW f PROVE IsCache([g \in DOMAIN cache \ {f} |-> cache[g]])
<1> DEFINE new == [g \in DOMAIN cache \ {f} |-> cache[g]]
<1>1. IsFiniteSet(DOMAIN cache \ {f}) /\ Cardinality(DOMAIN cache \ {f}) <= Cardinality(DOMAIN cache)
  BY FS_Subset, IsFiniteSet(DOMAIN cache) DEF IsCache
<1>2. Cardinality(DOMAIN cache \ {f}) \in Nat /\ Cardinality(DOMAIN cache) \in Nat
  BY <1>1, FS_CardinalityType DEF IsCache
<1>3. DOMAIN new = DOMAIN cache \ {f} /\ \A g \in DOMAIN new : new[g] = cache[g]
  OBVIOUS
<1> HIDE DEF new
<1> QED BY <1>1, <1>2, <1>3, ReadConstants DEF IsCache

-----------------------------------------------------------------------------
\* The initial state is well typed.
LEMMA TypeInit == Init => TypeOK
<1> SUFFICES ASSUME Init PROVE TypeOK
  OBVIOUS
<1> USE ReadConstants
<1>1. IsSess(Loaded) /\ \A c \in Calls : IsSess(sess[c])
  BY EmptyTyped DEF Init, Loaded
<1>2. \A c \in Calls : job[c] = Never /\ pc[c] = "idle"
  BY DEF Init
<1>3. now \in 0..MaxTime /\ disk \in [Files -> [content : Contents, mtime : 0..MaxTime]]
  BY DEF Init
<1>4. orderly \in BOOLEAN
  BY Zenon DEF Init
<1>5. /\ pc \in [Calls -> Working \cup {"idle", "done"}]
      /\ job \in [Calls -> {Never} \cup Jobs]
      /\ DOMAIN sess = Calls
      /\ then \in [Calls -> {"again", "dedup", "done"}]
      /\ shown \in [Files -> Texts \cup {Never}]
  BY DEF Init
<1>6. answer \in [Calls -> [kind : {"none", "digest", "diff", "same"},
                            base : Texts \cup {Never}, prev : Texts \cup {Never}]]
  BY DEF Init
<1> QED BY <1>1, <1>2, <1>3, <1>4, <1>5, <1>6 DEF TypeOK, Reading

Answers == [kind : {"none", "digest", "diff", "same"},
            base : Texts \cup {Never}, prev : Texts \cup {Never}]

\* A change of a file keeps the type of the disk.
LEMMA ChangeTyped ==
  ASSUME TypeOK, NEW f \in Files, Change(f)
  PROVE  disk' \in [Files -> [content : Contents, mtime : 0..MaxTime]]
  BY DEF TypeOK, Change

\* The tools keep the types of the history.
LEMMA OrderTyped ==
  ASSUME TypeOK, NEW f \in Files,
         ExternalChange(f) \/ \E c \in Calls : EditTool(c, f) \/ \E r \in Ranges : ReadTool(c, f, r)
  PROVE  shown' \in [Files -> Texts \cup {Never}] /\ orderly' \in BOOLEAN
<1>1. shown' = shown \/ shown' = Forgotten
  BY DEF ExternalChange, EditTool, ReadTool, KeepOrder
<1>2. shown' \in [Files -> Texts \cup {Never}]
  BY <1>1 DEF TypeOK, Forgotten
<1>3. CASE ExternalChange(f)
  <2>1. orderly' = (orderly /\ disk[f].mtime < now /\ \A c \in Calls : Busy(c) => job[c].file # f)
    BY <1>3 DEF ExternalChange, KeepOrder
  <2> QED BY <1>2, <2>1, Zenon DEF TypeOK
<1>4. CASE \E c \in Calls : EditTool(c, f)
  <2>1. orderly' = (orderly /\ NoneBusy /\ disk[f].mtime < now)
    BY <1>4 DEF EditTool, KeepOrder
  <2> QED BY <1>2, <2>1, Zenon DEF TypeOK
<1>5. CASE \E c \in Calls, r \in Ranges : ReadTool(c, f, r)
  <2>1. PICK c \in Calls, r \in Ranges : ReadTool(c, f, r)
    BY <1>5
  <2>2. orderly' = (orderly /\ NoneBusy /\ TextOf(disk[f].content, r) \notin Huge
                    /\ (shown[f] = Never \/ DOMAIN shown[f] = r))
    BY <2>1 DEF ReadTool, KeepOrder
  <2> QED BY <1>2, <2>2, Zenon DEF TypeOK
<1> QED BY <1>3, <1>4, <1>5

\* A prepared answer is an answer.
LEMMA PrepareTyped ==
  ASSUME TypeOK, NEW c \in Calls, pc[c] # "idle", NEW base \in Texts \cup {Never},
         NEW kind \in {"none", "digest", "diff", "same"}, Prepare(c, kind, base)
  PROVE  answer' \in [Calls -> Answers]
<1>1. job[c] \in Jobs
  BY DEF TypeOK
<1>2. shown[job[c].file] \in Texts \cup {Never}
  BY <1>1 DEF TypeOK, Jobs
<1> QED BY <1>2 DEF TypeOK, Prepare, Answers

\* The end of a call keeps the types of what it touches.
LEMMA ExitTyped ==
  ASSUME TypeOK, NEW c \in Calls, pc[c] # "idle", Exit(c), UNCHANGED job
  PROVE  /\ pc' \in [Calls -> Working \cup {"idle", "done"}]
         /\ \A d \in Calls : job'[d] = Never <=> pc'[d] = "idle"
         /\ \A d \in Calls : Reading(d)' => job'[d].text \in Texts
         /\ DOMAIN sess' = Calls /\ \A d \in Calls : IsSess(sess'[d])
         /\ then' \in [Calls -> {"again", "dedup", "done"}]
<1>1. DOMAIN sess' = Calls /\ \A d \in Calls : IsSess(sess'[d])
  BY EmptyTyped DEF TypeOK, Exit
<1> QED BY <1>1 DEF TypeOK, Exit, Goto, Reading, Working

\* Finishing is the end of a call with what the agent has been shown.
LEMMA FinishTyped ==
  ASSUME TypeOK, NEW c \in Calls, pc[c] # "idle", Finish(c)
  PROVE  Exit(c) /\ shown' \in [Files -> Texts \cup {Never}]
<1>1. job[c] \in Jobs
  BY DEF TypeOK
<1> QED BY <1>1 DEF TypeOK, Finish, Jobs

\* Remembering a text keeps the session well typed.
LEMMA RememberTyped ==
  ASSUME TypeOK, NEW c \in Calls, pc[c] = "stat", NEW m \in 0..MaxTime,
         Remember(c, job[c].file, m)
  PROVE  DOMAIN sess' = Calls /\ \A d \in Calls : IsSess(sess'[d])
<1>1. job[c].file \in Files /\ job[c].text \in Texts /\ IsSess(sess[c]) /\ DOMAIN sess = Calls
  BY DEF TypeOK, Jobs, Reading
<1>2. PICK new \in set_file_cache(sess[c].cache, job[c].file, m, job[c].text) :
        sess' = [sess EXCEPT ![c] = [entries |-> sess[c].entries, cache |-> new]]
  BY DEF Remember
<1>3. IsCache(new)
  BY <1>1, <1>2, CachePutTyped DEF IsSess
<1>4. IsSess([entries |-> sess[c].entries, cache |-> new])
  BY <1>1, <1>3 DEF IsSess
<1> QED BY <1>1, <1>2, <1>4 DEF TypeOK

\* So does recording one.
LEMMA RecordReadTyped ==
  ASSUME TypeOK, NEW c \in Calls, Reading(c), RecordRead(c)
  PROVE  DOMAIN sess' = Calls /\ \A d \in Calls : IsSess(sess'[d])
<1> DEFINE e == [file |-> job[c].file, text |-> job[c].text]
           all == Append(sess[c].entries, e)
           new == IF Len(all) > MaxEntries THEN Tail(all) ELSE all
<1>1. e \in Entry /\ IsSess(sess[c]) /\ DOMAIN sess = Calls
  BY ReadConstants DEF TypeOK, Jobs, Reading, Entry
<1>2. new \in Seq(Entry) /\ Len(new) <= MaxEntries
  BY <1>1, RecordTyped DEF IsSess, Entry
<1>3. sess' = [sess EXCEPT ![c] = [entries |-> new, cache |-> sess[c].cache]]
  BY DEF RecordRead
<1> HIDE DEF new
<1>4. IsSess([entries |-> new, cache |-> sess[c].cache])
  BY <1>1, <1>2 DEF IsSess, Entry
<1> QED BY <1>1, <1>3, <1>4 DEF TypeOK

\* The start of a save keeps the types.
LEMMA SaveTyped ==
  ASSUME TypeOK, NEW c \in Calls, pc[c] # "idle", NEW l \in {"again", "dedup", "done"},
         SaveThen(c, l), Reading(c) \/ l = "done", UNCHANGED <<sessionFile, job>>
  PROVE  /\ IsSess(Loaded)'
         /\ pc' \in [Calls -> Working \cup {"idle", "done"}]
         /\ \A d \in Calls : job'[d] = Never <=> pc'[d] = "idle"
         /\ \A d \in Calls : Reading(d)' => job'[d].text \in Texts
         /\ then' \in [Calls -> {"again", "dedup", "done"}]
<1>1. IsSess(Loaded)'
  BY DEF TypeOK, Loaded
<1> QED BY <1>1 DEF TypeOK, SaveThen, Goto, Reading, Working

\* Going on to another step of a read keeps the types.
LEMMA GotoTyped ==
  ASSUME TypeOK, NEW c \in Calls, Reading(c), NEW l \in {"stat", "pipeline", "dedup"}, Goto(c, l),
         UNCHANGED <<job, then>>
  PROVE  /\ pc' \in [Calls -> Working \cup {"idle", "done"}]
         /\ \A d \in Calls : job'[d] = Never <=> pc'[d] = "idle"
         /\ \A d \in Calls : Reading(d)' => job'[d].text \in Texts
BY DEF TypeOK, Goto, Reading, Working

\* The tools' steps keep the types.
LEMMA TypeTools ==
  ASSUME TypeOK, NEW f \in Files,
         ExternalChange(f) \/ \E c \in Calls : EditTool(c, f) \/ \E r \in Ranges : ReadTool(c, f, r)
  PROVE  TypeOK'
<1>1. CASE ExternalChange(f)
  <2>1. IsSess(Loaded)' /\ \A c \in Calls : IsSess(sess'[c]) /\ (Reading(c)' <=> Reading(c))
    BY <1>1 DEF TypeOK, ExternalChange, Loaded, Reading
  <2> QED BY <1>1, <2>1, ChangeTyped, OrderTyped DEF TypeOK, ExternalChange
<1>2. ASSUME NEW c \in Calls, EditTool(c, f) PROVE TypeOK'
  <2>1. [file |-> f, text |-> Never] \in Jobs
    BY DEF Jobs
  <2>2. Change(f) /\ UNCHANGED <<now, sessionFile, sess, answer, then>>
    BY <1>2 DEF EditTool
  <2>3. IsSess(Loaded)' /\ \A d \in Calls : IsSess(sess'[d])
    BY <2>2 DEF TypeOK, Loaded
  <2>4. pc[c] = "idle" /\ pc' = [pc EXCEPT ![c] = "edited"]
        /\ job' = [job EXCEPT ![c] = [file |-> f, text |-> Never]]
    BY <1>2 DEF EditTool, Startable, Goto
  <2>5. /\ pc' \in [Calls -> Working \cup {"idle", "done"}]
        /\ job' \in [Calls -> {Never} \cup Jobs]
        /\ \A d \in Calls : job'[d] = Never <=> pc'[d] = "idle"
    BY <2>1, <2>4, ReadConstants DEF TypeOK, Working
  <2>6. \A d \in Calls : Reading(d)' => job'[d].text \in Texts
    BY <2>2, <2>4 DEF TypeOK, Reading
  <2>7. shown' \in [Files -> Texts \cup {Never}] /\ orderly' \in BOOLEAN
    BY <1>2, OrderTyped
  <2> QED BY <2>2, <2>3, <2>5, <2>6, <2>7, ChangeTyped DEF TypeOK
<1>3. ASSUME NEW c \in Calls, NEW r \in Ranges, ReadTool(c, f, r) PROVE TypeOK'
  <2> DEFINE t == TextOf(disk[f].content, r)
  <2>1. t \in Texts /\ [file |-> f, text |-> t] \in Jobs
    BY TextTyped DEF TypeOK, Jobs
  <2>2. UNCHANGED <<now, disk, sessionFile, sess, answer, then>>
    BY <1>3 DEF ReadTool
  <2>3. IsSess(Loaded)' /\ \A d \in Calls : IsSess(sess'[d])
    BY <2>2 DEF TypeOK, Loaded
  <2>4. pc[c] = "idle" /\ pc' = [pc EXCEPT ![c] = "load"]
        /\ job' = [job EXCEPT ![c] = [file |-> f, text |-> t]]
    BY <1>3 DEF ReadTool, Startable, Goto
  <2> HIDE DEF t
  <2>5. /\ pc' \in [Calls -> Working \cup {"idle", "done"}]
        /\ job' \in [Calls -> {Never} \cup Jobs]
        /\ \A d \in Calls : job'[d] = Never <=> pc'[d] = "idle"
    BY <2>1, <2>4, ReadConstants DEF TypeOK, Working
  <2>6. \A d \in Calls : Reading(d)' => job'[d].text \in Texts
    BY <2>1, <2>2, <2>4 DEF TypeOK, Reading
  <2>7. shown' \in [Files -> Texts \cup {Never}] /\ orderly' \in BOOLEAN
    BY <1>3, OrderTyped
  <2> QED BY <2>2, <2>3, <2>5, <2>6, <2>7 DEF TypeOK
<1> QED BY <1>1, <1>2, <1>3

\* The end of the call, with an answer or none, keeps the types.
LEMMA ReturnTyped ==
  ASSUME TypeOK, NEW c \in Calls, Busy(c), NEW base \in Texts \cup {Never},
         NEW kind \in {"none", "digest", "diff", "same"}, Return(c, kind, base) \/ GiveText(c),
         UNCHANGED <<now, disk, sessionFile, job, orderly>>
  PROVE  TypeOK'
<1>1. pc[c] # "idle"
  BY DEF Busy, Working
<1>2. Finish(c) /\ (Prepare(c, kind, base) \/ UNCHANGED answer)
  BY DEF Return, GiveText
<1>3. Exit(c) /\ shown' \in [Files -> Texts \cup {Never}]
  BY <1>1, <1>2, FinishTyped
<1>4. answer' \in [Calls -> Answers]
  BY <1>1, <1>2, PrepareTyped DEF TypeOK, Answers
<1>5. IsSess(Loaded)'
  BY DEF TypeOK, Loaded
<1> QED BY <1>1, <1>3, <1>4, <1>5, ExitTyped DEF TypeOK, Answers

\* Every step of a hook keeps the types.
LEMMA TypeHook == ASSUME TypeOK, NEW c \in Calls, Hook(c) PROVE TypeOK'
<1> DEFINE f == job[c].file
<1>1. CASE Load(c)
  <2>1. Reading(c) /\ Goto(c, "stat") /\ UNCHANGED <<now, disk, sessionFile, job, then, orderly, answer, shown>>
    BY <1>1 DEF Load, Stay, Reading
  <2>2. DOMAIN sess' = Calls /\ IsSess(Loaded)' /\ \A d \in Calls : IsSess(sess'[d])
    BY <1>1, <2>1 DEF TypeOK, Load, Loaded
  <2> QED BY <2>1, <2>2, GotoTyped DEF TypeOK
<1>2. CASE Stat(c)
  <2>1. /\ pc[c] = "stat" /\ Reading(c) /\ Busy(c) /\ UNCHANGED <<now, disk, sessionFile, job, orderly>>
        /\ f \in Files /\ IsCache(sess[c].cache)
    BY <1>2 DEF TypeOK, Stat, Reading, Busy, Working, Jobs, IsSess
  <2>2. f \in DOMAIN sess[c].cache => sess[c].cache[f].text \in Texts
    BY <2>1 DEF IsCache
  <2>3. CASE f \in DOMAIN sess[c].cache /\ Return(c, "digest", sess[c].cache[f].text)
    BY <2>1, <2>2, <2>3, ReturnTyped
  <2>4. ASSUME Remember(c, f, disk[f].mtime), NEW l \in {"again", "done"}, SaveThen(c, l),
               shown' = shown, answer' \in [Calls -> Answers]
        PROVE TypeOK'
    <3>1. disk[f].mtime \in 0..MaxTime
      BY <2>1 DEF TypeOK
    <3>2. DOMAIN sess' = Calls /\ \A d \in Calls : IsSess(sess'[d])
      BY <2>1, <2>4, <3>1, RememberTyped
    <3> QED BY <2>1, <2>4, <3>2, SaveTyped DEF TypeOK, Answers
  <2>5. CASE Remember(c, f, disk[f].mtime) /\ SaveThen(c, "again") /\ Stay
    BY <2>4, <2>5 DEF Stay, TypeOK, Answers
  <2>6. CASE /\ Remember(c, f, disk[f].mtime) /\ SaveThen(c, "done") /\ f \in DOMAIN sess[c].cache
             /\ Prepare(c, "diff", sess[c].cache[f].text) /\ UNCHANGED shown
    <3>1. answer' \in [Calls -> Answers]
      BY <2>1, <2>2, <2>6, PrepareTyped
    <3> QED BY <2>4, <2>6, <3>1
  <2> QED BY <1>2, <2>3, <2>5, <2>6 DEF Stat
<1>3. CASE SaveWrite(c)
  <2>1. /\ pc[c] = "write" /\ UNCHANGED <<now, disk, job, answer, orderly>> /\ IsSess(sess[c])
        /\ sessionFile' \in {sess[c], Torn}
    BY <1>3 DEF TypeOK, SaveWrite
  <2>2. IsSess(Loaded)'
    BY <2>1, EmptyTyped DEF Loaded
  <2>3. CASE Finish(c)
    BY <2>1, <2>2, <2>3, FinishTyped, ExitTyped DEF TypeOK
  <2>4. CASE then[c] # "done" /\ Goto(c, then[c]) /\ UNCHANGED <<sess, then, shown>>
    <3>1. /\ pc' \in [Calls -> Working \cup {"idle", "done"}]
          /\ \A d \in Calls : job'[d] = Never <=> pc'[d] = "idle"
          /\ \A d \in Calls : Reading(d)' => job'[d].text \in Texts
      BY <2>1, <2>4 DEF TypeOK, Goto, Reading, Working
    <3> QED BY <2>1, <2>2, <2>4, <3>1 DEF TypeOK
  <2> QED BY <1>3, <2>3, <2>4 DEF SaveWrite
<1>4. CASE LoadAgain(c)
  <2>1. Reading(c) /\ Goto(c, "pipeline") /\ UNCHANGED <<now, disk, sessionFile, job, then, orderly, answer, shown>>
    BY <1>4 DEF LoadAgain, Stay, Reading
  <2>2. DOMAIN sess' = Calls /\ IsSess(Loaded)' /\ \A d \in Calls : IsSess(sess'[d])
    BY <1>4, <2>1 DEF TypeOK, LoadAgain, Loaded
  <2> QED BY <2>1, <2>2, GotoTyped DEF TypeOK
<1>5. ASSUME Reading(c), pc[c] # "idle", RecordRead(c), UNCHANGED <<now, disk, sessionFile, job, orderly>>
      PROVE TypeOK'
  <2>1. SaveThen(c, "done") /\ UNCHANGED <<answer, shown>>
    BY <1>5 DEF RecordRead, Stay
  <2> QED BY <1>5, <2>1, SaveTyped, RecordReadTyped DEF TypeOK
<1>6. CASE Pipeline(c)
  <2>1. /\ pc[c] = "pipeline" /\ Reading(c) /\ Busy(c) /\ UNCHANGED <<now, disk, sessionFile, job, orderly>>
    BY <1>6 DEF Pipeline, Reading, Busy, Working
  <2>2. CASE RecordRead(c)
    BY <1>5, <2>1, <2>2
  <2>3. CASE GiveText(c)
    BY <2>1, <2>3, ReturnTyped
  <2>4. CASE Goto(c, "dedup") /\ Stay /\ UNCHANGED <<sess, then>>
    <3>1. IsSess(Loaded)'
      BY <2>1 DEF TypeOK, Loaded
    <3> QED BY <2>1, <2>4, <3>1, GotoTyped DEF TypeOK, Stay
  <2>5. CASE SaveThen(c, "dedup") /\ Stay /\ UNCHANGED sess
    BY <2>1, <2>5, SaveTyped DEF TypeOK, Stay
  <2> QED BY <1>6, <2>2, <2>3, <2>4, <2>5 DEF Pipeline
<1>7. CASE Dedup(c)
  <2>1. /\ pc[c] = "dedup" /\ Reading(c) /\ Busy(c) /\ UNCHANGED <<now, disk, sessionFile, job, orderly>>
    BY <1>7 DEF Dedup, Reading, Busy, Working
  <2>2. CASE GiveText(c)
    BY <2>1, <2>2, ReturnTyped
  <2>3. ASSUME NEW i \in SimilarRead(c), Return(c, "same", sess[c].entries[i].text) PROVE TypeOK'
    <3>1. sess[c].entries \in Seq(Entry) /\ i \in DOMAIN sess[c].entries
      BY <2>3 DEF TypeOK, IsSess, SimilarRead, Entry
    <3>2. sess[c].entries[i] \in Entry
      BY <3>1
    <3>3. sess[c].entries[i].text \in Texts
      BY <3>2 DEF Entry
    <3> QED BY <2>1, <2>3, <3>3, ReturnTyped
  <2>4. CASE RecordRead(c)
    BY <1>5, <2>1, <2>4
  <2> QED BY <1>7, <2>2, <2>3, <2>4 DEF Dedup
<1>8. CASE EditHook(c)
  <2>1. /\ pc[c] = "edited" /\ UNCHANGED <<now, disk, sessionFile, job, answer, orderly>> /\ IsSess(Loaded)
    BY <1>8 DEF TypeOK, EditHook
  <2>2. CASE Finish(c)
    <3>1. IsSess(Loaded)'
      BY <2>1 DEF Loaded
    <3> QED BY <2>1, <2>2, <3>1, FinishTyped, ExitTyped DEF TypeOK
  <2>3. CASE /\ sess' = [sess EXCEPT ![c] =
                    [entries |-> Loaded.entries,
                     cache |-> [g \in DOMAIN Loaded.cache \ {f} |-> Loaded.cache[g]]]]
             /\ SaveThen(c, "done") /\ UNCHANGED shown
    <3> DEFINE new == [g \in DOMAIN Loaded.cache \ {f} |-> Loaded.cache[g]]
    <3>1. IsCache(new)
      BY <2>1, CacheDropTyped DEF IsSess
    <3> HIDE DEF new
    <3>2. IsSess([entries |-> Loaded.entries, cache |-> new])
      BY <2>1, <3>1 DEF IsSess
    <3>3. sess' = [sess EXCEPT ![c] = [entries |-> Loaded.entries, cache |-> new]]
      BY <2>3, Zenon DEF new
    <3>4. DOMAIN sess' = Calls /\ \A d \in Calls : IsSess(sess'[d])
      BY <3>2, <3>3 DEF TypeOK
    <3> QED BY <2>1, <2>3, <3>4, SaveTyped DEF TypeOK
  <2> QED BY <1>8, <2>2, <2>3 DEF EditHook
<1>9. CASE Kill(c)
  <2>1. /\ Busy(c) /\ Exit(c) /\ UNCHANGED <<now, disk, sessionFile, job>>
        /\ answer' = [answer EXCEPT ![c] = [kind |-> "none", base |-> Never, prev |-> Never]]
        /\ orderly' = (orderly /\ FALSE) /\ shown' = Forgotten
    BY <1>9 DEF Kill, KeepOrder
  <2>2. IsSess(Loaded)' /\ shown' \in [Files -> Texts \cup {Never}] /\ pc[c] # "idle"
    BY <2>1 DEF TypeOK, Loaded, Forgotten, Busy, Working
  <2>3. orderly' \in BOOLEAN
    BY <2>1
  <2>4. answer' \in [Calls -> Answers]
    BY <2>1 DEF TypeOK, Answers
  <2> QED BY <2>1, <2>2, <2>3, <2>4, ExitTyped DEF TypeOK, Answers
<1>10. CASE SaveOpen(c)
  <2>1. IsSess(Loaded)'
    BY <1>10, EmptyTyped DEF SaveOpen, Loaded
  <2>2. /\ pc' \in [Calls -> Working \cup {"idle", "done"}]
        /\ \A d \in Calls : job'[d] = Never <=> pc'[d] = "idle"
        /\ \A d \in Calls : Reading(d)' => job'[d].text \in Texts
    BY <1>10 DEF TypeOK, SaveOpen, Goto, Reading, Working
  <2> QED BY <1>10, <2>1, <2>2 DEF TypeOK, SaveOpen, Stay
<1> QED BY <1>1, <1>2, <1>3, <1>4, <1>6, <1>7, <1>8, <1>9, <1>10 DEF Hook

\* Every step keeps the types.
LEMMA TypeStep == TypeOK /\ [Next]_vars => TypeOK'
<1> SUFFICES ASSUME TypeOK, [Next]_vars PROVE TypeOK'
  OBVIOUS
<1>1. CASE Tick
  <2>1. IsSess(Loaded)' /\ \A c \in Calls : Reading(c)' <=> Reading(c)
    BY <1>1 DEF TypeOK, Tick, Loaded, Reading
  <2>2. now' \in 0..MaxTime
    BY <1>1, ReadConstants DEF TypeOK, Tick
  <2> QED BY <1>1, <2>1, <2>2 DEF TypeOK, Tick
<1>2. CASE UNCHANGED vars
  <2>1. IsSess(Loaded)' /\ \A c \in Calls : Reading(c)' <=> Reading(c)
    BY <1>2 DEF TypeOK, vars, Loaded, Reading
  <2> QED BY <1>2, <2>1 DEF TypeOK, vars
<1> QED BY <1>1, <1>2, TypeTools, TypeHook DEF Next

\* Files, sessions and answers keep their types, and no session value outgrows its
\* capacities, for any calls, files, texts and bounds.
THEOREM TypeCorrect == Spec => []TypeOK
<1> QED BY TypeInit, TypeStep, PTL DEF Spec

-----------------------------------------------------------------------------
(* A text in any session value was read by a call that is past its look at *)
(* the cache, an entry by one that is past its record: so what a call      *)
(* finds when it looks is not its own.                                     *)

Past == {"again", "pipeline", "dedup", "save", "write", "done"}
AtEnd(l, x) == l = "done" \/ (l \in {"save", "write"} /\ x = "done")

Looked == {d \in Calls : pc[d] \in Past}
Told == {d \in Calls : AtEnd(pc[d], then[d])}

\* Call d, among calls js, read text t of file f.
HasRead(js, d, f, t) == js[d] # Never /\ js[d].file = f /\ js[d].text = t

CacheSound(cache, looked, js) ==
  \A f \in DOMAIN cache : \E d \in looked : HasRead(js, d, f, cache[f].text)
EntriesSound(entries, told, js) ==
  \A i \in DOMAIN entries : \E d \in told : HasRead(js, d, entries[i].file, entries[i].text)
Sound(s, looked, told, js) == CacheSound(s.cache, looked, js) /\ EntriesSound(s.entries, told, js)

Refers(a) == a.kind \in {"digest", "diff", "same"}
BaseRead(c, a, js) == Refers(a) => \E d \in Calls \ {c} : HasRead(js, d, js[c].file, a.base)

SessionsSound == Sound(Loaded, Looked, Told, job) /\ \A c \in Calls : Sound(sess[c], Looked, Told, job)
NotYet == \A c \in Calls : pc[c] = "idle" => ~Refers(answer[c])
AnswersRead == \A c \in Calls : BaseRead(c, answer[c], job)

ReadInv == SessionsSound /\ NotYet /\ AnswersRead

\* What was read stays read.
Lasts ==
  /\ Looked \subseteq Looked' /\ Told \subseteq Told'
  /\ \A d \in Calls : job[d] # Never => job'[d] = job[d]

\* An empty session is sound.
LEMMA EmptySound == ASSUME NEW looked, NEW told, NEW js PROVE Sound(EmptySess, looked, told, js)
BY DEF Sound, EmptySess, CacheSound, EntriesSound

\* A sound session value stays sound.
LEMMA SoundLasts ==
  ASSUME Lasts, NEW s, Sound(s, Looked, Told, job) PROVE Sound(s, Looked', Told', job')
<1>1. Looked \subseteq Calls /\ Told \subseteq Calls
  BY DEF Looked, Told
<1>2. CacheSound(s.cache, Looked', job')
  BY <1>1 DEF Lasts, Sound, CacheSound, HasRead
<1>3. EntriesSound(s.entries, Told', job')
  BY <1>1 DEF Lasts, Sound, EntriesSound, HasRead
<1> QED BY <1>2, <1>3 DEF Sound

\* An answer that was given, or is none, stays right.
LEMMA AnswersLast ==
  ASSUME TypeOK, Lasts, NotYet, AnswersRead, NEW c \in Calls, answer'[c] = answer[c]
  PROVE  BaseRead(c, answer'[c], job')
<1> SUFFICES ASSUME Refers(answer[c])
             PROVE  \E d \in Calls \ {c} : HasRead(job', d, job'[c].file, answer[c].base)
  BY DEF BaseRead
<1>1. job[c] # Never
  BY DEF TypeOK, NotYet
<1>2. PICK d \in Calls \ {c} : HasRead(job, d, job[c].file, answer[c].base)
  BY DEF AnswersRead, BaseRead
<1>3. HasRead(job', d, job'[c].file, answer[c].base)
  BY <1>1, <1>2 DEF Lasts, HasRead
<1> QED BY <1>3

\* A step that leaves answers alone and sessions as they are, or empty.
LEMMA ReadLasts ==
  ASSUME TypeOK, ReadInv, Lasts, answer' = answer, NotYet',
         Sound(Loaded', Looked', Told', job'),
         \A d \in Calls : Sound(sess'[d], Looked', Told', job')
  PROVE  ReadInv'
<1>1. AnswersRead'
  BY AnswersLast DEF ReadInv, AnswersRead
<1> QED BY <1>1 DEF ReadInv, SessionsSound

\* Where set_file_cache's texts come from.
LEMMA CachePutSound ==
  ASSUME NEW cache, NEW f, NEW m, NEW t, NEW r \in set_file_cache(cache, f, m, t), NEW g \in DOMAIN r
  PROVE  (g = f /\ r[g].text = t) \/ (g \in DOMAIN cache /\ r[g] = cache[g])
<1> DEFINE Put(K) == [x \in K \cup {f} |-> IF x = f THEN [mtime |-> m, text |-> t] ELSE cache[x]]
<1>1. r = cache \/ r = Put(DOMAIN cache) \/ \E x \in DOMAIN cache : r = Put(DOMAIN cache \ {x})
  BY Zenon DEF set_file_cache
<1>2. \E K \in SUBSET (DOMAIN cache) : r = cache \/ r = Put(K)
  BY <1>1
<1> QED BY <1>2

\* Where a recorded session's entries come from.
LEMMA RecordSound ==
  ASSUME NEW es \in Seq(Entry), NEW e \in Entry,
         NEW i \in DOMAIN (IF Len(Append(es, e)) > MaxEntries THEN Tail(Append(es, e)) ELSE Append(es, e))
  PROVE  LET all == Append(es, e)
             new == IF Len(all) > MaxEntries THEN Tail(all) ELSE all
         IN  new[i] = e \/ \E j \in DOMAIN es : new[i] = es[j]
<1> DEFINE all == Append(es, e)
<1>1. all \in Seq(Entry) /\ Len(all) = Len(es) + 1 /\ all # <<>>
      /\ \A j \in 1..Len(all) : all[j] = e \/ (j \in DOMAIN es /\ all[j] = es[j])
  OBVIOUS
<1>2. Len(Tail(all)) = Len(all) - 1 /\ \A j \in 1..(Len(all) - 1) : Tail(all)[j] = all[j + 1]
  BY <1>1
<1>3. DOMAIN all = 1..Len(all) /\ DOMAIN Tail(all) = 1..(Len(all) - 1)
  BY <1>1, <1>2
<1> HIDE DEF all
<1> QED BY <1>1, <1>2, <1>3 DEF all

\* A call that goes on to l, and to x after its save, takes nothing back.
LEMMA MoveLasts ==
  ASSUME TypeOK, NEW c \in Calls, NEW l, NEW x, l # "idle",
         pc' = [pc EXCEPT ![c] = l], then' = [then EXCEPT ![c] = x], job' = job,
         pc[c] \in Past => l \in Past, AtEnd(pc[c], then[c]) => AtEnd(l, x)
  PROVE  Lasts /\ \A d \in Calls : pc'[d] = "idle" => pc[d] = "idle"
<1>1. DOMAIN pc = Calls /\ DOMAIN then = Calls
  BY DEF TypeOK
<1>2. \A d \in Calls : pc'[d] = (IF d = c THEN l ELSE pc[d]) /\ then'[d] = (IF d = c THEN x ELSE then[d])
  BY <1>1
<1>3. Looked \subseteq Looked'
  BY <1>2 DEF Looked, Past
<1>4. Told \subseteq Told'
  BY <1>2 DEF Told, AtEnd
<1> QED BY <1>2, <1>3, <1>4 DEF Lasts

\* No step of a hook takes back what was looked at, told or read.
LEMMA HookLasts ==
  ASSUME TypeOK, NEW c \in Calls, Hook(c)
  PROVE  job' = job /\ Lasts /\ \A d \in Calls : pc'[d] = "idle" => pc[d] = "idle"
<1>1. job' = job
  BY DEF Hook, Load, Stat, SaveOpen, SaveWrite, LoadAgain, Pipeline, Dedup, EditHook, Kill
<1>2. then = [then EXCEPT ![c] = then[c]]
  BY DEF TypeOK
<1>3. CASE Exit(c)
  BY <1>1, <1>3, MoveLasts DEF Exit, Goto, Past, AtEnd
<1>4. ASSUME NEW x \in {"again", "dedup", "done"}, SaveThen(c, x), ~AtEnd(pc[c], then[c])
      PROVE Lasts /\ \A d \in Calls : pc'[d] = "idle" => pc[d] = "idle"
  BY <1>1, <1>4, MoveLasts DEF SaveThen, Goto, Past
<1>5. ASSUME NEW l \in {"stat", "pipeline", "dedup", "again", "write"}, Goto(c, l), UNCHANGED then,
             pc[c] \in Past => l \in Past, AtEnd(pc[c], then[c]) => AtEnd(l, then[c])
      PROVE Lasts /\ \A d \in Calls : pc'[d] = "idle" => pc[d] = "idle"
  BY <1>1, <1>2, <1>5, MoveLasts DEF Goto
<1>6. \/ Exit(c)
      \/ \E x \in {"again", "dedup", "done"} : SaveThen(c, x) /\ ~AtEnd(pc[c], then[c])
      \/ \E l \in {"stat", "pipeline", "dedup", "again", "write"} :
           /\ Goto(c, l) /\ UNCHANGED then
           /\ pc[c] \in Past => l \in Past
           /\ AtEnd(pc[c], then[c]) => AtEnd(l, then[c])
  <2>1. CASE Load(c)
    BY <2>1 DEF Load, Past, AtEnd
  <2>2. CASE Stat(c)
    BY <2>2 DEF Stat, Return, Finish, AtEnd
  <2>3. CASE SaveWrite(c)
    BY <2>3 DEF SaveWrite, Finish, Past, AtEnd, TypeOK
  <2>4. CASE LoadAgain(c)
    BY <2>4 DEF LoadAgain, Past, AtEnd
  <2>5. CASE Pipeline(c)
    BY <2>5 DEF Pipeline, RecordRead, GiveText, Finish, Past, AtEnd
  <2>6. CASE Dedup(c)
    BY <2>6 DEF Dedup, RecordRead, Return, GiveText, Finish, AtEnd
  <2>7. CASE EditHook(c)
    BY <2>7 DEF EditHook, Finish, AtEnd
  <2>8. CASE Kill(c)
    BY <2>8 DEF Kill
  <2>9. CASE SaveOpen(c)
    BY <2>9 DEF SaveOpen, Past, AtEnd
  <2> QED BY <2>1, <2>2, <2>3, <2>4, <2>5, <2>6, <2>7, <2>8, <2>9 DEF Hook
<1> QED BY <1>1, <1>3, <1>4, <1>5, <1>6

\* The tools leave sessions and answers alone.
LEMMA ReadTools ==
  ASSUME TypeOK, ReadInv, NEW f \in Files,
         ExternalChange(f) \/ \E c \in Calls : EditTool(c, f) \/ \E r \in Ranges : ReadTool(c, f, r)
  PROVE  ReadInv'
<1>1. UNCHANGED <<sessionFile, sess, answer, then>>
  BY DEF ExternalChange, EditTool, ReadTool
<1>2. \/ UNCHANGED <<pc, job>>
      \/ \E c \in Calls, l \in {"load", "edited"} : \E j :
           pc[c] = "idle" /\ pc' = [pc EXCEPT ![c] = l] /\ job' = [job EXCEPT ![c] = j]
  BY DEF ExternalChange, EditTool, ReadTool, Startable, Goto
<1>3. Lasts /\ \A d \in Calls : pc'[d] = "idle" => pc[d] = "idle"
  BY <1>1, <1>2 DEF Lasts, Looked, Told, Past, AtEnd, TypeOK
<1>4. NotYet'
  BY <1>1, <1>3 DEF ReadInv, NotYet
<1>5. Loaded' = Loaded
  BY <1>1 DEF Loaded
<1>6. Sound(Loaded', Looked', Told', job') /\ \A d \in Calls : Sound(sess'[d], Looked', Told', job')
  BY <1>1, <1>3, <1>5, SoundLasts DEF ReadInv, SessionsSound
<1> QED BY <1>1, <1>3, <1>4, <1>6, ReadLasts

\* A step of a hook keeps the invariant if the session values and the answer it
\* leaves are sound.
LEMMA HookSound ==
  ASSUME TypeOK, ReadInv, NEW c \in Calls, Hook(c),
         Sound(Loaded', Looked', Told', job'), Sound(sess'[c], Looked', Told', job'),
         \A d \in Calls \ {c} : sess'[d] = sess[d] /\ answer'[d] = answer[d],
         answer'[c] = answer[c] \/ BaseRead(c, answer'[c], job')
  PROVE  ReadInv'
<1>1. Lasts /\ \A d \in Calls : pc'[d] = "idle" => pc[d] = "idle"
  BY HookLasts
<1>2. pc[c] # "idle" /\ pc'[c] # "idle"
  <2>1. pc[c] # "idle"
    BY DEF Hook, Load, Stat, SaveOpen, SaveWrite, LoadAgain, Pipeline, Dedup, EditHook, Kill, Busy, Working
  <2> QED BY <1>1, <2>1
<1>3. NotYet'
  BY <1>1, <1>2 DEF ReadInv, NotYet
<1>4. \A d \in Calls : Sound(sess'[d], Looked', Told', job')
  BY <1>1, SoundLasts DEF ReadInv, SessionsSound
<1>5. \A d \in Calls : BaseRead(d, answer'[d], job')
  BY <1>1, AnswersLast DEF ReadInv
<1> QED BY <1>3, <1>4, <1>5 DEF ReadInv, SessionsSound, AnswersRead

\* An answer about a text read by some other call refers to it.
LEMMA BaseAnswer ==
  ASSUME TypeOK, NEW c \in Calls, NEW kind, NEW base, Prepare(c, kind, base), job' = job,
         \E d \in Calls \ {c} : HasRead(job, d, job[c].file, base)
  PROVE  BaseRead(c, answer'[c], job') /\ \A d \in Calls \ {c} : answer'[d] = answer[d]
<1>1. answer'[c].base = base
  BY DEF TypeOK, Prepare
<1> QED BY <1>1 DEF TypeOK, Prepare, BaseRead

\* Remembering the text a call has read keeps its session sound.
LEMMA RememberSound ==
  ASSUME TypeOK, ReadInv, NEW c \in Calls, pc[c] = "stat", NEW m, Remember(c, job[c].file, m),
         Lasts, job' = job, c \in Looked'
  PROVE  Sound(sess'[c], Looked', Told', job')
<1>1. PICK new \in set_file_cache(sess[c].cache, job[c].file, m, job[c].text) :
        sess' = [sess EXCEPT ![c] = [entries |-> sess[c].entries, cache |-> new]]
  BY DEF Remember
<1>2. sess'[c].entries = sess[c].entries /\ sess'[c].cache = new
  BY <1>1 DEF TypeOK
<1>3. Sound(sess[c], Looked', Told', job')
  BY SoundLasts DEF ReadInv, SessionsSound
<1>4. HasRead(job', c, job[c].file, job[c].text)
  BY DEF TypeOK, HasRead
<1>5. CacheSound(new, Looked', job')
  BY <1>1, <1>3, <1>4, CachePutSound DEF Sound, CacheSound
<1> QED BY <1>2, <1>3, <1>5 DEF Sound

\* So does recording it.
LEMMA RecordReadSound ==
  ASSUME TypeOK, ReadInv, NEW c \in Calls, Reading(c), RecordRead(c), Lasts, job' = job, c \in Told'
  PROVE  Sound(sess'[c], Looked', Told', job')
<1> DEFINE e == [file |-> job[c].file, text |-> job[c].text]
           all == Append(sess[c].entries, e)
           new == IF Len(all) > MaxEntries THEN Tail(all) ELSE all
<1>1. e \in Entry /\ sess[c].entries \in Seq(Entry)
  BY ReadConstants DEF TypeOK, Jobs, Reading, Entry, IsSess
<1>2. sess' = [sess EXCEPT ![c] = [entries |-> new, cache |-> sess[c].cache]]
  BY DEF RecordRead
<1>3. \A i \in DOMAIN new : new[i] = e \/ \E j \in DOMAIN sess[c].entries : new[i] = sess[c].entries[j]
  BY <1>1, RecordSound
<1> HIDE DEF new, all
<1>4. sess'[c].entries = new /\ sess'[c].cache = sess[c].cache
  BY <1>2 DEF TypeOK
<1>5. Sound(sess[c], Looked', Told', job')
  BY SoundLasts DEF ReadInv, SessionsSound
<1>6. job[c] # Never
  BY DEF TypeOK, Reading
<1>7. HasRead(job', c, e.file, e.text)
  BY <1>6 DEF HasRead
<1> HIDE DEF e
<1>8. EntriesSound(new, Told', job')
  BY <1>3, <1>5, <1>7 DEF Sound, EntriesSound
<1> QED BY <1>4, <1>5, <1>8 DEF Sound

\* Every step of a hook keeps the invariant.
LEMMA ReadStep == ASSUME TypeOK, ReadInv, NEW c \in Calls, Hook(c) PROVE ReadInv'
<1> DEFINE f == job[c].file
           Out(s) == Sound(s, Looked', Told', job')
           SessOf(d) == sess'[d] = sess[d]
<1>1. job' = job /\ Lasts
  BY HookLasts
<1>2. Out(EmptySess) /\ Out(Loaded) /\ \A d \in Calls : Out(sess[d])
  BY <1>1, EmptySound, SoundLasts DEF ReadInv, SessionsSound
<1> HIDE DEF Out
<1>3. sessionFile' \in {sessionFile, Torn, sess[c]} => Out(Loaded')
  BY <1>2 DEF Loaded
<1>4. ASSUME Exit(c) PROVE Out(sess'[c]) /\ \A d \in Calls \ {c} : SessOf(d)
  BY <1>2, <1>4 DEF TypeOK, Exit
<1>5. ASSUME sessionFile' \in {sessionFile, Torn, sess[c]}, Out(sess'[c]),
             \A d \in Calls \ {c} : SessOf(d) /\ answer'[d] = answer[d],
             answer'[c] = answer[c] \/ BaseRead(c, answer'[c], job')
      PROVE ReadInv'
  BY <1>3, <1>5, HookSound DEF Out
<1>6. ASSUME GiveText(c), UNCHANGED sessionFile PROVE ReadInv'
  BY <1>4, <1>5, <1>6 DEF GiveText, Finish
<1>7. ASSUME Reading(c), RecordRead(c), UNCHANGED sessionFile PROVE ReadInv'
  <2>1. UNCHANGED answer /\ SaveThen(c, "done") /\ \A d \in Calls \ {c} : SessOf(d)
    BY <1>7 DEF TypeOK, RecordRead, Stay
  <2>2. c \in Told'
    BY <2>1 DEF Told, AtEnd, TypeOK, SaveThen, Goto
  <2>3. Out(sess'[c])
    BY <1>1, <1>7, <2>2, RecordReadSound DEF Out
  <2> QED BY <1>5, <1>7, <2>1, <2>3
<1>8. CASE Load(c) \/ LoadAgain(c)
  <2>1. sess' = [sess EXCEPT ![c] = Loaded] /\ UNCHANGED <<answer, sessionFile>>
    BY <1>8 DEF Load, LoadAgain, Stay
  <2> QED BY <1>2, <1>5, <2>1 DEF TypeOK
<1>9. CASE Stat(c)
  <2>1. pc[c] = "stat" /\ c \notin Looked /\ UNCHANGED sessionFile
    BY <1>9 DEF Stat, Looked, Past
  <2>2. ASSUME f \in DOMAIN sess[c].cache, NEW kind, Prepare(c, kind, sess[c].cache[f].text)
        PROVE BaseRead(c, answer'[c], job') /\ \A d \in Calls \ {c} : answer'[d] = answer[d]
    <3>1. \E d \in Looked : HasRead(job, d, f, sess[c].cache[f].text)
      BY <2>2 DEF ReadInv, SessionsSound, Sound, CacheSound
    <3>2. \E d \in Calls \ {c} : HasRead(job, d, f, sess[c].cache[f].text)
      BY <2>1, <3>1 DEF Looked
    <3> QED BY <1>1, <2>2, <3>2, BaseAnswer
  <2>3. CASE f \in DOMAIN sess[c].cache /\ Return(c, "digest", sess[c].cache[f].text)
    <3>1. Prepare(c, "digest", sess[c].cache[f].text) /\ Exit(c)
      BY <2>3 DEF Return, Finish
    <3> QED BY <1>4, <1>5, <2>1, <2>2, <2>3, <3>1
  <2>4. ASSUME Remember(c, f, disk[f].mtime), NEW l \in {"again", "done"}, SaveThen(c, l)
        PROVE Out(sess'[c]) /\ \A d \in Calls \ {c} : SessOf(d)
    <3>1. c \in Looked'
      BY <2>4 DEF Looked, Past, TypeOK, SaveThen, Goto
    <3>2. Out(sess'[c])
      BY <1>1, <2>1, <2>4, <3>1, RememberSound DEF Out
    <3>3. \A d \in Calls \ {c} : SessOf(d)
      BY <2>4 DEF TypeOK, Remember
    <3> QED BY <3>2, <3>3
  <2>5. CASE Remember(c, f, disk[f].mtime) /\ SaveThen(c, "again") /\ Stay
    BY <1>5, <2>1, <2>4, <2>5 DEF Stay
  <2>6. CASE /\ Remember(c, f, disk[f].mtime) /\ SaveThen(c, "done") /\ f \in DOMAIN sess[c].cache
             /\ Prepare(c, "diff", sess[c].cache[f].text)
    BY <1>5, <2>1, <2>2, <2>4, <2>6
  <2> QED BY <1>9, <2>3, <2>5, <2>6 DEF Stat
<1>10. CASE SaveWrite(c)
  <2>1. sessionFile' \in {sess[c], Torn} /\ UNCHANGED answer /\ (Exit(c) \/ UNCHANGED sess)
    BY <1>10 DEF SaveWrite, Finish
  <2> QED BY <1>2, <1>4, <1>5, <2>1
<1>11. CASE Pipeline(c)
  <2>1. pc[c] = "pipeline" /\ Reading(c) /\ UNCHANGED sessionFile
    BY <1>11 DEF Pipeline, Reading
  <2>2. CASE UNCHANGED <<sess, answer>>
    BY <1>2, <1>5, <2>1, <2>2
  <2> QED BY <1>6, <1>7, <1>11, <2>1, <2>2 DEF Pipeline, Stay
<1>12. CASE Dedup(c)
  <2>1. pc[c] = "dedup" /\ Reading(c) /\ c \notin Told /\ UNCHANGED sessionFile
    BY <1>12 DEF Dedup, Reading, Told, AtEnd
  <2>2. ASSUME NEW i \in SimilarRead(c), Return(c, "same", sess[c].entries[i].text) PROVE ReadInv'
    <3>1. i \in DOMAIN sess[c].entries /\ sess[c].entries[i].file = f
      BY <2>2 DEF SimilarRead
    <3>2. \E d \in Told : HasRead(job, d, f, sess[c].entries[i].text)
      BY <3>1 DEF ReadInv, SessionsSound, Sound, EntriesSound
    <3>3. \E d \in Calls \ {c} : HasRead(job, d, f, sess[c].entries[i].text)
      BY <2>1, <3>2 DEF Told
    <3>4. Prepare(c, "same", sess[c].entries[i].text) /\ Exit(c)
      BY <2>2 DEF Return, Finish
    <3> QED BY <1>1, <1>4, <1>5, <2>1, <3>3, <3>4, BaseAnswer
  <2> QED BY <1>6, <1>7, <1>12, <2>1, <2>2 DEF Dedup
<1>13. CASE EditHook(c)
  <2>1. CASE Finish(c)
    BY <1>4, <1>5, <1>13, <2>1 DEF Finish, EditHook
  <2> DEFINE new == [g \in DOMAIN Loaded.cache \ {f} |-> Loaded.cache[g]]
  <2>2. CASE sess' = [sess EXCEPT ![c] = [entries |-> Loaded.entries, cache |-> new]] /\ SaveThen(c, "done")
    <3>1. \A g \in DOMAIN new : g \in DOMAIN Loaded.cache /\ new[g] = Loaded.cache[g]
      OBVIOUS
    <3> HIDE DEF new
    <3>2. Out([entries |-> Loaded.entries, cache |-> new])
      BY <1>2, <3>1 DEF Out, Sound, CacheSound
    <3>3. sess'[c] = [entries |-> Loaded.entries, cache |-> new] /\ \A d \in Calls \ {c} : SessOf(d)
      BY <2>2 DEF TypeOK
    <3>4. UNCHANGED <<sessionFile, answer>>
      BY <1>13 DEF EditHook
    <3> QED BY <1>5, <3>2, <3>3, <3>4
  <2> QED BY <1>13, <2>1, <2>2 DEF EditHook
<1>14. CASE Kill(c)
  <2>1. Exit(c) /\ UNCHANGED sessionFile
        /\ answer' = [answer EXCEPT ![c] = [kind |-> "none", base |-> Never, prev |-> Never]]
    BY <1>14 DEF Kill
  <2>2. BaseRead(c, answer'[c], job') /\ \A d \in Calls \ {c} : answer'[d] = answer[d]
    BY <2>1 DEF TypeOK, BaseRead, Refers
  <2> QED BY <1>4, <1>5, <2>1, <2>2
<1>15. CASE SaveOpen(c)
  BY <1>2, <1>5, <1>15 DEF SaveOpen, Stay
<1> QED BY <1>8, <1>9, <1>10, <1>11, <1>12, <1>13, <1>14, <1>15 DEF Hook

\* Initially there is nothing to refer to.
LEMMA ReadInit == Init => ReadInv
<1> SUFFICES ASSUME Init PROVE ReadInv
  OBVIOUS
<1>1. Loaded = EmptySess /\ \A c \in Calls : sess[c] = EmptySess
  BY DEF Init, Loaded
<1>2. SessionsSound
  BY <1>1, EmptySound DEF SessionsSound
<1>3. \A c \in Calls : ~Refers(answer[c])
  BY DEF Init, Refers
<1> QED BY <1>2, <1>3 DEF ReadInv, NotYet, AnswersRead, BaseRead

\* Every step keeps the invariant.
LEMMA ReadNext == TypeOK /\ ReadInv /\ [Next]_vars => ReadInv'
<1> SUFFICES ASSUME TypeOK, ReadInv, [Next]_vars PROVE ReadInv'
  OBVIOUS
<1>1. CASE UNCHANGED <<sessionFile, pc, job, sess, answer, then>>
  <2>1. Lasts /\ Loaded' = Loaded
    BY <1>1 DEF Lasts, Looked, Told, Loaded
  <2>2. Sound(Loaded', Looked', Told', job') /\ \A d \in Calls : Sound(sess'[d], Looked', Told', job')
    BY <1>1, <2>1, SoundLasts DEF ReadInv, SessionsSound
  <2> QED BY <1>1, <2>1, <2>2, ReadLasts DEF ReadInv, NotYet
<1>2. CASE Next
  BY <1>1, <1>2, ReadTools, ReadStep DEF Next, Tick
<1> QED BY <1>1, <1>2 DEF vars

\* Whatever a digest, a diff or a marker refers to was read by another call of the
\* session, for any calls, files, texts, similarities and capacities.
THEOREM BasesAreRead == Spec => []BaseWasRead
<1>1. ReadInv => BaseWasRead
  BY DEF ReadInv, AnswersRead, BaseRead, Refers, HasRead, BaseWasRead
<1> QED BY <1>1, TypeInit, TypeStep, ReadInit, ReadNext, PTL DEF Spec

-----------------------------------------------------------------------------
(* While all goes in order: one call at a time, whose copy and the session *)
(* file agree with the disk and with what the agent has been shown.        *)

\* A cache has the texts the agent has, as old as the disk's or older, and equal
\* to them where the times are.
Agrees(cache, view, dsk) ==
  \A f \in DOMAIN cache :
    /\ cache[f].text = view[f]
    /\ cache[f].mtime <= dsk[f].mtime
    /\ cache[f].mtime = dsk[f].mtime => cache[f].text = TextOf(dsk[f].content, DOMAIN cache[f].text)

\* What the agent will have been shown once call c has finished, from the moment
\* the call has looked at its file.
Seen(c) == IF job[c].text = Never THEN shown ELSE [shown EXCEPT ![job[c].file] = job[c].text]
View(c) == IF pc[c] \in {"load", "stat"} THEN shown ELSE Seen(c)

Alone == \A c, d \in Calls : Busy(c) /\ Busy(d) => c = d

\* The text a running call has read is still the file's, of the same range as
\* before.
Fresh(c) ==
  LET f == job[c].file
      t == job[c].text
  IN  /\ t = TextOf(disk[f].content, DOMAIN t) /\ t \notin Huge
      /\ shown[f] = Never \/ DOMAIN shown[f] = DOMAIN t

KeptUp(c) ==
  /\ answer[c].kind = "digest" => answer[c].prev = job[c].text
  /\ answer[c].kind = "diff" => answer[c].prev = answer[c].base

CallInOrder(c) ==
  /\ KeptUp(c)
  /\ pc[c] = "idle" => answer[c].kind = "none"
  /\ pc[c] = "edited" => job[c].text = Never
  /\ Busy(c) =>
       /\ job[c].text # Never => Fresh(c)
       /\ pc[c] \notin {"load", "edited"} => Agrees(sess[c].cache, View(c), disk)
       /\ pc[c] \notin {"save", "write"} => Agrees(Loaded.cache, View(c), disk)

InOrder ==
  /\ Alone
  /\ \A f \in Files : disk[f].mtime <= now
  /\ NoneBusy => Agrees(Loaded.cache, shown, disk)
  /\ \A c \in Calls : CallInOrder(c)

OrderInv == orderly => InOrder

\* set_file_cache makes a cache that agrees agree with the text just read.
LEMMA CachePutAgrees ==
  ASSUME NEW cache, IsCache(cache), NEW view, Files \subseteq DOMAIN view, NEW dsk,
         Agrees(cache, view, dsk), NEW f \in Files, dsk[f].mtime \in Nat,
         NEW t, t \notin Huge, t = TextOf(dsk[f].content, DOMAIN t),
         NEW r \in set_file_cache(cache, f, dsk[f].mtime, t)
  PROVE  Agrees(r, [view EXCEPT ![f] = t], dsk)
<1> DEFINE m == dsk[f].mtime
           Put(K) == [g \in K \cup {f} |-> IF g = f THEN [mtime |-> m, text |-> t] ELSE cache[g]]
<1>1. \E K : K \subseteq DOMAIN cache /\ r = Put(K)
  <2>1. r \in (IF t \in Huge THEN {cache}
               ELSE IF Cardinality(DOMAIN cache) >= MaxFiles /\ f \notin DOMAIN cache
               THEN {Put(DOMAIN cache \ {g}) : g \in DOMAIN cache}
               ELSE {Put(DOMAIN cache)})
    BY Zenon DEF set_file_cache
  <2> HIDE DEF Put
  <2> QED BY <2>1
<1>2. PICK K : K \subseteq DOMAIN cache /\ r = Put(K)
  BY <1>1
<1>3. /\ DOMAIN r = K \cup {f} /\ r[f].mtime = m /\ r[f].text = t
      /\ \A g \in K : g # f => r[g] = cache[g]
  BY <1>2
<1>4. K \subseteq Files
  BY <1>2 DEF IsCache
<1> DEFINE new == [view EXCEPT ![f] = t]
<1>5. new[f] = t /\ \A g \in Files : g # f => new[g] = view[g]
  OBVIOUS
<1> HIDE DEF new
<1>6. Agrees(r, new, dsk)
  BY <1>2, <1>3, <1>4, <1>5 DEF Agrees
<1> QED BY <1>6 DEF new

\* A change that moves the modification time on leaves every cache behind it.
LEMMA ChangeAgrees ==
  ASSUME TypeOK, NEW f \in Files, Change(f), disk[f].mtime < now,
         NEW cache, IsCache(cache), NEW view, Agrees(cache, view, disk)
  PROVE  Agrees(cache, view, disk')
<1>1. PICK content \in Contents : disk' = [disk EXCEPT ![f] = [content |-> content, mtime |-> now]]
  BY DEF Change
<1>2. disk'[f].mtime = now /\ \A g \in Files : g # f => disk'[g] = disk[g]
  BY <1>1 DEF TypeOK
<1>3. now \in Nat /\ disk[f].mtime \in Nat
  BY ReadConstants DEF TypeOK
<1>4. \A g \in DOMAIN cache : g \in Files /\ cache[g].mtime \in Nat
  BY ReadConstants DEF IsCache
<1> QED BY <1>2, <1>3, <1>4 DEF Agrees

\* The tools and the clock keep the order.
LEMMA OrderTools ==
  ASSUME TypeOK, OrderInv, orderly', NEW f \in Files,
         ExternalChange(f) \/ \E c \in Calls : EditTool(c, f) \/ \E r \in Ranges : ReadTool(c, f, r)
  PROVE  InOrder'
<1>0. now \in Nat /\ now <= now
  BY ReadConstants DEF TypeOK
<1>1. orderly /\ UNCHANGED <<now, sessionFile, sess, answer, shown>> /\ Loaded' = Loaded
  BY DEF ExternalChange, EditTool, ReadTool, KeepOrder, Loaded
<1>2. /\ InOrder /\ IsCache(Loaded.cache)
      /\ \A c \in Calls : CallInOrder(c) /\ IsCache(sess[c].cache)
  BY <1>1 DEF OrderInv, InOrder, TypeOK, IsSess
<1>3. ASSUME Change(f) PROVE \A g \in Files : disk'[g].mtime <= now
  BY <1>0, <1>2, <1>3 DEF InOrder, Change, TypeOK
<1>4. CASE ExternalChange(f)
  <2>1. /\ Change(f) /\ disk[f].mtime < now /\ UNCHANGED <<pc, job>>
        /\ \A c \in Calls : Busy(c) => job[c].file # f
    BY <1>1, <1>4 DEF ExternalChange, KeepOrder
  <2>2. \A g \in Files : g # f => disk'[g] = disk[g]
    BY <2>1 DEF Change, TypeOK
  <2>3. \A c \in Calls : (Busy(c)' <=> Busy(c)) /\ View(c)' = View(c) /\ (KeptUp(c)' <=> KeptUp(c))
    BY <1>1, <2>1 DEF Busy, View, Seen, KeptUp
  <2>4. \A c \in Calls : Busy(c) /\ job[c].text # Never => Fresh(c)'
    <3> SUFFICES ASSUME NEW c \in Calls, Busy(c), job[c].text # Never PROVE Fresh(c)'
      OBVIOUS
    <3>1. job[c].file \in Files
      BY DEF TypeOK, Jobs, Busy, Working
    <3>2. disk'[job[c].file] = disk[job[c].file]
      BY <2>1, <2>2, <3>1
    <3>3. Fresh(c)
      BY <1>2 DEF CallInOrder
    <3> QED BY <1>1, <2>1, <3>2, <3>3 DEF Fresh
  <2>5. \A x, v : IsCache(x) /\ Agrees(x, v, disk) => Agrees(x, v, disk')
    BY <2>1, ChangeAgrees
  <2>6. \A c \in Calls : CallInOrder(c)'
    BY <1>1, <1>2, <2>1, <2>3, <2>4, <2>5 DEF CallInOrder
  <2>7. NoneBusy' => Agrees(Loaded'.cache, shown', disk')
    <3>1. NoneBusy' => NoneBusy
      BY <2>3 DEF NoneBusy
    <3>2. NoneBusy => Agrees(Loaded.cache, shown, disk')
      BY <1>2, <2>5 DEF InOrder
    <3> QED BY <1>1, <3>1, <3>2
  <2> QED BY <1>1, <1>2, <1>3, <2>1, <2>3, <2>6, <2>7 DEF InOrder, Alone
<1>5. ASSUME NEW c \in Calls, EditTool(c, f) \/ \E r \in Ranges : ReadTool(c, f, r)
      PROVE  InOrder'
  <2>1. /\ NoneBusy /\ pc[c] = "idle"
        /\ \/ /\ pc' = [pc EXCEPT ![c] = "edited"]
              /\ job' = [job EXCEPT ![c] = [file |-> f, text |-> Never]]
           \/ /\ pc' = [pc EXCEPT ![c] = "load"]
              /\ \E t : job' = [job EXCEPT ![c] = [file |-> f, text |-> t]]
    BY <1>1, <1>5 DEF EditTool, ReadTool, KeepOrder, Startable, Goto
  <2>2. /\ pc'[c] \in {"load", "edited"} /\ job'[c].file = f
        /\ pc'[c] = "edited" => job'[c].text = Never
        /\ \A d \in Calls : d # c => pc'[d] = pc[d] /\ job'[d] = job[d]
    BY <2>1 DEF TypeOK
  <2>3. Busy(c)' /\ \A d \in Calls : d # c => ~Busy(d)'
    BY <2>1, <2>2 DEF Busy, NoneBusy, Working
  <2>4. Agrees(Loaded.cache, shown, disk)
    BY <1>2, <2>1 DEF InOrder
  <2>5. \A d \in Calls : KeptUp(d)'
    <3>1. answer[c].kind = "none"
      BY <1>2, <2>1 DEF CallInOrder
    <3> QED BY <1>1, <1>2, <2>2, <3>1 DEF CallInOrder, KeptUp
  <2>6. Agrees(Loaded.cache, shown, disk') /\ \A g \in Files : disk'[g].mtime <= now
    <3>1. CASE EditTool(c, f)
      <4>1. Change(f) /\ disk[f].mtime < now
        BY <1>1, <3>1 DEF EditTool, KeepOrder
      <4> QED BY <1>2, <1>3, <2>4, <4>1, ChangeAgrees
    <3>2. CASE disk' = disk
      BY <1>2, <2>4, <3>2 DEF InOrder
    <3> QED BY <1>5, <3>1, <3>2 DEF ReadTool
  <2>7. job'[c].text # Never => Fresh(c)'
    <3>1. ASSUME NEW r \in Ranges, ReadTool(c, f, r) PROVE Fresh(c)'
      <4> DEFINE t == TextOf(disk[f].content, r)
      <4>1. /\ job'[c].text = t /\ t \notin Huge /\ disk' = disk
            /\ shown[f] = Never \/ DOMAIN shown[f] = r
        BY <1>1, <3>1 DEF ReadTool, KeepOrder, TypeOK
      <4>2. DOMAIN t = r
        BY DEF TextOf
      <4> HIDE DEF t
      <4>3. t = TextOf(disk[f].content, DOMAIN t)
        BY <4>2 DEF t
      <4> QED BY <1>1, <2>2, <4>1, <4>2, <4>3 DEF Fresh
    <3>2. CASE EditTool(c, f)
      BY <3>2 DEF EditTool, TypeOK
    <3> QED BY <1>5, <3>1, <3>2
  <2>8. View(c)' = shown
    BY <1>1, <2>2 DEF View, Seen
  <2>9. CallInOrder(c)'
    BY <1>1, <2>2, <2>5, <2>6, <2>7, <2>8 DEF CallInOrder
  <2>10. \A d \in Calls : d # c => CallInOrder(d)'
    <3>1. \A d \in Calls : d # c => pc'[d] # "edited"
      BY <2>3 DEF Busy, Working
    <3> QED BY <1>1, <1>2, <2>2, <2>3, <2>5, <3>1 DEF CallInOrder
  <2>11. Alone'
    BY <2>3 DEF Alone
  <2>12. ~NoneBusy'
    BY <2>3 DEF NoneBusy
  <2> QED BY <1>1, <2>6, <2>9, <2>10, <2>11, <2>12 DEF InOrder
<1> QED BY <1>4, <1>5

\* A step of a hook keeps the order if it keeps that of its own call.
LEMMA OrderCall ==
  ASSUME TypeOK, InOrder, NEW c \in Calls, Busy(c), UNCHANGED <<now, disk, job>>,
         \A d \in Calls : d # c => pc'[d] = pc[d] /\ answer'[d] = answer[d],
         CallInOrder(c)', ~Busy(c)' => Agrees(Loaded'.cache, shown', disk)
  PROVE  InOrder'
<1>1. \A d \in Calls : d # c => ~Busy(d) /\ ~Busy(d)'
  BY DEF InOrder, Alone, Busy
<1>2. ASSUME NEW d \in Calls, d # c PROVE CallInOrder(d)'
  <2>1. KeptUp(d)'
    BY <1>2 DEF InOrder, CallInOrder, KeptUp
  <2>2. pc'[d] # "edited"
    BY <1>1, <1>2 DEF Busy, Working
  <2> QED BY <1>1, <1>2, <2>1, <2>2 DEF InOrder, CallInOrder
<1>3. Alone'
  BY <1>1 DEF Alone
<1>4. NoneBusy' => Agrees(Loaded'.cache, shown', disk')
  BY DEF NoneBusy
<1> QED BY <1>2, <1>3, <1>4 DEF InOrder

\* The end of a call shows the agent its text.
LEMMA FinishSeen ==
  ASSUME TypeOK, NEW c \in Calls, Finish(c), orderly
  PROVE  /\ shown' = Seen(c) /\ pc'[c] = "done" /\ ~Busy(c)'
         /\ \A d \in Calls : d # c => pc'[d] = pc[d]
  BY DEF Finish, Exit, Goto, Seen, TypeOK, Busy, Working

\* A call that ends with the session file in agreement ends in order.
LEMMA OrderFinish ==
  ASSUME TypeOK, InOrder, orderly, NEW c \in Calls, Busy(c), UNCHANGED <<now, disk, job>>, Finish(c),
         \A d \in Calls : d # c => answer'[d] = answer[d], KeptUp(c)',
         Agrees(Loaded'.cache, Seen(c), disk)
  PROVE  InOrder'
<1>1. /\ shown' = Seen(c) /\ pc'[c] = "done" /\ ~Busy(c)'
      /\ \A d \in Calls : d # c => pc'[d] = pc[d]
  BY FinishSeen
<1>2. CallInOrder(c)'
  BY <1>1 DEF CallInOrder
<1> QED BY <1>1, <1>2, OrderCall

\* A call that goes on has looked at its file, and has nothing new to say.
LEMMA OrderGoes ==
  ASSUME TypeOK, InOrder, NEW c \in Calls, Busy(c), UNCHANGED <<now, disk, job, shown>>,
         NEW l \in {"again", "pipeline", "dedup", "save", "write"}, Goto(c, l),
         \A d \in Calls : d # c => answer'[d] = answer[d], KeptUp(c)',
         Agrees(sess'[c].cache, Seen(c), disk),
         l \notin {"save", "write"} => Agrees(Loaded'.cache, Seen(c), disk)
  PROVE  InOrder'
<1>1. pc'[c] = l /\ Busy(c)' /\ \A d \in Calls : d # c => pc'[d] = pc[d]
  BY DEF Goto, TypeOK, Busy, Working
<1>2. View(c)' = Seen(c)
  BY <1>1 DEF View, Seen
<1>3. job[c].text # Never => Fresh(c)'
  BY DEF InOrder, CallInOrder, Fresh
<1>4. CallInOrder(c)'
  BY <1>1, <1>2, <1>3 DEF CallInOrder
<1> QED BY <1>1, <1>4, OrderCall

\* Every step of a hook keeps the order.
LEMMA OrderHook ==
  ASSUME TypeOK, OrderInv, orderly', NEW c \in Calls, Hook(c)
  PROVE  InOrder'
<1> DEFINE f == job[c].file
           t == job[c].text
           cache == sess[c].cache
<1>1. /\ ~Kill(c) /\ orderly /\ UNCHANGED <<now, disk, job>>
      /\ pc[c] \in {"load", "stat", "again", "pipeline", "dedup", "edited", "save", "write"}
  BY DEF Hook, Load, Stat, SaveOpen, SaveWrite, LoadAgain, Pipeline, Dedup, EditHook, Kill, KeepOrder
<1>2. /\ InOrder /\ CallInOrder(c) /\ Busy(c)
  BY <1>1 DEF OrderInv, InOrder, Busy, Working
<1>3. /\ f \in Files /\ IsCache(cache) /\ IsCache(Loaded.cache)
      /\ shown \in [Files -> Texts \cup {Never}] /\ disk[f].mtime \in Nat
  BY <1>1, ReadConstants DEF TypeOK, IsSess, Jobs
<1>4. UNCHANGED answer => KeptUp(c)'
  BY <1>1, <1>2 DEF CallInOrder, KeptUp
<1>5. CASE Load(c)
  <2>1. /\ pc[c] = "load" /\ sess'[c] = Loaded /\ Goto(c, "stat")
        /\ UNCHANGED <<answer, shown, sessionFile>>
    BY <1>5 DEF Load, Stay, TypeOK
  <2>2. pc'[c] = "stat" /\ Busy(c)' /\ \A d \in Calls : d # c => pc'[d] = pc[d]
    BY <2>1 DEF Goto, TypeOK, Busy, Working
  <2>3. Agrees(Loaded.cache, shown, disk) /\ (t # Never => Fresh(c))
    BY <1>2, <2>1 DEF CallInOrder, View
  <2>4. View(c)' = shown /\ Loaded' = Loaded /\ (Fresh(c)' <=> Fresh(c))
    BY <1>1, <2>1, <2>2 DEF View, Loaded, Fresh
  <2>5. CallInOrder(c)'
    BY <1>1, <1>4, <2>1, <2>2, <2>3, <2>4 DEF CallInOrder
  <2> QED BY <1>1, <1>2, <2>1, <2>2, <2>5, OrderCall
<1>6. CASE Stat(c)
  <2>1. /\ pc[c] = "stat" /\ UNCHANGED sessionFile /\ Loaded' = Loaded
        /\ t # Never /\ Fresh(c) /\ Agrees(cache, shown, disk) /\ Agrees(Loaded.cache, shown, disk)
    <3>1. pc[c] = "stat" /\ UNCHANGED sessionFile
      BY <1>6 DEF Stat
    <3>2. t # Never
      BY <3>1, ReadConstants DEF TypeOK, Reading
    <3> QED BY <1>2, <3>1, <3>2 DEF CallInOrder, View, Loaded
  <2>2. Seen(c) = [shown EXCEPT ![f] = t]
    BY <2>1 DEF Seen
  <2>3. f \in DOMAIN cache => cache[f].text = shown[f] /\ cache[f].text \in Texts
    BY <1>3, <2>1 DEF Agrees, IsCache
  <2>4. ASSUME NEW kind, NEW base, Prepare(c, kind, base)
        PROVE  /\ answer'[c] = [kind |-> kind, base |-> base, prev |-> shown[f]]
               /\ \A d \in Calls : d # c => answer'[d] = answer[d]
    BY <2>4 DEF Prepare, TypeOK
  <2>5. CASE f \in DOMAIN cache /\ Unchanged(cache[f], disk[f].mtime, t)
             /\ Return(c, "digest", cache[f].text)
    <3>1. shown[f] = t
      <4>1. CASE cache[f].text = t
        BY <2>3, <2>5, <4>1
      <4>2. CASE cache[f].mtime = disk[f].mtime
        <5>1. cache[f].text = TextOf(disk[f].content, DOMAIN cache[f].text)
          BY <2>1, <2>5, <4>2 DEF Agrees
        <5>2. DOMAIN shown[f] = DOMAIN t
          BY <2>1, <2>3, <2>5, ReadConstants DEF Fresh
        <5>3. t = TextOf(disk[f].content, DOMAIN t)
          BY <2>1 DEF Fresh
        <5> QED BY <2>3, <2>5, <5>1, <5>2, <5>3
      <4> QED BY <2>5, <4>1, <4>2 DEF Unchanged
    <3>2. Seen(c) = shown
      BY <1>3, <2>2, <3>1
    <3>3. Prepare(c, "digest", cache[f].text) /\ Finish(c)
      BY <2>5 DEF Return
    <3>4. answer'[c] = [kind |-> "digest", base |-> cache[f].text, prev |-> shown[f]]
      BY <2>4, <3>3
    <3>5. answer'[c].kind = "digest" /\ answer'[c].prev = t /\ job'[c].text = t
      BY <1>1, <3>1, <3>4
    <3>6. KeptUp(c)'
      BY <3>5 DEF KeptUp
    <3> QED BY <1>1, <1>2, <2>1, <2>4, <3>2, <3>3, <3>6, OrderFinish
  <2>6. ASSUME Remember(c, f, disk[f].mtime) PROVE Agrees(sess'[c].cache, Seen(c), disk)
    <3>1. PICK new \in set_file_cache(cache, f, disk[f].mtime, t) :
            sess' = [sess EXCEPT ![c] = [entries |-> sess[c].entries, cache |-> new]]
      BY <2>6 DEF Remember
    <3>2. sess'[c].cache = new
      BY <3>1 DEF TypeOK
    <3>3. t \notin Huge /\ t = TextOf(disk[f].content, DOMAIN t)
      BY <2>1 DEF Fresh
    <3>4. Files \subseteq DOMAIN shown
      BY <1>3
    <3>5. Agrees(new, [shown EXCEPT ![f] = t], disk)
      BY <1>3, <2>1, <3>1, <3>3, <3>4, CachePutAgrees
    <3> QED BY <2>2, <3>2, <3>5
  <2>7. CASE Remember(c, f, disk[f].mtime) /\ SaveThen(c, "again") /\ Stay
    <3>1. Goto(c, "save") /\ UNCHANGED <<answer, shown>>
      BY <2>7 DEF SaveThen, Stay
    <3> QED BY <1>1, <1>2, <1>4, <2>6, <2>7, <3>1, OrderGoes
  <2>8. CASE /\ Remember(c, f, disk[f].mtime) /\ f \in DOMAIN cache /\ SaveThen(c, "done")
             /\ Prepare(c, "diff", cache[f].text) /\ UNCHANGED shown
    <3>1. Goto(c, "save") /\ UNCHANGED shown
      BY <2>8 DEF SaveThen
    <3>2. answer'[c] = [kind |-> "diff", base |-> cache[f].text, prev |-> shown[f]]
      BY <2>4, <2>8
    <3>3. answer'[c].kind = "diff" /\ answer'[c].prev = answer'[c].base
      BY <2>3, <2>8, <3>2
    <3>4. KeptUp(c)'
      BY <3>3 DEF KeptUp
    <3> QED BY <1>1, <1>2, <2>4, <2>6, <2>8, <3>1, <3>4, OrderGoes
  <2> QED BY <1>6, <2>5, <2>7, <2>8 DEF Stat
<1>7. CASE SaveOpen(c)
  <2>1. pc[c] = "save" /\ Goto(c, "write") /\ UNCHANGED <<answer, shown, sess>>
    BY <1>7 DEF SaveOpen, Stay
  <2>2. Agrees(cache, Seen(c), disk)
    BY <1>2, <2>1 DEF CallInOrder, View
  <2> QED BY <1>1, <1>2, <1>4, <2>1, <2>2, OrderGoes
<1>8. CASE SaveWrite(c)
  <2>1. pc[c] = "write" /\ UNCHANGED answer /\ Loaded' \in {EmptySess, sess[c]}
    BY <1>8 DEF SaveWrite, Loaded
  <2>2. Agrees(cache, Seen(c), disk) /\ Agrees(EmptySess.cache, Seen(c), disk)
    BY <1>2, <2>1 DEF CallInOrder, View, Agrees, EmptySess
  <2>3. Agrees(Loaded'.cache, Seen(c), disk)
    BY <2>1, <2>2
  <2>4. CASE then[c] = "done"
    BY <1>1, <1>2, <1>4, <1>8, <2>1, <2>3, <2>4, OrderFinish DEF SaveWrite
  <2>5. CASE then[c] # "done"
    <3>1. Goto(c, then[c]) /\ then[c] \in {"again", "dedup"} /\ UNCHANGED <<sess, shown>>
      BY <1>8, <2>5 DEF SaveWrite, TypeOK
    <3> QED BY <1>1, <1>2, <1>4, <2>1, <2>2, <2>3, <3>1, OrderGoes
  <2> QED BY <2>4, <2>5
<1>9. ASSUME pc[c] \in {"again", "pipeline", "dedup", "edited"}, UNCHANGED sessionFile
      PROVE  /\ Loaded' = Loaded /\ Agrees(Loaded.cache, Seen(c), disk)
             /\ pc[c] # "edited" => Agrees(cache, Seen(c), disk)
  BY <1>2, <1>9 DEF CallInOrder, View, Loaded
<1>10. ASSUME pc[c] \in {"again", "pipeline", "dedup", "edited"}, UNCHANGED sessionFile, GiveText(c)
       PROVE  InOrder'
  BY <1>1, <1>2, <1>4, <1>9, <1>10, OrderFinish DEF GiveText
<1>11. ASSUME pc[c] \in {"pipeline", "dedup"}, UNCHANGED sessionFile, RecordRead(c)
       PROVE  InOrder'
  <2>1. Goto(c, "save") /\ UNCHANGED <<answer, shown>> /\ sess'[c].cache = cache
    BY <1>11 DEF RecordRead, SaveThen, Stay, TypeOK
  <2>2. Agrees(cache, Seen(c), disk)
    BY <1>9, <1>11
  <2> QED BY <1>1, <1>2, <1>4, <2>1, <2>2, OrderGoes
<1>12. CASE LoadAgain(c)
  <2>1. /\ pc[c] = "again" /\ Goto(c, "pipeline") /\ UNCHANGED <<sessionFile, answer, shown>>
        /\ sess'[c] = Loaded
    BY <1>12 DEF LoadAgain, Stay, TypeOK
  <2> QED BY <1>1, <1>2, <1>4, <1>9, <2>1, OrderGoes
<1>13. CASE Pipeline(c)
  <2>1. pc[c] = "pipeline" /\ UNCHANGED sessionFile
    BY <1>13 DEF Pipeline
  <2>2. ASSUME NEW l \in {"dedup", "save"}, Goto(c, l), Stay, UNCHANGED sess PROVE InOrder'
    <3>1. UNCHANGED <<answer, shown>>
      BY <2>2 DEF Stay
    <3> QED BY <1>1, <1>2, <1>4, <1>9, <2>1, <2>2, <3>1, OrderGoes
  <2> QED BY <1>10, <1>11, <1>13, <2>1, <2>2 DEF Pipeline, SaveThen
<1>14. CASE Dedup(c)
  <2>1. pc[c] = "dedup" /\ UNCHANGED sessionFile
    BY <1>14 DEF Dedup
  <2>2. ASSUME NEW base, Return(c, "same", base) PROVE InOrder'
    <3>1. Finish(c) /\ answer'[c].kind = "same" /\ \A d \in Calls : d # c => answer'[d] = answer[d]
      BY <2>2 DEF Return, Prepare, TypeOK
    <3>2. KeptUp(c)'
      BY <3>1 DEF KeptUp
    <3> QED BY <1>1, <1>2, <1>9, <2>1, <3>1, <3>2, OrderFinish
  <2> QED BY <1>10, <1>11, <1>14, <2>1, <2>2 DEF Dedup
<1>15. CASE EditHook(c)
  <2>1. pc[c] = "edited" /\ UNCHANGED <<sessionFile, answer>> /\ t = Never
    BY <1>2, <1>15 DEF EditHook, CallInOrder
  <2>2. CASE Finish(c)
    BY <1>10, <2>1, <2>2 DEF GiveText
  <2> DEFINE new == [g \in DOMAIN Loaded.cache \ {f} |-> Loaded.cache[g]]
  <2>3. CASE /\ sess' = [sess EXCEPT ![c] = [entries |-> Loaded.entries, cache |-> new]]
             /\ SaveThen(c, "done") /\ UNCHANGED shown
    <3>1. DOMAIN new \subseteq DOMAIN Loaded.cache /\ \A g \in DOMAIN new : new[g] = Loaded.cache[g]
      OBVIOUS
    <3> HIDE DEF new
    <3>2. sess'[c].cache = new /\ Goto(c, "save")
      BY <2>3 DEF SaveThen, TypeOK
    <3>3. Agrees(new, Seen(c), disk)
      BY <1>9, <2>1, <3>1 DEF Agrees
    <3> QED BY <1>1, <1>2, <1>4, <2>1, <2>3, <3>2, <3>3, OrderGoes
  <2> QED BY <1>15, <2>2, <2>3 DEF EditHook
<1> QED BY <1>1, <1>5, <1>6, <1>7, <1>8, <1>12, <1>13, <1>14, <1>15 DEF Hook

LEMMA OrderStep == TypeOK /\ OrderInv /\ [Next]_vars => OrderInv'
<1> SUFFICES ASSUME TypeOK, OrderInv, [Next]_vars, orderly' PROVE InOrder'
  BY DEF OrderInv
<1>1. ASSUME UNCHANGED <<disk, sessionFile, pc, job, sess, answer, shown, orderly>>,
             now' = now \/ now' = now + 1
      PROVE  InOrder'
  <2>1. InOrder /\ Loaded' = Loaded
    BY <1>1 DEF OrderInv, Loaded
  <2>2. \A f \in Files : disk'[f].mtime <= now'
    BY <1>1, <2>1, ReadConstants DEF InOrder, TypeOK
  <2>3. \A c \in Calls : (Busy(c)' <=> Busy(c)) /\ View(c)' = View(c) /\ (CallInOrder(c) => CallInOrder(c)')
    BY <1>1, <2>1 DEF CallInOrder, Busy, View, Seen, Fresh, KeptUp
  <2> QED BY <1>1, <2>1, <2>2, <2>3 DEF InOrder, Alone, NoneBusy
<1>2. CASE Tick \/ UNCHANGED vars
  BY <1>1, <1>2 DEF Tick, vars
<1>3. CASE \E c \in Calls : Hook(c)
  BY <1>3, OrderHook
<1>4. CASE \E f \in Files : \/ ExternalChange(f)
                            \/ \E c \in Calls : EditTool(c, f) \/ \E r \in Ranges : ReadTool(c, f, r)
  BY <1>4, OrderTools
<1> QED BY <1>2, <1>3, <1>4 DEF Next

LEMMA OrderInit == Init => OrderInv
<1> SUFFICES ASSUME Init PROVE InOrder
  BY DEF OrderInv
<1>1. Loaded = EmptySess /\ Agrees(EmptySess.cache, shown, disk)
  BY DEF Init, Loaded, Agrees, EmptySess
<1>2. \A c \in Calls : pc[c] = "idle" /\ ~Busy(c) /\ answer[c].kind = "none"
  BY DEF Init, Busy, Working
<1>3. \A f \in Files : disk[f].mtime <= now
  BY DEF Init
<1> QED BY <1>1, <1>2, <1>3 DEF InOrder, Alone, CallInOrder, KeptUp

\* As long as calls come one at a time, none dies, no change is hidden and a file
\* is read by one range, the agent can rely on what it was last told of it
\* (structure_map.rs:3-5): for any files, texts, capacities and similarities.
THEOREM AgentsKeepUp == Spec => []AgentKeepsUp
<1>1. OrderInv => AgentKeepsUp
  BY DEF OrderInv, InOrder, CallInOrder, KeptUp, AgentKeepsUp
<1> QED BY <1>1, TypeInit, TypeStep, OrderInit, OrderStep, PTL DEF Spec
===============================================================================
