------------------------------ MODULE FocusIndex ------------------------------
(***************************************************************************)
(* The focus index: one directory per commit, built by run_index of        *)
(* focus/indexer.rs in a directory of the builder's own and renamed into   *)
(* place, with its metadata written afterwards; and the prompt hook of     *)
(* cmd/focus.rs, which reads the index of HEAD or takes build.lock and     *)
(* spawns a builder.  `panda index` and `panda focus --enable` build       *)
(* without the lock, so builders may run side by side.                     *)
(*                                                                         *)
(* A database is the commit that was checked out when its files were read. *)
(* Any step of the hook and of a builder may fail instead: what it has in  *)
(* place by then stays.  Left out: what the files and the co-changes in    *)
(* the database are, and the temporary directory of a builder that failed, *)
(* which stays for good.                                                   *)
(***************************************************************************)
EXTENDS Naturals, FiniteSets, Sequences

CONSTANTS
  Commits,  \* a line of commits, numbered from 1
  Builders, \* processes that run run_index
  Keep,     \* LRU_KEEP_COUNT, 5 in the code
  Blank,    \* graph.sqlite with its schema and no rows
  Never,    \* no such file, directory or time
  MaxTime

ASSUME IndexConstants ==
  /\ Commits \subseteq Nat \ {0} /\ Commits # {} /\ IsFiniteSet(Commits)
  /\ Keep \in Nat /\ MaxTime \in Nat
  /\ Blank \notin Commits /\ Never \notin Commits \cup {Blank}

VARIABLES
  now,
  head,
  dirs,      \* per commit its directory, [db, meta] or Never
  lock,      \* does build.lock exist?
  hook,      \* what the prompt hook is about to do
  pc,        \* per builder
  job,       \* per builder: the commit, the time, the database so far, the directory it is
             \* removing with the files listed in it, and those that are still to evict
  disturbed, \* history: did HEAD move, did anything else happen than prompts and the builds
             \* they start?
  unswept    \* history: the listed commits whose metadata was written since the latest listing
             \* of an eviction that ran to its end

vars == <<now, head, dirs, lock, hook, pc, job, disturbed, unswept>>

Times == 0..MaxTime
Files == {"db", "meta"}
Databases == Commits \cup {Blank, Never}
NoJob ==
  [head |-> Never, at |-> 0, db |-> Never, dir |-> Never, left |-> {}, victims |-> <<>>,
   since |-> {}]

\* graph::is_valid: the database opens and has the schema version.
is_valid(c) == dirs[c] # Never /\ dirs[c].db # Never

\* list_index_dirs: only directories with metadata.
Listed == {c \in Commits : dirs[c] # Never /\ dirs[c].meta # Never}

Busy(b) == pc[b] # "idle"

Init ==
  /\ now = 0
  /\ head \in Commits
  /\ dirs = [c \in Commits |-> Never]
  /\ lock = FALSE
  /\ hook = "idle"
  /\ pc = [b \in Builders |-> "idle"]
  /\ job = [b \in Builders |-> NoJob]
  /\ disturbed = {}
  /\ unswept = {}

-----------------------------------------------------------------------------
\* The hook of a prompt: with an index of HEAD it only reads.
Prompt ==
  /\ hook = "idle"
  /\ hook' = IF is_valid(head) THEN "idle" ELSE "lock"
  /\ UNCHANGED <<now, head, dirs, lock, pc, job, disturbed, unswept>>

MutCreateThenLook ==
  /\ hook = "lock"
  /\ lock' = TRUE
  /\ hook' = IF lock' THEN "idle" ELSE "spawn"
  /\ UNCHANGED <<now, head, dirs, pc, job, disturbed, unswept>>

\* attempt_spawn_index_build: create build.lock, or leave it at that if it exists.
TakeLock ==
  /\ hook = "lock"
  /\ lock' = TRUE
  /\ hook' = IF lock THEN "idle" ELSE "spawn"
  /\ UNCHANGED <<now, head, dirs, pc, job, disturbed, unswept>>

\* Spawn `panda index`, detached.
Spawn(b) ==
  /\ hook = "spawn" /\ ~Busy(b)
  /\ hook' = "idle"
  /\ pc' = [pc EXCEPT ![b] = "check"]
  /\ UNCHANGED <<now, head, dirs, lock, job, disturbed, unswept>>

\* "Failures are silent": the lock cannot be created, or `nohup` cannot be spawned
\* once it is.
HookFails ==
  /\ hook # "idle" /\ (lock => hook = "spawn")
  /\ hook' = "idle"
  /\ disturbed' = disturbed \cup {"other"}
  /\ UNCHANGED <<now, head, dirs, lock, pc, job, unswept>>

\* `panda index` or `panda focus --enable` by the user.
Manual(b) ==
  /\ ~Busy(b)
  /\ pc' = [pc EXCEPT ![b] = "check"]
  /\ disturbed' = disturbed \cup {"other"}
  /\ UNCHANGED <<now, head, dirs, lock, hook, job, unswept>>

-----------------------------------------------------------------------------
Goto(b, l) == pc' = [pc EXCEPT ![b] = l]

MutReturnKeepsJob(b) == Goto(b, "idle") /\ UNCHANGED job

\* run_index returns, with an error or not.
Return(b) ==
  /\ Goto(b, "idle")
  /\ job' = [job EXCEPT ![b] = NoJob]

\* A valid index of HEAD is left as it is.
Check(b) ==
  /\ pc[b] = "check"
  /\ IF is_valid(head)
     THEN Return(b)
     ELSE /\ job' = [job EXCEPT ![b].head = head]
          /\ Goto(b, "open")
  /\ UNCHANGED <<now, head, dirs, lock, hook, disturbed, unswept>>

MutBuildInPlace(b) ==
  /\ pc[b] = "open"
  /\ job' = [job EXCEPT ![b].at = now, ![b].db = Blank]
  /\ dirs' = [dirs EXCEPT ![job[b].head] = [db |-> Blank, meta |-> Never]]
  /\ Goto(b, "tree")
  /\ UNCHANGED <<now, head, lock, hook, disturbed, unswept>>

\* The new database gets its schema, in a directory of the builder's own.
Open(b) ==
  /\ pc[b] = "open"
  /\ job' = [job EXCEPT ![b].at = now, ![b].db = Blank]
  /\ Goto(b, "tree")
  /\ UNCHANGED <<now, head, dirs, lock, hook, disturbed, unswept>>

\* full_build reads what is checked out now.
Build(b) ==
  /\ pc[b] = "tree"
  /\ job' = [job EXCEPT ![b].db = head]
  /\ Goto(b, "exists")
  /\ UNCHANGED <<now, head, dirs, lock, hook, disturbed, unswept>>

Held(c) == {f \in Files : dirs[c] # Never /\ dirs[c][f] # Never}

\* remove_dir_all of commit c's directory begins with the list of its files.
Clear(b, c, l) ==
  /\ job' = [job EXCEPT ![b].dir = c, ![b].left = Held(c)]
  /\ Goto(b, l)

\* A directory in the way is removed first.
Exists(b) ==
  LET c == job[b].head
  IN  /\ pc[b] = "exists"
      /\ IF dirs[c] = Never THEN Goto(b, "rename") /\ UNCHANGED job ELSE Clear(b, c, "remove")
      /\ UNCHANGED <<now, head, dirs, lock, hook, disturbed, unswept>>

\* A directory is removed file by file, and then itself: an error if another builder
\* has removed it or put a file in it meanwhile.
Remove(b) ==
  LET c == job[b].dir
  IN  /\ pc[b] \in {"remove", "clear"}
      /\ \/ /\ dirs[c] = Never
            /\ Return(b)
            /\ UNCHANGED dirs
         \/ \E f \in job[b].left :
              /\ dirs[c] # Never
              /\ dirs' = [dirs EXCEPT ![c][f] = Never]
              /\ job' = [job EXCEPT ![b].left = @ \ {f}]
              /\ UNCHANGED pc
         \/ /\ job[b].left = {} /\ dirs[c] # Never
            /\ IF Held(c) = {}
               THEN /\ dirs' = [dirs EXCEPT ![c] = Never]
                    /\ Goto(b, IF pc[b] = "remove" THEN "rename" ELSE "sweep")
                    /\ job' = [job EXCEPT ![b].dir = Never]
               ELSE /\ Return(b)
                    /\ UNCHANGED dirs
      /\ UNCHANGED <<now, head, lock, hook, disturbed>>
      /\ unswept' = unswept \cap Listed'

\* "Atomic rename": an error over a directory that is not empty.
Rename(b) ==
  LET c == job[b].head
  IN  /\ pc[b] = "rename"
      /\ IF Held(c) = {}
         THEN /\ dirs' = [dirs EXCEPT ![c] = [db |-> job[b].db, meta |-> Never]]
              /\ Goto(b, "meta")
              /\ job' = [job EXCEPT ![b].db = Never]
         ELSE /\ Return(b)
              /\ UNCHANGED dirs
      /\ UNCHANGED <<now, head, lock, hook, disturbed, unswept>>

\* Builders that have listed the directories and are at removing the excess.
Sweeping == {b \in Builders : pc[b] \in {"sweep", "clear"}}

\* Meta::write, an error if the directory is gone.
WriteMeta(b) ==
  LET c == job[b].head
  IN  /\ pc[b] = "meta"
      /\ IF dirs[c] = Never
         THEN /\ Return(b)
              /\ UNCHANGED <<dirs, unswept>>
         ELSE /\ dirs' = [dirs EXCEPT ![c].meta = job[b].at]
              /\ Goto(b, "evict")
              /\ job' = [e \in Builders |->
                   IF e \in Sweeping THEN [job[e] EXCEPT !.since = @ \cup {c}] ELSE job[e]]
              /\ unswept' = unswept \cup {c}
      /\ UNCHANGED <<now, head, lock, hook, disturbed>>

\* What list_index_dirs may return: the newest first.
Listings ==
  {s \in [1..Cardinality(Listed) -> Listed] :
     /\ \A c \in Listed : \E i \in DOMAIN s : s[i] = c
     /\ \A i, j \in DOMAIN s : i < j => dirs[s[j]].meta <= dirs[s[i]].meta}

MutSkipOneMore(s) == SubSeq(s, Keep + 2, Len(s))

\* skip(keep)
Skip(s) == SubSeq(s, Keep + 1, Len(s))

\* evict_lru: list, ...
List(b) ==
  /\ pc[b] = "evict"
  /\ \E s \in Listings : job' = [job EXCEPT ![b] = [NoJob EXCEPT !.victims = Skip(s)]]
  /\ Goto(b, "sweep")
  /\ UNCHANGED <<now, head, dirs, lock, hook, disturbed, unswept>>

\* ... then remove one after the other, with `?`: a directory that another builder has
\* removed meanwhile ends the loop, and run_index, with an error.
Sweep(b) ==
  LET v == job[b].victims
  IN  /\ pc[b] = "sweep"
      /\ IF v = <<>>
         THEN /\ Return(b)
              /\ unswept' = IF job[b].since \subseteq unswept THEN job[b].since ELSE unswept
         ELSE /\ IF dirs[Head(v)] = Never
                 THEN Return(b)
                 ELSE /\ job' = [job EXCEPT ![b].dir = Head(v), ![b].left = Held(Head(v)),
                                           ![b].victims = Tail(v)]
                      /\ Goto(b, "clear")
              /\ UNCHANGED unswept
      /\ UNCHANGED <<now, head, dirs, lock, hook, disturbed>>

-----------------------------------------------------------------------------
\* A builder dies, or returns with an error of git, SQLite or the file system; what
\* it has in place stays.
Fail(b) ==
  /\ Busy(b)
  /\ Return(b)
  /\ disturbed' = disturbed \cup {"other"}
  /\ UNCHANGED <<now, head, dirs, lock, hook, unswept>>

\* A commit or a checkout.
Move ==
  /\ head' \in Commits \ {head}
  /\ disturbed' = disturbed \cup {"moved"}
  /\ UNCHANGED <<now, dirs, lock, hook, pc, job, unswept>>

\* Time passes between builds; those that overlap get one stamp, so that a listing may
\* have them in either order.
Tick ==
  /\ now < MaxTime
  /\ \A b \in Builders : ~Busy(b)
  /\ now' = now + 1
  /\ UNCHANGED <<head, dirs, lock, hook, pc, job, disturbed, unswept>>

Builder(b) ==
  \/ Check(b) \/ Open(b) \/ Build(b) \/ Exists(b) \/ Remove(b) \/ Rename(b) \/ WriteMeta(b)
  \/ List(b) \/ Sweep(b)

Hook == Prompt \/ TakeLock \/ \E b \in Builders : Spawn(b)

Failure == HookFails \/ \E b \in Builders : Fail(b)

Next ==
  \/ Hook \/ Move \/ Tick \/ Failure
  \/ \E b \in Builders : Manual(b) \/ Builder(b)

Spec == Init /\ [][Next]_vars

\* Prompts keep coming, and a process that runs gets on.
FairSpec == Spec /\ WF_vars(Hook) /\ \A b \in Builders : WF_vars(Builder(b))

-----------------------------------------------------------------------------
\* Types; a builder knows its commit from its check to its return, and which
\* directory it removes while it does.
TypeOK ==
  /\ now \in Times /\ head \in Commits /\ lock \in BOOLEAN
  /\ dirs \in [Commits -> {Never} \cup [db : Databases, meta : Times \cup {Never}]]
  /\ hook \in {"idle", "lock", "spawn"}
  /\ pc \in [Builders -> {"idle", "check", "open", "tree", "exists", "remove", "rename",
                          "meta", "evict", "sweep", "clear"}]
  /\ job \in [Builders -> [head : Commits \cup {Never}, at : Times, db : Databases,
                           dir : Commits \cup {Never}, left : SUBSET Files,
                           victims : Seq(Commits), since : SUBSET Commits]]
  /\ \A b \in Builders :
       /\ job[b].head \in Commits <=> pc[b] \notin {"idle", "check", "sweep", "clear"}
       /\ job[b].dir \in Commits <=> pc[b] \in {"remove", "clear"}
  /\ disturbed \subseteq {"moved", "other"}
  /\ unswept \subseteq Commits

\* Whoever finds a valid database under a commit's name has a finished build
\* (indexer.rs:273-283: build aside, close, rename), and unless HEAD moved its
\* files are those of the commit, whichever builders overlap and fail.
IndexComplete ==
  \A c \in Commits : is_valid(c) =>
    /\ dirs[c].db # Blank
    /\ "moved" \notin disturbed => dirs[c].db = c

\* One eviction that runs to its end is enough (LRU_KEEP_COUNT): of the indexes listed
\* before it, no more than Keep stay, whichever evictions fail, or are cut short by a
\* directory another one removed first, and leave their share to the next.
EvictBound == Cardinality(Listed \ unswept) <= Keep

\* "Attempt to spawn a background index build if not already in progress"
\* (focus.rs:510): left alone by users, and unless that one build fails, prompts lead
\* to an index for good, and to HEAD's if it has not moved.
FirstIndex ==
  [](disturbed \subseteq {"moved"}) =>
    <>[]\E c \in Commits : is_valid(c) /\ ("moved" \notin disturbed => c = head)

\* The same for every build: once HEAD stays, no build is in progress and hooks no
\* longer fail, HEAD has an index, or a prompt would have spawned a builder for it.
HeadIndexed ==
  \A c \in Commits :
    <>[](head = c /\ \A b \in Builders : ~Busy(b)) /\ <>[][~HookFails]_vars => <>is_valid(c)
=============================================================================
