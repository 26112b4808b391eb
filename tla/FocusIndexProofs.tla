--------------------------- MODULE FocusIndexProofs ---------------------------
(***************************************************************************)
(* Proofs about FocusIndex: the types, that an index that is found under a *)
(* commit's name is a finished build, and that one eviction that runs to   *)
(* its end leaves no more than Keep of the indexes listed before it.       *)
(***************************************************************************)
EXTENDS FocusIndex, FiniteSetTheorems, SequenceTheorems, TLAPS

Jobs ==
  [head : Commits \cup {Never}, at : Times, db : Databases, dir : Commits \cup {Never},
   left : SUBSET Files, victims : Seq(Commits), since : SUBSET Commits]

Places ==
  {"idle", "check", "open", "tree", "exists", "remove", "rename", "meta", "evict", "sweep",
   "clear"}

\* What a builder's record says of where it is.
Placed(j, l) ==
  /\ j.head \in Commits <=> l \notin {"idle", "check", "sweep", "clear"}
  /\ j.dir \in Commits <=> l \in {"remove", "clear"}

\* An idle builder's record is well typed.
LEMMA NoJobType == NoJob \in Jobs /\ Placed(NoJob, "idle")
<1>1. <<>> \in Seq(Commits)
  OBVIOUS
<1> QED BY <1>1, IndexConstants DEF NoJob, Jobs, Placed, Times, Databases

\* A builder's record stays well typed when each of its fields does.
LEMMA RecordTyped ==
  ASSUME TypeOK, NEW b \in Builders, NEW j \in Jobs, NEW l \in Places, Placed(j, l),
         job' = [job EXCEPT ![b] = j], pc' = [pc EXCEPT ![b] = l]
  PROVE  /\ job' \in [Builders -> Jobs] /\ pc' \in [Builders -> Places]
         /\ \A d \in Builders : Placed(job'[d], pc'[d])
<1>1. job \in [Builders -> Jobs] /\ pc \in [Builders -> Places]
  BY DEF TypeOK, Jobs, Places
<1>2. job' \in [Builders -> Jobs] /\ pc' \in [Builders -> Places]
  BY <1>1
<1>3. \A d \in Builders : Placed(job[d], pc[d])
  BY DEF TypeOK, Placed
<1> HIDE DEF Placed, Jobs, Places
<1>4. \A d \in Builders : Placed(job'[d], pc'[d])
  BY <1>1, <1>3
<1> QED BY <1>2, <1>4

\* The initial state is well typed.
LEMMA TypeInit == Init => TypeOK
<1> SUFFICES ASSUME Init PROVE TypeOK
  OBVIOUS
<1>1. now \in Times /\ head \in Commits /\ hook = "idle" /\ disturbed = {} /\ unswept = {}
  BY IndexConstants DEF Init, Times
<1>2. lock \in BOOLEAN
  BY Zenon DEF Init
<1>3. dirs \in [Commits -> {Never} \cup [db : Databases, meta : Times \cup {Never}]]
  BY DEF Init
<1>4. job \in [Builders -> Jobs]
  BY NoJobType DEF Init
<1>5. \A b \in Builders : Placed(job[b], pc[b])
  BY NoJobType, Zenon DEF Init
<1>6. pc \in [Builders -> Places]
  BY DEF Init, Places
<1> QED BY <1>1, <1>2, <1>3, <1>4, <1>5, <1>6 DEF TypeOK, Jobs, Placed, Places

\* As many indexes are listed as a number says.
LEMMA ListedFinite == IsFiniteSet(Listed) /\ Listed \subseteq Commits /\ Cardinality(Listed) \in Nat
<1>1. Listed \subseteq Commits
  BY DEF Listed
<1>2. IsFiniteSet(Listed)
  BY <1>1, FS_Subset, IndexConstants
<1> QED BY <1>1, <1>2, FS_CardinalityType

\* A listing is a sequence that names every listed index.
LEMMA ListingType ==
  ASSUME NEW s \in Listings
  PROVE  /\ Len(s) = Cardinality(Listed) /\ Len(s) \in Nat
         /\ \A i \in 1..Len(s) : s[i] \in Commits
         /\ \A c \in Listed : \E i \in 1..Len(s) : s[i] = c
<1> DEFINE n == Cardinality(Listed)
<1>1. n \in Nat /\ Listed \subseteq Commits
  BY ListedFinite
<1>2. s \in [1..n -> Listed] /\ \A c \in Listed : \E i \in DOMAIN s : s[i] = c
  BY DEF Listings
<1> HIDE DEF n
<1>3. Len(s) = n /\ DOMAIN s = 1..n
  BY <1>1, <1>2
<1> QED BY <1>1, <1>2, <1>3 DEF n

\* What is left of a listing after the first Keep is a sequence of commits, with
\* all but those first.
LEMMA SkipType ==
  ASSUME NEW s \in Listings
  PROVE  /\ Skip(s) \in Seq(Commits)
         /\ \A i \in Keep + 1 .. Len(s) : \E k \in 1..Len(Skip(s)) : Skip(s)[k] = s[i]
<1> DEFINE n == Len(s)
<1>1. n \in Nat /\ Keep \in Nat /\ \A i \in 1..n : s[i] \in Commits
  BY ListingType, IndexConstants
<1> HIDE DEF n
<1>2. Keep + 1 \in Int /\ n \in Int /\ \A i \in Keep + 1 .. n : s[i] \in Commits
  BY <1>1
<1>3. /\ SubSeq(s, Keep + 1, n) \in Seq(Commits)
      /\ Len(SubSeq(s, Keep + 1, n)) = IF Keep + 1 <= n THEN n - (Keep + 1) + 1 ELSE 0
      /\ \A i \in 1 .. n - (Keep + 1) + 1 : SubSeq(s, Keep + 1, n)[i] = s[Keep + 1 + i - 1]
  BY <1>2, SubSeqProperties
<1>4. ASSUME NEW i \in Keep + 1 .. n
      PROVE  \E k \in 1..Len(SubSeq(s, Keep + 1, n)) : SubSeq(s, Keep + 1, n)[k] = s[i]
  <2>1. /\ i - Keep \in 1 .. n - (Keep + 1) + 1 /\ Keep + 1 + (i - Keep) - 1 = i
        /\ Keep + 1 <= n
    BY <1>1
  <2> QED BY <2>1, <1>3
<1> QED BY <1>3, <1>4 DEF Skip, n

\* A builder's step keeps its record and its place well typed, and what it writes.
LEMMA TypeBuilder ==
  ASSUME TypeOK, NEW b \in Builders, Builder(b) PROVE TypeOK'
<1> DEFINE Written ==
      /\ dirs' \in [Commits -> {Never} \cup [db : Databases, meta : Times \cup {Never}]]
      /\ unswept' \in SUBSET Commits
<1> DEFINE Here ==
      /\ job' \in [Builders -> Jobs] /\ pc' \in [Builders -> Places]
      /\ \A d \in Builders : Placed(job'[d], pc'[d])
<1>0. ASSUME Written, Here PROVE TypeOK'
  <2>1. now' \in Times /\ head' \in Commits /\ lock' \in BOOLEAN /\ hook' \in {"idle", "lock", "spawn"}
        /\ disturbed' \subseteq {"moved", "other"}
    BY Zenon DEF TypeOK, Builder, Check, Open, Build, Exists, Remove, Rename, WriteMeta, List, Sweep
  <2> QED BY <1>0, <2>1 DEF TypeOK, Jobs, Places, Placed
<1>1. /\ job \in [Builders -> Jobs] /\ pc \in [Builders -> Places]
      /\ \A d \in Builders : Placed(job[d], pc[d])
      /\ job[b] \in Jobs /\ Placed(job[b], pc[b]) /\ pc[b] \in Places
  BY DEF TypeOK, Jobs, Places, Placed
<1>2. /\ dirs \in [Commits -> {Never} \cup [db : Databases, meta : Times \cup {Never}]]
      /\ unswept \in SUBSET Commits /\ now \in Times /\ head \in Commits
  BY DEF TypeOK
<1>3. UNCHANGED <<dirs, unswept>> => Written
  BY <1>2
<1>4. Return(b) => Here
  BY NoJobType, RecordTyped DEF Return, Goto, Places
<1>5. ASSUME NEW j \in Jobs, NEW l \in Places, Placed(j, l), job' = [job EXCEPT ![b] = j], Goto(b, l)
      PROVE  Here
  BY <1>5, RecordTyped DEF Goto
<1> HIDE DEF Written, Here
<1>6. CASE Check(b)
  <2>1. CASE Return(b)
    BY <1>0, <1>3, <1>4, <1>6, <2>1 DEF Check
  <2>2. CASE job' = [job EXCEPT ![b].head = head] /\ Goto(b, "open")
    <3>1. [job[b] EXCEPT !.head = head] \in Jobs /\ Placed([job[b] EXCEPT !.head = head], "open")
      BY <1>1, <1>2, <1>6, IndexConstants DEF Jobs, Placed, Check
    <3> QED BY <1>0, <1>3, <1>5, <1>6, <2>2, <3>1 DEF Check, Places
  <2> QED BY <1>6, <2>1, <2>2 DEF Check
<1>7. CASE Open(b)
  <2> DEFINE j == [job[b] EXCEPT !.at = now, !.db = Blank]
  <2>1. j \in Jobs /\ Placed(j, "tree")
    BY <1>1, <1>2, <1>7, IndexConstants DEF Jobs, Placed, Open, Databases
  <2>2. job' = [job EXCEPT ![b] = j] /\ Goto(b, "tree") /\ UNCHANGED <<dirs, unswept>>
    BY <1>7 DEF Open
  <2> HIDE DEF j
  <2> QED BY <1>0, <1>3, <1>5, <2>1, <2>2 DEF Places
<1>8. CASE Build(b)
  <2> DEFINE j == [job[b] EXCEPT !.db = head]
  <2>1. j \in Jobs /\ Placed(j, "exists")
    BY <1>1, <1>2, <1>8, IndexConstants DEF Jobs, Placed, Build, Databases
  <2>2. job' = [job EXCEPT ![b] = j] /\ Goto(b, "exists") /\ UNCHANGED <<dirs, unswept>>
    BY <1>8 DEF Build
  <2> HIDE DEF j
  <2> QED BY <1>0, <1>3, <1>5, <2>1, <2>2 DEF Places
<1>9. CASE Exists(b)
  <2> DEFINE c == job[b].head
  <2> DEFINE j == [job[b] EXCEPT !.dir = c, !.left = Held(c)]
  <2>0. UNCHANGED <<dirs, unswept>> /\ pc[b] = "exists"
    BY <1>9 DEF Exists
  <2>1. c \in Commits /\ Held(c) \in SUBSET Files
    BY <1>1, <2>0 DEF Placed, Held
  <2>2. CASE Goto(b, "rename") /\ UNCHANGED job
    <3>1. Placed(job[b], "rename") /\ job' = [job EXCEPT ![b] = job[b]]
      BY <1>1, <2>0, <2>2 DEF Placed
    <3> QED BY <1>0, <1>1, <1>3, <1>5, <2>0, <2>2, <3>1 DEF Places
  <2>3. CASE Clear(b, c, "remove")
    <3>1. j \in Jobs /\ Placed(j, "remove")
      BY <1>1, <2>0, <2>1, IndexConstants DEF Jobs, Placed
    <3>2. job' = [job EXCEPT ![b] = j] /\ Goto(b, "remove")
      BY <2>3 DEF Clear
    <3> HIDE DEF j
    <3> QED BY <1>0, <1>3, <1>5, <2>0, <3>1, <3>2 DEF Places
  <2> QED BY <1>9, <2>2, <2>3 DEF Exists
<1>10. CASE Remove(b)
  <2> DEFINE c == job[b].dir
  <2>1. c \in Commits /\ unswept' \in SUBSET Commits /\ pc[b] \in {"remove", "clear"}
    BY <1>1, <1>2, <1>10 DEF Placed, Remove
  <2>2. CASE Return(b) /\ UNCHANGED dirs
    BY <1>0, <1>2, <1>4, <2>1, <2>2 DEF Written
  <2>3. ASSUME NEW f \in job[b].left, dirs[c] # Never, dirs' = [dirs EXCEPT ![c][f] = Never],
               job' = [job EXCEPT ![b].left = @ \ {f}], UNCHANGED pc
        PROVE  TypeOK'
    <3> DEFINE d == [dirs[c] EXCEPT ![f] = Never]
    <3> DEFINE j == [job[b] EXCEPT !.left = @ \ {f}]
    <3>1. dirs[c] \in [db : Databases, meta : Times \cup {Never}] /\ f \in Files
      BY <1>1, <1>2, <2>1, <2>3 DEF Jobs
    <3>2. d \in [db : Databases, meta : Times \cup {Never}]
      BY <3>1 DEF Files, Databases
    <3>3. dirs' = [dirs EXCEPT ![c] = d]
      BY <2>3
    <3>4. j \in Jobs /\ Placed(j, pc[b])
      BY <1>1 DEF Jobs, Placed
    <3>5. job' = [job EXCEPT ![b] = j] /\ Goto(b, pc[b])
      BY <1>1, <2>3 DEF Goto
    <3> HIDE DEF d, j
    <3>6. Written
      BY <1>2, <2>1, <3>2, <3>3 DEF Written
    <3> QED BY <1>0, <1>1, <1>5, <3>4, <3>5, <3>6
  <2>4. ASSUME dirs' = [dirs EXCEPT ![c] = Never], job' = [job EXCEPT ![b].dir = Never],
               NEW l \in {"rename", "sweep"}, Goto(b, l), l = "rename" <=> pc[b] = "remove"
        PROVE  TypeOK'
    <3> DEFINE j == [job[b] EXCEPT !.dir = Never]
    <3>1. j \in Jobs /\ Placed(j, l)
      BY <1>1, <2>1, <2>4, IndexConstants DEF Jobs, Placed
    <3>2. job' = [job EXCEPT ![b] = j]
      BY <2>4
    <3>3. Written
      BY <1>2, <2>1, <2>4 DEF Written
    <3> HIDE DEF j
    <3> QED BY <1>0, <1>5, <2>4, <3>1, <3>2, <3>3 DEF Places
  <2>5. ASSUME dirs' = [dirs EXCEPT ![c] = Never], job' = [job EXCEPT ![b].dir = Never],
               Goto(b, IF pc[b] = "remove" THEN "rename" ELSE "sweep")
        PROVE  TypeOK'
    <3> DEFINE l == IF pc[b] = "remove" THEN "rename" ELSE "sweep"
    <3>1. l \in {"rename", "sweep"} /\ (l = "rename" <=> pc[b] = "remove") /\ Goto(b, l)
      BY <2>5
    <3> HIDE DEF l
    <3> QED BY <2>4, <2>5, <3>1
  <2> QED BY <1>10, <2>2, <2>3, <2>5 DEF Remove
<1>11. CASE Rename(b)
  <2> DEFINE c == job[b].head
  <2> DEFINE j == [job[b] EXCEPT !.db = Never]
  <2>1. c \in Commits /\ UNCHANGED unswept /\ pc[b] = "rename"
    BY <1>1, <1>11 DEF Placed, Rename
  <2>2. CASE Return(b) /\ UNCHANGED dirs
    BY <1>0, <1>3, <1>4, <2>1, <2>2
  <2>3. CASE dirs' = [dirs EXCEPT ![c] = [db |-> job[b].db, meta |-> Never]] /\ Goto(b, "meta")
             /\ job' = [job EXCEPT ![b].db = Never]
    <3>1. j \in Jobs /\ Placed(j, "meta")
      BY <1>1, <2>1 DEF Jobs, Placed, Databases
    <3>2. [db |-> job[b].db, meta |-> Never] \in [db : Databases, meta : Times \cup {Never}]
      BY <1>1 DEF Jobs
    <3>3. Written
      BY <1>2, <2>1, <2>3, <3>2 DEF Written
    <3>4. job' = [job EXCEPT ![b] = j]
      BY <2>3
    <3> HIDE DEF j
    <3> QED BY <1>0, <1>5, <2>3, <3>1, <3>3, <3>4 DEF Places
  <2> QED BY <1>11, <2>2, <2>3 DEF Rename
<1>12. CASE WriteMeta(b)
  <2> DEFINE c == job[b].head
  <2>1. c \in Commits /\ pc[b] = "meta" /\ Placed(job[b], "evict")
    BY <1>1, <1>12 DEF Placed, WriteMeta
  <2>2. CASE Return(b) /\ UNCHANGED <<dirs, unswept>>
    BY <1>0, <1>3, <1>4, <2>2
  <2>3. ASSUME dirs[c] # Never, dirs' = [dirs EXCEPT ![c].meta = job[b].at], Goto(b, "evict"),
               job' = [e \in Builders |->
                         IF e \in Sweeping THEN [job[e] EXCEPT !.since = @ \cup {c}] ELSE job[e]],
               unswept' = unswept \cup {c}
        PROVE  TypeOK'
    <3>1. dirs[c] \in [db : Databases, meta : Times \cup {Never}] /\ job[b].at \in Times
      BY <1>1, <1>2, <2>1, <2>3 DEF Jobs
    <3>2. [dirs[c] EXCEPT !.meta = job[b].at] \in [db : Databases, meta : Times \cup {Never}]
      BY <3>1
    <3>3. Written
      BY <1>2, <2>1, <2>3, <3>2 DEF Written
    <3>4. \A e \in Builders : /\ job'[e] \in Jobs
                              /\ job'[e].head = job[e].head /\ job'[e].dir = job[e].dir
      BY <1>1, <2>1, <2>3 DEF Jobs
    <3>5. job' \in [Builders -> Jobs]
      BY <2>3, <3>4
    <3>6. pc' = [pc EXCEPT ![b] = "evict"]
      BY <2>3 DEF Goto
    <3>7. pc' \in [Builders -> Places]
      BY <1>1, <3>6 DEF Places
    <3>8. \A e \in Builders : Placed(job'[e], pc'[e])
      BY <1>1, <2>1, <3>4, <3>6 DEF Placed
    <3> QED BY <1>0, <3>3, <3>5, <3>7, <3>8 DEF Here
  <2> QED BY <1>12, <2>2, <2>3 DEF WriteMeta
<1>13. CASE List(b)
  <2>1. PICK s \in Listings : job' = [job EXCEPT ![b] = [NoJob EXCEPT !.victims = Skip(s)]]
    BY <1>13 DEF List
  <2> DEFINE j == [NoJob EXCEPT !.victims = Skip(s)]
  <2>2. Skip(s) \in Seq(Commits)
    BY SkipType
  <2>3. j \in Jobs /\ Placed(j, "sweep")
    BY <2>2, NoJobType, IndexConstants DEF Jobs, Placed, NoJob
  <2>4. job' = [job EXCEPT ![b] = j] /\ Goto(b, "sweep") /\ UNCHANGED <<dirs, unswept>>
    BY <1>13, <2>1 DEF List
  <2> HIDE DEF j
  <2> QED BY <1>0, <1>3, <1>5, <2>3, <2>4 DEF Places
<1>14. CASE Sweep(b)
  <2> DEFINE v == job[b].victims
  <2> DEFINE j == [job[b] EXCEPT !.dir = Head(v), !.left = Held(Head(v)), !.victims = Tail(v)]
  <2>1. v \in Seq(Commits) /\ job[b].since \in SUBSET Commits /\ UNCHANGED dirs /\ pc[b] = "sweep"
    BY <1>1, <1>14 DEF Jobs, Sweep
  <2>2. CASE v = <<>>
    <3>1. Written /\ Return(b)
      BY <1>2, <1>14, <2>1, <2>2 DEF Written, Sweep
    <3> QED BY <1>0, <1>4, <3>1
  <2>3. CASE v # <<>> /\ dirs[Head(v)] = Never
    <3>1. Return(b) /\ UNCHANGED <<dirs, unswept>>
      BY <1>14, <2>3 DEF Sweep
    <3> QED BY <1>0, <1>3, <1>4, <3>1
  <2>4. CASE v # <<>> /\ dirs[Head(v)] # Never
    <3>1. Head(v) \in Commits /\ Tail(v) \in Seq(Commits)
      BY <2>1, <2>4, HeadTailProperties
    <3>2. Held(Head(v)) \in SUBSET Files
      BY DEF Held
    <3>3. j \in Jobs /\ Placed(j, "clear")
      BY <1>1, <2>1, <3>1, <3>2 DEF Jobs, Placed
    <3>4. job' = [job EXCEPT ![b] = j] /\ Goto(b, "clear") /\ UNCHANGED <<dirs, unswept>>
      BY <1>14, <2>4 DEF Sweep
    <3> HIDE DEF j
    <3> QED BY <1>0, <1>3, <1>5, <3>3, <3>4 DEF Places
  <2> QED BY <2>2, <2>3, <2>4
<1> QED BY <1>6, <1>7, <1>8, <1>9, <1>10, <1>11, <1>12, <1>13, <1>14 DEF Builder

\* A step by none of the builders, or the start of one.
LEMMA TypeOther ==
  ASSUME TypeOK, Hook \/ Move \/ Tick \/ \E b \in Builders : Manual(b) PROVE TypeOK'
<1> USE IndexConstants DEF Times, Databases
<1>1. CASE Hook
  BY <1>1 DEF TypeOK, Hook, Prompt, TakeLock, Spawn, Busy
<1>2. CASE Move
  BY <1>2 DEF TypeOK, Move
<1>3. CASE Tick
  BY <1>3 DEF TypeOK, Tick, Busy
<1>4. ASSUME NEW b \in Builders, Manual(b) PROVE TypeOK'
  BY <1>4 DEF TypeOK, Manual, Busy
<1> QED BY <1>1, <1>2, <1>3, <1>4

\* Every step keeps the types.
LEMMA TypeStep == TypeOK /\ [Next]_vars => TypeOK'
<1> SUFFICES ASSUME TypeOK, [Next]_vars PROVE TypeOK'
  OBVIOUS
<1>1. CASE Hook \/ Move \/ Tick \/ \E b \in Builders : Manual(b)
  BY <1>1, TypeOther
<1>2. CASE HookFails
  BY <1>2 DEF TypeOK, HookFails
<1>3. ASSUME NEW b \in Builders, Fail(b) PROVE TypeOK'
  <2>1. /\ job' \in [Builders -> Jobs] /\ pc' \in [Builders -> Places]
        /\ \A d \in Builders : Placed(job'[d], pc'[d])
    BY <1>3, NoJobType, RecordTyped DEF Fail, Return, Goto, Places
  <2>2. UNCHANGED <<now, head, dirs, lock, hook, unswept>> /\ disturbed' = disturbed \cup {"other"}
    BY <1>3 DEF Fail
  <2> QED BY <2>1, <2>2 DEF TypeOK, Jobs, Places, Placed
<1>4. ASSUME NEW b \in Builders, Builder(b) PROVE TypeOK'
  BY <1>4, TypeBuilder
<1>5. CASE UNCHANGED vars
  BY <1>5 DEF TypeOK, vars
<1> QED BY <1>1, <1>2, <1>3, <1>4, <1>5 DEF Next, Failure

\* Directories, builders and the lock keep their types for any commits, builders
\* and bound on the indexes kept.
THEOREM TypeCorrect == Spec => []TypeOK
<1>1. Init => TypeOK
  BY TypeInit
<1>2. TypeOK /\ [Next]_vars => TypeOK'
  BY TypeStep
<1> QED BY <1>1, <1>2, PTL DEF Spec

-----------------------------------------------------------------------------
(* A builder from the opening of its database to the rename holds it in    *)
(* `job`.  It is blank until the files are read; from then on, unless HEAD *)
(* has moved, it is of the commit the builder found, which is still HEAD.  *)

Undisturbed == "moved" \notin disturbed

\* What a finished database of commit c is.
Finished(db, c) == db # Blank /\ (Undisturbed => db = c)

\* Builders that carry a database with the files read.
Carries(b) == pc[b] \in {"exists", "remove", "rename"}

HeadKept == \A b \in Builders : Undisturbed /\ job[b].head \in Commits => job[b].head = head
CarriesFinished == \A b \in Builders : Carries(b) => Finished(job[b].db, job[b].head)

BuildInv == TypeOK /\ HeadKept /\ CarriesFinished /\ IndexComplete

\* Initially nothing is built.
LEMMA BuildInit == Init => BuildInv
<1> SUFFICES ASSUME Init PROVE BuildInv
  OBVIOUS
<1>1. TypeOK
  BY TypeInit
<1>2. HeadKept
  BY IndexConstants DEF Init, HeadKept, NoJob
<1>3. CarriesFinished
  BY DEF Init, CarriesFinished, Carries
<1>4. IndexComplete
  BY DEF Init, IndexComplete, is_valid
<1> QED BY <1>1, <1>2, <1>3, <1>4 DEF BuildInv

\* What the steps that put no database in place have in common.
LEMMA NothingPlaced ==
  ASSUME BuildInv, TypeOK', UNCHANGED <<head, disturbed>>,
         \A c \in Commits : is_valid(c)' => is_valid(c) /\ dirs'[c].db = dirs[c].db,
         \A d \in Builders : job'[d].head \in Commits => job'[d].head \in {job[d].head, head},
         \A d \in Builders : Carries(d)' =>
           Carries(d) /\ job'[d].db = job[d].db /\ job'[d].head = job[d].head
  PROVE  HeadKept' /\ CarriesFinished' /\ IndexComplete'
<1>1. IndexComplete'
  BY DEF BuildInv, IndexComplete
<1>2. HeadKept'
  BY DEF BuildInv, HeadKept, Undisturbed, TypeOK
<1>3. CarriesFinished'
  BY DEF BuildInv, CarriesFinished, Finished, Undisturbed
<1> QED BY <1>1, <1>2, <1>3

\* A builder that returns holds nothing.
LEMMA ReturnPlacesNothing ==
  ASSUME TypeOK, NEW b \in Builders, Return(b)
  PROVE  /\ \A d \in Builders : job'[d].head \in Commits => job'[d].head = job[d].head
         /\ \A d \in Builders : Carries(d)' =>
              Carries(d) /\ job'[d].db = job[d].db /\ job'[d].head = job[d].head
BY IndexConstants DEF TypeOK, Return, Goto, NoJob, Carries

\* A builder's step keeps what is in place finished: only Rename puts a database
\* there, and it is one with the files read.
LEMMA BuildStep ==
  ASSUME BuildInv, NEW b \in Builders, Builder(b) PROVE HeadKept' /\ CarriesFinished' /\ IndexComplete'
<1> USE IndexConstants
<1>0. TypeOK /\ TypeOK' /\ UNCHANGED <<head, disturbed>>
  BY TypeBuilder, Zenon DEF BuildInv, Builder, Check, Open, Build, Exists, Remove, Rename, WriteMeta, List, Sweep
<1>1. ASSUME UNCHANGED dirs, NEW l \in Places, l \notin {"exists", "remove", "rename"}, Goto(b, l),
             \A d \in Builders : d # b => job'[d] = job[d],
             job'[b].head \in Commits => job'[b].head \in {job[b].head, head}
      PROVE  HeadKept' /\ CarriesFinished' /\ IndexComplete'
  <2>1. \A d \in Builders : Carries(d)' => Carries(d) /\ job'[d] = job[d]
    BY <1>0, <1>1 DEF TypeOK, Carries, Goto
  <2>2. \A d \in Builders : job'[d].head \in Commits => job'[d].head \in {job[d].head, head}
    BY <1>1
  <2>3. \A c \in Commits : is_valid(c)' => is_valid(c) /\ dirs'[c].db = dirs[c].db
    BY <1>1 DEF is_valid
  <2> QED BY <1>0, <2>1, <2>2, <2>3, NothingPlaced
<1>2. CASE Return(b) /\ UNCHANGED dirs
  <2>1. \A c \in Commits : is_valid(c)' => is_valid(c) /\ dirs'[c].db = dirs[c].db
    BY <1>2 DEF is_valid
  <2> QED BY <1>0, <1>2, <2>1, ReturnPlacesNothing, NothingPlaced
<1>3. CASE Check(b)
  <2>1. CASE Return(b)
    BY <1>2, <1>3, <2>1 DEF Check
  <2>2. CASE job' = [job EXCEPT ![b].head = head] /\ Goto(b, "open")
    <3>1. job'[b].head = head /\ \A d \in Builders : d # b => job'[d] = job[d]
      BY <1>0, <2>2 DEF TypeOK
    <3> QED BY <1>1, <1>3, <2>2, <3>1 DEF Check, Places
  <2> QED BY <1>3, <2>1, <2>2 DEF Check
<1>4. CASE Open(b)
  <2>1. job'[b].head = job[b].head /\ \A d \in Builders : d # b => job'[d] = job[d]
    BY <1>0, <1>4 DEF TypeOK, Open
  <2> QED BY <1>1, <1>4, <2>1 DEF Open, Places
<1>5. CASE Build(b)
  BY <1>0, <1>5 DEF BuildInv, TypeOK, HeadKept, CarriesFinished, Carries, IndexComplete, is_valid, Build, Goto, Finished, Undisturbed
<1>6. CASE Exists(b)
  <2>1. pc[b] = "exists" /\ UNCHANGED dirs
    BY <1>6 DEF Exists
  <2>2. PICK l \in {"rename", "remove"} : Goto(b, l)
    BY <1>6 DEF Exists, Clear
  <2>3. \A d \in Builders : job'[d].head = job[d].head /\ job'[d].db = job[d].db
    <3>1. CASE dirs[job[b].head] = Never
      BY <1>6, <3>1 DEF Exists
    <3>2. CASE dirs[job[b].head] # Never
      <4>1. job' = [job EXCEPT ![b].dir = job[b].head, ![b].left = Held(job[b].head)]
        BY <1>6, <3>2 DEF Exists, Clear
      <4> QED BY <1>0, <4>1 DEF TypeOK
    <3> QED BY <3>1, <3>2
  <2>4. \A d \in Builders : Carries(d)' => Carries(d)
    BY <1>0, <2>1, <2>2 DEF TypeOK, Carries, Goto
  <2>5. \A c \in Commits : is_valid(c)' => is_valid(c) /\ dirs'[c].db = dirs[c].db
    BY <2>1 DEF is_valid
  <2> QED BY <1>0, <2>3, <2>4, <2>5, NothingPlaced
<1>7. CASE Remove(b)
  <2> DEFINE c == job[b].dir
  <2>1. c \in Commits /\ pc[b] \in {"remove", "clear"}
    BY <1>0, <1>7 DEF TypeOK, Remove
  <2>2. CASE Return(b) /\ UNCHANGED dirs
    BY <1>2, <2>2
  <2>3. ASSUME NEW f \in job[b].left, dirs[c] # Never, dirs' = [dirs EXCEPT ![c][f] = Never],
               job' = [job EXCEPT ![b].left = @ \ {f}], UNCHANGED pc
        PROVE HeadKept' /\ CarriesFinished' /\ IndexComplete'
    <3>1. dirs[c] \in [db : Databases, meta : Times \cup {Never}] /\ f \in Files
      BY <1>0, <2>1, <2>3 DEF TypeOK
    <3> DEFINE e == [dirs[c] EXCEPT ![f] = Never]
    <3>2. e.db \in {Never, dirs[c].db}
      BY <3>1 DEF Files
    <3>3. dirs' = [dirs EXCEPT ![c] = e]
      BY <2>3
    <3> HIDE DEF e
    <3>4. \A d \in Commits : is_valid(d)' => is_valid(d) /\ dirs'[d].db = dirs[d].db
      BY <1>0, <2>1, <2>3, <3>2, <3>3 DEF TypeOK, is_valid
    <3>5. \A d \in Builders : job'[d].head = job[d].head /\ job'[d].db = job[d].db
      BY <1>0, <2>3 DEF TypeOK
    <3>6. \A d \in Builders : Carries(d)' => Carries(d)
      BY <2>3 DEF Carries
    <3> QED BY <1>0, <3>4, <3>5, <3>6, NothingPlaced
  <2>4. CASE /\ dirs' = [dirs EXCEPT ![c] = Never] /\ job' = [job EXCEPT ![b].dir = Never]
             /\ Goto(b, IF pc[b] = "remove" THEN "rename" ELSE "sweep")
    <3>1. \A d \in Commits : is_valid(d)' => is_valid(d) /\ dirs'[d].db = dirs[d].db
      BY <1>0, <2>1, <2>4 DEF TypeOK, is_valid
    <3>2. \A d \in Builders : job'[d].head = job[d].head /\ job'[d].db = job[d].db
      BY <1>0, <2>4 DEF TypeOK
    <3>3. \A d \in Builders : Carries(d)' => Carries(d)
      BY <1>0, <2>1, <2>4 DEF TypeOK, Carries, Goto
    <3> QED BY <1>0, <3>1, <3>2, <3>3, NothingPlaced
  <2> QED BY <1>7, <2>2, <2>3, <2>4 DEF Remove
<1>8. CASE Rename(b)
  <2> DEFINE c == job[b].head
  <2>1. c \in Commits /\ Finished(job[b].db, c) /\ UNCHANGED <<head, disturbed>>
    BY <1>0, <1>8 DEF BuildInv, TypeOK, Rename, CarriesFinished, Carries
  <2>2. CASE Return(b) /\ UNCHANGED dirs
    BY <1>2, <2>2
  <2>3. CASE /\ dirs' = [dirs EXCEPT ![c] = [db |-> job[b].db, meta |-> Never]]
             /\ Goto(b, "meta") /\ job' = [job EXCEPT ![b].db = Never]
    <3>1. IndexComplete'
      BY <1>0, <2>1, <2>3 DEF BuildInv, TypeOK, IndexComplete, is_valid, Finished, Undisturbed
    <3>2. HeadKept'
      BY <1>0, <2>1, <2>3 DEF BuildInv, TypeOK, HeadKept, Undisturbed
    <3>3. CarriesFinished'
      BY <1>0, <2>1, <2>3 DEF BuildInv, TypeOK, CarriesFinished, Carries, Goto, Finished, Undisturbed
    <3> QED BY <3>1, <3>2, <3>3
  <2> QED BY <1>8, <2>2, <2>3 DEF Rename
<1>9. CASE WriteMeta(b)
  <2> DEFINE c == job[b].head
  <2>1. c \in Commits /\ pc[b] = "meta"
    BY <1>0, <1>9 DEF TypeOK, WriteMeta
  <2>2. CASE Return(b) /\ UNCHANGED dirs
    BY <1>2, <2>2
  <2>3. ASSUME dirs[c] # Never, dirs' = [dirs EXCEPT ![c].meta = job[b].at], Goto(b, "evict"),
               job' = [e \in Builders |->
                         IF e \in Sweeping THEN [job[e] EXCEPT !.since = @ \cup {c}] ELSE job[e]]
        PROVE HeadKept' /\ CarriesFinished' /\ IndexComplete'
    <3>1. \A d \in Commits : is_valid(d)' => is_valid(d) /\ dirs'[d].db = dirs[d].db
      BY <1>0, <2>1, <2>3 DEF TypeOK, is_valid
    <3>2. \A d \in Builders : job'[d].head = job[d].head /\ job'[d].db = job[d].db
      BY <1>0, <2>3 DEF TypeOK
    <3>3. \A d \in Builders : Carries(d)' => Carries(d)
      BY <1>0, <2>1, <2>3 DEF TypeOK, Carries, Goto
    <3> QED BY <1>0, <3>1, <3>2, <3>3, NothingPlaced
  <2>4. WriteMeta(b) => \/ Return(b) /\ UNCHANGED dirs
                        \/ /\ dirs[c] # Never /\ dirs' = [dirs EXCEPT ![c].meta = job[b].at]
                           /\ Goto(b, "evict")
                           /\ job' = [e \in Builders |->
                                IF e \in Sweeping THEN [job[e] EXCEPT !.since = @ \cup {c}] ELSE job[e]]
    BY Zenon DEF WriteMeta
  <2> QED BY <1>9, <2>2, <2>3, <2>4
<1>10. CASE List(b)
  <2>1. job'[b].head = Never /\ \A d \in Builders : d # b => job'[d] = job[d]
    BY <1>0, <1>10 DEF TypeOK, List, NoJob
  <2> QED BY <1>1, <1>10, <2>1 DEF List, Places
<1>11. CASE Sweep(b)
  <2>1. CASE Return(b)
    BY <1>2, <1>11, <2>1 DEF Sweep
  <2>2. ASSUME ~Return(b) PROVE HeadKept' /\ CarriesFinished' /\ IndexComplete'
    <3>1. /\ Goto(b, "clear") /\ UNCHANGED dirs
          /\ job' = [job EXCEPT ![b].dir = Head(job[b].victims), ![b].left = Held(Head(job[b].victims)),
                               ![b].victims = Tail(job[b].victims)]
      BY <1>11, <2>2, Zenon DEF Sweep
    <3>2. job'[b].head = job[b].head /\ \A d \in Builders : d # b => job'[d] = job[d]
      BY <1>0, <3>1 DEF TypeOK
    <3> QED BY <1>1, <3>1, <3>2 DEF Places
  <2> QED BY <2>1, <2>2
<1> QED BY <1>3, <1>4, <1>5, <1>6, <1>7, <1>8, <1>9, <1>10, <1>11 DEF Builder

\* So does every step.
LEMMA InvStep == BuildInv /\ [Next]_vars => BuildInv'
<1> SUFFICES ASSUME BuildInv, [Next]_vars PROVE BuildInv'
  OBVIOUS
<1>0. TypeOK'
  BY TypeStep DEF BuildInv
<1> USE IndexConstants DEF Finished, Undisturbed, HeadKept, CarriesFinished, Carries, IndexComplete, is_valid
<1>1. CASE Hook
  BY <1>0, <1>1 DEF BuildInv, TypeOK, Hook, Prompt, TakeLock, Spawn, Busy
<1>2. CASE Move
  BY <1>0, <1>2 DEF BuildInv, TypeOK, Move
<1>3. CASE Tick
  BY <1>0, <1>3 DEF BuildInv, TypeOK, Tick
<1>4. ASSUME NEW b \in Builders, Manual(b) PROVE BuildInv'
  BY <1>0, <1>4 DEF BuildInv, TypeOK, Manual, Busy
<1>5. ASSUME NEW b \in Builders, Builder(b) PROVE BuildInv'
  BY <1>0, <1>5, BuildStep DEF BuildInv
<1>6. ASSUME NEW b \in Builders, Fail(b) PROVE BuildInv'
  <2>1. Return(b) /\ UNCHANGED <<head, dirs>> /\ Undisturbed' = Undisturbed
    BY <1>6 DEF Fail
  <2> QED BY <1>0, <2>1, ReturnPlacesNothing DEF BuildInv
<1>7. CASE HookFails
  BY <1>0, <1>7 DEF BuildInv, TypeOK, HookFails
<1>8. CASE UNCHANGED vars
  BY <1>0, <1>8 DEF BuildInv, TypeOK, vars
<1> QED BY <1>1, <1>2, <1>3, <1>4, <1>5, <1>6, <1>7, <1>8 DEF Next, Failure

\* A valid database under a commit's name is finished, and of that commit unless HEAD
\* has moved, for any number of overlapping and failing builders: the
\* rename over an empty directory is the only step that puts one in place.
THEOREM IndexesAreComplete == Spec => []IndexComplete
<1>1. Init => BuildInv
  BY BuildInit
<1>2. BuildInv /\ [Next]_vars => BuildInv'
  BY InvStep
<1>3. BuildInv => IndexComplete
  BY DEF BuildInv
<1> QED BY <1>1, <1>2, <1>3, PTL DEF Spec
-----------------------------------------------------------------------------
(* How many indexes are listed.  An eviction that has listed them spares   *)
(* Keep, has the others before it, and knows of those written since; when  *)
(* it runs to its end none are before it any more.                         *)

Few(K) == IsFiniteSet(K) /\ Cardinality(K) <= Keep

\* What an eviction that is at it has still to remove.
Before(b) == {job[b].dir} \cup {job[b].victims[i] : i \in 1..Len(job[b].victims)}

\* All listed indexes but a few are in S.
AllButFew(S) == \E K \in SUBSET Commits : Few(K) /\ Listed \subseteq K \cup S

SweepsHold == \A b \in Sweeping : AllButFew(Before(b) \cup job[b].since)

Bounded == AllButFew(unswept) /\ SweepsHold

\* What holds of all listed indexes but a few holds when fewer are listed.
LEMMA FewerListed ==
  ASSUME NEW S, NEW T, AllButFew(S), Listed' \cap S \subseteq T, Listed' \subseteq Listed
  PROVE  \E K \in SUBSET Commits : Few(K) /\ Listed' \subseteq K \cup T
<1>1. PICK K \in SUBSET Commits : Few(K) /\ Listed \subseteq K \cup S
  BY DEF AllButFew
<1>2. Listed' \subseteq K \cup T
  BY <1>1
<1> QED BY <1>1, <1>2

\* A step that lists nothing more keeps the bound, if those at evicting have no less
\* before them.
LEMMA ListsNoMore ==
  ASSUME Bounded, Listed' \subseteq Listed, Listed' \cap unswept \subseteq unswept',
         Sweeping' \subseteq Sweeping,
         \A b \in Sweeping' : Listed' \cap (Before(b) \cup job[b].since) \subseteq Before(b)' \cup job'[b].since
  PROVE  Bounded'
<1>1. AllButFew(unswept)'
  <2>1. \E K \in SUBSET Commits : Few(K) /\ Listed' \subseteq K \cup unswept'
    BY FewerListed DEF Bounded
  <2> QED BY <2>1 DEF AllButFew, Few
<1>2. ASSUME NEW b \in Sweeping' PROVE AllButFew(Before(b) \cup job[b].since)'
  <2>1. AllButFew(Before(b) \cup job[b].since)
    BY <1>2 DEF Bounded, SweepsHold
  <2>2. \E K \in SUBSET Commits : Few(K) /\ Listed' \subseteq K \cup (Before(b)' \cup job'[b].since)
    BY <1>2, <2>1, FewerListed
  <2> QED BY <2>2 DEF AllButFew, Few
<1> QED BY <1>1, <1>2 DEF Bounded, SweepsHold

\* A listing spares few.
LEMMA SparedAreFew ==
  ASSUME NEW s \in Listings
  PROVE  AllButFew({Skip(s)[k] : k \in 1..Len(Skip(s))})
<1> DEFINE n == IF Len(s) < Keep THEN Len(s) ELSE Keep
<1> DEFINE K == {s[i] : i \in 1..n}
<1>1. /\ Len(s) \in Nat /\ Keep \in Nat /\ \A i \in 1..Len(s) : s[i] \in Commits
      /\ \A c \in Listed : \E i \in 1..Len(s) : s[i] = c
  BY ListingType, IndexConstants
<1>2. n \in Nat /\ n <= Keep /\ n <= Len(s) /\ \A i \in 1..Len(s) : i \in 1..n \/ i \in Keep + 1 .. Len(s)
  BY <1>1
<1>3. K \in SUBSET Commits
  BY <1>1, <1>2
<1>4. Few(K)
  <2> DEFINE f == [i \in 1..n |-> s[i]]
  <2> HIDE DEF n
  <2>1. f \in Surjection(1..n, K)
    BY DEF Surjection
  <2>2. IsFiniteSet(1..n) /\ Cardinality(1..n) = n
    BY <1>2, FS_Interval
  <2>3. IsFiniteSet(K) /\ Cardinality(K) <= Cardinality(1..n)
    <3> HIDE DEF f, K
    <3> QED BY <2>1, <2>2, FS_Surjection
  <2>4. Cardinality(K) \in Nat
    BY <2>3, FS_CardinalityType
  <2> QED BY <1>1, <1>2, <2>2, <2>3, <2>4 DEF Few
<1>5. Listed \subseteq K \cup {Skip(s)[k] : k \in 1..Len(Skip(s))}
  <2> SUFFICES ASSUME NEW c \in Listed PROVE c \in K \cup {Skip(s)[k] : k \in 1..Len(Skip(s))}
    OBVIOUS
  <2>1. PICK i \in 1..Len(s) : s[i] = c
    BY <1>1
  <2>2. CASE i \in 1..n
    BY <2>1, <2>2
  <2>3. CASE i \in Keep + 1 .. Len(s)
    <3>1. \E k \in 1..Len(Skip(s)) : Skip(s)[k] = s[i]
      BY <2>3, SkipType
    <3> QED BY <2>1, <3>1
  <2> QED BY <1>2, <2>1, <2>2, <2>3
<1> QED BY <1>3, <1>4, <1>5 DEF AllButFew

\* A return leaves the other evictions as they are.
LEMMA ReturnListsNothing ==
  ASSUME TypeOK, Bounded, NEW b \in Builders, Return(b), UNCHANGED dirs,
         Listed \cap unswept \subseteq unswept'
  PROVE  Bounded'
<1>1. Listed' = Listed
  BY DEF Listed
<1>2. /\ Sweeping' \subseteq Sweeping
      /\ \A d \in Sweeping' : job'[d] = job[d]
  BY DEF TypeOK, Return, Goto, Sweeping
<1>3. \A d \in Sweeping' : Before(d)' = Before(d) /\ job'[d].since = job[d].since
  BY <1>2 DEF Before
<1> QED BY <1>1, <1>2, <1>3, ListsNoMore

\* A builder's step keeps the bound: metadata is written before the listing of its
\* writer and noted by those that have listed already.
LEMMA BoundBuilder ==
  ASSUME TypeOK, Bounded, NEW b \in Builders, Builder(b) PROVE Bounded'
<1> USE IndexConstants
<1>1. ASSUME NEW l, Goto(b, l)
      PROVE  pc'[b] = l /\ \A d \in Builders : d # b => pc'[d] = pc[d]
  BY <1>1 DEF Goto, TypeOK
<1>2. ASSUME UNCHANGED <<dirs, unswept>>, NEW l, Goto(b, l), l \notin {"sweep", "clear"},
             \A d \in Builders : d # b => job'[d] = job[d]
      PROVE  Bounded'
  <2>1. Listed' = Listed
    BY <1>2 DEF Listed
  <2>2. Sweeping' \subseteq Sweeping /\ \A d \in Sweeping' : job'[d] = job[d]
    BY <1>1, <1>2 DEF Sweeping
  <2>3. \A d \in Sweeping' : Before(d)' = Before(d) /\ job'[d].since = job[d].since
    BY <2>2 DEF Before
  <2> QED BY <1>2, <2>1, <2>2, <2>3, ListsNoMore
<1>3. CASE Return(b) /\ UNCHANGED <<dirs, unswept>>
  BY <1>3, ReturnListsNothing
<1>4. CASE Check(b)
  <2>1. CASE Return(b)
    BY <1>3, <1>4, <2>1 DEF Check
  <2>2. CASE job' = [job EXCEPT ![b].head = head] /\ Goto(b, "open")
    BY <1>2, <1>4, <2>2 DEF TypeOK, Check
  <2> QED BY <1>4, <2>1, <2>2 DEF Check
<1>5. CASE Open(b)
  BY <1>2, <1>5 DEF TypeOK, Open
<1>6. CASE Build(b)
  BY <1>2, <1>6 DEF TypeOK, Build
<1>7. CASE Exists(b)
  <2>1. CASE dirs[job[b].head] = Never
    BY <1>2, <1>7, <2>1 DEF TypeOK, Exists
  <2>2. CASE dirs[job[b].head] # Never
    BY <1>2, <1>7, <2>2 DEF TypeOK, Exists, Clear
  <2> QED BY <2>1, <2>2
<1>8. CASE Remove(b)
  <2> DEFINE c == job[b].dir
  <2>1. pc[b] \in {"remove", "clear"} /\ c \in Commits
    BY <1>8 DEF Remove, TypeOK
  <2>2. unswept' = unswept \cap Listed'
    BY <1>8 DEF Remove
  <2>3. CASE Return(b) /\ UNCHANGED dirs
    BY <2>2, <2>3, ReturnListsNothing DEF Listed
  <2>4. ASSUME NEW f \in job[b].left, dirs[c] # Never, dirs' = [dirs EXCEPT ![c][f] = Never],
               job' = [job EXCEPT ![b].left = @ \ {f}], UNCHANGED pc
        PROVE  Bounded'
    <3> DEFINE e == [dirs[c] EXCEPT ![f] = Never]
    <3>1. dirs[c] \in [db : Databases, meta : Times \cup {Never}] /\ f \in Files
      BY <2>1, <2>4 DEF TypeOK
    <3>2. dirs' = [dirs EXCEPT ![c] = e] /\ e.meta \in {Never, dirs[c].meta}
      BY <2>4, <3>1 DEF Files
    <3> HIDE DEF e
    <3>3. Listed' \subseteq Listed
      BY <2>1, <2>4, <3>2 DEF Listed, TypeOK
    <3>4. Sweeping' = Sweeping
      BY <2>4 DEF Sweeping
    <3>5. \A d \in Builders : /\ job'[d].dir = job[d].dir /\ job'[d].victims = job[d].victims
                              /\ job'[d].since = job[d].since
      BY <2>4 DEF TypeOK
    <3>6. \A d \in Sweeping' : Before(d)' = Before(d) /\ job'[d].since = job[d].since
      BY <3>5 DEF Before, Sweeping
    <3> QED BY <2>2, <3>3, <3>4, <3>6, ListsNoMore
  <2>5. ASSUME dirs' = [dirs EXCEPT ![c] = Never], job' = [job EXCEPT ![b].dir = Never],
               Goto(b, IF pc[b] = "remove" THEN "rename" ELSE "sweep")
        PROVE  Bounded'
    <3>1. Listed' \subseteq Listed /\ c \notin Listed'
      BY <2>1, <2>5 DEF Listed, TypeOK
    <3>2. pc'[b] = (IF pc[b] = "remove" THEN "rename" ELSE "sweep") /\ \A d \in Builders : d # b => pc'[d] = pc[d]
      BY <2>5 DEF Goto, TypeOK
    <3>3. Sweeping' \subseteq Sweeping
      BY <2>1, <3>2 DEF Sweeping
    <3>4. \A d \in Builders : /\ d # b => job'[d].dir = job[d].dir
                              /\ job'[d].victims = job[d].victims /\ job'[d].since = job[d].since
      BY <2>5 DEF TypeOK
    <3>5. \A d \in Sweeping' : Before(d) \subseteq Before(d)' \cup {c} /\ job'[d].since = job[d].since
      BY <3>4 DEF Before, Sweeping
    <3> QED BY <2>2, <3>1, <3>3, <3>5, ListsNoMore
  <2> QED BY <1>8, <2>3, <2>4, <2>5 DEF Remove
<1>9. CASE Rename(b)
  <2> DEFINE c == job[b].head
  <2>1. pc[b] = "rename" /\ c \in Commits /\ UNCHANGED unswept
    BY <1>9 DEF Rename, TypeOK
  <2>2. CASE Return(b) /\ UNCHANGED dirs
    BY <1>3, <2>1, <2>2
  <2>3. CASE /\ dirs' = [dirs EXCEPT ![c] = [db |-> job[b].db, meta |-> Never]]
             /\ Goto(b, "meta") /\ job' = [job EXCEPT ![b].db = Never]
    <3>1. Listed' \subseteq Listed
      BY <2>1, <2>3 DEF Listed, TypeOK
    <3>2. Sweeping' = Sweeping
      BY <1>1, <2>1, <2>3 DEF Sweeping
    <3>3. \A d \in Sweeping' : job'[d] = job[d]
      BY <2>1, <2>3, <3>2 DEF TypeOK, Sweeping
    <3>4. \A d \in Sweeping' : Before(d)' = Before(d) /\ job'[d].since = job[d].since
      BY <3>3 DEF Before
    <3> QED BY <2>1, <3>1, <3>2, <3>4, ListsNoMore
  <2> QED BY <1>9, <2>2, <2>3 DEF Rename
<1>10. CASE WriteMeta(b)
  <2> DEFINE c == job[b].head
  <2>1. pc[b] = "meta" /\ c \in Commits
    BY <1>10 DEF WriteMeta, TypeOK
  <2>2. CASE Return(b) /\ UNCHANGED <<dirs, unswept>>
    BY <1>3, <2>2
  <2>3. ASSUME dirs[c] # Never, dirs' = [dirs EXCEPT ![c].meta = job[b].at], Goto(b, "evict"),
               job' = [e \in Builders |->
                         IF e \in Sweeping THEN [job[e] EXCEPT !.since = @ \cup {c}] ELSE job[e]],
               unswept' = unswept \cup {c}
        PROVE  Bounded'
    <3>1. Listed' \subseteq Listed \cup {c}
      BY <2>1, <2>3 DEF Listed, TypeOK
    <3>2. Sweeping' = Sweeping
      BY <1>1, <2>1, <2>3 DEF Sweeping
    <3>3. \A d \in Sweeping : /\ job'[d].dir = job[d].dir /\ job'[d].victims = job[d].victims
                              /\ job'[d].since = job[d].since \cup {c}
      BY <2>3 DEF TypeOK, Sweeping
    <3>4. \A d \in Sweeping : Before(d)' = Before(d)
      BY <3>3 DEF Before
    <3>5. AllButFew(unswept)'
      <4>1. PICK K \in SUBSET Commits : Few(K) /\ Listed \subseteq K \cup unswept
        BY DEF Bounded, AllButFew
      <4>2. Listed' \subseteq K \cup unswept'
        BY <2>3, <3>1, <4>1
      <4> QED BY <4>1, <4>2 DEF AllButFew, Few
    <3>6. ASSUME NEW d \in Sweeping' PROVE AllButFew(Before(d) \cup job[d].since)'
      <4>1. PICK K \in SUBSET Commits : Few(K) /\ Listed \subseteq K \cup (Before(d) \cup job[d].since)
        BY <3>2, <3>6 DEF Bounded, SweepsHold, AllButFew
      <4>2. Listed' \subseteq K \cup (Before(d)' \cup job'[d].since)
        BY <3>1, <3>2, <3>3, <3>4, <3>6, <4>1
      <4> QED BY <4>1, <4>2 DEF AllButFew, Few
    <3> QED BY <3>5, <3>6 DEF Bounded, SweepsHold
  <2> QED BY <1>10, <2>2, <2>3 DEF WriteMeta
<1>11. CASE List(b)
  <2>1. PICK s \in Listings : job' = [job EXCEPT ![b] = [NoJob EXCEPT !.victims = Skip(s)]]
    BY <1>11 DEF List
  <2>2. pc[b] = "evict" /\ Goto(b, "sweep") /\ UNCHANGED <<dirs, unswept>>
    BY <1>11 DEF List
  <2>3. Listed' = Listed
    BY <2>2 DEF Listed
  <2>4. Sweeping' = Sweeping \cup {b} /\ b \notin Sweeping
    BY <1>1, <2>2 DEF Sweeping
  <2>5. job'[b].victims = Skip(s) /\ \A d \in Sweeping : job'[d] = job[d]
    BY <2>1, <2>4 DEF TypeOK, NoJob, Sweeping
  <2>6. ASSUME NEW d \in Sweeping PROVE AllButFew(Before(d) \cup job[d].since)'
    <3>1. Before(d)' = Before(d) /\ job'[d].since = job[d].since
      BY <2>5, <2>6 DEF Before
    <3>2. AllButFew(Before(d) \cup job[d].since)
      BY <2>6 DEF Bounded, SweepsHold
    <3> QED BY <2>3, <3>1, <3>2 DEF AllButFew, Few
  <2>7. AllButFew(Before(b) \cup job[b].since)'
    <3> DEFINE V == {Skip(s)[k] : k \in 1..Len(Skip(s))}
    <3>1. AllButFew(V)
      BY SparedAreFew
    <3>2. V \subseteq Before(b)'
      BY <2>5 DEF Before
    <3> HIDE DEF V
    <3>3. PICK K \in SUBSET Commits : Few(K) /\ Listed \subseteq K \cup V
      BY <3>1 DEF AllButFew
    <3>4. Listed' \subseteq K \cup (Before(b)' \cup job'[b].since)
      BY <2>3, <3>2, <3>3
    <3> QED BY <3>3, <3>4 DEF AllButFew, Few
  <2>8. AllButFew(unswept)'
    BY <2>2, <2>3 DEF Bounded, AllButFew, Few
  <2> QED BY <2>4, <2>6, <2>7, <2>8 DEF Bounded, SweepsHold
<1>12. CASE Sweep(b)
  <2> DEFINE v == job[b].victims
  <2>1. b \in Sweeping /\ UNCHANGED dirs /\ job[b].dir \notin Commits /\ v \in Seq(Commits)
    BY <1>12 DEF Sweep, Sweeping, TypeOK
  <2>2. Listed' = Listed /\ Listed \subseteq Commits
    BY <2>1 DEF Listed
  <2>3. CASE v = <<>>
    <3>1. Return(b) /\ unswept' \in {job[b].since, unswept}
      BY <1>12, <2>3 DEF Sweep
    <3>2. CASE unswept' = unswept
      BY <1>3, <2>1, <3>1, <3>2
    <3>3. CASE unswept' = job[b].since
      <4>1. AllButFew(Before(b) \cup job[b].since)
        BY <2>1 DEF Bounded, SweepsHold
      <4>2. Before(b) = {job[b].dir}
        BY <2>3 DEF Before
      <4>3. Listed' \cap (Before(b) \cup job[b].since) \subseteq unswept' /\ Listed' \subseteq Listed
        BY <2>1, <2>2, <3>3, <4>2
      <4>4. \E K \in SUBSET Commits : Few(K) /\ Listed' \subseteq K \cup unswept'
        BY <4>1, <4>3, FewerListed
      <4>5. AllButFew(unswept)'
        BY <4>4 DEF AllButFew, Few
      <4>6. Sweeping' \subseteq Sweeping /\ \A d \in Sweeping' : job'[d] = job[d]
        BY <3>1 DEF TypeOK, Return, Goto, Sweeping
      <4>7. ASSUME NEW d \in Sweeping' PROVE AllButFew(Before(d) \cup job[d].since)'
        <5>1. Before(d)' = Before(d) /\ job'[d].since = job[d].since
          BY <4>6, <4>7 DEF Before
        <5>2. AllButFew(Before(d) \cup job[d].since)
          BY <4>6, <4>7 DEF Bounded, SweepsHold
        <5> QED BY <2>2, <5>1, <5>2 DEF AllButFew, Few
      <4> QED BY <4>5, <4>7 DEF Bounded, SweepsHold
    <3> QED BY <3>1, <3>2, <3>3
  <2>4. CASE v # <<>> /\ dirs[Head(v)] = Never
    BY <1>3, <1>12, <2>4 DEF Sweep
  <2>5. CASE v # <<>> /\ dirs[Head(v)] # Never
    <3>1. /\ Goto(b, "clear") /\ UNCHANGED <<dirs, unswept>>
          /\ job' = [job EXCEPT ![b].dir = Head(v), ![b].left = Held(Head(v)), ![b].victims = Tail(v)]
      BY <1>12, <2>5 DEF Sweep
    <3>2. /\ job'[b].dir = Head(v) /\ job'[b].victims = Tail(v) /\ job'[b].since = job[b].since
          /\ \A d \in Builders : d # b => job'[d] = job[d]
      BY <3>1 DEF TypeOK
    <3>3. Sweeping' = Sweeping
      BY <1>1, <2>1, <3>1 DEF Sweeping
    <3>4. Commits \cap Before(b) \subseteq Before(b)'
      <4> SUFFICES ASSUME NEW i \in 1..Len(v) PROVE v[i] \in Before(b)'
        BY <2>1 DEF Before
      <4>1. /\ Len(Tail(v)) = Len(v) - 1 /\ Len(v) \in Nat /\ v[1] = Head(v)
            /\ \A k \in 1..Len(Tail(v)) : Tail(v)[k] = v[k + 1]
        BY <2>1, <2>5, HeadTailProperties
      <4>2. CASE i = 1
        BY <3>2, <4>1, <4>2 DEF Before
      <4>3. CASE i # 1
        <5>1. i - 1 \in 1..Len(Tail(v)) /\ (i - 1) + 1 = i
          BY <4>1, <4>3
        <5>2. Tail(v)[i - 1] = v[i]
          BY <4>1, <5>1
        <5> QED BY <3>2, <5>1, <5>2 DEF Before
      <4> QED BY <4>2, <4>3
    <3>5. \A d \in Sweeping' : d # b => Before(d)' = Before(d) /\ job'[d].since = job[d].since
      BY <3>2, <3>3 DEF Before, Sweeping
    <3> QED BY <2>2, <3>1, <3>2, <3>3, <3>4, <3>5, ListsNoMore
  <2> QED BY <2>3, <2>4, <2>5
<1> QED BY <1>4, <1>5, <1>6, <1>7, <1>8, <1>9, <1>10, <1>11, <1>12 DEF Builder

\* So does every step.
LEMMA BoundStep == TypeOK /\ Bounded /\ [Next]_vars => Bounded'
<1> SUFFICES ASSUME TypeOK, Bounded, [Next]_vars PROVE Bounded'
  OBVIOUS
<1>1. ASSUME UNCHANGED <<dirs, job, unswept>>, Sweeping' = Sweeping PROVE Bounded'
  <2>1. Listed' = Listed
    BY <1>1 DEF Listed
  <2>2. \A b \in Sweeping' : Before(b)' = Before(b) /\ job'[b].since = job[b].since
    BY <1>1 DEF Before
  <2> QED BY <1>1, <2>1, <2>2, ListsNoMore
<1>2. ASSUME NEW b \in Builders, pc' = [pc EXCEPT ![b] = "check"], ~Busy(b),
             UNCHANGED <<dirs, job, unswept>>
      PROVE  Bounded'
  <2>1. Sweeping' = Sweeping
    BY <1>2 DEF Sweeping, Busy, TypeOK
  <2> QED BY <1>1, <1>2, <2>1
<1>3. CASE Prompt \/ TakeLock \/ HookFails \/ Move \/ Tick \/ UNCHANGED vars
  <2>1. UNCHANGED <<dirs, job, unswept, pc>>
    BY <1>3 DEF Prompt, TakeLock, HookFails, Move, Tick, vars
  <2> QED BY <1>1, <2>1 DEF Sweeping
<1>4. ASSUME NEW b \in Builders, Spawn(b) PROVE Bounded'
  BY <1>2, <1>4 DEF Spawn
<1>5. ASSUME NEW b \in Builders, Manual(b) PROVE Bounded'
  BY <1>2, <1>5 DEF Manual
<1>6. ASSUME NEW b \in Builders, Fail(b) PROVE Bounded'
  BY <1>6, ReturnListsNothing DEF Fail
<1> QED BY <1>3, <1>4, <1>5, <1>6, BoundBuilder DEF Next, Hook, Failure

\* Of the indexes listed before an eviction that ran to its end, no more than Keep
\* stay, for any number of commits, builders and overlaps, whichever of them fail: its
\* excess is gone when it ends, and whoever writes metadata later is noted
\* (indexer.rs:173-180, 285-286).
THEOREM EvictionHolds == Spec => []EvictBound
<1>1. Init => Bounded
  <2> SUFFICES ASSUME Init PROVE Bounded
    OBVIOUS
  <2>1. Listed = {} /\ Sweeping = {}
    BY DEF Init, Listed, Sweeping
  <2> DEFINE K == {}
  <2>2. Few(K) /\ K \in SUBSET Commits
    BY FS_EmptySet, IndexConstants DEF Few
  <2>3. AllButFew(unswept)
    BY <2>1, <2>2 DEF AllButFew
  <2> QED BY <2>1, <2>3 DEF Bounded, SweepsHold
<1>2. Bounded => EvictBound
  <2> SUFFICES ASSUME Bounded PROVE Cardinality(Listed \ unswept) <= Keep
    BY DEF EvictBound
  <2>1. PICK K \in SUBSET Commits : Few(K) /\ Listed \subseteq K \cup unswept
    BY DEF Bounded, AllButFew
  <2>2. Listed \ unswept \in SUBSET K /\ IsFiniteSet(K) /\ Cardinality(K) <= Keep
    BY <2>1 DEF Few
  <2>3. IsFiniteSet(Listed \ unswept) /\ Cardinality(Listed \ unswept) <= Cardinality(K)
    BY <2>2, FS_Subset
  <2>4. Cardinality(Listed \ unswept) \in Nat /\ Cardinality(K) \in Nat /\ Keep \in Nat
    BY <2>2, <2>3, FS_CardinalityType, IndexConstants
  <2> QED BY <2>2, <2>3, <2>4
<1> QED BY <1>1, <1>2, TypeInit, TypeStep, BoundStep, PTL DEF Spec
=============================================================================
