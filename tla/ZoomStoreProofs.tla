-------------------------- MODULE ZoomStoreProofs ---------------------------
(***************************************************************************)
(* For any calls, expands, sessions, keys, passes and bound:               *)
(*   - the store's types;                                                  *)
(*   - feedback counts never exceed the events counted;                    *)
(*   - an expand restores the block its marker stands for as long as no    *)
(*     other call has begun to save a block of that number.                *)
(***************************************************************************)
EXTENDS ZoomStore, TLAPS

\* A file of the call's directory gets new contents; all others stay.
LEMMA InFileType ==
  ASSUME NEW X, NEW f \in [Sessions -> [Ids -> X]], NEW c \in Calls, NEW x \in X,
         at[c] \in Ids
  PROVE  /\ InFile(f, c, x) \in [Sessions -> [Ids -> X]]
         /\ \A s \in Sessions, n \in Ids :
              InFile(f, c, x)[s][n] = IF s = SessionOf[c] /\ n = at[c] THEN x ELSE f[s][n]
<1>1. SessionOf[c] \in Sessions
  BY ZoomConstants
<1>2. f[SessionOf[c]] \in [Ids -> X]
  BY <1>1
<1>3. [f[SessionOf[c]] EXCEPT ![at[c]] = x] \in [Ids -> X]
  BY <1>2
<1>4. QED
  BY <1>1, <1>2, <1>3 DEF InFile

-----------------------------------------------------------------------------
(* Types.  A call that saves is at a number it has given and not drained.  *)

Saving == {"open_text", "write_text", "open_meta", "write_meta"}

Numbers ==
  \A c \in Calls :
    /\ pc[c] \in Saving => drained[c] < at[c] /\ at[c] <= counter[c]
    /\ pc[c] = "count" => at[c] <= counter[c]
    /\ pc[c] \in {"pass", "open_counts", "write_counts"} => at[c] <= drained[c]
    /\ drained[c] <= counter[c]

Places ==
  /\ \A c \in Calls : pc[c] \notin {"idle", "load", "block_command"}
  /\ \A e \in Expands : pc[e] \notin Saving \cup {"pass"}
  /\ \A e \in Expands : pc[e] = "count" => whose[e] \in Commands
  /\ \A e \in Expands : pc[e] \notin {"idle", "dead"} => wanted[e] \in Blocks

TypeInv == TypeOK /\ Numbers /\ Places

LEMMA TypeInit == Init => TypeInv
<1> SUFFICES ASSUME Init PROVE TypeInv
  OBVIOUS
<1> USE ZoomConstants DEF Init, Processes
<1>1. NoCounts \in Counts /\ NoFiles \in [Sessions -> [Ids -> {None}]]
  BY DEF NoCounts, Counts, NoFiles
<1>2. TypeOK
  BY <1>1 DEF TypeOK, Phases
<1>3. Numbers /\ Places
  BY DEF Numbers, Places, Saving
<1>4. QED
  BY <1>2, <1>3 DEF TypeInv

LEMMA LoadedType == ASSUME TypeOK PROVE Loaded \in Counts
<1>1. NoCounts \in Counts
  BY DEF NoCounts, Counts
<1>2. QED
  BY <1>1 DEF Loaded, TypeOK

\* One more event, or several, in the counts of a key.
LEMMA MoreCounts ==
  ASSUME NEW x \in Counts, NEW k \in Commands, NEW n \in Nat
  PROVE  /\ [x EXCEPT ![k].blocks = @ + n] \in Counts
         /\ [x EXCEPT ![k].expands = @ + n] \in Counts
<1>1. x \in [Commands -> [blocks : Nat, expands : Nat]]
  BY DEF Counts
<1>2. /\ [x EXCEPT ![k].blocks = @ + n] \in [Commands -> [blocks : Nat, expands : Nat]]
      /\ [x EXCEPT ![k].expands = @ + n] \in [Commands -> [blocks : Nat, expands : Nat]]
  BY <1>1
<1>3. QED
  BY <1>2 DEF Counts

LEMMA CallTypes == ASSUME TypeInv, NEW c \in Calls, CallStep(c) PROVE TypeInv'
<1> USE ZoomConstants DEF Processes
<1>0. TypeOK /\ Numbers /\ Places
  BY DEF TypeInv
<1>n. /\ at[c] \in Nat /\ counter[c] \in 0..MaxId /\ drained[c] \in 0..MaxId
      /\ pc[c] \in Saving => at[c] \in Ids
  BY <1>0 DEF TypeOK, Numbers, Saving, Ids
<1>k. KeyOf[c] \in Commands
  OBVIOUS
<1> USE DEF TypeOK, Numbers, Places, Saving, Goto, registry, files, counts, answers
<1>1. CASE Pass(c)
  <2>1. PICK m \in counter[c]..MaxId :
          /\ counter' = [counter EXCEPT ![c] = m]
          /\ IF Saves[c][pass[c] + 1] /\ m > drained[c]
               THEN at' = [at EXCEPT ![c] = drained[c] + 1] /\ pc' = [pc EXCEPT ![c] = "open_text"]
               ELSE UNCHANGED <<at, pc>>
    BY <1>1 DEF Pass
  <2>2. m \in 0..MaxId
    BY <1>n, <2>1
  <2>a. CASE Saves[c][pass[c] + 1] /\ m > drained[c]
    <3>1. at' = [at EXCEPT ![c] = drained[c] + 1] /\ pc' = [pc EXCEPT ![c] = "open_text"]
      BY <2>1, <2>a
    <3>2. TypeOK'
      BY <1>0, <1>1, <1>n, <2>1, <2>2, <3>1 DEF Pass, Phases
    <3>3. Numbers' /\ Places'
      BY <1>0, <1>1, <1>n, <2>1, <2>2, <2>a, <3>1 DEF Pass
    <3>4. QED
      BY <3>2, <3>3 DEF TypeInv
  <2>b. CASE ~(Saves[c][pass[c] + 1] /\ m > drained[c])
    <3>1. UNCHANGED <<at, pc>>
      BY <2>1, <2>b
    <3>2. TypeOK'
      BY <1>0, <1>1, <1>n, <2>1, <2>2, <3>1 DEF Pass, Phases
    <3>3. Numbers' /\ Places'
      BY <1>0, <1>1, <1>n, <2>1, <2>2, <3>1 DEF Pass
    <3>4. QED
      BY <3>2, <3>3 DEF TypeInv
  <2>6. QED
    BY <2>a, <2>b
<1>2. CASE OpenText(c)
  <2>1. at[c] \in Ids /\ Block(c, at[c]) \in Blocks
    BY <1>2, <1>n DEF OpenText, Block, Blocks
  <2>2. texts' \in [Sessions -> [Ids -> Blocks \cup {Torn, None}]]
    BY <1>0, <1>2, <2>1, InFileType DEF OpenText
  <2>3. TypeOK'
    BY <1>0, <1>2, <2>1, <2>2 DEF OpenText, Phases
  <2>4. Numbers' /\ Places'
    BY <1>0, <1>2, <1>n DEF OpenText
  <2>5. QED
    BY <2>3, <2>4 DEF TypeInv
<1>3. CASE WriteText(c)
  <2>1. at[c] \in Ids /\ Block(c, at[c]) \in Blocks
    BY <1>3, <1>n DEF WriteText, Block, Blocks
  <2>2. texts' \in [Sessions -> [Ids -> Blocks \cup {Torn, None}]]
    BY <1>0, <1>3, <2>1, InFileType DEF WriteText
  <2>3. TypeOK'
    BY <1>0, <1>3, <2>1, <2>2 DEF WriteText, Phases
  <2>4. Numbers' /\ Places'
    BY <1>0, <1>3, <1>n DEF WriteText
  <2>5. QED
    BY <2>3, <2>4 DEF TypeInv
<1>4. CASE OpenMeta(c)
  <2>1. at[c] \in Ids
    BY <1>4, <1>n DEF OpenMeta
  <2>2. metas' \in [Sessions -> [Ids -> Commands \cup {Torn, None}]]
    BY <1>0, <1>4, <2>1, InFileType DEF OpenMeta
  <2>3. TypeOK'
    BY <1>0, <1>4, <2>2 DEF OpenMeta, Phases
  <2>4. Numbers' /\ Places'
    BY <1>0, <1>4, <1>n DEF OpenMeta
  <2>5. QED
    BY <2>3, <2>4 DEF TypeInv
<1>5. CASE WriteMeta(c)
  <2>1. at[c] \in Ids
    BY <1>5, <1>n DEF WriteMeta
  <2>2. metas' \in [Sessions -> [Ids -> Commands \cup {Torn, None}]]
    BY <1>0, <1>5, <1>k, <2>1, InFileType DEF WriteMeta
  <2>a. CASE at[c] < counter[c]
    <3>1. at' = [at EXCEPT ![c] = at[c] + 1] /\ pc' = [pc EXCEPT ![c] = "open_text"]
      BY <1>5, <2>a DEF WriteMeta
    <3>2. TypeOK'
      BY <1>0, <1>5, <1>n, <2>2, <3>1 DEF WriteMeta, Phases
    <3>3. Numbers' /\ Places'
      BY <1>0, <1>5, <1>n, <2>a, <3>1 DEF WriteMeta
    <3>4. QED
      BY <3>2, <3>3 DEF TypeInv
  <2>b. CASE ~(at[c] < counter[c])
    <3>1. at' = at /\ pc' = [pc EXCEPT ![c] = "count"]
      BY <1>5, <2>b DEF WriteMeta
    <3>2. TypeOK'
      BY <1>0, <1>5, <2>2, <3>1 DEF WriteMeta, Phases
    <3>3. Numbers' /\ Places'
      BY <1>0, <1>5, <1>n, <3>1 DEF WriteMeta
    <3>4. QED
      BY <3>2, <3>3 DEF TypeInv
  <2>5. QED
    BY <2>a, <2>b
<1>6. CASE CountBlocks(c)
  <2> DEFINE n == counter[c] - drained[c]
  <2>1. n \in Nat
    BY <1>0, <1>n
  <2>2. copy' = [copy EXCEPT ![c] = [Loaded EXCEPT ![KeyOf[c]].blocks = @ + n]]
    BY <1>6 DEF CountBlocks
  <2> HIDE DEF n
  <2>3. copy' \in [Processes -> Counts]
    BY <1>0, <1>k, <2>1, <2>2, LoadedType, MoreCounts
  <2>4. made' \in [Commands -> Nat]
    BY <1>0, <1>6, <1>k, <2>1 DEF CountBlocks, n
  <2>5. TypeOK'
    BY <1>0, <1>6, <1>n, <2>3, <2>4 DEF CountBlocks, Phases
  <2>6. Numbers' /\ Places'
    BY <1>0, <1>6, <1>n DEF CountBlocks
  <2>7. QED
    BY <2>5, <2>6 DEF TypeInv
<1>7. CASE Answer(c)
  <2>1. shown' \subseteq Blocks
    BY <1>0, <1>7, <1>n DEF Answer, Block, Blocks, Ids
  <2>2. TypeOK'
    BY <1>0, <1>7, <2>1 DEF Answer, Phases
  <2>3. Numbers' /\ Places'
    BY <1>0, <1>7, <1>n DEF Answer
  <2>4. QED
    BY <2>2, <2>3 DEF TypeInv
<1>8. QED
  BY <1>1, <1>2, <1>3, <1>4, <1>5, <1>6, <1>7 DEF CallStep

LEMMA ExpandTypes == ASSUME TypeInv, NEW e \in Expands, ExpandStep(e) PROVE TypeInv'
<1> USE ZoomConstants DEF Processes
<1>0. TypeOK /\ Numbers /\ Places
  BY DEF TypeInv
<1> USE DEF TypeOK, Numbers, Places, Saving, Goto, registry, files, counts, answers
<1>1. CASE Ask(e)
  <2>1. TypeOK'
    BY <1>0, <1>1 DEF Ask, Phases
  <2>2. Numbers' /\ Places'
    BY <1>0, <1>1 DEF Ask
  <2>3. QED
    BY <2>1, <2>2 DEF TypeInv
<1>2. CASE LoadBlock(e)
  <2>1. wanted[e] \in Blocks /\ wanted[e].n \in Ids
    BY <1>0, <1>2 DEF LoadBlock, Blocks
  <2>a. \/ found' = found /\ pc' = [pc EXCEPT ![e] = "done"]
        \/ /\ \E s \in Sessions : found' = [found EXCEPT ![e] = texts[s][wanted[e].n]]
           /\ pc' = [pc EXCEPT ![e] = "block_command"]
    BY <1>2 DEF LoadBlock, Holding
  <2>2. found' \in [Expands -> Blocks \cup {Torn, None}]
    <3>1. CASE found' = found
      BY <1>0, <3>1
    <3>2. ASSUME NEW s \in Sessions, found' = [found EXCEPT ![e] = texts[s][wanted[e].n]]
          PROVE  found' \in [Expands -> Blocks \cup {Torn, None}]
      <4>1. texts[s][wanted[e].n] \in Blocks \cup {Torn, None}
        BY <1>0, <2>1
      <4>2. QED
        BY <1>0, <3>2, <4>1
    <3>3. QED
      BY <2>a, <3>1, <3>2
  <2>3. TypeOK'
    BY <1>0, <1>2, <2>2, <2>a DEF LoadBlock, Phases
  <2>4. Numbers' /\ Places'
    BY <1>0, <1>2, <2>a DEF LoadBlock
  <2>5. QED
    BY <2>3, <2>4 DEF TypeInv
<1>3. CASE BlockCommand(e)
  <2>1. wanted[e] \in Blocks /\ wanted[e].n \in Ids
    BY <1>0, <1>3 DEF BlockCommand, Blocks
  <2>2. PICK k \in {metas[s][wanted[e].n] : s \in Holding(metas, wanted[e].n)} \cup
                   (IF Holding(metas, wanted[e].n) = {} THEN {None} ELSE {}) :
          /\ whose' = [whose EXCEPT ![e] = k]
          /\ pc' = [pc EXCEPT ![e] = IF k \in Commands THEN "count" ELSE "done"]
    BY <1>3 DEF BlockCommand
  <2>3. k \in Commands \cup {Torn, None}
    BY <1>0, <2>1, <2>2 DEF Holding
  <2>4. TypeOK'
    BY <1>0, <1>3, <2>2, <2>3 DEF BlockCommand, Phases
  <2>5. Numbers' /\ Places'
    BY <1>0, <1>3, <2>2, <2>3 DEF BlockCommand
  <2>6. QED
    BY <2>4, <2>5 DEF TypeInv
<1>4. CASE CountExpand(e)
  <2>1. whose[e] \in Commands
    BY <1>0, <1>4 DEF CountExpand
  <2>2. copy' \in [Processes -> Counts]
    BY <1>0, <1>4, <2>1, LoadedType, MoreCounts DEF CountExpand
  <2>3. asked' \in [Commands -> Nat]
    BY <1>0, <1>4, <2>1 DEF CountExpand
  <2>4. TypeOK'
    BY <1>0, <1>4, <2>2, <2>3 DEF CountExpand, Phases
  <2>5. Numbers' /\ Places'
    BY <1>0, <1>4 DEF CountExpand
  <2>6. QED
    BY <2>4, <2>5 DEF TypeInv
<1>5. QED
  BY <1>1, <1>2, <1>3, <1>4 DEF ExpandStep

LEMMA TypeStep == TypeInv /\ [Next]_vars => TypeInv'
<1> SUFFICES ASSUME TypeInv, [Next]_vars PROVE TypeInv'
  OBVIOUS
<1> USE ZoomConstants DEF Processes
<1>0. TypeOK /\ Numbers /\ Places
  BY DEF TypeInv
<1>1. ASSUME NEW p \in Processes, OpenCounts(p) \/ SaveCounts(p) \/ Kill(p) PROVE TypeInv'
  <2> USE <1>0, <1>1
      DEF TypeOK, Numbers, Places, Saving, Goto, registry, files, counts, answers
  <2>1. feedback' \in Counts \cup {Torn}
    BY DEF OpenCounts, SaveCounts, Kill
  <2>2. pc' \in [Processes -> Phases]
    BY DEF OpenCounts, SaveCounts, Kill, Phases
  <2>3. TypeOK'
    BY <2>1, <2>2 DEF OpenCounts, SaveCounts, Kill
  <2>4. Numbers' /\ Places'
    BY DEF OpenCounts, SaveCounts, Kill
  <2>5. QED
    BY <2>3, <2>4 DEF TypeInv
<1>2. CASE UNCHANGED vars
  BY <1>0, <1>2 DEF vars, registry, files, counts, answers, TypeInv, TypeOK, Numbers, Places
<1>3. QED
  BY <1>1, <1>2, CallTypes, ExpandTypes DEF Next

\* Files, counts, registries and searches keep their shapes, for any number of
\* overlapping and dying calls (zoom_store.rs:28-51, feedback.rs:82-104).
THEOREM TypeCorrect == Spec => []TypeOK
<1>1. TypeInv => TypeOK
  BY DEF TypeInv
<1>2. QED
  BY TypeInit, TypeStep, <1>1, PTL DEF Spec

-----------------------------------------------------------------------------
(* Counts.  What a file or a copy says was counted when it was loaded, and *)
(* the numbers of events only grow.                                        *)

Bounded(x, m, a) == \A k \in Commands : x[k].blocks <= m[k] /\ x[k].expands <= a[k]

CountInv ==
  /\ TypeInv
  /\ feedback # Torn => Bounded(feedback, made, asked)
  /\ \A p \in Processes : Bounded(copy[p], made, asked)

LEMMA NoneBounded == ASSUME TypeOK PROVE Bounded(NoCounts, made, asked)
  BY DEF Bounded, NoCounts, TypeOK

LEMMA StillBounded ==
  ASSUME TypeOK, NEW x \in Counts, Bounded(x, made, asked), made' \in [Commands -> Nat],
         asked' \in [Commands -> Nat],
         \A k \in Commands : made[k] <= made'[k] /\ asked[k] <= asked'[k]
  PROVE  Bounded(x, made', asked')
<1> SUFFICES ASSUME NEW k \in Commands
             PROVE  x[k].blocks <= made'[k] /\ x[k].expands <= asked'[k]
  BY DEF Bounded
<1>1. x[k].blocks \in Nat /\ x[k].expands \in Nat
  BY DEF Counts
<1>2. made[k] \in Nat /\ asked[k] \in Nat /\ made'[k] \in Nat /\ asked'[k] \in Nat
  BY DEF TypeOK
<1>3. QED
  BY <1>1, <1>2 DEF Bounded

\* A step that leaves the numbers of events alone, and only moves counts that are
\* known to be bounded.
LEMMA Moved ==
  ASSUME CountInv, TypeInv', UNCHANGED <<copy, made, asked>>,
         feedback' = Torn \/ feedback' = feedback \/ \E p \in Processes : feedback' = copy[p]
  PROVE  CountInv'
  BY DEF CountInv, Bounded

LEMMA CountStep == CountInv /\ [Next]_vars => CountInv'
<1> SUFFICES ASSUME CountInv, [Next]_vars PROVE CountInv'
  OBVIOUS
<1>0. TypeInv /\ TypeInv' /\ TypeOK /\ TypeOK'
  BY TypeStep DEF CountInv, TypeInv
<1>b. Loaded \in Counts /\ Bounded(Loaded, made, asked)
  BY <1>0, LoadedType, NoneBounded DEF CountInv, Loaded
<1>1. ASSUME NEW c \in Calls,
             Pass(c) \/ OpenText(c) \/ WriteText(c) \/ OpenMeta(c) \/ WriteMeta(c) \/ Answer(c)
      PROVE  CountInv'
  BY <1>0, <1>1, Moved
     DEF Pass, OpenText, WriteText, OpenMeta, WriteMeta, Answer, counts
<1>2. ASSUME NEW c \in Calls, CountBlocks(c) PROVE CountInv'
  <2> DEFINE n == counter[c] - drained[c]
             k == KeyOf[c]
  <2>1. n \in Nat /\ k \in Commands /\ c \in Processes
    BY <1>0, ZoomConstants DEF TypeInv, TypeOK, Numbers, Processes
  <2>2. /\ copy' = [copy EXCEPT ![c] = [Loaded EXCEPT ![k].blocks = @ + n]]
        /\ made' = [made EXCEPT ![k] = @ + n] /\ asked' = asked /\ feedback' = feedback
    BY <1>2 DEF CountBlocks
  <2> HIDE DEF n, k
  <2>3. \A j \in Commands : made[j] <= made'[j] /\ asked[j] <= asked'[j]
    BY <1>0, <2>1, <2>2 DEF TypeOK
  <2>4. Bounded([Loaded EXCEPT ![k].blocks = @ + n], made', asked')
    <3> SUFFICES ASSUME NEW j \in Commands
                 PROVE  /\ [Loaded EXCEPT ![k].blocks = @ + n][j].blocks <= made'[j]
                        /\ [Loaded EXCEPT ![k].blocks = @ + n][j].expands <= asked'[j]
      BY DEF Bounded
    <3>1. Loaded[j] \in [blocks : Nat, expands : Nat]
      BY <1>b DEF Counts
    <3>2. Loaded[j].blocks <= made[j] /\ Loaded[j].expands <= asked[j]
      BY <1>b DEF Bounded
    <3>3. made[j] \in Nat /\ asked[j] \in Nat /\ DOMAIN Loaded = Commands
      BY <1>0, <1>b DEF TypeOK, Counts
    <3>4. QED
      BY <2>1, <2>2, <3>1, <3>2, <3>3, <1>0 DEF TypeOK
  <2>5. QED
    BY <1>0, <2>1, <2>2, <2>3, <2>4, StillBounded DEF CountInv, TypeOK
<1>3. ASSUME NEW e \in Expands, Ask(e) \/ LoadBlock(e) \/ BlockCommand(e) PROVE CountInv'
  BY <1>0, <1>3, Moved DEF Ask, LoadBlock, BlockCommand, counts
<1>4. ASSUME NEW e \in Expands, CountExpand(e) PROVE CountInv'
  <2> DEFINE k == whose[e]
  <2>1. k \in Commands /\ e \in Processes
    BY <1>0, <1>4 DEF CountExpand, TypeInv, Places, Processes
  <2>2. /\ copy' = [copy EXCEPT ![e] = [Loaded EXCEPT ![k].expands = @ + 1]]
        /\ asked' = [asked EXCEPT ![k] = @ + 1] /\ made' = made /\ feedback' = feedback
    BY <1>4 DEF CountExpand
  <2> HIDE DEF k
  <2>3. \A j \in Commands : made[j] <= made'[j] /\ asked[j] <= asked'[j]
    BY <1>0, <2>1, <2>2 DEF TypeOK
  <2>4. Bounded([Loaded EXCEPT ![k].expands = @ + 1], made', asked')
    <3> SUFFICES ASSUME NEW j \in Commands
                 PROVE  /\ [Loaded EXCEPT ![k].expands = @ + 1][j].blocks <= made'[j]
                        /\ [Loaded EXCEPT ![k].expands = @ + 1][j].expands <= asked'[j]
      BY DEF Bounded
    <3>1. Loaded[j] \in [blocks : Nat, expands : Nat]
      BY <1>b DEF Counts
    <3>2. Loaded[j].blocks <= made[j] /\ Loaded[j].expands <= asked[j]
      BY <1>b DEF Bounded
    <3>3. made[j] \in Nat /\ asked[j] \in Nat /\ DOMAIN Loaded = Commands
      BY <1>0, <1>b DEF TypeOK, Counts
    <3>4. QED
      BY <2>1, <2>2, <3>1, <3>2, <3>3, <1>0 DEF TypeOK
  <2>5. QED
    BY <1>0, <2>1, <2>2, <2>3, <2>4, StillBounded DEF CountInv, TypeOK
<1>5. ASSUME NEW p \in Processes, OpenCounts(p) \/ SaveCounts(p) \/ Kill(p) PROVE CountInv'
  BY <1>0, <1>5, Moved DEF OpenCounts, SaveCounts, Kill, counts
<1>6. CASE UNCHANGED vars
  BY <1>0, <1>6, Moved DEF vars, counts
<1>7. QED
  BY <1>1, <1>2, <1>3, <1>4, <1>5, <1>6 DEF Next, CallStep, ExpandStep

\* "A lost increment is harmless" (feedback.rs:14): none is invented, whatever
\* order the unlocked saves take and whoever dies in them.
THEOREM CountsAreNotInvented == Spec => []CountsAreEvents
<1>1. Init => CountInv
  <2>1. Init => TypeOK
    BY TypeInit DEF TypeInv
  <2>2. QED
    BY TypeInit, <2>1, NoneBounded DEF Init, CountInv
<1>2. CountInv => CountsAreEvents
  BY DEF CountInv, CountsAreEvents, Bounded
<1>3. QED
  BY <1>1, CountStep, <1>2, PTL DEF Spec

-----------------------------------------------------------------------------
(* Restoring.  A number that one call alone has begun to save is found in  *)
(* its session only, and there it is that call's block once it is written. *)

\* A marker is shown when its call is over, and asked for when it is shown.
MarkersOver ==
  /\ \A b \in shown : pc[b.call] = "done"
  /\ \A e \in Expands : wanted[e] # None => wanted[e] \in shown

\* A call opens each number once.
OpenedOnce ==
  /\ \A b \in opened : b.n <= at[b.call]
  /\ \A c \in Calls : pc[c] = "open_text" => Block(c, at[c]) \notin opened
  /\ \A c \in Calls : pc[c] = "write_text" => Block(c, at[c]) \in opened

FilesOpened ==
  /\ stored \subseteq opened
  /\ \A s \in Sessions, n \in Ids :
       texts[s][n] # None => \E x \in opened : x.n = n /\ SessionOf[x.call] = s
  /\ \A b \in stored : OnlyOne(b) => texts[SessionOf[b.call]][b.n] = b

Finds(e) == pc[e] \in {"block_command", "count", "open_counts", "write_counts", "done"}

FoundRight ==
  \A e \in Expands :
    Finds(e) /\ wanted[e] \in stored /\ OnlyOne(wanted[e]) => found[e] = wanted[e]

RestoreInv == TypeInv /\ MarkersOver /\ OpenedOnce /\ FilesOpened /\ FoundRight

LEMMA RestoreInit == Init => RestoreInv
<1> SUFFICES ASSUME Init PROVE RestoreInv
  OBVIOUS
<1>1. \A s \in Sessions, n \in Ids : texts[s][n] = None
  BY DEF Init, NoFiles
<1>2. QED
  BY <1>1, TypeInit, ZoomConstants
     DEF Init, RestoreInv, MarkersOver, OpenedOnce, FilesOpened, FoundRight, Finds, Processes

\* A step that touches no text, no marker and no search.
LEMMA Untouched ==
  ASSUME RestoreInv, TypeInv', UNCHANGED <<texts, opened, stored, shown, wanted, found>>,
         \A p \in Processes : pc[p] = "done" => pc'[p] = "done",
         \A e \in Expands : Finds(e)' => Finds(e),
         \A c \in Calls : at'[c] >= at[c],
         \A c \in Calls : pc'[c] = "open_text" =>
           at'[c] > at[c] \/ (pc[c] = "open_text" /\ at'[c] = at[c]),
         \A c \in Calls : pc'[c] = "write_text" => pc[c] = "write_text" /\ at'[c] = at[c]
  PROVE  RestoreInv'
<1>0. TypeOK /\ TypeOK' /\ MarkersOver /\ OpenedOnce /\ FilesOpened /\ FoundRight
  BY DEF RestoreInv, TypeInv
<1>1. MarkersOver'
  BY <1>0 DEF MarkersOver, TypeOK, Blocks, Processes
<1>2. OpenedOnce'
  <2>1. \A b \in opened : b.call \in Calls /\ b.n \in Nat
    BY <1>0 DEF TypeOK, Blocks, Ids
  <2>2. \A c \in Calls : at[c] \in Nat /\ at'[c] \in Nat
    BY <1>0 DEF TypeOK
  <2>3. \A b \in opened : b.n <= at'[b.call]
    BY <1>0, <2>1, <2>2 DEF OpenedOnce
  <2>4. ASSUME NEW c \in Calls, pc'[c] = "open_text" PROVE Block(c, at'[c]) \notin opened
    <3>1. CASE at'[c] > at[c]
      <4>1. Block(c, at'[c]).n = at'[c] /\ Block(c, at'[c]).call = c
        BY DEF Block
      <4>2. QED
        BY <1>0, <2>2, <3>1, <4>1 DEF OpenedOnce
    <3>2. CASE pc[c] = "open_text" /\ at'[c] = at[c]
      BY <1>0, <3>2 DEF OpenedOnce
    <3>3. QED
      BY <2>4, <3>1, <3>2
  <2>5. \A c \in Calls : pc'[c] = "write_text" => Block(c, at'[c]) \in opened
    BY <1>0 DEF OpenedOnce
  <2>6. QED
    BY <2>3, <2>4, <2>5 DEF OpenedOnce, Block
<1>3. FilesOpened'
  BY <1>0 DEF FilesOpened, OnlyOne
<1>4. FoundRight'
  BY <1>0 DEF FoundRight, OnlyOne, Finds
<1>5. QED
  BY <1>1, <1>2, <1>3, <1>4 DEF RestoreInv
LEMMA PassRestores == ASSUME RestoreInv, TypeInv', NEW c \in Calls, Pass(c) PROVE RestoreInv'
<1>0. TypeOK /\ TypeOK' /\ Numbers /\ Places /\ pc[c] = "pass"
  BY DEF RestoreInv, TypeInv, Pass
<1>1. UNCHANGED <<texts, opened, stored, shown, wanted, found, drained>>
  BY DEF Pass, files, answers
<1>2. PICK m \in counter[c]..MaxId :
        IF Saves[c][pass[c] + 1] /\ m > drained[c]
          THEN at' = [at EXCEPT ![c] = drained[c] + 1] /\ Goto(c, "open_text")
          ELSE UNCHANGED <<at, pc>>
  BY DEF Pass
<1>3. at[c] \in Nat /\ drained[c] \in Nat /\ at[c] <= drained[c]
  BY <1>0 DEF TypeOK, Numbers
<1>4. CASE Saves[c][pass[c] + 1] /\ m > drained[c]
  <2>1. at' = [at EXCEPT ![c] = drained[c] + 1] /\ pc' = [pc EXCEPT ![c] = "open_text"]
    BY <1>2, <1>4 DEF Goto
  <2>2. ASSUME NEW d \in Calls
        PROVE  /\ at'[d] >= at[d]
               /\ pc'[d] = "open_text" => at'[d] > at[d] \/ (pc[d] = "open_text" /\ at'[d] = at[d])
    <3>1. at \in [Calls -> Nat] /\ pc \in [Processes -> Phases] /\ d \in Processes
      BY <1>0 DEF TypeOK, Processes
    <3>2. CASE d = c
      BY <1>3, <2>1, <3>1, <3>2
    <3>3. CASE d # c
      BY <2>1, <3>1, <3>3
    <3>4. QED
      BY <3>2, <3>3
  <2>3. QED
    BY <1>0, <1>1, <2>1, <2>2, Untouched, ZoomConstants DEF TypeOK, Processes, Finds
<1>5. CASE ~(Saves[c][pass[c] + 1] /\ m > drained[c])
  <2>1. at' = at /\ pc' = pc
    BY <1>2, <1>5
  <2>2. QED
    BY <1>0, <1>1, <2>1, Untouched DEF TypeOK, Finds
<1>6. QED
  BY <1>4, <1>5

LEMMA OpenTextRestores ==
  ASSUME RestoreInv, TypeInv', NEW c \in Calls, OpenText(c) PROVE RestoreInv'
<1> DEFINE b == Block(c, at[c])
<1>0. /\ TypeOK /\ TypeOK' /\ Numbers /\ pc[c] = "open_text"
      /\ MarkersOver /\ OpenedOnce /\ FilesOpened /\ FoundRight
  BY DEF RestoreInv, TypeInv, OpenText
<1>1. at[c] \in Ids /\ at[c] \in Nat /\ b \notin opened
  <2>1. at[c] \in Nat /\ drained[c] \in 0..MaxId /\ counter[c] \in 0..MaxId
    BY <1>0 DEF TypeOK
  <2>2. drained[c] < at[c] /\ at[c] <= counter[c]
    BY <1>0 DEF Numbers, Saving
  <2>3. QED
    BY <1>0, <2>1, <2>2, ZoomConstants DEF Ids, OpenedOnce
<1>2. /\ UNCHANGED <<stored, shown, wanted, found, at>>
      /\ opened' = opened \cup {b}
      /\ pc' = [pc EXCEPT ![c] = "write_text"]
  BY DEF OpenText, registry, answers, Goto
<1>3. \A s \in Sessions, n \in Ids :
        texts'[s][n] = IF s = SessionOf[c] /\ n = at[c] THEN Torn ELSE texts[s][n]
  <2>1. texts \in [Sessions -> [Ids -> Blocks \cup {Torn, None}]]
    BY <1>0 DEF TypeOK
  <2>2. texts' = InFile(texts, c, Torn)
    BY DEF OpenText
  <2>3. SessionOf[c] \in Sessions
    BY ZoomConstants
  <2>4. QED
    BY <1>1, <2>1, <2>2, <2>3 DEF InFile
<1>4. b.call = c /\ b.n = at[c] /\ b \in Blocks
  BY <1>1 DEF Block, Blocks
<1> HIDE DEF b
<1>5. MarkersOver'
  BY <1>0, <1>2 DEF MarkersOver, TypeOK, Blocks, Processes
<1>6. OpenedOnce'
  <2>1. \A x \in opened' : x.n <= at'[x.call]
    BY <1>0, <1>1, <1>2, <1>4 DEF OpenedOnce
  <2>2. ASSUME NEW d \in Calls, pc'[d] = "open_text" PROVE Block(d, at'[d]) \notin opened'
    <3>1. d # c /\ pc[d] = "open_text"
      BY <1>0, <1>2, <2>2 DEF TypeOK, Processes
    <3>2. Block(d, at[d]) # b
      BY <1>4, <3>1 DEF Block
    <3>3. QED
      BY <1>0, <1>2, <3>1, <3>2 DEF OpenedOnce
  <2>3. ASSUME NEW d \in Calls, pc'[d] = "write_text" PROVE Block(d, at'[d]) \in opened'
    BY <1>0, <1>2, <2>3 DEF OpenedOnce, TypeOK, Processes, b
  <2>4. QED
    BY <2>1, <2>2, <2>3 DEF OpenedOnce
<1>7. FilesOpened'
  <2>1. stored' \subseteq opened'
    BY <1>0, <1>2 DEF FilesOpened
  <2>2. ASSUME NEW s \in Sessions, NEW n \in Ids, texts'[s][n] # None
        PROVE  \E x \in opened' : x.n = n /\ SessionOf[x.call] = s
    BY <1>0, <1>2, <1>3, <1>4, <2>2 DEF FilesOpened
  <2>3. ASSUME NEW x \in stored', OnlyOne(x)' PROVE texts'[SessionOf[x.call]][x.n] = x
    <3>1. x \in stored /\ x \in opened /\ OnlyOne(x) /\ x # b
      BY <1>0, <1>1, <1>2, <2>3 DEF FilesOpened, OnlyOne
    <3>2. x.n # b.n
      BY <1>2, <2>3, <3>1 DEF OnlyOne
    <3>3. x.n \in Ids /\ SessionOf[x.call] \in Sessions
      BY <1>0, <3>1, ZoomConstants DEF TypeOK, Blocks
    <3>4. QED
      BY <1>0, <1>3, <1>4, <3>1, <3>2, <3>3 DEF FilesOpened
  <2>4. QED
    BY <2>1, <2>2, <2>3 DEF FilesOpened
<1>8. FoundRight'
  BY <1>0, <1>2, ZoomConstants DEF FoundRight, OnlyOne, Finds, TypeOK, Processes
<1>9. QED
  BY <1>5, <1>6, <1>7, <1>8 DEF RestoreInv

LEMMA WriteTextRestores ==
  ASSUME RestoreInv, TypeInv', NEW c \in Calls, WriteText(c) PROVE RestoreInv'
<1> DEFINE b == Block(c, at[c])
<1>0. /\ TypeOK /\ TypeOK' /\ Numbers /\ pc[c] = "write_text"
      /\ MarkersOver /\ OpenedOnce /\ FilesOpened /\ FoundRight
  BY DEF RestoreInv, TypeInv, WriteText
<1>1. at[c] \in Ids /\ b \in opened
  <2>1. at[c] \in Nat /\ drained[c] \in 0..MaxId /\ counter[c] \in 0..MaxId
    BY <1>0 DEF TypeOK
  <2>2. drained[c] < at[c] /\ at[c] <= counter[c]
    BY <1>0 DEF Numbers, Saving
  <2>3. QED
    BY <1>0, <2>1, <2>2, ZoomConstants DEF Ids, OpenedOnce
<1>2. /\ UNCHANGED <<opened, shown, wanted, found, at>>
      /\ stored' = stored \cup {b}
      /\ pc' = [pc EXCEPT ![c] = "open_meta"]
  BY DEF WriteText, registry, answers, Goto
<1>4. b.call = c /\ b.n = at[c] /\ b \in Blocks
  BY <1>1 DEF Block, Blocks
<1>3. \A s \in Sessions, n \in Ids :
        texts'[s][n] = IF s = SessionOf[c] /\ n = at[c] THEN b ELSE texts[s][n]
  <2>1. texts \in [Sessions -> [Ids -> Blocks \cup {Torn, None}]]
    BY <1>0 DEF TypeOK
  <2>2. texts' = InFile(texts, c, b)
    BY DEF WriteText
  <2>3. SessionOf[c] \in Sessions
    BY ZoomConstants
  <2>4. QED
    BY <1>1, <2>1, <2>2, <2>3 DEF InFile
<1> HIDE DEF b
<1>5. MarkersOver'
  BY <1>0, <1>2 DEF MarkersOver, TypeOK, Blocks, Processes
<1>6. OpenedOnce'
  BY <1>0, <1>2 DEF OpenedOnce, TypeOK, Processes
<1>7. FilesOpened'
  <2>1. stored' \subseteq opened'
    BY <1>0, <1>1, <1>2 DEF FilesOpened
  <2>2. ASSUME NEW s \in Sessions, NEW n \in Ids, texts'[s][n] # None
        PROVE  \E x \in opened' : x.n = n /\ SessionOf[x.call] = s
    BY <1>0, <1>1, <1>2, <1>3, <1>4, <2>2 DEF FilesOpened
  <2>3. ASSUME NEW x \in stored', OnlyOne(x)' PROVE texts'[SessionOf[x.call]][x.n] = x
    <3>1. OnlyOne(x) /\ x \in Blocks
      BY <1>0, <1>2, <1>4, <2>3 DEF OnlyOne, TypeOK
    <3>2. x.n \in Ids /\ SessionOf[x.call] \in Sessions
      BY <3>1, ZoomConstants DEF Blocks
    <3>3. CASE x.n = b.n
      BY <1>1, <1>3, <1>4, <3>1, <3>2, <3>3 DEF OnlyOne
    <3>4. CASE x.n # b.n
      BY <1>0, <1>2, <1>3, <1>4, <2>3, <3>1, <3>2, <3>4 DEF FilesOpened
    <3>5. QED
      BY <3>3, <3>4
  <2>4. QED
    BY <2>1, <2>2, <2>3 DEF FilesOpened
\* The block of a marker that somebody asks for is not the one being written.
<1>8. FoundRight'
  <2> SUFFICES ASSUME NEW e \in Expands, Finds(e)', wanted[e] \in stored', OnlyOne(wanted[e])'
               PROVE  found[e] = wanted[e]
    BY <1>2 DEF FoundRight
  <2>1. Finds(e) /\ OnlyOne(wanted[e])
    BY <1>0, <1>2, ZoomConstants DEF Finds, OnlyOne, TypeOK, Processes
  <2>2. wanted[e] # b
    <3>1. wanted[e] # None
      BY <2>1, ZoomConstants DEF Finds, RestoreInv, TypeInv, Places
    <3>2. pc[wanted[e].call] = "done"
      BY <1>0, <3>1 DEF MarkersOver
    <3>3. QED
      BY <1>0, <1>4, <3>2
  <2>3. QED
    BY <1>0, <1>2, <2>1, <2>2 DEF FoundRight
<1>9. QED
  BY <1>5, <1>6, <1>7, <1>8 DEF RestoreInv

\* The number just before is all that WriteMeta can leave for the next block.
LEMMA WriteMetaRestores ==
  ASSUME RestoreInv, TypeInv', NEW c \in Calls, WriteMeta(c) PROVE RestoreInv'
<1>0. TypeOK /\ TypeOK' /\ pc[c] = "write_meta"
  BY DEF RestoreInv, TypeInv, WriteMeta
<1>1. UNCHANGED <<texts, opened, stored, shown, wanted, found>>
  BY DEF WriteMeta, answers
<1>2. \/ at' = [at EXCEPT ![c] = @ + 1] /\ pc' = [pc EXCEPT ![c] = "open_text"]
      \/ at' = at /\ pc' = [pc EXCEPT ![c] = "count"]
  BY DEF WriteMeta, Goto
<1>3. ASSUME NEW d \in Calls
      PROVE  /\ at'[d] >= at[d]
             /\ pc'[d] = "open_text" => at'[d] > at[d] \/ (pc[d] = "open_text" /\ at'[d] = at[d])
             /\ pc'[d] = "write_text" => pc[d] = "write_text" /\ at'[d] = at[d]
  <2>1. at \in [Calls -> Nat] /\ pc \in [Processes -> Phases] /\ d \in Processes
    BY <1>0 DEF TypeOK, Processes
  <2>2. CASE d = c
    BY <1>2, <2>1, <2>2
  <2>3. CASE d # c
    BY <1>2, <2>1, <2>3
  <2>4. QED
    BY <2>2, <2>3
<1>4. /\ \A p \in Processes : pc[p] = "done" => pc'[p] = "done"
      /\ \A e \in Expands : Finds(e)' => Finds(e)
  BY <1>0, <1>2, ZoomConstants DEF TypeOK, Processes, Finds
<1>5. QED
  BY <1>1, <1>3, <1>4, Untouched

LEMMA AnswerRestores ==
  ASSUME RestoreInv, TypeInv', NEW c \in Calls, Answer(c) PROVE RestoreInv'
<1>0. /\ TypeOK /\ TypeOK' /\ pc[c] = "pass"
      /\ MarkersOver /\ OpenedOnce /\ FilesOpened /\ FoundRight
  BY DEF RestoreInv, TypeInv, Answer
<1>1. /\ UNCHANGED <<texts, opened, stored, wanted, found, at>>
      /\ pc' = [pc EXCEPT ![c] = "done"]
      /\ \E kept \in SUBSET (1..counter[c]) : shown' = shown \cup {Block(c, n) : n \in kept}
  BY DEF Answer, registry, files, answers, Goto
<1>2. MarkersOver'
  <2>1. \A b \in shown' : b \in shown \/ b.call = c
    BY <1>1 DEF Block
  <2>2. \A b \in shown' : pc'[b.call] = "done"
    BY <1>0, <1>1, <2>1 DEF MarkersOver, TypeOK, Blocks, Processes
  <2>3. QED
    BY <1>0, <1>1, <2>2 DEF MarkersOver
<1>3. OpenedOnce'
  BY <1>0, <1>1 DEF OpenedOnce, TypeOK, Processes
<1>4. FilesOpened'
  BY <1>0, <1>1 DEF FilesOpened, OnlyOne
<1>5. FoundRight'
  BY <1>0, <1>1, ZoomConstants DEF FoundRight, OnlyOne, Finds, TypeOK, Processes
<1>6. QED
  BY <1>2, <1>3, <1>4, <1>5 DEF RestoreInv

LEMMA AskRestores ==
  ASSUME RestoreInv, TypeInv', NEW e \in Expands, Ask(e) PROVE RestoreInv'
<1>0. /\ TypeOK /\ pc[e] = "idle"
      /\ MarkersOver /\ OpenedOnce /\ FilesOpened /\ FoundRight
  BY DEF RestoreInv, TypeInv, Ask
<1>1. PICK b \in shown : wanted' = [wanted EXCEPT ![e] = b]
  BY DEF Ask
<1>2. /\ UNCHANGED <<texts, opened, stored, shown, found, at>>
      /\ pc' = [pc EXCEPT ![e] = "load"]
  BY DEF Ask, registry, files, Goto
<1>3. MarkersOver'
  BY <1>0, <1>1, <1>2, ZoomConstants DEF MarkersOver, TypeOK, Blocks, Processes
<1>4. OpenedOnce'
  BY <1>0, <1>2, ZoomConstants DEF OpenedOnce, TypeOK, Processes
<1>5. FilesOpened'
  BY <1>0, <1>2 DEF FilesOpened, OnlyOne
<1>6. FoundRight'
  BY <1>0, <1>1, <1>2 DEF FoundRight, OnlyOne, Finds, TypeOK, Processes
<1>7. QED
  BY <1>3, <1>4, <1>5, <1>6 DEF RestoreInv

\* Where one call alone has begun to save the number, one session has a file of
\* it, and the file is that call's.
LEMMA LoadBlockRestores ==
  ASSUME RestoreInv, TypeInv', NEW e \in Expands, LoadBlock(e) PROVE RestoreInv'
<1> DEFINE b == wanted[e]
<1>0. /\ TypeOK /\ Places /\ pc[e] = "load"
      /\ MarkersOver /\ OpenedOnce /\ FilesOpened /\ FoundRight
  BY DEF RestoreInv, TypeInv, LoadBlock
<1>1. b \in Blocks /\ b.n \in Ids /\ b.call \in Calls /\ SessionOf[b.call] \in Sessions
  BY <1>0, ZoomConstants DEF Places, Blocks
<1>2. UNCHANGED <<texts, opened, stored, shown, wanted, at>>
  BY DEF LoadBlock, registry, files
<1>3. \/ /\ \A s \in Sessions : texts[s][b.n] = None
         /\ found' = found /\ pc' = [pc EXCEPT ![e] = "done"]
      \/ \E s \in Sessions :
           /\ texts[s][b.n] # None
           /\ found' = [found EXCEPT ![e] = texts[s][b.n]]
           /\ pc' = [pc EXCEPT ![e] = "block_command"]
  BY DEF LoadBlock, Holding, Goto
<1> HIDE DEF b
<1>4. ASSUME b \in stored, OnlyOne(b) PROVE found'[e] = b
  <2>1. texts[SessionOf[b.call]][b.n] = b /\ b # None
    BY <1>0, <1>1, <1>4, ZoomConstants DEF FilesOpened
  <2>2. PICK s \in Sessions :
          texts[s][b.n] # None /\ found' = [found EXCEPT ![e] = texts[s][b.n]]
    BY <1>1, <1>3, <2>1
  <2>3. PICK x \in opened : x.n = b.n /\ SessionOf[x.call] = s
    BY <1>0, <1>1, <2>2 DEF FilesOpened
  <2>4. x = b
    BY <1>4, <2>3 DEF OnlyOne
  <2>5. QED
    BY <1>0, <2>1, <2>2, <2>3, <2>4 DEF TypeOK
<1>5. \A p \in Processes : p # e => pc'[p] = pc[p]
  BY <1>0, <1>3 DEF TypeOK
<1>6. \A d \in Expands : d # e => found'[d] = found[d]
  BY <1>0, <1>3 DEF TypeOK
<1>7. MarkersOver'
  BY <1>0, <1>2, <1>5, ZoomConstants DEF MarkersOver, TypeOK, Blocks, Processes
<1>8. OpenedOnce'
  BY <1>0, <1>2, <1>5, ZoomConstants DEF OpenedOnce, Processes
<1>9. FilesOpened'
  BY <1>0, <1>2 DEF FilesOpened, OnlyOne
<1>10. FoundRight'
  <2> SUFFICES ASSUME NEW d \in Expands, Finds(d)', wanted[d] \in stored, OnlyOne(wanted[d])
               PROVE  found'[d] = wanted[d]
    BY <1>2 DEF FoundRight, OnlyOne
  <2>1. CASE d = e
    BY <1>4, <2>1 DEF b
  <2>2. CASE d # e
    BY <1>0, <1>5, <1>6, <2>2 DEF FoundRight, Finds, Processes
  <2>3. QED
    BY <2>1, <2>2
<1>11. QED
  BY <1>7, <1>8, <1>9, <1>10 DEF RestoreInv

LEMMA RestoreStep == RestoreInv /\ [Next]_vars => RestoreInv'
<1> SUFFICES ASSUME RestoreInv, [Next]_vars PROVE RestoreInv'
  OBVIOUS
<1>0. TypeInv' /\ TypeOK
  BY TypeStep DEF RestoreInv, TypeInv
<1>1. ASSUME NEW c \in Calls, OpenMeta(c) \/ CountBlocks(c) PROVE RestoreInv'
  <2>1. UNCHANGED <<texts, opened, stored, shown, wanted, found, at>>
    BY <1>1 DEF OpenMeta, CountBlocks, registry, files, answers
  <2>2. /\ pc[c] # "done"
        /\ \/ pc' = [pc EXCEPT ![c] = "write_meta"]
           \/ pc' = [pc EXCEPT ![c] = "open_counts"]
    BY <1>1 DEF OpenMeta, CountBlocks, Goto
  <2>3. QED
    BY <1>0, <2>1, <2>2, Untouched, ZoomConstants DEF TypeOK, Processes, Finds
<1>2. ASSUME NEW e \in Expands, BlockCommand(e) \/ CountExpand(e) PROVE RestoreInv'
  <2>1. UNCHANGED <<texts, opened, stored, shown, wanted, found, at>>
    BY <1>2 DEF BlockCommand, CountExpand, registry, files, answers
  <2>2. /\ pc[e] \in {"block_command", "count"}
        /\ \E x \in {"count", "done", "open_counts"} : pc' = [pc EXCEPT ![e] = x]
    BY <1>2 DEF BlockCommand, CountExpand, Goto
  <2>3. QED
    BY <1>0, <2>1, <2>2, Untouched, ZoomConstants DEF TypeOK, Processes, Finds
<1>3. ASSUME NEW p \in Processes, OpenCounts(p) \/ SaveCounts(p) \/ Kill(p) PROVE RestoreInv'
  <2>1. UNCHANGED <<texts, opened, stored, shown, wanted, found, at>>
    BY <1>3 DEF OpenCounts, SaveCounts, Kill, registry, files, answers
  <2>2. /\ pc[p] # "done"
        /\ \/ pc[p] = "open_counts" /\ pc' = [pc EXCEPT ![p] = "write_counts"]
           \/ pc[p] = "write_counts" /\ \E x \in {"pass", "done"} : pc' = [pc EXCEPT ![p] = x]
           \/ pc' = [pc EXCEPT ![p] = "dead"]
    BY <1>3 DEF OpenCounts, SaveCounts, Kill, Goto
  <2>3. QED
    BY <1>0, <2>1, <2>2, Untouched, ZoomConstants DEF TypeOK, Processes, Finds
<1>4. CASE UNCHANGED vars
  BY <1>0, <1>4, Untouched DEF vars, registry, files, answers, TypeOK, Finds
<1>5. QED
  BY <1>0, <1>1, <1>2, <1>3, <1>4, PassRestores, OpenTextRestores, WriteTextRestores,
     WriteMetaRestores, AnswerRestores, AskRestores, LoadBlockRestores
     DEF Next, CallStep, ExpandStep

\* "Restore a collapsed block" (README.md:234): the lines of the marker's own block,
\* unless another call has begun to save a block of its number.
THEOREM ExpandRestores == Spec => []RestoresTheOnlyOne
<1>1. RestoreInv => RestoresTheOnlyOne
  BY DEF RestoreInv, FoundRight, RestoresTheOnlyOne, Finds, Answered
<1>2. QED
  BY RestoreInit, RestoreStep, <1>1, PTL DEF Spec
=============================================================================
