----------------------------- MODULE ZoomStore ------------------------------
(***************************************************************************)
(* What a compressed output leaves out, and how it comes back: a call      *)
(* registers the lines behind each marker as a block ZI_1, ZI_2, ...       *)
(* (zoom.rs), saves the blocks as files of its session (zoom_store.rs) and *)
(* counts them for its command (feedback.rs); `panda expand ZI_n` prints   *)
(* the block of that number and counts that it was needed (expand.rs).     *)
(*                                                                         *)
(* A block is named by its call and number; its lines are its own.  A call *)
(* is a list of passes over the text, each followed by a save of what is   *)
(* registered or not (Saves).  fs::write is an open that empties the file  *)
(* and a write; a process may die between any two steps.                   *)
(***************************************************************************)
EXTENDS Naturals, Sequences

CONSTANTS
  Calls,      \* hook and `panda run` processes
  Expands,    \* `panda expand` processes
  Sessions,   \* session ids, one directory each under expand/
  Commands,   \* feedback keys: "cargo test", "(read)", "(grep)", ...
  SessionOf,  \* the session of each call
  KeyOf,      \* the key of each call
  Saves,      \* which passes of each call are followed by a save
  MaxId,      \* bound on the blocks one call registers
  Torn,       \* what fs::write leaves when it has only opened the file
  None        \* no file, no text

Processes == Calls \cup Expands
Ids == 1..MaxId
Block(c, n) == [call |-> c, n |-> n]
Blocks == [call : Calls, n : Ids]
Counts == [Commands -> [blocks : Nat, expands : Nat]]

ASSUME ZoomConstants ==
  /\ Calls \cap Expands = {} /\ MaxId \in Nat
  /\ SessionOf \in [Calls -> Sessions] /\ KeyOf \in [Calls -> Commands]
  /\ Saves \in [Calls -> Seq(BOOLEAN)]
  /\ None \notin Blocks \cup Commands \cup {Torn}
  /\ Torn \notin Blocks \cup Commands \cup Counts

VARIABLES
  texts,     \* texts[s][n]: block in ZI_n.txt of session s, Torn, or None
  metas,     \* metas[s][n]: key in ZI_n.meta, Torn, or None
  feedback,  \* counts of each key in feedback.json, or Torn
  pc,        \* where each process is
  pass,      \* passes each call has begun
  counter,   \* COUNTER: numbers each call has given
  drained,   \* numbers it has drained and saved
  at,        \* the number it is saving
  copy,      \* the counts each process holds between load and save
  whose,     \* the key each expand has read from the meta file
  wanted,    \* the block whose marker made the agent type each expand
  found,     \* the text each expand has read, and prints
  shown,     \* blocks that finished calls' outputs name in a marker
  opened,    \* blocks whose file has been opened for writing
  stored,    \* blocks whose file has been written
  made,      \* blocks counted for each key so far
  asked      \* expands counted for each key so far

registry == <<pass, counter, drained, at>>
files == <<texts, metas, opened, stored>>
counts == <<feedback, copy, made, asked>>
answers == <<whose, wanted, found>>
vars == <<registry, files, counts, answers, shown, pc>>

NoCounts == [k \in Commands |-> [blocks |-> 0, expands |-> 0]]
NoFiles == [s \in Sessions |-> [n \in Ids |-> None]]

\* enable(): every process numbers from ZI_1, whatever its session holds.
Init ==
  /\ texts = NoFiles /\ metas = NoFiles /\ feedback = NoCounts
  /\ pc = [p \in Processes |-> IF p \in Calls THEN "pass" ELSE "idle"]
  /\ pass = [c \in Calls |-> 0] /\ counter = [c \in Calls |-> 0]
  /\ drained = [c \in Calls |-> 0] /\ at = [c \in Calls |-> 0]
  /\ copy = [p \in Processes |-> NoCounts]
  /\ whose = [e \in Expands |-> None] /\ wanted = [e \in Expands |-> None]
  /\ found = [e \in Expands |-> None]
  /\ shown = {} /\ opened = {} /\ stored = {}
  /\ made = [k \in Commands |-> 0] /\ asked = [k \in Commands |-> 0]

Goto(p, phase) == pc' = [pc EXCEPT ![p] = phase]

-----------------------------------------------------------------------------
(* Calls.                                                                  *)

\* A pass puts markers for blocks it registers into the text; the save that
\* follows drains all that is registered, and does nothing when there is none.
Pass(c) ==
  /\ pc[c] = "pass" /\ pass[c] < Len(Saves[c])
  /\ pass' = [pass EXCEPT ![c] = @ + 1]
  /\ \E m \in counter[c]..MaxId :
       /\ counter' = [counter EXCEPT ![c] = m]
       /\ IF Saves[c][pass[c] + 1] /\ m > drained[c]
            THEN at' = [at EXCEPT ![c] = drained[c] + 1] /\ Goto(c, "open_text")
            ELSE UNCHANGED <<at, pc>>
  /\ UNCHANGED <<drained, files, counts, answers, shown>>

\* Mutant of InFile: a batch is saved under the number of its first block.
MutOneNumberPerBatch(f, c, x) == [f EXCEPT ![SessionOf[c]][drained[c] + 1] = x]

InFile(f, c, x) == [f EXCEPT ![SessionOf[c]][at[c]] = x]

OpenText(c) ==
  /\ pc[c] = "open_text"
  /\ texts' = InFile(texts, c, Torn) /\ opened' = opened \cup {Block(c, at[c])}
  /\ Goto(c, "write_text")
  /\ UNCHANGED <<registry, metas, stored, counts, answers, shown>>

WriteText(c) ==
  /\ pc[c] = "write_text"
  /\ texts' = InFile(texts, c, Block(c, at[c])) /\ stored' = stored \cup {Block(c, at[c])}
  /\ Goto(c, "open_meta")
  /\ UNCHANGED <<registry, metas, opened, counts, answers, shown>>

OpenMeta(c) ==
  /\ pc[c] = "open_meta"
  /\ metas' = InFile(metas, c, Torn)
  /\ Goto(c, "write_meta")
  /\ UNCHANGED <<registry, texts, opened, stored, counts, answers, shown>>

\* The key beside the block; then the next block of the batch, or the counts.
WriteMeta(c) ==
  /\ pc[c] = "write_meta"
  /\ metas' = InFile(metas, c, KeyOf[c])
  /\ IF at[c] < counter[c]
       THEN at' = [at EXCEPT ![c] = @ + 1] /\ Goto(c, "open_text")
       ELSE UNCHANGED at /\ Goto(c, "count")
  /\ UNCHANGED <<pass, counter, drained, texts, opened, stored, counts, answers, shown>>

\* FeedbackStore::load: a file that does not parse counts as an empty one.
Loaded == IF feedback = Torn THEN NoCounts ELSE feedback

\* record_blocks: load and modify; SaveCounts saves.
CountBlocks(c) ==
  LET n == counter[c] - drained[c]
  IN  /\ pc[c] = "count"
      /\ copy' = [copy EXCEPT ![c] = [Loaded EXCEPT ![KeyOf[c]].blocks = @ + n]]
      /\ made' = [made EXCEPT ![KeyOf[c]] = @ + n]
      /\ drained' = [drained EXCEPT ![c] = counter[c]]
      /\ Goto(c, "open_counts")
      /\ UNCHANGED <<pass, counter, at, files, feedback, asked, answers, shown>>

OpenCounts(p) ==
  /\ pc[p] = "open_counts"
  /\ feedback' = Torn
  /\ Goto(p, "write_counts")
  /\ UNCHANGED <<registry, files, copy, made, asked, answers, shown>>

SaveCounts(p) ==
  /\ pc[p] = "write_counts"
  /\ feedback' = copy[p]
  /\ Goto(p, IF p \in Calls THEN "pass" ELSE "done")
  /\ UNCHANGED <<registry, files, copy, made, asked, answers, shown>>

\* The output: later passes may have taken markers of earlier ones out again.
Answer(c) ==
  /\ pc[c] = "pass" /\ pass[c] = Len(Saves[c])
  /\ \E kept \in SUBSET (1..counter[c]) : shown' = shown \cup {Block(c, n) : n \in kept}
  /\ Goto(c, "done")
  /\ UNCHANGED <<registry, files, counts, answers>>

-----------------------------------------------------------------------------
(* `panda expand`.  It is given a number and knows no session.             *)

Ask(e) ==
  /\ pc[e] = "idle"
  /\ \E b \in shown : wanted' = [wanted EXCEPT ![e] = b]
  /\ Goto(e, "load")
  /\ UNCHANGED <<registry, files, counts, whose, found, shown>>

Holding(f, n) == {s \in Sessions : f[s][n] # None}

\* load_block: the first directory, in whatever order read_dir lists them, that has
\* a file of this number; with none expand fails.
LoadBlock(e) ==
  LET n == wanted[e].n
  IN  /\ pc[e] = "load"
      /\ IF Holding(texts, n) = {} THEN UNCHANGED found /\ Goto(e, "done")
         ELSE /\ \E s \in Holding(texts, n) : found' = [found EXCEPT ![e] = texts[s][n]]
              /\ Goto(e, "block_command")
      /\ UNCHANGED <<registry, files, counts, whose, wanted, shown>>

\* block_command: a second search; without a key nothing is counted.
BlockCommand(e) ==
  LET n == wanted[e].n
  IN  /\ pc[e] = "block_command"
      /\ \E k \in {metas[s][n] : s \in Holding(metas, n)} \cup
                  (IF Holding(metas, n) = {} THEN {None} ELSE {}) :
           /\ whose' = [whose EXCEPT ![e] = k]
           /\ Goto(e, IF k \in Commands THEN "count" ELSE "done")
      /\ UNCHANGED <<registry, files, counts, wanted, found, shown>>

\* record_expand: load and modify; SaveCounts saves, and expand prints.
CountExpand(e) ==
  LET k == whose[e]
  IN  /\ pc[e] = "count"
      /\ copy' = [copy EXCEPT ![e] = [Loaded EXCEPT ![k].expands = @ + 1]]
      /\ asked' = [asked EXCEPT ![k] = @ + 1]
      /\ Goto(e, "open_counts")
      /\ UNCHANGED <<registry, files, feedback, made, answers, shown>>

\* The agent's time limit or a signal ends a process between two steps.
Kill(p) ==
  /\ pc[p] \notin {"idle", "done", "dead"}
  /\ Goto(p, "dead")
  /\ UNCHANGED <<registry, files, counts, answers, shown>>

CallStep(c) ==
  \/ Pass(c) \/ OpenText(c) \/ WriteText(c) \/ OpenMeta(c) \/ WriteMeta(c)
  \/ CountBlocks(c) \/ Answer(c)

ExpandStep(e) == Ask(e) \/ LoadBlock(e) \/ BlockCommand(e) \/ CountExpand(e)

Next ==
  \/ \E c \in Calls : CallStep(c)
  \/ \E e \in Expands : ExpandStep(e)
  \/ \E p \in Processes : OpenCounts(p) \/ SaveCounts(p) \/ Kill(p)

Spec == Init /\ [][Next]_vars

-----------------------------------------------------------------------------
(* Properties.                                                             *)

Phases == {"pass", "open_text", "write_text", "open_meta", "write_meta", "count", "open_counts",
           "write_counts", "idle", "load", "block_command", "done", "dead"}

\* Files, counts, registries and searches keep their shapes.
TypeOK ==
  /\ texts \in [Sessions -> [Ids -> Blocks \cup {Torn, None}]]
  /\ metas \in [Sessions -> [Ids -> Commands \cup {Torn, None}]]
  /\ feedback \in Counts \cup {Torn}
  /\ pc \in [Processes -> Phases]
  /\ pass \in [Calls -> Nat] /\ at \in [Calls -> Nat]
  /\ counter \in [Calls -> 0..MaxId] /\ drained \in [Calls -> 0..MaxId]
  /\ copy \in [Processes -> Counts]
  /\ whose \in [Expands -> Commands \cup {Torn, None}]
  /\ wanted \in [Expands -> Blocks \cup {None}]
  /\ found \in [Expands -> Blocks \cup {Torn, None}]
  /\ shown \subseteq Blocks /\ opened \subseteq Blocks /\ stored \subseteq Blocks
  /\ made \in [Commands -> Nat] /\ asked \in [Commands -> Nat]

Answered(e) == pc[e] = "done"
OnlyOne(b) == \A x \in opened : x.n = b.n => x = b

\* README.md:234, "restore a collapsed block": expand prints the lines the marker
\* stands for if its call saved them and no other call, of any session, has begun
\* to save a block of that number.
RestoresTheOnlyOne ==
  \A e \in Expands :
    Answered(e) /\ wanted[e] \in stored /\ OnlyOne(wanted[e]) => found[e] = wanted[e]

\* "a lost increment is harmless" (feedback.rs:14): increments are lost, in
\* overlapping saves and in files torn by a death, but none is invented.
CountsAreEvents ==
  feedback # Torn =>
    \A k \in Commands : feedback[k].blocks <= made[k] /\ feedback[k].expands <= asked[k]
=============================================================================
