-------------------------------- MODULE Git --------------------------------
(***************************************************************************)
(* What the git handler returns for the output of each subcommand.         *)
(***************************************************************************)
EXTENDS Lines

(***************************************************************************)
(* The operation that the files in .git say is in progress.                *)
(***************************************************************************)
MidGitOperation(dotgit) ==
  dotgit \cap {"CHERRY_PICK_HEAD", "MERGE_HEAD", "rebase-merge", "rebase-apply"} # {}
(* A mutant: only the pairs of the same letter.  *)
MutUnmergedPairs == {"UU a", "AA a", "DD a"}
(* An unmerged line begins with U, or is AA or DD.  *)
UnmergedKinds == {"UU a", "AA a", "DD a", "UD a", "UA a"}
DetectGitInProgress(dotgit, t) ==
  LET first == Only(<<"CHERRY_PICK_HEAD", "REVERT_HEAD", "rebase-merge", "rebase-apply",
                           "BISECT_LOG", "MERGE_HEAD">>, LAMBDA f : f \in dotgit)
  IN  IF first = <<>> THEN <<>>
      ELSE CASE first[1] = "CHERRY_PICK_HEAD" -> Note("cherry-pick in progress", 0)
             [] first[1] = "REVERT_HEAD" -> Note("revert in progress", 0)
             [] first[1] = "rebase-merge" -> Note("rebase in progress", 0)
             [] first[1] = "rebase-apply" ->
                  Note(IF "rebase-apply/applying" \in dotgit THEN "am session in progress"
                       ELSE "rebase in progress", 0)
             [] first[1] = "BISECT_LOG" -> Note("bisect in progress", 0)
             [] first[1] = "MERGE_HEAD" ->
                  Note(IF Has(t, UnmergedKinds) THEN "merge in progress, unresolved conflicts"
                       ELSE "merge in progress, no conflicts", 0)

(***************************************************************************)
(* status: a path may be staged and modified at once, and is then listed   *)
(* twice.                                                                  *)
(***************************************************************************)
StagedKinds == {"M  a", "MM a", "UU a", "AA a", "DD a", "UD a", "DU a", "AU a", "UA a"}
ModifiedKinds == {" M a", "MM a", "UU a", "AA a", "DD a", "UD a", "DU a", "AU a", "UA a"}
FilterStatus(t, dotgit) ==
  LET staged    == At(t, StagedKinds)
      modified  == At(t, ModifiedKinds)
      untracked == At(t, {"?? a"})
      body == IF Has(t, {"nothing to commit"}) \/ staged \o modified \o untracked = <<>>
              THEN Note("nothing to commit, working tree clean", 0)
              ELSE Note("Staged", Len(staged)) \o Note("Modified", Len(modified))
                     \o Note("Untracked", Len(untracked))
                     \o Capped(staged \o modified, 15, "more staged/modified")
                     \o Capped(untracked, 10, "more untracked")
  IN  DetectGitInProgress(dotgit, t) \o body

(***************************************************************************)
(* log: the trailers of the messages are left out, but counted.            *)
(***************************************************************************)
LogLineCap == 25
FilterLog(t) ==
  LET commits == Where(t, LAMBDA i : t[i] # "Signed-off-by:")
  IN  Lines(Take(commits, LogLineCap)) \o
        (IF Len(t) > LogLineCap THEN Note("more commits", Len(t) - LogLineCap) ELSE <<>>)

(***************************************************************************)
(* diff.  A hunk shows twenty lines, the whole diff sixty; a context line  *)
(* is shown within two lines of a change.  What is not shown is counted all *)
(* the same: each file's name carries how many lines of it were added,     *)
(* removed and modified, a removed and an added line that are alike making  *)
(* one modified line.                                                      *)
(***************************************************************************)
JaccardSimilarity(r, a) == r = "-a" /\ a = "+a"
ClassifyChanges(t, removed, added) ==
  LET pairs == 1..Min({Len(removed), Len(added)})
      alike == {j \in pairs : JaccardSimilarity(t[removed[j]], t[added[j]])}
  IN  [added    |-> Len(added) - Cardinality(alike),
       removed  |-> Len(removed) - Cardinality(alike),
       modified |-> Cardinality(alike)]

HunkLineCap == 20
DiffTotalCap == 60
MaxContextPerSide == 2

DiffStart == [out |-> <<>>, tally |-> [added |-> 0, removed |-> 0, modified |-> 0],
              removed |-> <<>>, added |-> <<>>, hunk |-> 0, cut |-> FALSE, total |-> 0,
              full |-> FALSE, after |-> 0, pending |-> <<>>, in_file |-> FALSE]
(* A mutant: the changes of a hunk that was cut are forgotten.  *)
MutFlushShownOnly(t, a) ==
  LET c == IF a.cut THEN DiffStart.tally ELSE ClassifyChanges(t, a.removed, a.added)
  IN  [a EXCEPT !.removed = <<>>, !.added = <<>>,
                !.tally = [f \in DOMAIN c |-> a.tally[f] + c[f]]]
FlushChangeBlock(t, a) ==
  LET c == ClassifyChanges(t, a.removed, a.added)
  IN  [a EXCEPT !.removed = <<>>, !.added = <<>>,
                !.tally = [f \in DOMAIN c |-> a.tally[f] + c[f]]]
(* The tally is written after the file's lines here, in its name in the code.  *)
FlushFileTally(a) ==
  IF ~a.in_file THEN a
  ELSE [a EXCEPT !.in_file = FALSE, !.tally = DiffStart.tally,
                 !.out = @ \o Counted("added", a.tally.added)
                           \o Counted("removed", a.tally.removed)
                           \o Counted("modified", a.tally.modified)]
Shown(a, i) ==
  IF a.full THEN a
  ELSE [a EXCEPT !.out = Append(@, Line(i)), !.hunk = @ + 1, !.total = @ + 1,
                 !.full = a.total + 1 >= DiffTotalCap]
NextFile(t, a, i) ==
  LET flushed == FlushFileTally(FlushChangeBlock(t, a))
      named   == [flushed EXCEPT !.in_file = TRUE, !.out = Append(@, Line(i))]
  IN  IF a.full THEN named
      ELSE [named EXCEPT !.total = @ + 1, !.hunk = 0, !.cut = FALSE, !.after = 0, !.pending = <<>>]
NextHunk(t, a) ==
  LET flushed == FlushChangeBlock(t, a)
  IN  IF a.full THEN flushed
      ELSE [flushed EXCEPT !.out = @ \o Note("@@", 0), !.total = @ + 1, !.hunk = 0, !.cut = FALSE,
                           !.after = 0, !.pending = <<>>]
ContextLine(t, a, i) ==
  LET flushed == FlushChangeBlock(t, a)
  IN  IF a.full \/ a.cut THEN flushed
      ELSE IF a.after < MaxContextPerSide THEN [Shown(flushed, i) EXCEPT !.after = @ + 1]
      ELSE [flushed EXCEPT !.pending = Append(@, i)]
ChangedLine(t, a, i) ==
  LET noted   == IF t[i] = "-a" THEN [a EXCEPT !.removed = Append(@, i)]
                 ELSE [a EXCEPT !.added = Append(@, i)]
      context == Final(a.pending, MaxContextPerSide)
      led     == [FoldLeft(Shown, noted, context) EXCEPT !.pending = <<>>, !.after = 0]
  IN  IF a.full \/ a.cut THEN noted
      ELSE IF led.hunk >= HunkLineCap
      THEN [led EXCEPT !.cut = TRUE, !.total = @ + 1, !.out = @ \o Note("truncated", 0)]
      ELSE Shown(led, i)
(* A line of a header ends a block of changes only after the diff is full.  *)
FilterDiff(t, mid) ==
  LET Step(a, i) == CASE t[i] = "diff --git" -> NextFile(t, a, i)
                      [] t[i] = "@@" -> NextHunk(t, a)
                      [] t[i] = " a" -> ContextLine(t, a, i)
                      [] t[i] \in {"-a", "+a", "+b"} -> ChangedLine(t, a, i)
                      [] t[i] \in {"index", "\\ No newline"} ->
                           IF a.full THEN FlushChangeBlock(t, a) ELSE a
                      [] t[i] \in {"--- a", "+++ a"} -> a
      all == FlushFileTally(FlushChangeBlock(t, Scan(Step, DiffStart, t)))
  IN  IF mid THEN Whole(t)
      ELSE OrWhole(all.out \o (IF all.full THEN Note("diff truncated", 0) ELSE <<>>), t)

(***************************************************************************)
(* push, pull and fetch: the errors with two lines on each side, or one    *)
(* line that says what was done.                                           *)
(***************************************************************************)
PushPullErrorTerms == {"error:", "rejected", "fatal:"}
FilterPushPull(t) ==
  LET kept == Where(t, LAMBDA i : \E j \in DOMAIN t : t[j] \in PushPullErrorTerms /\ i \in (j - 2)..(j + 2))
      gaps == [j \in DOMAIN kept |->
                 IF j > 1 /\ kept[j] > kept[j - 1] + 1 THEN Note("...", 0) \o <<Line(kept[j])>>
                 ELSE <<Line(kept[j])>>]
      said == IF Has(t, {"main -> main"}) THEN FirstLine(t, {"main -> main"})
              ELSE IF Has(t, {"1 file changed"}) THEN FirstLine(t, {"1 file changed"})
              ELSE Lines(LastFilled(t))
  IN  IF kept # <<>> THEN FlattenSeq(gaps)
      ELSE IF Has(t, {"Everything up-to-date"}) THEN Note("ok (up to date)", 0)
      ELSE Note("ok", 0) \o said

FilterCommit(t) ==
  IF ~Has(t, {"[main 1a2b3c]"}) THEN Whole(t)
  ELSE Note("ok", 0) \o FirstLine(t, {"[main 1a2b3c]"}) \o LastLine(t, {"1 file changed"})

FilterList(t) == Capped(Filled(t), 30, "more")

FilterMerge(t) ==
  IF Has(t, {"CONFLICT"}) THEN Lines(At(t, {"CONFLICT", "Automatic merge failed"}))
  ELSE IF Has(t, {"Already up to date."}) THEN Note("ok (already up to date)", 0)
  ELSE IF Has(t, {"Fast-forward"}) THEN Note("ok (fast-forward)", 0)
  ELSE OrWhole(Lines(At(t, {"Merge made by", "1 file changed"})), t)

FilterRebase(t) ==
  IF Has(t, {"CONFLICT"}) THEN Lines(At(t, {"CONFLICT", "error: could not apply"}))
  ELSE IF Has(t, {"Successfully rebased"}) THEN Note("ok", 0) \o FirstLine(t, {"Successfully rebased"})
  ELSE IF Has(t, {"is up to date"}) THEN Note("ok (already up to date)", 0)
  ELSE Lines(LastFilled(t))

FilterClone(t) ==
  IF Has(t, {"fatal:", "error:"}) THEN Lines(At(t, {"fatal:", "error:"}))
  ELSE IF Has(t, {"Cloning into 'a'"}) THEN Note("ok, cloned", 0) ELSE Whole(t)

FilterCheckout(t) ==
  LET switched == FirstOf(t, {"Switched to a new branch", "Switched to branch", "Already on"})
  IN  IF Has(t, {"error:"}) THEN Whole(t)
      ELSE IF switched # <<>> THEN Note("ok", 0) \o Lines(Take(switched, 1))
      ELSE Lines(LastFilled(t))
============================================================================
