------------------------------- MODULE Files -------------------------------
(***************************************************************************)
(* What the handlers of the commands that list, search, compare and print  *)
(* files return: ls, tree, find, grep, diff, and cat with its levels.      *)
(***************************************************************************)
EXTENDS Lines

(***************************************************************************)
(* ls: directories before files, forty of them; what is noise is not       *)
(* listed but named; three extensions or more are summarized.              *)
(***************************************************************************)
NoiseDirs == {"node_modules/", ".git/"}
DirKinds == {"dir/"}
ExtensionKinds == {"a.rs", "a.md", "a.py"}
BuildExtSummary(t, files) ==
  IF Cardinality({t[files[j]] : j \in DOMAIN files} \cap ExtensionKinds) < 3 THEN <<>>
  ELSE Note("top", 0)
Ls(t) ==
  LET entries == Where(t, LAMBDA i : t[i] \notin {"", "total 8"})
      hidden  == Only(entries, LAMBDA i : t[i] \in NoiseDirs)
      dirs    == Only(entries, LAMBDA i : t[i] \in DirKinds)
      files   == Only(entries, LAMBDA i : t[i] \notin NoiseDirs \cup DirKinds)
  IN  IF Filled(t) = <<>> THEN Whole(t)
      ELSE Capped(dirs \o files, 40, "more") \o Note("dirs", Len(dirs)) \o Note("files", Len(files))
             \o BuildExtSummary(t, files) \o Counted("hidden", Len(hidden))

(* A mutant: the summary goes with the entries.  *)
MutTreeNoSummary(t) ==
  IF Len(t) <= 30 THEN Whole(t) ELSE Lines(Take(Every(t), 25)) \o Note("more entries", Len(t) - 25)
(* The last line with directories and files is shown after the first 25, and *)
(* is not counted among the rest, even when it is one of the 25.             *)
Tree(t) ==
  LET summary == Final(At(t, {"2 directories, 3 files"}), 1)
  IN  IF Len(t) <= 30 THEN Whole(t)
      ELSE Lines(Take(Every(t), 25)) \o Note("more entries", Len(t) - 25 - Len(summary))
             \o Lines(summary)

(***************************************************************************)
(* find and grep.  heads has a line of each group: a group is headed by    *)
(* its name and its size, per of its lines are shown, and when all lines   *)
(* have been shown the rest goes unmentioned.                              *)
(***************************************************************************)
Grouped(t, heads, per, all, more) ==
  LET Step(a, j) ==
        LET k     == t[heads[j]]
            mine  == At(t, {k})
            first == Take(mine, Min({per, all - a.n}))
            stop  == Len(first) < Min({per, Len(mine)})
        IN  IF a.stop THEN a
            ELSE [n |-> a.n + Len(first), stop |-> stop,
                  out |-> a.out \o Note(k, Len(mine)) \o Lines(first)
                            \o (IF stop THEN <<>> ELSE More(mine, per, more))]
  IN  Scan(Step, [n |-> 0, stop |-> FALSE, out |-> <<>>], heads)

Find(t) ==
  LET paths == Filled(t)
      heads == FirstOf(t, {t[paths[j]] : j \in DOMAIN paths})
  IN  IF Len(paths) <= 50 THEN Whole(t)
      ELSE Grouped(t, heads, 5, 50, "more of the directory").out
             \o Note("total", Len(paths)) \o Note("directories", Len(heads))

(* A match without a file is shown only when no line has a file.  *)
Grep(t) ==
  LET matches == Filled(t)
      files   == {t[matches[j]] : j \in DOMAIN matches} \ {"match"}
      shown   == Grouped(t, FirstOf(t, files), 100, 200, "more in this file")
  IN  IF matches = <<>> THEN Whole(t)
      ELSE IF files = {} THEN Capped(matches, 50, "more matches")
      ELSE shown.out
             \o (IF Len(matches) > 200 THEN Note("more in files", Len(matches) - shown.n) ELSE <<>>)
             \o Note("matches", Len(matches))

(***************************************************************************)
(* diff: five hunks with two context lines each.  The header of the fifth  *)
(* counts as the limit, so that nothing after it is shown.                 *)
(***************************************************************************)
HunkLimit == 5
ContextLimit == 2
Diff(t) ==
  LET Step(a, i) ==
        LET k   == t[i]
            add == [a EXCEPT !.out = Append(@, Line(i))]
        IN  CASE k \in {"index", "\\ No newline"} -> a
              [] k = "@@" -> IF a.hunks >= HunkLimit THEN [a EXCEPT !.more = @ + 1]
                             ELSE [add EXCEPT !.hunks = @ + 1, !.in = TRUE, !.n = 0]
              [] OTHER ->
                   IF a.hunks >= HunkLimit THEN a
                   ELSE IF k \in {"diff", "---", "+++"} THEN [add EXCEPT !.in = FALSE, !.n = 0]
                   ELSE IF ~a.in \/ k \in {"+a", "-a"} THEN add
                   ELSE IF a.n < ContextLimit THEN [add EXCEPT !.n = @ + 1] ELSE a
      all == Scan(Step, [out |-> <<>>, hunks |-> 0, in |-> FALSE, n |-> 0, more |-> 0], t)
  IN  OrWhole(all.out \o Counted("more hunks", all.more), t)

(***************************************************************************)
(* Printing a file.  A language is "c" (those with braces), "python",      *)
(* "shell", "data" or "unknown".                                           *)
(***************************************************************************)
AutoLevel(n, lang) == CASE lang = "data" \/ n <= 100 -> "passthrough"
                        [] lang # "data" /\ n > 300  -> "aggressive"
                        [] OTHER                     -> "strip"

HeadTail(s) == IF Len(s) <= 80 THEN Take(s, 60)
               ELSE Take(s, 60) \o Note("lines omitted", Len(s) - 80) \o Final(s, 20)
(* In the middle of a git operation nothing is left out.  *)
FilterPassthrough(t, mid) ==
  IF mid \/ Len(t) <= 100 THEN Whole(t)
  ELSE IF Len(t) <= 500 THEN HeadTail(Whole(t)) ELSE Note("summarized", 80)

(* The lines of which nothing is left without their comment.  *)
StripSingleLineComment == {"", "// c"}
StripHashComment == {"", "# c"}
Emptied(lang) == CASE lang = "c" -> StripSingleLineComment
                   [] lang \in {"python", "shell"} -> StripHashComment
                   [] OTHER -> {""}
(* Lines of comment count as blank ones, of which three or more leave one.  *)
ApplyStrip(t, lang) ==
  LET Step(a, i) ==
        LET k      == t[i]
            blank  == [a EXCEPT !.blank = @ + 1]
            near   == [a EXCEPT !.blank = 0, !.out = Append(@, Line(i))]
            spaced == [near EXCEPT !.out = IF a.blank >= 3 THEN a.out \o Note("", 0) \o <<Line(i)>> ELSE @]
        IN  IF lang = "c" /\ a.in
            THEN IF k = "*/ x" THEN [near EXCEPT !.in = FALSE]
                 ELSE [blank EXCEPT !.in = k \notin {"*/", "/* c */", "x /* c */"}]
            ELSE IF lang = "c" /\ k = "/*" THEN [blank EXCEPT !.in = TRUE]
            ELSE IF lang = "c" /\ k = "x /*" THEN [near EXCEPT !.in = TRUE]
            ELSE IF lang = "c" /\ k = "x /* c */" THEN near
            ELSE IF (lang = "c" /\ k = "/* c */") \/ k \in Emptied(lang) THEN blank
            ELSE spaced
  IN  Scan(Step, [in |-> FALSE, blank |-> 0, out |-> <<>>], t).out

(* The braces a line opens and closes, and the starts of the declarations.  *)
Opens(k) == CASE k \in {"fn {", "pub fn {", "async fn {", "type {", "impl {", "if {"} -> 1
              [] k = "}" -> -1
              [] OTHER -> 0
FnLike == {"fn {", "pub fn {", "async fn {"}
TypeDef == {"type {"}
IsSignatureLine(k) == k \in {"use x", "fn {", "pub fn {", "type {", "impl {", "def f", "import x", "class C"}
Nest(depth, k) == Max({0, depth + Opens(k)})

ApplyAggressive(t, lang) ==
  LET Step(a, i) == [depth |-> Nest(a.depth, t[i]),
                     out   |-> IF a.depth = 0 /\ IsSignatureLine(t[i])
                               THEN Append(a.out, Line(i)) ELSE a.out]
  IN  CASE lang = "c" -> Scan(Step, [depth |-> 0, out |-> <<>>], t).out
        [] lang = "python" -> Lines(Where(t, LAMBDA i : IsSignatureLine(t[i])))
        [] OTHER -> ApplyStrip(t, lang)

(* Of a function's body only the number of its lines is left; the comments   *)
(* before a declaration are kept until one that is public takes them.        *)
Braces(t) ==
  LET Body(a, i) ==
        LET depth == Nest(a.depth, t[i])
        IN  IF depth > a.at THEN [a EXCEPT !.depth = depth]
            ELSE [a EXCEPT !.depth = depth, !.body = 0, !.docs = <<>>,
                           !.out = @ \o Note("lines", i - a.body) \o <<Line(i)>>]
      Step(a, i) ==
        LET k     == t[i]
            outer == IsSignatureLine(k) \/ a.depth = 0
            docs  == IF outer /\ k = "pub fn {" THEN Lines(a.docs) ELSE <<>>
            shown == [a EXCEPT !.out = @ \o docs \o <<Line(i)>>, !.depth = Nest(@, k),
                               !.docs = IF outer THEN <<>> ELSE @]
        IN  IF a.body # 0 THEN Body(a, i)
            ELSE IF k = "/// d" THEN [a EXCEPT !.docs = Append(@, i)]
            ELSE IF k \in FnLike THEN [shown EXCEPT !.body = i, !.at = a.depth] ELSE shown
  IN  Scan(Step, [depth |-> 0, body |-> 0, at |-> 0, docs |-> <<>>, out |-> <<>>], t).out

Indent(k) == CASE k = "        x" -> 8
               [] k \in {"    x", "    def m", "    import x"} -> 4
               [] OTHER -> 0
ApplyStructuralPython(t) ==
  LET Plain(a, i) ==
        LET k == t[i]
            shown == [a EXCEPT !.out = Append(@, Line(i))]
        IN  IF k \in {"def f", "    def m"} THEN [shown EXCEPT !.body = Indent(k) + 4, !.n = 0]
            ELSE IF k \in {"import x", "    import x", "class C", "@d"} \/ (k # "" /\ Indent(k) = 0)
            THEN shown ELSE a
      Close(a) == [a EXCEPT !.body = 0, !.out = @ \o Counted("lines", a.n)]
      Step(a, i) == IF a.body = 0 THEN Plain(a, i)
                    ELSE IF t[i] = "" \/ Indent(t[i]) >= a.body THEN [a EXCEPT !.n = @ + 1]
                    ELSE Plain(Close(a), i)
      last == Scan(Step, [body |-> 0, n |-> 0, out |-> <<>>], t)
  IN  IF last.body = 0 THEN last.out ELSE Close(last).out

ApplyStructural(t, lang) == CASE lang = "c" -> Braces(t)
                              [] lang = "python" -> ApplyStructuralPython(t)
                              [] OTHER -> ApplyStrip(t, lang)

ReadLevels == {"passthrough", "auto", "strip", "aggressive", "structural"}
ReadFile(t, lang, level, mid) ==
  LET to == IF level = "auto" THEN AutoLevel(Len(t), lang) ELSE level
      stripped == ApplyStrip(t, lang)
  IN  CASE to = "passthrough" -> FilterPassthrough(t, mid)
        [] to = "strip" -> IF Len(stripped) > 500 THEN HeadTail(stripped) ELSE stripped
        [] to = "aggressive" -> ApplyAggressive(t, lang)
        [] to = "structural" -> ApplyStructural(t, lang)
============================================================================
