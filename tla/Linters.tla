------------------------------ MODULE Linters ------------------------------
(***************************************************************************)
(* What the handlers of linters and formatters return for an output.       *)
(***************************************************************************)
EXTENDS Lines

(* The diagnostics s under a heading for each file, files in the order in which *)
(* they first appear.                                                           *)
ByFile(t, s, fileOf) ==
  LET heads == Only([j \in DOMAIN s |-> j], LAMBDA j :
                 \A m \in 1..(j - 1) : fileOf[t[s[m]]] # fileOf[t[s[j]]])
      group(f) == Only(s, LAMBDA i : fileOf[t[i]] = f)
  IN  FlattenSeq([x \in DOMAIN heads |->
        LET f == fileOf[t[s[heads[x]]]] IN Note(f, 0) \o Lines(group(f))])

(***************************************************************************)
(* golangci-lint.  Of its text the first forty diagnostics are kept, errors *)
(* before warnings; the heading counts the kept ones, the closing line all.  *)
(* Of its JSON report the first forty issues.                               *)
(***************************************************************************)
GoFileOf == [k \in {"a.go: error", "a.go: warning", "b.go: warning", "{issue a}", "{issue b}"} |->
               IF k \in {"b.go: warning", "{issue b}"} THEN "b.go" ELSE "a.go"]
GolangciJson(t) ==
  LET issues == At(t, {"{issue a}", "{issue b}"})
  IN  IF issues = <<>> THEN Note("No issues found.", 0)
      ELSE ByFile(t, Take(issues, 40), GoFileOf) \o More(issues, 40, "more issues")
             \o Note("issues found", Len(issues))
GolangciStep(t, a, i) ==
  IF t[i] = "ERR" \/ (t[i] = "WARN" /\ Len(a) < 3) THEN Append(a, i) ELSE a
GolangciText(t) ==
  LET diags == At(t, {"a.go: error", "a.go: warning", "b.go: warning"})
      errors == Only(Take(diags, 40), LAMBDA i : t[i] = "a.go: error")
      warns  == Only(Take(diags, 40), LAMBDA i : t[i] # "a.go: error")
      runner == Scan(LAMBDA a, i : GolangciStep(t, a, i), <<>>, t)
  IN  IF diags \o runner = <<>> THEN Note("No issues found.", 0)
      ELSE Note("golangci-lint: errors", Len(errors)) \o ByFile(t, errors \o warns, GoFileOf)
             \o More(diags, 40, "more issues") \o Note("issues found", Len(diags))
             \o Lines(runner)
Golangci(t) ==
  LET first == Take(Filled(t), 1)
  IN  IF first # <<>> /\ t[first[1]] \in {"{issue a}", "{issue b}"}
      THEN GolangciJson(t) ELSE GolangciText(t)

(* clippy: each message once, five of the warnings, one help line.  *)
Clippy(t) ==
  LET errors  == FirstOf(t, {"error[A]", "error[B]"})
      warns   == FirstOf(t, {"warning: 1", "warning: 2", "warning: 3", "warning: 4",
                             "warning: 5", "warning: 6"})
      summary == Lines(Final(At(t, {"error: aborting", "2 warnings emitted"}), 1))
  IN  IF errors \o warns = <<>> THEN OrWhole(summary, t)
      ELSE Lines(errors) \o Counted("clippy warnings", Len(warns)) \o Capped(warns, 5, "more")
             \o Lines(Take(At(t, {"help:"}), 1)) \o summary

(***************************************************************************)
(* eslint and stylelint: the problems of a file follow its path, and a      *)
(* blank line or the next path closes it.  The problems after the first max *)
(* are dropped and counted at the end.                                      *)
(***************************************************************************)
Problems == {"  1:1 error", "  1:1 warning"}
EslintFlush(a) == IF a.file # <<>> /\ a.lines # <<>>
                  THEN [a EXCEPT !.out = @ \o Lines(a.file \o a.lines)] ELSE a
EslintStep(t, a, i) ==
  LET k == t[i]  f == EslintFlush(a) IN
  CASE k = "" -> [f EXCEPT !.file = <<>>, !.lines = <<>>]
    [] k = "/x.js" -> [f EXCEPT !.file = <<i>>, !.lines = <<>>]
    [] k \in {"2 problems", "0 problems"} -> [a EXCEPT !.out = Append(@, Line(i))]
    [] k \in Problems -> [a EXCEPT !.total = @ + 1,
                                   !.lines = IF a.total < 30 THEN Append(@, i) ELSE @]
    [] OTHER -> a
Eslint(t) ==
  LET z == EslintFlush(Scan(LAMBDA a, i : EslintStep(t, a, i),
                            [out |-> <<>>, file |-> <<>>, lines |-> <<>>, total |-> 0], t))
  IN  IF \A i \in DOMAIN t : t[i] \in {"", "0 problems"} THEN Note("All files clean", 0)
      ELSE OrWhole(z.out \o (IF z.total > 30 THEN Note("more errors", z.total - 20) ELSE <<>>), t)

StylelintFlush(a) == IF a.file # <<>> /\ a.lines # <<>>
                     THEN [a EXCEPT !.out = @ \o Lines(a.file \o a.lines), !.lines = <<>>] ELSE a
StylelintStep(t, a, i) ==
  LET k == t[i]  f == StylelintFlush(a) IN
  CASE k = "" -> [f EXCEPT !.file = <<>>]
    [] k = "/x.css" -> [f EXCEPT !.file = <<i>>]
    [] k \in Problems -> [a EXCEPT !.total = @ + 1,
                                   !.lines = IF a.total < 40 THEN Append(@, i) ELSE @]
    [] OTHER -> a
Stylelint(t) ==
  LET z == StylelintFlush(Scan(LAMBDA a, i : StylelintStep(t, a, i),
                               [out |-> <<>>, file |-> <<>>, lines |-> <<>>, total |-> 0], t))
      summary == Lines(Final(At(t, {"2 problems", "0 problems"}), 1))
  IN  IF \A i \in DOMAIN t : t[i] = "" THEN Note("No issues found.", 0)
      ELSE IF z.out = <<>> THEN OrWhole(summary, t)
      ELSE z.out \o (IF z.total > 40 THEN Note("more issues", z.total - 40) ELSE <<>>)
             \o (IF summary # <<>> THEN summary ELSE Note("issues found", z.total))

(* ruff check groups the violations by code and shows three of each; ruff format *)
(* returns its own summary or a count.                                           *)
RuffCheck(t) ==
  LET group(c) == IF Has(t, {c})
                  THEN Note(c, Len(At(t, {c}))) \o Capped(At(t, {c}), 3, "and more") ELSE <<>>
  IN  IF Has(t, {"All checks passed."}) \/ \A i \in DOMAIN t : t[i] = "" THEN Note("ruff: ok", 0)
      ELSE group("E501") \o group("F401") \o Lines(At(t, {"text"}) \o At(t, {"Found 2 errors"}))
RuffFormat(t) ==
  LET summary == Lines(Final(At(t, {"2 files reformatted"}), 1))
  IN  IF summary # <<>> THEN summary
      ELSE OrWhole(Counted("files reformatted", Len(At(t, {"Reformatted x.py"}))), t)

(* mypy: five errors of each file, and a total.  *)
Mypy(t) ==
  LET file(f, k) == LET es == At(t, {k}) IN
        IF es = <<>> THEN <<>> ELSE Note(f, 0) \o Capped(es, 5, "more in file")
      files == Cardinality({t[i] : i \in DOMAIN t} \cap {"a.py: error", "b.py: error"})
  IN  IF Has(t, {"Success: no issues found"}) THEN Note("mypy: ok", 0)
      ELSE file("a.py", "a.py: error") \o file("b.py", "b.py: error")
             \o Lines(At(t, {"text", "Found 1 error"}))
             \o Counted("mypy: errors", Len(At(t, {"a.py: error", "b.py: error"})))

(* biome: the heading of each diagnostic and the first message under it; outside *)
(* diagnostics everything that is not part of a code frame.  Nothing ends a      *)
(* diagnostic but the next one.                                                  *)
BiomeStep(t, a, i) ==
  LET k == t[i]  add == [a EXCEPT !.out = Append(@, Line(i))] IN
  CASE k = "Found 1 diagnostics" -> add
    [] k = "./x.ts:1 lint/rule" -> [add EXCEPT !.in = TRUE, !.msg = FALSE]
    [] k = "text" /\ ~a.in -> add
    [] k = "cross message" /\ a.in /\ ~a.msg -> [add EXCEPT !.msg = TRUE]
    [] OTHER -> a
Biome(t) ==
  OrWhole(Scan(LAMBDA a, i : BiomeStep(t, a, i), [out |-> <<>>, in |-> FALSE, msg |-> FALSE],
               t).out, t)

(* prettier --check and --write; without a flag the output tells which.  *)
PrettierCheck(t) ==
  LET files == At(t, {"[warn] x.js"})  errors == At(t, {"SyntaxError"})
  IN  IF errors # <<>> THEN Lines(errors)
      ELSE IF files # <<>>
      THEN Note("need formatting", Len(files)) \o Capped(files, 10, "more")
             \o Note("Run prettier --write", 0)
      ELSE IF Has(t, {"All matched files"}) THEN Note("All files formatted correctly.", 0)
      ELSE Whole(t)
PrettierWrite(t) ==
  LET files == At(t, {"x.js 4ms"})  errors == At(t, {"SyntaxError"})
  IN  IF errors # <<>> THEN Lines(errors)
      ELSE OrWhole(Counted("formatted", Len(files)), t)
Prettier(t, flag) ==
  IF flag = "--check" \/ (flag = "" /\ Has(t, {"All matched files", "[warn] x.js", "Checking"}))
  THEN PrettierCheck(t) ELSE PrettierWrite(t)

(* rubocop: of its JSON report ten errors, ten warnings and five conventions, and *)
(* the total; of its text the offense lines and the summary.                      *)
RubocopJson(t) ==
  LET offenses == At(t, {"{error}", "{warning}", "{convention}"})
  IN  IF offenses = <<>> THEN Note("no offenses", 0)
      ELSE Lines(Take(At(t, {"{error}"}), 10) \o Take(At(t, {"{warning}"}), 10))
             \o Capped(At(t, {"{convention}"}), 5, "more convention/style offenses")
             \o Note("offenses", Len(offenses))
Rubocop(t) ==
  IF t # <<>> /\ t[1] \in {"{", "{error}", "{warning}", "{convention}"} THEN RubocopJson(t)
  ELSE OrWhole(Lines(At(t, {"x.rb:1: E: ", "1 file inspected, 1 offense"})), t)
============================================================================
