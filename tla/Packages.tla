------------------------------ MODULE Packages ------------------------------
(***************************************************************************)
(* What the handlers of package managers and script runners return for an  *)
(* output: npm, pnpm, pip, uv, brew, prisma and python.                     *)
(***************************************************************************)
EXTENDS TestRunners

(***************************************************************************)
(* npm and pnpm.  The count and the audit line of an install are the last  *)
(* ones printed; the number of "install complete" is the line the count     *)
(* comes from, 0 when there is none.                                        *)
(***************************************************************************)
IsBoilerplateLine == {"npm WARN", "> a@1.0.0 build", "..."}
LastAt(t, K) == IF Has(t, K) THEN Max(ToSet(At(t, K))) ELSE 0

NpmInstall(t) == Note("install complete", LastAt(t, {"added 3 packages"}))
                   \o Lines(Final(At(t, {"3 vulnerabilities"}), 1))

PnpmInstall(t) ==
  LET errors == At(t, {"ERR_PNPM"})
      done   == Final(At(t, {"Progress: done"}), 1)
  IN  IF errors # <<>> THEN Lines(errors)
      ELSE Lines(Final(At(t, {"Packages: +3"}), 1))
             \o (IF done = <<>> THEN Note("install complete", 0) ELSE Lines(done))
             \o Lines(Take(At(t, {"WARN deprecated"}), 5))

(* A line inside a block that a bullet opened is kept once more when it names *)
(* a failure; with no failure all the summaries are kept, else the last one.   *)
NpmTestStep(t, a, i) ==
  LET in == a.in \/ t[i] = "bullet"
  IN  [in  |-> in /\ t[i] # "",
       out |-> a.out \o (IF t[i] \in {"x test", "FAIL"} THEN <<Line(i)>> ELSE <<>>)
                     \o (IF in THEN <<Line(i)>> ELSE <<>>)]
NpmTest(t) ==
  LET failures  == Scan(LAMBDA a, i : NpmTestStep(t, a, i), [in |-> FALSE, out |-> <<>>], t).out
      summaries == At(t, {"1 failing", "1 passed", "1 failed"})
  IN  IF failures = <<>> /\ summaries # <<>> THEN Lines(summaries)
      ELSE OrWhole(failures \o Lines(Final(summaries, 1)), t)

(* Neighbouring lines of the same text are written once.  *)
Dedup(out, t) ==
  LET same(j) == /\ j > 1 /\ out[j][1] = "line" /\ out[j - 1][1] = "line"
                 /\ t[out[j][2]] = t[out[j - 1][2]]
      kept == Only([j \in DOMAIN out |-> j], LAMBDA j : ~same(j))
  IN  [j \in DOMAIN kept |-> out[kept[j]]]

(* The output of a script is a test runner's when it has its marks, else it   *)
(* is what P says of it.                                                       *)
ScriptOutput(t, P(_)) ==
  IF Has(t, JsReport) THEN ParseJsTestJson(t)
  ELSE IF Has(t, {"Test Files 1 failed"}) THEN JsText(t, VitestRules)
  ELSE IF Has(t, {"Test Suites:"}) /\ Has(t, {"Tests: 1 failed", "Tests: 1 passed"})
  THEN JsText(t, JestRules)
  ELSE P(t)

ImportantAndTail(t, s, K) ==
  Dedup(Lines(Only(s, LAMBDA i : t[i] \in K)) \o Note("lines of output", Len(s))
          \o Lines(Final(s, 5)), t)

(* A linter's output: at least three lines in ten are diagnostics or name a   *)
(* file.  The name of a file is kept with the first diagnostic that follows it *)
(* with no other line between.                                                 *)
LooksLikeLintOutput(t, s) ==
  /\ Len(s) >= 5
  /\ (Len(Only(s, LAMBDA i : t[i] \in {"src/a.ts", "10:5 error"})) * 100) \div Len(s) >= 30

FilterLintPassthrough(t, s) ==
  LET Step(a, j) ==
        CASE t[s[j]] = "src/a.ts" -> [a EXCEPT !.head = <<s[j]>>]
          [] t[s[j]] \in {"10:5 error", "error", "warning"} ->
               [head |-> <<>>, kept |-> a.kept \o a.head \o <<s[j]>>]
          [] OTHER -> [a EXCEPT !.head = <<>>]
      kept == Scan(Step, [head |-> <<>>, kept |-> <<>>], s).kept
  IN  IF kept = <<>> THEN Lines(s)
      ELSE Capped(kept, 60, "more diagnostics") \o Note("lines of linter output", Len(s))

NpmScript(t) ==
  LET s == Where(t, LAMBDA i : t[i] \notin IsBoilerplateLine \cup {""})
  IN  IF Len(s) <= 30 THEN Lines(s)
      ELSE IF LooksLikeLintOutput(t, s) THEN FilterLintPassthrough(t, s)
      ELSE ImportantAndTail(t, s, {"error", "warning", "1 failed", "success", "done in 2s",
                                   "10:5 error"})
NpmRun(t) == ScriptOutput(t, NpmScript)

PnpmScript(t) ==
  IF Len(t) <= 20 THEN Whole(t)
  ELSE ImportantAndTail(t, Every(t),
                        {"error", "warning", "1 failed", "success", "done in 2s",
                         "npm WARN", "10:5 error", "compiled"})
PnpmRun(t) == ScriptOutput(t, PnpmScript)

(* npm audit: a package is named by the nearest line above its severity that  *)
(* is no detail, which may be the severity of another.                         *)
NpmAudit(t) ==
  LET named(i) == LET above == {j \in 1..(i - 1) : t[j] \notin {"", "node_modules/a", "fix available"}}
                  IN  IF above = {} THEN 0 ELSE Max(above)
      severe == Take(At(t, {"Severity: high"}), 15)
      out == Lines(Final(At(t, {"3 vulnerabilities", "10 vulnerabilities"}), 1))
               \o [j \in DOMAIN severe |-> <<"package", named(severe[j])>>]
      plain == Take(Where(t, LAMBDA i : t[i] \notin {"", "node_modules/a"}), 20)
  IN  IF Has(t, {"found 0 vulnerabilities", "10 vulnerabilities"})
      THEN Note("no vulnerabilities found", 0)
      ELSE IF out # <<>> THEN out ELSE OrWhole(Lines(plain), t)

NpmOutdated(t) ==
  LET head    == At(t, {"Package Current Latest"})
      filled  == Filled(t)
      rows    == Only(At(t, {"a 1.0 2.0", "b 1.0 1.1"}), LAMBDA i : i > head[1])
      entries == Take(rows, 40)
      of(k)   == Only(entries, LAMBDA i : t[i] = k)
  IN  IF filled = <<>> THEN Note("all packages up to date", 0)
      ELSE IF head = <<>>
      THEN Note("packages outdated", Len(Take(filled, 20))) \o Lines(Take(filled, 20))
      ELSE IF entries = <<>> THEN Note("all packages up to date", 0)
      ELSE Note("packages outdated", Len(entries)) \o Lines(of("a 1.0 2.0"))
             \o Capped(of("b 1.0 1.1"), 15, "more minor")

(***************************************************************************)
(* pip, poetry, uv.  An install that says that something is satisfied, and *)
(* nothing about an error, is reported by one word.                        *)
(***************************************************************************)
PipInstall(t) ==
  LET installed == Len(At(t, {"Successfully installed a"}))
      summary == Take(At(t, {"Requirement already satisfied", "ERROR:"}), 5)
      warnings == Lines(At(t, {"WARNING:", "ERROR:"}))
  IN  IF Has(t, {"Requirement already satisfied"}) /\ ~Has(t, {"ERROR:", "Failed to build"})
      THEN Note("ok (already satisfied)", 0)
      ELSE IF installed > 0 THEN warnings \o Note("pip install complete", installed)
      ELSE IF summary # <<>> THEN warnings \o Lines(summary) ELSE Whole(t)

PoetryInstall(t) ==
  LET installing == Len(At(t, {"- Installing a"}))
      operations == Final(At(t, {"Package operations: 1 install", "Package operations: 0 installs"}), 1)
      warnings == Lines(At(t, {"WARNING:", "ERROR:"}))
  IN  IF \/ Has(t, {"No dependencies to install"}) /\ ~Has(t, {"ERROR:", "failed", "WARNING:"})
         \/ Has(t, {"Package operations: 0 installs"}) /\ ~Has(t, {"ERROR:", "failed"})
      THEN Note("ok (up to date)", 0)
      ELSE IF operations # <<>> THEN warnings \o Lines(operations)
      ELSE IF installing > 0 THEN warnings \o Note("poetry install complete", installing)
      ELSE Whole(t)

PipList(t) ==
  LET json == At(t, {"{package}"})  rows == Filled(t)
  IN  IF json # <<>> THEN Note("packages installed", Len(json)) \o Capped(json, 200, "more packages")
      ELSE IF Len(rows) <= 50 THEN Whole(t) ELSE Capped(rows, 50, "more packages")
PipOther(t) == LET rows == Filled(t)
               IN  IF rows = <<>> THEN Whole(t) ELSE Lines(Final(rows, 1))

(* uv: downloads are collapsed to one mark, written before the next line kept.  *)
UvInstall(t) ==
  LET mark(a) == IF a.loads THEN Note("downloads omitted", 0) ELSE <<>>
      Step(a, i) ==
        CASE t[i] = "Downloading a" -> [a EXCEPT !.loads = TRUE]
          [] t[i] \in {"Using Python 3.12", "Creating virtual environment",
                       "Resolved 1 package", "Audited 1 packages in"} -> a
          [] OTHER -> [loads |-> FALSE, out |-> a.out \o mark(a) \o <<Line(i)>>]
      z == Scan(Step, [loads |-> FALSE, out |-> <<>>], t)
  IN  z.out \o mark(z)

(***************************************************************************)
(* python: by what the output looks like, else a long output is kept from  *)
(* its traceback on.                                                       *)
(***************************************************************************)
IsTabular(t) ==
  LET s == Take(Filled(t), 10)
      of(k) == Len(Only(s, LAMBDA i : t[i] = k))
  IN  Len(s) >= 3 /\ (of("a | b | c") >= Len(s) \div 2 \/ of("a,b") = Len(s))
FilterTabular(t) ==
  LET s == Filled(t)
  IN  Lines(Take(s, 11)) \o (IF Len(s) > 11 THEN Note("total rows", Len(s) - 1) ELSE <<>>)
FilterDocx(t) == LET s == Where(t, LAMBDA i : t[i] \notin {"", "style="})
                 IN  Capped(s, 50, "more paragraphs") \o Note("paragraphs total", Len(s))
FilterExcel(t) ==
  LET first == At(t, {"Row 1"})
      sheet == {"Sheet workbook", "sheetnames"}
      rows  == Where(t, LAMBDA i : first # <<>> /\ i >= first[1] /\ t[i] \notin sheet \cup {""})
      info  == Where(t, LAMBDA i : t[i] # "" /\ ~Contains(rows, i))
  IN  OrWhole(Lines(info \o Take(rows, 10))
                \o (IF Len(rows) > 10 THEN Note("total rows", Len(rows)) ELSE <<>>), t)
FilterPptx(t) ==
  LET slides == At(t, {"Slide 1"})
      next(j) == IF j = Len(slides) THEN Len(t) + 1 ELSE slides[j + 1]
      bullets(j) == Where(t, LAMBDA i : i \in (slides[j] + 1)..(next(j) - 1)
                                          /\ t[i] \notin {"", "placeholder"})
      shown == Take(slides, 20)
      slide(j) == Lines(<<slides[j]>> \o Take(bullets(j), 10))
      \* From the 21st slide on the 20th is still the current one, and every
      \* later header writes it again with no bullets.
      again == IF Len(slides) > 20 THEN [j \in 1..(Len(slides) - 20) |-> Line(slides[20])] ELSE <<>>
  IN  FlattenSeq([j \in DOMAIN shown |-> slide(j)]) \o again
        \o More(slides, 20, "more slides") \o Note("slides total", Len(slides))
Python(t) ==
  LET from == At(t, {"Traceback"})
  IN  IF Has(t, {".pptx"}) /\ Has(t, {"Slide 1"}) THEN FilterPptx(t)
      ELSE IF Has(t, {".docx"}) /\ Has(t, {"Paragraph"}) THEN FilterDocx(t)
      ELSE IF Has(t, {"openpyxl", "Sheet workbook"}) THEN FilterExcel(t)
      ELSE IF IsTabular(t) THEN FilterTabular(t)
      ELSE IF Len(t) <= 50 THEN Whole(t)
      ELSE IF from # <<>> THEN Lines(Where(t, LAMBDA i : i >= from[1]))
      ELSE Note("summarized", Len(t))

(***************************************************************************)
(* brew: an install keeps its caveats whole, to the next "==>".             *)
(***************************************************************************)
BrewInstall(t) ==
  LET result == {"==> Pouring", "Warning:", "Error:", "already installed", "installed to"}
      Step(a, i) ==
        LET in == IF t[i] = "==> Caveats" THEN TRUE ELSE a.in /\ t[i] \notin {"==> Pouring", "==> Downloading"}
        IN  [in |-> in, out |-> IF in \/ t[i] \in result THEN Append(a.out, Line(i)) ELSE a.out]
  IN  OrWhole(Scan(Step, [in |-> FALSE, out |-> <<>>], t).out, t)
BrewUninstall(t) == Lines(At(t, {"Uninstalling a", "Error:"}))
BrewUpdate(t) == OrNote(Lines(At(t, {"Updated 1 tap", "==> New", "Error:", "Warning:", " indented"})),
                        "brew update complete")
BrewList(t) == LET rows == Filled(t)
               IN  IF Len(rows) <= 40 THEN Whole(t) ELSE Capped(rows, 40, "more packages")
BrewInfo(t) ==
  LET end == At(t, {"==> Analytics"})
      s   == Where(t, LAMBDA i : end = <<>> \/ i < end[1])
      plain == Take(Only(s, LAMBDA i : t[i] # "==> Caveats"), 20)
  IN  OrWhole(Lines(Only(s, LAMBDA i : t[i] = "==> Caveats" \/ Contains(plain, i))), t)

(***************************************************************************)
(* prisma: an error hides everything else; with nothing recognised each    *)
(* command reports that it completed.                                      *)
(***************************************************************************)
PrismaGenerate(t) ==
  IF Has(t, {"Error"}) THEN Lines(At(t, {"Error"}))
  ELSE OrNote(Lines(At(t, {"Generated"}) \o Take(At(t, {"warn"}), 3)), "generate complete")
PrismaMigrate(t) ==
  LET files == At(t, {"migration.sql"})
  IN  IF Has(t, {"Error"}) THEN Lines(At(t, {"Error"}))
      ELSE OrNote(Counted("migrations applied", Len(files)) \o Capped(files, 5, "more")
                    \o Lines(Final(At(t, {"in sync"}), 1)), "migrate complete")
PrismaPush(t) == OrNote(Lines(At(t, {"in sync", "Error", "Generated"})), "db push complete")
PrismaSeed(t) == OrNote(Lines(LastFilled(t)), "seed complete")
PrismaStudio(t) == LET up == At(t, {"http://localhost"})
                   IN  IF up # <<>> THEN Lines(Take(up, 1))
                       ELSE OrNote(Lines(Final(Every(t), 1)), "studio started")
PrismaValidate(t) == OrNote(Lines(Take(At(t, {"Error"}), 1)), "Schema is valid.")
PrismaFormat(t) == IF Has(t, {"a.prisma"}) THEN Note("files formatted", Len(At(t, {"a.prisma"})))
                   ELSE Note("Already formatted.", 0)
PrismaOther(t) ==
  LET s == Filled(t)
  IN  IF Len(s) <= 10 THEN Whole(t)
      ELSE Dedup(Lines(At(t, {"Error", "warn", "Generated"})) \o Lines(Final(s, 5)), t)
=============================================================================
