---------------------------- MODULE TestRunners ----------------------------
(***************************************************************************)
(* What the handlers of the test runners return for an output.             *)
(***************************************************************************)
EXTENDS Lines

(***************************************************************************)
(* The loop the text filters of the runners share.  A line of r.keep is    *)
(* kept, and ends a failure block when r.ends; a line of r.open is kept and *)
(* opens one, of which the next r.limit lines are kept (with a mark for the *)
(* rest when r.cut); a line of r.close closes it once r.min of its lines    *)
(* have been counted; outside blocks the lines of r.last are kept.          *)
(***************************************************************************)
FailureBlocks(t, r) ==
  LET Step(a, i) ==
        LET k     == t[i]
            add   == [a EXCEPT !.out = Append(@, Line(i))]
            inner == IF a.n < r.limit THEN [add EXCEPT !.n = @ + 1]
                     ELSE IF r.cut /\ a.n = r.limit
                     THEN [a EXCEPT !.out = @ \o Note("truncated", 0), !.n = @ + 1]
                     ELSE a
        IN  IF k \in r.keep THEN [add EXCEPT !.in = @ /\ ~r.ends]
            ELSE IF k \in r.open THEN [add EXCEPT !.in = TRUE, !.n = 0]
            ELSE IF a.in THEN [inner EXCEPT !.in = ~(k \in r.close /\ inner.n > r.min)]
            ELSE IF k \in r.last THEN add ELSE a
  IN  Scan(Step, [out |-> <<>>, in |-> FALSE, n |-> 0], t).out

PytestRules == [keep |-> {"FAILED", "ERROR"}, ends |-> FALSE, open |-> {"____"}, limit |-> 3,
                cut |-> TRUE, close |-> {"=== end", "== 1 failed =="}, min |-> 0,
                last |-> {"== 1 failed ==", "1 failed in 2s"}]

(* The first ten unexpected passes and the first ten expected failures are   *)
(* taken out of the loop and put before everything else; the eleventh is a   *)
(* line like any other.                                                      *)
Pytest(t) ==
  LET xp   == Take(At(t, {"XPASSED"}), 10)
      xf   == Take(At(t, {"XFAILED"}), 10)
      rest == Where(t, LAMBDA i : ~Contains(xp \o xf, i))
      out  == FailureBlocks([j \in DOMAIN rest |-> t[rest[j]]], PytestRules)
      back == [j \in DOMAIN out |->
                 IF out[j][1] = "line" THEN Line(rest[out[j][2]]) ELSE out[j]]
  IN  OrWhole(Lines(xp \o xf) \o back, t)

(* The JSON report of jest and vitest: a count of the passed tests, of the   *)
(* failed ones and of the skipped ones, and the names of five failures.      *)
JsReport == {"{passed}", "{failed}", "{skipped}"}
ParseJsTestJson(t) ==
  LET failed  == At(t, {"{failed}"})
      skipped == At(t, {"{skipped}"})
      summary == Note("Tests: passed", Len(At(t, {"{passed}"})))
                   \o Counted("FAILED", Len(failed)) \o Counted("skipped", Len(skipped))
  IN  summary \o Capped(failed, 5, "more failures")

JsText(t, r) == OrWhole(FailureBlocks(t, r), t)
JestRules == [keep |-> {"FAIL"}, ends |-> TRUE, open |-> {"bullet"}, limit |-> 15, cut |-> TRUE,
              close |-> {""}, min |-> 2, last |-> {"Tests: 1 failed", "Tests: 1 passed"}]
VitestRules == [keep |-> {"FAIL"}, ends |-> TRUE, open |-> {"bullet"}, limit |-> 5,
                cut |-> FALSE, close |-> {""}, min |-> 1,
                last |-> {"Tests: 1 failed", "Tests: 1 passed"}]
Jest(t) == IF Has(t, JsReport) THEN ParseJsTestJson(t) ELSE JsText(t, JestRules)
Vitest(t) == IF Has(t, JsReport) THEN ParseJsTestJson(t) ELSE JsText(t, VitestRules)

(***************************************************************************)
(* cargo test: with a failed test the names of ten, the first ten blocks   *)
(* of the sections that "failures:" opens, and the results summed over the *)
(* suites; with none the sum alone.                                        *)
(***************************************************************************)
SumOfResults(t) ==
  LET ok == Len(At(t, {"result: ok"}))  failed == Len(At(t, {"result: FAILED"}))
  IN  IF ok + failed = 0 THEN <<>>
      ELSE Note("cargo test: passed", ok) \o Counted("failed", failed)

FailureSections(t) ==
  LET Step(a, i) ==
        IF t[i] = "failures:" THEN [a EXCEPT !.in = TRUE]
        ELSE IF t[i] \in {"result: ok", "result: FAILED"} THEN [a EXCEPT !.in = FALSE]
        ELSE IF ~a.in THEN a
        ELSE IF t[i] = "" THEN [a EXCEPT !.open = FALSE]
        ELSE IF a.open THEN a ELSE [a EXCEPT !.open = TRUE, !.heads = Append(@, i)]
  IN  Scan(Step, [in |-> FALSE, open |-> FALSE, heads |-> <<>>], t).heads

CargoTest(t) ==
  LET names == At(t, {"test ... FAILED"})
  IN  IF names = <<>> THEN OrWhole(SumOfResults(t), t)
      ELSE Capped(names, 10, "more failures")
             \o [j \in DOMAIN Take(FailureSections(t), 10) |-> <<"block", FailureSections(t)[j]>>]
             \o SumOfResults(t)

(* cargo nextest run: every FAIL line, with the captured output that the last *)
(* "--- STDOUT" section of its test holds, and the last summary.               *)
StdoutOf == [k \in {"FAIL a", "FAIL b"} |->
               IF k = "FAIL a" THEN "--- STDOUT a" ELSE "--- STDOUT b"]
Nextest(t) ==
  LET fails   == At(t, DOMAIN StdoutOf)
      summary == Final(At(t, {"Summary"}), 1)
      headers == {StdoutOf[k] : k \in DOMAIN StdoutOf}
      details(f) == Where(t, LAMBDA i : /\ t[i] = StdoutOf[t[f]]
                                        /\ i < Len(t) /\ t[i + 1] \notin headers)
  IN  IF fails \o summary = <<>> THEN Whole(t)
      ELSE FlattenSeq([j \in DOMAIN fails |-> <<Line(fails[j])>> \o
             [n \in DOMAIN Final(details(fails[j]), 1) |->
                <<"block", Last(details(fails[j]))>>]])
             \o Lines(summary)

(***************************************************************************)
(* go test.  With -json the events are lines: the outcome of a test, of its *)
(* package, an output line of the test that is running, and lines that are  *)
(* not JSON.  A failed test takes ten of the lines it printed.              *)
(***************************************************************************)
GoTestJson(t) ==
  LET Step(a, i) ==
        LET k == t[i]
            shown == Take(a.buf, 10)
            note(p, ok) == IF a.pass + a.fail + a.skip > 0
                           THEN Note(p, IF ok THEN a.pass ELSE a.fail) ELSE Note(p, 0)
        IN  CASE k = "panic" -> [a EXCEPT !.fails = Append(@, Line(i))]
              [] k = "{output}" -> [a EXCEPT !.buf = Append(@, i)]
              [] k = "{pass}" -> [a EXCEPT !.pass = @ + 1, !.buf = <<>>]
              [] k = "{skip}" -> [a EXCEPT !.skip = @ + 1, !.buf = <<>>]
              [] k = "{fail}" ->
                   [a EXCEPT !.fail = @ + 1, !.buf = <<>>, !.any = TRUE,
                             !.fails = @ \o <<Line(i)>> \o Lines(shown)
                                         \o IF Len(shown) = 10 THEN Note("truncated", 0) ELSE <<>>]
              [] k = "{FAIL pkg}" -> [a EXCEPT !.any = TRUE, !.pkgs = @ \o note("FAIL pkg", FALSE)]
              [] k = "{ok pkg}" -> [a EXCEPT !.pkgs = @ \o note("ok pkg", TRUE)]
              [] OTHER -> a
      z == Scan(Step, [fails |-> <<>>, pkgs |-> <<>>, buf |-> <<>>, any |-> FALSE,
                       pass |-> 0, fail |-> 0, skip |-> 0], t)
      out == z.fails \o z.pkgs
      clean == ~z.any /\ z.fails = <<>>
  IN  IF z.pass = 0 /\ (clean \/ out = <<>>) THEN Note("all tests passed", 0)
      ELSE out \o Counted("tests passed", z.pass)

GoNoise == {"=== RUN", "PASS", "coverage:"}
GoFailed == {"--- FAIL", "FAIL pkg"}
GoStep(t, a, i) ==
  LET k   == t[i]
      add == [a EXCEPT !.out = Append(@, Line(i))]
      inner == IF a.n < 10 THEN [add EXCEPT !.n = @ + 1]
               ELSE IF a.n = 10 THEN [a EXCEPT !.out = @ \o Note("truncated", 0), !.n = 11]
               ELSE a
  IN  IF k \in GoNoise THEN a
      ELSE IF k = "--- PASS" THEN [a EXCEPT !.pass = @ + 1, !.in = FALSE]
      ELSE IF k \in GoFailed THEN [add EXCEPT !.bad = TRUE, !.in = TRUE, !.n = 0]
      ELSE IF k = "panic" THEN [add EXCEPT !.bad = TRUE]
      ELSE IF a.in THEN [inner EXCEPT !.in = ~(k = "" /\ inner.n > 2)]
      ELSE IF k \in {"ok pkg", "error"} THEN add ELSE a
GoTest(t) ==
  LET firstLine == Take(Filled(t), 1)
      z == Scan(LAMBDA a, i : GoStep(t, a, i),
                [out |-> <<>>, in |-> FALSE, n |-> 0, pass |-> 0, bad |-> FALSE], t)
  IN  IF firstLine # <<>> /\ t[firstLine[1]] \in {"{output}", "{pass}", "{fail}", "{skip}",
                                                 "{FAIL pkg}", "{ok pkg}"}
      THEN GoTestJson(t)
      ELSE IF ~Has(t, GoFailed) /\ Has(t, {"ok pkg"}) THEN Lines(At(t, {"ok pkg"}))
      ELSE IF ~z.bad /\ z.out = <<>> THEN Note("all tests passed", 0)
      ELSE z.out \o Counted("tests passed", z.pass)

(***************************************************************************)
(* playwright test: each failure header with at most eight lines of its    *)
(* error, which a blank line or the next header ends; without a failure a   *)
(* summary of what was counted.                                            *)
(***************************************************************************)
PlaywrightStep(t, a, i) ==
  LET k == t[i] IN
  CASE k = "x spec" -> [a EXCEPT !.out = (IF a.in THEN @ \o a.detail ELSE @) \o <<Line(i)>>,
                                 !.detail = IF a.in THEN <<>> ELSE @, !.in = TRUE]
    [] k = "" /\ a.in /\ a.detail # <<>> ->
         [a EXCEPT !.out = @ \o a.detail, !.detail = <<>>, !.in = FALSE]
    [] k = "Error:" /\ a.in /\ Len(a.detail) < 8 ->
         [a EXCEPT !.detail = Append(@, Line(i))]
    [] k = "1 flaky" -> [a EXCEPT !.out = Append(@, Line(i))]
    [] OTHER -> a
Playwright(t) ==
  LET z == Scan(LAMBDA a, i : PlaywrightStep(t, a, i),
                [out |-> <<>>, detail |-> <<>>, in |-> FALSE], t)
      found == z.out \o z.detail
      counts == Lines(Final(At(t, {"1 failed"}), 1) \o Final(At(t, {"1 passed"}), 1)
                        \o Final(At(t, {"1 skipped"}), 1))
      ran == Lines(Final(At(t, {"Running 3 tests"}), 1))
  IN  IF found # <<>> THEN found \o counts \o ran
      ELSE IF Has(t, {"1 passed", "1 skipped"})
      THEN Lines(Final(At(t, {"1 passed"}), 1) \o Final(At(t, {"1 skipped"}), 1)) \o ran
      ELSE OrNote(ran, "All tests passed")

(* dotnet test: failed tests, their messages and five lines of each trace.  *)
DotnetTest(t) ==
  LET Step(a, i) ==
        LET k == t[i]  add == [a EXCEPT !.out = Append(@, Line(i))] IN
        IF k \in {"Failed", "Error Message:"} THEN [add EXCEPT !.in = FALSE]
        ELSE IF k = "Stack Trace:" THEN [add EXCEPT !.in = TRUE, !.n = 0]
        ELSE IF a.in THEN [add EXCEPT !.n = @ + 1, !.in = a.n + 1 < 5]
        ELSE IF k = "Failed: 1, Passed: 2" THEN add ELSE a
  IN  OrWhole(Scan(Step, [out |-> <<>>, in |-> FALSE, n |-> 0], t).out, t)

(***************************************************************************)
(* rspec and rake: an opening line starts a block, which ends after max of  *)
(* its lines, or at a blank one when more than two have been counted; the   *)
(* opening line itself counts as first of them.  Outside blocks only the    *)
(* summary lines stay.                                                      *)
(***************************************************************************)
BlocksStep(t, open, first, max, last, a, i) ==
  LET k   == t[i]
      add == [a EXCEPT !.out = Append(@, Line(i))]
  IN  IF k = open THEN [add EXCEPT !.in = TRUE, !.n = first]
      ELSE IF a.in THEN [add EXCEPT !.n = @ + 1,
                                    !.in = ~(a.n + 1 >= max \/ (k = "" /\ a.n + 1 > 2))]
      ELSE IF k \in last THEN add ELSE a
CountedBlocks(t, open, first, max, last) ==
  OrWhole(Scan(LAMBDA a, i : BlocksStep(t, open, first, max, last, a, i),
               [out |-> <<>>, in |-> FALSE, n |-> 0], t).out, t)

(* The JSON report is looked for at the last brace of the output, which      *)
(* opens an inner object: it is one line of text, kept for the words of its  *)
(* summary.                                                                  *)
Rspec(t) == CountedBlocks(t, "Failure/Error:", 1, 10, {"1 example, 1 failure", "{json report}"})
Rake(t) == CountedBlocks(t, "1) Failure:", 0, 12, {"1 runs, 1 failures", "rake aborted!"})

SwiftTest(t) ==
  OrWhole(Lines(At(t, {"Test Case failed", "XCTAssert", "Executed 2 tests"})), t)

(***************************************************************************)
(* mvn: errors with the lines that follow them, warnings, test totals and  *)
(* fifteen lines of each surefire block; the verdict is added when no kept  *)
(* line states it.                                                         *)
(***************************************************************************)
Verdict(t, out, verdict) ==
  IF Has(t, {verdict}) /\ \A j \in DOMAIN out : out[j][1] # "line" \/ t[out[j][2]] # verdict
  THEN Note(verdict, 0) ELSE <<>>

MavenStep(t, a, i) ==
  LET k   == t[i]
      add == [a EXCEPT !.out = Append(@, Line(i))]
      inner == IF a.n < 15 THEN [add EXCEPT !.n = @ + 1]
               ELSE IF a.n = 15
               THEN [a EXCEPT !.out = @ \o Note("truncated", 0), !.n = 16] ELSE a
  IN  CASE k = "[INFO] Downloading" -> a
        [] k = "[ERROR]" -> [add EXCEPT !.err = TRUE]
        [] k = "Tests run: 2, Failures: 1" -> add
        [] k = "FAILED" -> [add EXCEPT !.in = TRUE, !.n = 0]
        [] a.in /\ k \in {"", "text", "[WARNING]", "[INFO] BUILD SUCCESS",
                          "[INFO] BUILD FAILURE"} -> [inner EXCEPT !.in = k # ""]
        [] ~a.in /\ k = "[WARNING]" -> add
        [] ~a.in /\ k \in {"", "text"} -> IF a.err THEN add ELSE a
        [] ~a.in /\ k \in {"[INFO] BUILD SUCCESS", "[INFO] BUILD FAILURE"} ->
             [add EXCEPT !.err = FALSE]
        [] OTHER -> a
Maven(t) ==
  LET out == Scan(LAMBDA a, i : MavenStep(t, a, i),
                  [out |-> <<>>, in |-> FALSE, n |-> 0, err |-> FALSE], t).out
      added == Verdict(t, out, "[INFO] BUILD SUCCESS")
  IN  IF out = <<>> THEN Whole(t)
      ELSE out \o IF added # <<>> THEN added ELSE Verdict(t, out, "[INFO] BUILD FAILURE")

(* gradle: failed tasks, compiler messages, ten lines of each failure section, *)
(* and a count in place of the tasks that were up to date.  A blank line is    *)
(* skipped before it could end a section.                                      *)
Gradle(t) ==
  LET Step(a, i) ==
        LET k   == t[i]
            add == [a EXCEPT !.out = Append(@, Line(i))]
        IN  IF k \in {"", "> Task", "> Task UP-TO-DATE"} THEN a
            ELSE IF k \in {"> Task FAILED", ": error:"} THEN add
            ELSE IF k = "FAILURE:" THEN [add EXCEPT !.in = TRUE, !.n = 0]
            ELSE IF a.in THEN [(IF a.n < 10 THEN [add EXCEPT !.n = @ + 1] ELSE a)
                                 EXCEPT !.in = k # "* Get more help"]
            ELSE IF k \in {"FAILED", "BUILD SUCCESSFUL", "BUILD FAILED"} THEN add ELSE a
      out == Scan(Step, [out |-> <<>>, in |-> FALSE, n |-> 0], t).out
               \o Counted("tasks UP-TO-DATE", Len(At(t, {"> Task UP-TO-DATE"})))
  IN  IF out # <<>> THEN out \o Verdict(t, out, "BUILD SUCCESSFUL")
      ELSE Whole(t)

(***************************************************************************)
(* ember test: five of the "not ok" lines, each with the diagnostics up to *)
(* the next result, blank line or TAP count, eight lines at most; without   *)
(* one, the counted passes.                                                *)
(***************************************************************************)
EmberTest(t) ==
  LET bad == At(t, {"not ok"})
      ends(i) == Where(t, LAMBDA j : j > i /\ t[j] \in {"ok", "not ok", "", "# pass 1", "# fail 1"})
      to(i) == Min({i + 8, (IF ends(i) = <<>> THEN Len(t) + 1 ELSE ends(i)[1]) - 1})
      block(i) == Lines(Where(t, LAMBDA j : j \in i..to(i) /\ t[j] # "---"))
      passes == Final(At(t, {"# pass 1"}), 1)  fails == Final(At(t, {"# fail 1"}), 1)
  IN  IF bad = <<>>
      THEN IF passes # <<>> THEN Note("Ember Tests: passed", 1) ELSE Note("all tests passed", 0)
      ELSE FlattenSeq([j \in DOMAIN Take(bad, 5) |-> block(bad[j])])
             \o More(bad, 5, "more failures")
             \o IF passes # <<>> /\ fails # <<>> THEN Lines(passes \o fails) ELSE <<>>
============================================================================
