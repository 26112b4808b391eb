----------------------------- MODULE BuildTools -----------------------------
(***************************************************************************)
(* What the handlers of compilers, bundlers and build systems return for   *)
(* an output.                                                              *)
(***************************************************************************)
EXTENDS Lines

(***************************************************************************)
(* cargo build, check and clippy.  An error is a record of its message and *)
(* whether it has a location (a plain-text line has none); errors are       *)
(* grouped by message in order of first appearance, eight groups are shown, *)
(* and a total follows when there is more than one message or more than two *)
(* errors.  From three warnings on they are grouped by their lint.          *)
(***************************************************************************)
CargoErrors == {"error A", "error B", "plain error"} \cup {"error 1", "error 2", "error 3",
                "error 4", "error 5", "error 6", "error 7", "error 8", "error 9"}

GroupClippyWarnings(t, K) ==
  LET ws      == At(t, K)
      rules   == FirstOf(t, K \ {"warning"})
      group(i) == Take(At(t, {t[i]}), 3)
  IN  IF Len(ws) < 3 THEN Lines(ws)
      ELSE FlattenSeq([j \in DOMAIN rules |->
              << <<t[rules[j]], Len(At(t, {t[rules[j]]}))>> >> \o Lines(group(rules[j]))])
             \o Lines(At(t, {"warning"}))

CargoBuild(t) ==
  LET errors == At(t, CargoErrors)
      unique == FirstOf(t, CargoErrors)
      entry(i) == <<t[i], IF t[i] = "plain error" THEN 0 ELSE Len(At(t, {t[i]}))>>
      warns  == At(t, {"warning", "warning [x]", "warning [y]"})
      finished == Final(At(t, {"finished ok", "finished failed"}), 1)
      out == [j \in DOMAIN Take(unique, 8) |-> entry(unique[j])]
               \o More(unique, 8, "more unique errors")
               \o (IF Len(unique) > 1 \/ Len(errors) > 2
                   THEN Note("total locations", Len(errors)) ELSE <<>>)
               \o Counted("warnings", Len(warns))
               \o GroupClippyWarnings(t, {"warning", "warning [x]", "warning [y]"})
      verdict == IF finished = <<>> THEN <<>>
                 ELSE IF t[finished[1]] = "finished ok"
                 THEN IF out = <<>> THEN Note("Build OK", 0) ELSE <<>>
                 ELSE IF unique = <<>> THEN Note("Build FAILED", 0) ELSE <<>>
  IN  OrWhole(out \o verdict, t)

(* go build keeps the lines that name a place; go vet twenty of them, with a *)
(* total, and reports success when there is none; go run keeps a long output *)
(* from its panic on.                                                        *)
GoBuild(t) == IF \A i \in DOMAIN t : t[i] = "" THEN Note("build OK", 0)
              ELSE OrWhole(Lines(At(t, {"x.go:1: undefined"})), t)
GoVet(t) ==
  LET diags == At(t, {"x.go:1: undefined"})
  IN  IF diags = <<>> THEN Note("go vet: ok", 0)
      ELSE Capped(diags, 20, "more") \o Note("vet issues", Len(diags))
GoRun(t) ==
  LET from(K) == Lines(Where(t, LAMBDA i : At(t, K) # <<>> /\ i >= At(t, K)[1]))
  IN  IF Len(t) <= 50 THEN Whole(t)
      ELSE IF Has(t, {"goroutine 1 [running]:"}) THEN from({"goroutine 1 [running]:"})
      ELSE IF Has(t, {"panic:"}) THEN from({"panic:"})
      ELSE Note("summarized", Len(t))
GoModGraph(t) ==
  LET mods == FirstOf(t, {"a x", "b x"})
  IN  IF mods = <<>> THEN Note("go mod graph: empty", 0)
      ELSE [j \in DOMAIN mods |-> <<t[mods[j]], Len(At(t, {t[mods[j]]}))>>]
             \o Note("deps across", Len(At(t, {"a x", "b x"})))
GoMod(t) == OrNote(Lines(Take(At(t, {"error", "go: "}), 20)), "go mod complete")

(* dotnet build and restore.  *)
DotnetBuild(t) ==
  LET codes == FirstOf(t, {"warning CS1", "warning CS2"})
      count(i) == Len(At(t, {t[i]}))
      ranked == SortSeq(codes, LAMBDA i, j : count(i) > count(j))
  IN  IF Has(t, {"Build succeeded"}) /\ Has(t, {"0 Warning(s) 0 Error(s)"})
      THEN Note("Build succeeded.", 0)
      ELSE OrWhole(Lines(At(t, {"error CS"}))
                     \o [j \in DOMAIN ranked |-> <<t[ranked[j]], count(ranked[j])>>]
                     \o Lines(At(t, {"Build succeeded", "Build FAILED", "1 Error(s)",
                                     "0 Warning(s) 0 Error(s)"})), t)
DotnetRestore(t) ==
  IF Has(t, {": error NU", "MSBUILD : error"})
  THEN OrWhole(Lines(At(t, {": error NU", "MSBUILD : error"})), t)
  ELSE Note("restore complete", Len(At(t, {"Restored"})))

(* swift build, run and package.  *)
SwiftBuild(t) ==
  LET important == At(t, {"x.swift:1: error:", "x.swift:1: warning:"})
      complete  == Take(At(t, {"Build complete"}), 1)
  IN  IF Len(t) <= 3 THEN Whole(t)
      ELSE IF important # <<>> THEN Capped(important, 20, "more errors")
      ELSE OrWhole(Lines(complete), t)
SwiftRun(t) ==
  LET fatal == At(t, {"Fatal error:"})
  IN  IF Len(t) <= 30 \/ fatal = <<>> THEN Whole(t)
      ELSE Lines(Where(t, LAMBDA i : i >= fatal[1]))
SwiftPackage(t) == OrWhole(Lines(At(t, {"Fetching", "error", "text"})), t)

(***************************************************************************)
(* tsc: diagnostics grouped by runs of the same file, in a file by runs of *)
(* the same code; the configuration errors (TS5xxx) only counted.           *)
(***************************************************************************)
TsFile == [k \in {"a TS2339", "a TS2345", "b TS2339", "b TS5055"} |->
             IF k \in {"a TS2339", "a TS2345"} THEN "a" ELSE "b"]
TscStep(t, a, i) ==
  LET k     == t[i]
      fresh == TsFile[k] # a.file
      head  == IF fresh \/ ~a.headed THEN Note(TsFile[k], 0) ELSE <<>>
  IN  IF k \notin DOMAIN TsFile THEN a
      ELSE IF k = "b TS5055"
      THEN [a EXCEPT !.file = "b", !.headed = @ /\ ~fresh, !.code = IF fresh THEN "" ELSE @]
      ELSE IF ~fresh /\ k = a.code THEN [a EXCEPT !.out[Len(a.out)][2] = @ + 1]
      ELSE [file |-> TsFile[k], headed |-> TRUE, code |-> k, out |-> a.out \o head \o Note(k, 1)]
Tsc(t) ==
  LET z == Scan(LAMBDA a, i : TscStep(t, a, i),
                [file |-> "", headed |-> FALSE, code |-> "", out |-> <<>>], t)
  IN  IF Has(t, {"Found 0 errors"}) THEN Note("Build OK", 0)
      ELSE IF ~Has(t, DOMAIN TsFile) THEN Whole(t)
      ELSE z.out \o Counted("TS5xxx", Len(At(t, {"b TS5055"})))
             \o Note("errors", Len(At(t, DOMAIN TsFile)))

(***************************************************************************)
(* webpack: assets, then the error blocks (headers, and lines while fewer   *)
(* than ten are buffered), five lines of the warning blocks, the result.    *)
(* vite and turbo buffer their errors in the same way.                      *)
(***************************************************************************)
WebpackStep(t, a, i) ==
  LET k == t[i] IN
  CASE k = "webpack compiled" -> [a EXCEPT !.mode = ""]
    [] k = "ERROR in" -> [a EXCEPT !.mode = "e", !.eb = Append(@, i),
                                   !.warns = @ \o a.wb, !.wb = <<>>]
    [] k = "WARNING in" -> [a EXCEPT !.mode = "w", !.wb = Append(@, i),
                                     !.errs = @ \o a.eb, !.eb = <<>>]
    [] k = "" -> [a EXCEPT !.errs = IF a.mode = "e" THEN @ \o a.eb ELSE @,
                           !.eb = IF a.mode = "e" THEN <<>> ELSE @,
                           !.warns = IF a.mode = "w" THEN @ \o a.wb ELSE @,
                           !.wb = IF a.mode = "w" THEN <<>> ELSE @,
                           !.mode = ""]
    [] k \in {"asset", "text"} /\ a.mode = "e" ->
         IF Len(a.eb) < 10 THEN [a EXCEPT !.eb = Append(@, i)] ELSE a
    [] k \in {"asset", "text"} /\ a.mode = "w" ->
         IF Len(a.wb) < 5 THEN [a EXCEPT !.wb = Append(@, i)] ELSE a
    [] k = "asset" /\ a.mode = "" -> [a EXCEPT !.assets = Append(@, i)]
    [] OTHER -> a
Webpack(t) ==
  LET z == Scan(LAMBDA a, i : WebpackStep(t, a, i),
                [mode |-> "", eb |-> <<>>, wb |-> <<>>, errs |-> <<>>, warns |-> <<>>,
                 assets |-> <<>>], t)
      errs == z.errs \o z.eb
      result == Final(At(t, {"webpack compiled"}), 1)
  IN  IF errs \o z.assets \o result = <<>> THEN Whole(t)
      ELSE Lines(z.assets \o errs) \o Capped(z.warns \o z.wb, 5, "more warnings") \o Lines(result)

(* vite build: buffered errors (eight lines at a time), five warnings, and of   *)
(* more than fifteen assets the first five and the last two; vite dev keeps all *)
(* but the hot reloads, which it counts, and puts the errors last.              *)
ViteBuild(t) ==
  LET Step(a, i) ==
        LET k == t[i] IN
        CASE k \in {"vite v5", "modules transformed", "transforming"} -> a
          [] k = "error" -> [a EXCEPT !.in = TRUE, !.eb = Append(@, i)]
          [] a.in /\ k = "" -> [a EXCEPT !.in = FALSE, !.errs = @ \o a.eb, !.eb = <<>>]
          [] a.in /\ k \in {"warn", "1 kB", "built in", "text"} ->
               IF Len(a.eb) < 8 THEN [a EXCEPT !.eb = Append(@, i)] ELSE a
          [] ~a.in /\ k = "warn" -> IF Len(a.warns) < 5 THEN [a EXCEPT !.warns = Append(@, i)] ELSE a
          [] ~a.in /\ k = "1 kB" -> [a EXCEPT !.assets = Append(@, i)]
          [] ~a.in /\ k = "built in" -> [a EXCEPT !.done = <<i>>]
          [] OTHER -> a
      z == Scan(Step, [in |-> FALSE, eb |-> <<>>, errs |-> <<>>, warns |-> <<>>, assets |-> <<>>,
                       done |-> <<>>], t)
      errs == z.errs \o z.eb
      assets == IF Len(z.assets) <= 15 THEN Lines(z.assets)
                ELSE Lines(Take(z.assets, 5)) \o Note("more chunks", Len(z.assets) - 7)
                       \o Lines(Final(z.assets, 2))
  IN  IF errs \o z.assets \o z.done = <<>> THEN Whole(t)
      ELSE Lines(Final(At(t, {"vite v5"}), 1) \o Final(At(t, {"modules transformed"}), 1)
                   \o errs \o z.warns) \o assets \o Lines(z.done)
ViteDev(t) ==
  LET hmr == At(t, {"hmr update"})
      updates == IF Len(hmr) > 1 THEN Note("hmr", Len(hmr)) ELSE Lines(hmr)
  IN  OrWhole(Lines(Where(t, LAMBDA i : t[i] \notin {"", "hmr update", "error"})) \o updates
                \o Lines(At(t, {"error"})), t)

(* next build: with an error the errors and a count of the warnings (five at    *)
(* most are counted), without one the check marks that matter; next lint and    *)
(* the other subcommands.                                                       *)
NextBuild(t) ==
  LET errors == At(t, {"Error:", "Type error:"})
      warns  == Take(At(t, {"warn -"}), 5)
      marks  == At(t, {"done Compiled successfully", "done Collecting"})
      keys   == At(t, {"done Compiled successfully"})
      out    == Lines(IF keys # <<>> THEN keys ELSE Final(marks, 1))
                  \o (IF Has(t, {"static pages (2/2)"}) THEN Note("static pages", 2) ELSE <<>>)
                  \o Counted("warnings", Len(warns)) \o Lines(Take(warns, 3))
                  \o Lines(Final(At(t, {"Compiled in 2s"}), 1))
  IN  IF errors # <<>> THEN Lines(errors) \o Counted("warnings", Len(warns))
      ELSE OrNote(out, "Build complete")
NextLint(t) ==
  LET errors == At(t, {"Error:"})  warns == Take(At(t, {"Warning:"}), 10)
  IN  OrNote(Lines(errors) \o Counted("lint warnings", Len(warns)), "No lint errors found.")
NextDev(t) == OrWhole(Lines(At(t, {"Error:", "warn -", "ready"})), t)
NextOther(t) == IF Len(t) <= 20 THEN Whole(t)
                ELSE IF Has(t, {"Error:", "warn -", "ready"})
                THEN Lines(At(t, {"Error:", "warn -", "ready"}))
                ELSE Lines(Final(Every(t), 10))

(***************************************************************************)
(* make.  Unless a line shows an error, the compiler invocations are only  *)
(* counted and the last five other lines kept; with one, all but make's own *)
(* lines are.  An output that says nothing had to be done is replaced.      *)
(***************************************************************************)
MakeErrors == {"x.c:1: error:", "make: *** [x] Error 1", "make[1]: *** [x] Error 1"}
Make(t) ==
  LET idle   == Has(t, {"nothing to be done"}) /\ ~Has(t, MakeErrors)
      failed == Has(t, MakeErrors)
      kept   == Where(t, LAMBDA i : /\ t[i] \notin {"", "make[1]: *** [x] Error 1", "nothing to be done"}
                                 /\ (failed \/ t[i] # "gcc -c"))
  IN  IF idle THEN Note("make: ok (nothing to do)", 0)
      ELSE IF failed THEN OrWhole(Lines(kept), t)
      ELSE Lines(Final(kept, 5)) \o Note("make: complete", Len(At(t, {"gcc -c"})))

(* cmake: its flag, or else what the output looks like, decides between the two *)
(* filters.                                                                     *)
Cmake(t, flag) ==
  LET built == Len(At(t, {"[ 50%] Building"}))
      build == Counted("targets built", built)
                 \o Lines(At(t, {": error:", "x.c: warning:", "make[1]: Error", "CMake Error"}))
      configure == Lines(At(t, {"CMake Error", "CMake Warning", "-- Configuring done"}))
      configures == Has(t, {"-- Looking for", "-- Configuring done"})
  IN  IF flag = "--build" \/ (built > 0 /\ ~configures) THEN OrWhole(build, t)
      ELSE IF flag = "-B" \/ configures THEN OrWhole(configure, t)
      ELSE Whole(t)

(* bazel build, test and query.  *)
BazelStep(t, a, i) ==
  CASE t[i] = "Target //x up-to-date:" -> [in |-> TRUE, out |-> Append(a.out, i)]
    [] t[i] = "  bazel-bin/x" -> IF a.in THEN [a EXCEPT !.out = Append(@, i)] ELSE a
    [] OTHER -> [a EXCEPT !.in = FALSE]
BazelBuild(t) ==
  LET errors  == At(t, {"ERROR:"})
      targets == Scan(LAMBDA a, i : BazelStep(t, a, i), [in |-> FALSE, out |-> <<>>], t).out
      info    == Final(At(t, {"INFO: Build completed"}), 1) \o Final(At(t, {"INFO: Elapsed"}), 1)
  IN  IF errors \o targets = <<>> /\ Len(info) = 2 THEN Note("build OK", 0)
      ELSE OrWhole(Lines(errors \o targets \o info), t)
BazelTest(t) ==
  LET failed == At(t, {"//x FAILED"})
  IN  Lines(failed \o At(t, {"see test.log"}))
        \o Note("passed", Len(At(t, {"//x PASSED"}))) \o Note("failed", Len(failed))
BazelQuery(t) == Capped(Filled(t), 30, "more targets")

(***************************************************************************)
(* turbo: the cache status of each task, its errors, and the block from    *)
(* "Tasks:" to "Time:".                                                     *)
(***************************************************************************)
TurboStep(t, a, i) ==
  LET k == t[i] IN
  IF k = "scope" THEN [a EXCEPT !.scope = Append(@, i)]
  ELSE IF a.sum \/ k \in {"Tasks:", "Time:"}
  THEN [a EXCEPT !.tail = Append(@, i), !.sum = k # "Time:"]
  ELSE CASE k = "web:build: cache hit" -> [a EXCEPT !.tasks = Append(@, i), !.in = FALSE]
         [] k = "web:build: error" -> [a EXCEPT !.in = TRUE, !.eb = Append(@, i)]
         [] k = "web:build: text" /\ a.in ->
              IF Len(a.eb) < 8 THEN [a EXCEPT !.eb = Append(@, i)] ELSE a
         [] OTHER -> a
Turbo(t) ==
  LET z == Scan(LAMBDA a, i : TurboStep(t, a, i),
                [scope |-> <<>>, tasks |-> <<>>, tail |-> <<>>, eb |-> <<>>, in |-> FALSE,
                 sum |-> FALSE], t)
  IN  IF z.tasks \o z.eb \o z.tail = <<>> THEN Whole(t)
      ELSE Lines(z.scope \o z.tasks \o z.eb \o z.tail)

(***************************************************************************)
(* nx: a task is its header and the lines up to the next header or summary. *)
(* A task with a line that looks like an error is shown whole, the others   *)
(* are counted, and so are those that came from the cache: once when the    *)
(* line that says so is read, once more when the task is closed.            *)
(***************************************************************************)
NxFlush(a) ==
  IF a.count = 0 THEN a
  ELSE [a EXCEPT !.out = @ \o Note("tasks passed", a.count) \o Note("cached", a.cached),
                 !.count = 0, !.cached = 0]
NxClose(t, a, final) ==
  LET hit == \E x \in DOMAIN a.lines : t[a.lines[x]] = "[local cache]"
      b == NxFlush(a)
  IN  IF ~a.in THEN a
      ELSE IF a.failing THEN [b EXCEPT !.out = @ \o Lines(a.lines), !.in = FALSE, !.lines = <<>>]
      ELSE [a EXCEPT !.count = @ + 1, !.cached = IF hit /\ ~final THEN @ + 1 ELSE @,
                     !.in = FALSE, !.lines = <<>>]
NxStep(t, a, i) ==
  LET k == t[i]  c == NxClose(t, a, FALSE)  f == NxFlush(c) IN
  IF k = "NX Cloud" THEN a
  ELSE IF k = "NX Ran 2 tasks" THEN [f EXCEPT !.out = Append(@, Line(i))]
  ELSE IF k = "> nx run" THEN [c EXCEPT !.in = TRUE, !.failing = FALSE, !.lines = <<i>>]
  ELSE IF ~a.in THEN [a EXCEPT !.out = Append(@, Line(i))]
  ELSE [a EXCEPT !.lines = Append(@, i), !.failing = @ \/ k = "error",
                 !.cached = IF k = "[local cache]" THEN @ + 1 ELSE @]
Nx(t) ==
  LET z == Scan(LAMBDA a, i : NxStep(t, a, i),
                [out |-> <<>>, count |-> 0, cached |-> 0, in |-> FALSE, failing |-> FALSE,
                 lines |-> <<>>], t)
  IN  IF ~Has(t, {"> nx run"}) THEN Whole(t) ELSE NxFlush(NxClose(t, z, TRUE)).out

(* ember build and serve.  *)
EmberBuild(t) ==
  OrWhole(Capped(At(t, {"x.ts:1"}), 40, "more errors")
            \o Lines(Final(At(t, {"Build successful", "Build failed"}), 1)), t)
EmberServe(t) == OrWhole(Lines(Take(At(t, {"Serving on"}), 1)), t)
============================================================================
