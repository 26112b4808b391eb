--------------------------- MODULE CommandOutput ---------------------------
(***************************************************************************)
(* panda run (ccr/src/cmd/run.rs) around a command that is not answered    *)
(* from the pre-run cache: the words are rewritten by the command's        *)
(* handler, the program runs and prints, the lines that the project's      *)
(* noise store has learned to be noise are removed, the handler filters    *)
(* what is left, and the store learns from the lines that went missing.    *)
(*                                                                         *)
(* A command is run again as many times as its record says, its store kept; *)
(* that the store forgets a line after thirty days and keeps 10,000 is left *)
(* out.  What a command prints is built from the blocks of lines in         *)
(* Commands.  A command with no handler, a text for panda filter and what   *)
(* the shell hook passes on go through the pipeline instead.                *)
(***************************************************************************)
EXTENDS CommandLine, Promises, Summaries

CONSTANTS
  Commands,         \* a function from a command's name to a record of
                    \*   typed   the words with which it prints in this way; none for
                    \*           a file of the read hook
                    \*   blocks  the sequences of lines it prints
                    \*   dotgit  the sets of files of .git it may meet
                    \*   runs    how often it is run
  Typed,            \* the words that users type, and the lines that agents run
  Similarities,     \* the similarities of an unknown command to a known one
  Unknown,          \* what is known of a text that only the pipeline filters: a record for
                    \*   each of these commands (see SummarizeSingle), without answers
  Reworded,         \* the commands whose lines are not written as they came
  MaxBlocks,
  PromoteMinCount   \* how often a line is seen before it may be noise

\* The entries of lines have the name "line"; no kind has it.
ASSUME CommandsAssumption ==
  \A c \in DOMAIN Commands : Commands[c].blocks \subseteq Seq(STRING \ {"line"})

VARIABLES typed, args, cmd, dotgit, text, blocks, out, noise, runs
vars == <<typed, args, cmd, dotgit, text, blocks, out, noise, runs>>

Running == <<"running", 0>>

(***************************************************************************)
(* The filter of a command.                                                *)
(***************************************************************************)
FilterTests(c, t) ==
  CASE c = "pytest" -> Pytest(t)             [] c \in {"jest", "bun test"} -> Jest(t)
    [] c = "vitest" -> Vitest(t)             [] c = "cargo test" -> CargoTest(t)
    [] c = "cargo nextest run" -> Nextest(t) [] c \in {"go test", "go test -json"} -> GoTest(t)
    [] c = "playwright test" -> Playwright(t) [] c = "dotnet test" -> DotnetTest(t)
    [] c = "rspec" -> Rspec(t)               [] c = "rake" -> Rake(t)
    [] c = "swift test" -> SwiftTest(t)      [] c = "mvn" -> Maven(t)
    [] c = "gradle" -> Gradle(t)             [] c = "ember test" -> EmberTest(t)
FilterBuilds(c, t) ==
  CASE c \in {"cargo build", "cargo check"} -> CargoBuild(t)    [] c = "go build" -> GoBuild(t)
    [] c = "go vet" -> GoVet(t)              [] c = "go run" -> GoRun(t)
    [] c = "go mod graph" -> GoModGraph(t)   [] c = "go mod tidy" -> GoMod(t)
    [] c = "dotnet build" -> DotnetBuild(t)  [] c = "dotnet restore" -> DotnetRestore(t)
    [] c = "swift build" -> SwiftBuild(t)    [] c = "swift run" -> SwiftRun(t)
    [] c = "swift package" -> SwiftPackage(t) [] c = "tsc" -> Tsc(t)
    [] c = "webpack" -> Webpack(t)           [] c = "vite build" -> ViteBuild(t)
    [] c = "vite" -> ViteDev(t)              [] c = "next build" -> NextBuild(t)
    [] c = "next dev" -> NextDev(t)          [] c = "next lint" -> NextLint(t)
    [] c = "next export" -> NextOther(t)     [] c = "make" -> Make(t)
    [] c = "cmake --build" -> Cmake(t, "--build") [] c = "cmake -B" -> Cmake(t, "-B")
    [] c = "cmake" -> Cmake(t, "")           [] c = "bazel build" -> BazelBuild(t)
    [] c = "bazel test" -> BazelTest(t)      [] c = "bazel query" -> BazelQuery(t)
    [] c = "turbo" -> Turbo(t)               [] c = "nx" -> Nx(t)
    [] c = "ember build" -> EmberBuild(t)    [] c = "ember serve" -> EmberServe(t)
FilterLints(c, t) ==
  CASE c \in {"golangci-lint run", "golangci-lint run json"} -> Golangci(t) [] c = "clippy" -> Clippy(t)
    [] c = "eslint" -> Eslint(t)             [] c = "stylelint" -> Stylelint(t)
    [] c = "ruff check" -> RuffCheck(t)      [] c = "ruff format" -> RuffFormat(t)
    [] c = "mypy" -> Mypy(t)                 [] c = "biome" -> Biome(t)
    [] c = "prettier --check" -> Prettier(t, "--check")
    [] c = "prettier --write" -> Prettier(t, "--write")
    [] c = "prettier" -> Prettier(t, "")     [] c = "rubocop" -> Rubocop(t)
FilterPackages(c, t) ==
  CASE c = "npm install" -> NpmInstall(t)    [] c = "pnpm install" -> PnpmInstall(t)
    [] c = "npm test" -> NpmTest(t)          [] c \in {"npm run", "npm run again", "npm run test"} -> NpmRun(t)
    [] c = "pnpm run" -> PnpmRun(t)          [] c = "npm audit" -> NpmAudit(t)
    [] c = "npm outdated" -> NpmOutdated(t)  [] c = "pip install" -> PipInstall(t)
    [] c = "poetry install" -> PoetryInstall(t) [] c \in {"pip list", "pip list json"} -> PipList(t)
    [] c = "pip show" -> PipOther(t)         [] c = "uv sync" -> UvInstall(t)
    [] c \in {"python", "python data", "python table"} -> Python(t)
    [] c = "brew install" -> BrewInstall(t)  [] c = "brew uninstall" -> BrewUninstall(t)
    [] c = "brew update" -> BrewUpdate(t)    [] c = "brew list" -> BrewList(t)
    [] c = "brew info" -> BrewInfo(t)        [] c = "prisma generate" -> PrismaGenerate(t)
    [] c = "prisma migrate" -> PrismaMigrate(t) [] c = "prisma db push" -> PrismaPush(t)
    [] c = "prisma db seed" -> PrismaSeed(t) [] c = "prisma studio" -> PrismaStudio(t)
    [] c = "prisma validate" -> PrismaValidate(t) [] c = "prisma format" -> PrismaFormat(t)
    [] c = "prisma" -> PrismaOther(t)
FilterServices(c, t) ==
  CASE c \in {"docker logs", "kubectl logs", "journalctl"} -> ServiceLogs(t)
    [] c = "curl" -> Curl(t)                 [] c = "jq" -> Jq(t)
    [] c = "json" -> Json(t)                 [] c = "docker ps" -> DockerPs(t)
    [] c = "docker images" -> DockerImages(t) [] c = "docker build" -> DockerBuild(t)
    [] c = "kubectl get" -> KubectlGet(t)    [] c = "kubectl get pods" -> KubectlGetPods(t)
    [] c = "kubectl describe" -> KubectlDescribe(t) [] c = "kubectl apply" -> KubectlChanges(t)
    [] c = "kubectl events" -> KubectlEvents(t) [] c = "helm list" -> HelmList(t)
    [] c = "helm install" -> HelmDeploy(t)   [] c = "helm uninstall" -> HelmUninstall(t)
    [] c = "helm status" -> HelmStatus(t)    [] c = "helm diff" -> HelmDiff(t)
    [] c = "helm template" -> HelmTemplate(t) [] c \in {"terraform plan", "terraform plan clean"} -> TerraformPlan(t)
    [] c = "terraform apply" -> TerraformApply(t) [] c = "terraform init" -> TerraformInit(t)
    [] c = "terraform validate" -> TerraformValidate(t)
    [] c = "terraform output" -> TerraformOutput(t)
    [] c = "terraform state list" -> TerraformStateList(t)
    [] c = "terraform state show" -> TerraformStateShow(t)
    [] c \in {"aws ec2", "aws error"} -> Aws(t)               [] c = "aws s3 ls" -> AwsS3Ls(t)
    [] c = "gh pr list" -> GhList(t)         [] c = "gh pr view" -> GhPrView(t)
    [] c = "gh pr checks" -> GhPrChecks(t)   [] c = "gh run list" -> GhRun(t)
    [] c = "gh repo clone" -> GhLastLine(t)  [] c \in {"psql", "psql error"} -> Psql(t)
    [] c = "wget" -> Wget(t)                 [] c = "rsync" -> Rsync(t)
    [] c = "ffmpeg" -> Ffmpeg(t)             [] c = "env" -> Env(t)
    [] c = "log" -> Log(t, {"ERROR a", "ERROR b"}, {"WARN a"})
FilterFiles(c, t, files) ==
  CASE c = "ls" -> Ls(t)                     [] c = "tree" -> Tree(t)
    [] c = "find" -> Find(t)                 [] c = "grep" -> Grep(t)
    [] c = "diff" -> IF MidGitOperation(files) THEN Whole(t) ELSE Diff(t)
    [] c = "cat" -> FilterPassthrough(t, MidGitOperation(files))
    [] c = "read strip" -> ReadFile(t, "c", "strip", FALSE)
    [] c = "read structural" -> ReadFile(t, "c", "structural", FALSE)
    [] c = "read aggressive" -> ReadFile(t, "c", "aggressive", FALSE)
    [] c = "read python" -> ReadFile(t, "python", "structural", FALSE)
    [] c = "read auto" -> ReadFile(t, "c", "auto", FALSE)
    [] c \in {"git status", "git status merging"} -> FilterStatus(t, files)
    [] c = "git diff" -> FilterDiff(t, MidGitOperation(files))
    [] c = "git log" -> FilterLog(t)         [] c \in {"git push", "git push again"} -> FilterPushPull(t)
    [] c = "git commit" -> FilterCommit(t)   [] c = "git branch" -> FilterList(t)
    [] c = "git merge" -> FilterMerge(t)     [] c = "git rebase" -> FilterRebase(t)
    [] c = "git clone" -> FilterClone(t)     [] c = "git checkout" -> FilterCheckout(t)
    [] OTHER -> Whole(t)

Tests == {"pytest", "jest", "bun test", "vitest", "cargo test", "cargo nextest run", "go test",
          "go test -json", "playwright test", "dotnet test", "rspec", "rake", "swift test", "mvn",
          "gradle", "ember test"}
Builds == {"cargo build", "cargo check", "go build", "go vet", "go run", "go mod graph", "go mod tidy",
           "dotnet build", "dotnet restore", "swift build", "swift run", "swift package", "tsc",
           "webpack", "vite build", "vite", "next build", "next dev", "next lint", "next export",
           "make", "cmake --build", "cmake -B", "cmake", "bazel build", "bazel test",
           "bazel query", "turbo", "nx", "ember build", "ember serve"}
Lints == {"golangci-lint run", "golangci-lint run json", "clippy", "eslint", "stylelint", "ruff check", "ruff format", "mypy",
          "biome", "prettier --check", "prettier --write", "prettier", "rubocop"}
PackageCommands ==
  {"npm install", "pnpm install", "npm test", "npm run", "npm run again", "npm run test", "pnpm run", "npm audit", "npm outdated",
   "pip install", "poetry install", "pip list", "pip list json", "pip show",
   "uv sync", "python", "python data", "python table",
   "brew install", "brew uninstall", "brew update", "brew list", "brew info", "prisma generate",
   "prisma migrate", "prisma db push", "prisma db seed", "prisma studio", "prisma validate",
   "prisma format", "prisma"}
FileCommands == {"ls", "tree", "find", "grep", "diff", "cat", "read strip",
                 "read structural", "read aggressive", "read python", "read auto", "git status",
                 "git status merging", "git diff", "git log",
                 "git push", "git push again", "git commit", "git branch", "git merge", "git rebase", "git clone",
                 "git checkout", "git show"}
Filter(c, t, files) ==
  CASE c \in Tests -> FilterTests(c, t)             [] c \in Builds -> FilterBuilds(c, t)
    [] c \in Lints -> FilterLints(c, t)             [] c \in PackageCommands -> FilterPackages(c, t)
    [] c \in FileCommands -> FilterFiles(c, t, files) [] OTHER -> FilterServices(c, t)

(* What a handler or, without one, the pipeline makes of a text.  *)
Results(c, t, files) ==
  IF c \in DOMAIN Unknown
  THEN UNION {Process(t, Unknown[c] @@ [answers |-> a]) : a \in BOOLEAN}
  ELSE {Filter(c, t, files)}

(***************************************************************************)
(* The noise store: how often a line was seen, how often it was missing    *)
(* from the filtered output, and whether it is removed from now on.        *)
(***************************************************************************)
NoStore == <<>>
Promoted(store, k) == k \in DOMAIN store /\ store[k].promoted
ApplyPreFilter(store, t) == Only(t, LAMBDA k : k \in Critical \/ ~Promoted(store, k))

RecordLines(store, input, output) ==
  LET seen(k) == Len(At(input, {k}))
      old(k)  == IF k \in DOMAIN store THEN store[k]
                 ELSE [count |-> 0, suppressed |-> 0, promoted |-> FALSE]
  IN  [k \in DOMAIN store \cup (ToSet(input) \ {""}) |->
         [old(k) EXCEPT !.count = @ + seen(k),
                        !.suppressed = IF k \in output THEN @ ELSE @ + seen(k)]]
(* Nine tenths of the times are enough.  *)
PromoteEligible(store) ==
  [k \in DOMAIN store |->
     [store[k] EXCEPT !.promoted = \/ @
                                   \/ /\ store[k].count >= PromoteMinCount
                                      /\ 10 * store[k].suppressed >= 9 * store[k].count
                                      /\ k \notin Critical]]

-----------------------------------------------------------------------------
Init == /\ typed \in Typed  \* no words: a file of the read hook
        /\ args = <<>> /\ cmd = "" /\ dotgit = {} /\ text = <<>> /\ blocks = 0
        /\ out = Running /\ noise = NoStore /\ runs = 0

(* A line of one command, with nothing for the shell to read.  *)
Plain(line) == ToSet(line) \cap (Operators \cup Diversions \cup Opening \cup Closing \cup {"", "\\n"}) = {}
Handler == GetHandler(typed[1], "")
(* What similarity may give: a handler that rewrites, one that does not, none.  *)
Routes == {"cargo", "log", ""}
(* The words are rewritten by the handler that the program's name has.  *)
Rewrite ==
  /\ typed # <<>> /\ args = <<>> /\ Plain(typed) /\ Handler # ""
  /\ args' = RewriteArgs(Handler, typed)
  /\ UNCHANGED <<typed, cmd, dotgit, text, blocks, out, noise, runs>>
(* A name that no handler has: the most similar handler may rewrite.  *)
Route ==
  /\ typed # <<>> /\ args = <<>> /\ Plain(typed) /\ Handler = ""
  /\ \E best, second \in Similarities :
       /\ second <= best
       /\ args' = IF GetHandlerBert(best, second) = "full" THEN RewriteArgs("cargo", typed)
                  ELSE typed
  /\ UNCHANGED <<typed, cmd, dotgit, text, blocks, out, noise, runs>>
(* The hook before an agent's command rewrites its line.  *)
Hook ==
  /\ typed # <<>> /\ args = <<>>
  /\ \E routed \in Routes :
       args' = FirstFilled(<<RewriteCommand(typed, routed), CollapseLineContinuations(typed)>>)
  /\ UNCHANGED <<typed, cmd, dotgit, text, blocks, out, noise, runs>>
(* What the shell runs is panda run, which rewrites once more.  *)
Run ==
  /\ Plain(typed) /\ Plain(args) /\ IsPrefix(<<PandaBin, "run">>, args)
  /\ \E routed \in Routes : args' = RewriteArgs(GetHandler(typed[1], routed), SubSeq(args, 3, Len(args)))
  /\ UNCHANGED <<typed, cmd, dotgit, text, blocks, out, noise, runs>>
Launch(c) ==
  /\ cmd = "" /\ args = Commands[c].args
  /\ typed = <<>> <=> args = <<>>
  /\ cmd' = c
  /\ dotgit' \in Commands[c].dotgit
  /\ typed' = <<>> /\ args' = <<>>
  /\ UNCHANGED <<text, blocks, out, noise, runs>>
Emit(block) ==
  /\ cmd # "" /\ out = Running /\ blocks < MaxBlocks
  /\ text' = text \o block
  /\ blocks' = blocks + 1
  /\ UNCHANGED <<typed, args, cmd, dotgit, out, noise, runs>>
(* The filter sees the lines that are left, the store all of them.  The    *)
(* entries of the output name the lines of text that were left.            *)
Exit ==
  LET left   == Where(text, LAMBDA i : text[i] \in Critical \/ ~Promoted(noise, text[i]))
      shown  == IF cmd \in Reworded THEN {}
                ELSE {text[e[2]] : e \in {e \in ToSet(out') : e[1] = "line"}}
  IN  /\ cmd # "" /\ out = Running
      /\ \E result \in Results(cmd, ApplyPreFilter(noise, text), dotgit) :
           out' = Through(Lines(left), result)
      /\ noise' = IF Commands[cmd].runs = 1 THEN noise
                  ELSE PromoteEligible(RecordLines(noise, text, shown))
      /\ UNCHANGED <<typed, args, cmd, dotgit, text, blocks, runs>>
Again ==
  /\ cmd # "" /\ out # Running /\ runs + 1 < Commands[cmd].runs
  /\ text' = <<>> /\ blocks' = 0 /\ out' = Running /\ runs' = runs + 1
  /\ UNCHANGED <<typed, args, cmd, dotgit, noise>>

Next == \/ Rewrite \/ Route \/ Hook \/ Run \/ Exit \/ Again
        \/ \E c \in DOMAIN Commands : Launch(c)
        \/ cmd # "" /\ \E block \in Commands[cmd].blocks : Emit(block)
Spec == Init /\ [][Next]_vars

-----------------------------------------------------------------------------
Exited == cmd # "" /\ out # Running
ShownOf(K) == {j \in DOMAIN out : out[j][1] = "line" /\ text[out[j][2]] \in K}
(* A modified line stands for two lines of a diff.  *)
Weight(what) == IF what = "modified" THEN 2 ELSE 1
Stated(names) == FoldSet(LAMBDA j, n : n + Weight(out[j][1]) * out[j][2], 0,
                         {j \in DOMAIN out : out[j][1] \in names})

(* What is promised of the lines of a command.  *)
Promise(c) ==
  CASE c \in Tests -> PromiseTests(c)             [] c \in Builds -> PromiseBuilds(c)
    [] c \in Lints -> PromiseLints(c)             [] c \in PackageCommands -> PromisePackages(c)
    [] c \in FileCommands -> PromiseFiles(c)      [] c \in DOMAIN Unknown -> PromiseTexts(c)
    [] OTHER -> PromiseServices(c)

(* Handlers drop lines and say how many: "[+N more]", totals, tallies.  Of  *)
(* the lines that matter, each is shown or in a number the output states,   *)
(* through every cap, group and block of the filters.                       *)
FailuresAccounted ==
  Exited => LET c == Promise(cmd)
                n == Len(At(text, c.counted))
                shown == Cardinality({out[j][2] : j \in ShownOf(c.counted)})
            IN  \E way \in c.ways : Stated(way) = n \/ shown + Stated(way) = n

(* Filters replace whole outputs by "all tests passed", "Build OK", "nothing *)
(* to commit" and the like.  None does when a line of the output says that   *)
(* something failed or is there.                                             *)
NoFalseSuccess ==
  Exited => ~(Has(text, Promise(cmd).bad) /\ \E j \in DOMAIN out : out[j][1] \in Promise(cmd).success)

(* Of the lines that say how the command ended, one stays.  *)
SummaryKept == Exited => (Has(text, Promise(cmd).keep) => ShownOf(Promise(cmd).keep) # {})

(* The summaries keep lines by what embeddings score, and passes before them  *)
(* collapse lines, but a line with a word like "error" is shown.  Only a cut  *)
(* in the middle of a text that is too long takes one, or cargo's count of    *)
(* warnings, and their numbers cover what they took; the limits on a text's   *)
(* size leave a mark without a number.  Two passes do lose one unmarked: the  *)
(* noise filter, and a cluster whose lines need not all be critical.          *)
CriticalKept ==
  (Exited /\ cmd \in DOMAIN Unknown) =>
    LET how == Unknown[cmd]
        mixed(k) == \E A \in Alike : k \in A /\ ~(A \subseteq Critical)
        clustered == how.hint # "" /\ ~how.query /\ ~how.history
        lost == {k \in Critical \cap ToSet(text) :
                   /\ k \notin {text[out[j][2]] : j \in ShownOf(Critical)} \cup NoiseKinds
                   /\ ~(clustered /\ mixed(k))}
    IN  \/ Cardinality(lost) <= Stated({"lines cut", "more lines", "warnings suppressed"})
        \/ \E j \in DOMAIN out : out[j][1] \in {"input truncated", "output capped"}

(* A rewrite adds words, it takes none away but the reporters vitest's        *)
(* handler replaces, keeps their order, and adds no word that contradicts one *)
(* the user typed; a word is added once, though the hook before a command and  *)
(* panda run both rewrite.                                                    *)
Contrary == {MessageFormat, {"--tail", "--tail=5", "--tail=200"}, {"-v", "-q"}, {"--tb=short", "--tb=long"},
             {"--porcelain", "--short"}, {"-maxdepth", "-mindepth"}, {"--heading", "--no-heading"},
             {"-n", "--lines=5"}, {"--coverage", "--no-coverage"}}
Own(words) == SelectSeq(words, LAMBDA w : "vitest" \notin ToSet(words) \/ w \notin Reporters)
UserWordsStand ==
  /\ typed # <<>> /\ Plain(typed) /\ typed[1] \notin {"head", "tail"}
  /\ args # <<>> /\ PandaBin \notin ToSet(args)
  =>
    /\ SelectSeq(args, LAMBDA w : w \in ToSet(typed)) = Own(typed)
    /\ \A K \in Contrary : K \cap ToSet(typed) # {} => K \cap ToSet(args) = K \cap ToSet(typed)
    /\ IsInjective(typed) => IsInjective(args)

(* The hook reads lines with less care than the shell does.  As long as no      *)
(* quotes hold a blank or an operator and a line has operators of one kind, the  *)
(* shell runs the same commands after the rewrite as before: each as it was or   *)
(* under panda run with all its words in order, and as it was when its output    *)
(* goes to a file or another program.  head and tail become cat; the commands    *)
(* that get a word the shell takes apart are left out.                           *)
CommandsOf(line) ==
  LET cuts == <<0>> \o Where(line, LAMBDA i : i \notin Quoted(line) /\ line[i] \in Operators)
              \o <<Len(line) + 1>>
  IN  [j \in 1..(Len(cuts) - 1) |->
        SelectSeq(SubSeq(line, cuts[j] + 1, cuts[j + 1] - 1), LAMBDA w : w # "")]
Wrapped(old, new) ==
  LET at   == CHOOSE i \in DOMAIN new : new[i] = PandaBin
      bare == SubSeq(new, 1, at - 1) \o SubSeq(new, at + 2, Len(new))
  IN  /\ PandaBin \in ToSet(new) /\ new[at + 1] = "run"
      /\ \/ SelectSeq(bare, LAMBDA w : w \in ToSet(old)) = Own(old)
         \/ \E i \in DOMAIN old : old[i] \in {"head", "tail"} /\ IsPrefix(SubSeq(old, 1, i - 1) \o <<"cat">>, bare)
CommandsStand ==
  LET line == CollapseLineContinuations(typed)
      kinds == {line[i] : i \in {i \in DOMAIN line : line[i] \in Operators}}
      old == CommandsOf(line)
      new == CommandsOf(args)
  IN  /\ typed # <<>> /\ args # <<>> /\ (~Plain(typed) \/ PandaBin \in ToSet(args))
      /\ Cardinality(kinds) <= 1
      /\ \A i \in Quoted(line) : line[i] \notin Operators \cup {""}
      /\ ToSet(args) \cap {"{{.ID}}", "node_modules"} = {}
      => /\ Len(new) = Len(old)
         /\ \A j \in DOMAIN old :
              new[j] = old[j] \/ /\ Wrapped(old[j], new[j])
                                  /\ \A i \in DOMAIN old[j] \ Quoted(old[j]) : old[j][i] \notin Diversions
============================================================================
