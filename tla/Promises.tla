------------------------------ MODULE Promises ------------------------------
(***************************************************************************)
(* What each command's filter must do with the lines the command prints, as *)
(* the properties of CommandOutput read it: the kinds of lines that must be *)
(* accounted for (counted) and the sets of numbers that may account for     *)
(* them (ways); the kinds that say that something is wrong (bad) and the    *)
(* entries that say that nothing is (success); the kinds of which one line  *)
(* must stay (keep).                                                       *)
(***************************************************************************)
EXTENDS TestRunners, BuildTools, Linters, Packages, Services, Files, Git

(* No line matters; what is said of others adds to it.  *)
Nothing == [counted |-> {}, ways |-> {{}}, bad |-> {}, success |-> {}, keep |-> {}]

(* The test runners.  *)
PromiseTests(c) ==
  CASE c = "pytest" -> [Nothing EXCEPT !.counted = {"FAILED", "ERROR"}]
    [] c = "jest" -> [Nothing EXCEPT !.counted = {"{failed}"}, !.ways = {{"more failures"}}]
    [] c \in {"bun test", "vitest"} -> [Nothing EXCEPT !.counted = {"FAIL", "bullet"}]
    [] c = "cargo test" ->
         [Nothing EXCEPT !.counted = {"test ... FAILED"}, !.ways = {{"more failures"}}]
    [] c = "cargo nextest run" ->
         [Nothing EXCEPT !.counted = {"FAIL a", "FAIL b"}, !.keep = {"Summary"}]
    [] c = "go test" ->
         [Nothing EXCEPT !.counted = {"--- FAIL", "FAIL pkg"}, !.bad = {"--- FAIL", "FAIL pkg"},
                         !.success = {"all tests passed"}]
    [] c = "go test -json" ->
         [Nothing EXCEPT !.counted = {"{fail}", "panic"}, !.bad = {"{fail}", "{FAIL pkg}"},
                         !.success = {"all tests passed"}]
    [] c = "playwright test" ->
         [Nothing EXCEPT !.counted = {"x spec"}, !.bad = {"x spec"},
                         !.success = {"All tests passed"}]
    [] c = "dotnet test" -> [Nothing EXCEPT !.counted = {"Failed"}]
    [] c = "rspec" -> [Nothing EXCEPT !.counted = {"Failure/Error:"}]
    [] c = "rake" -> [Nothing EXCEPT !.counted = {"1) Failure:"}, !.keep = {"rake aborted!"}]
    [] c = "swift test" ->
         [Nothing EXCEPT !.counted = {"Test Case failed", "XCTAssert"},
                         !.keep = {"Executed 2 tests"}]
    [] c = "mvn" ->
         [Nothing EXCEPT !.counted = {"[ERROR]", "FAILED", "Tests run: 2, Failures: 1"},
                         !.bad = {"[INFO] BUILD FAILURE"}, !.success = {"[INFO] BUILD SUCCESS"}]
    [] c = "gradle" -> [Nothing EXCEPT !.counted = {"> Task FAILED", ": error:", "FAILURE:"}]
    [] c = "ember test" ->
         [Nothing EXCEPT !.counted = {"not ok"}, !.ways = {{"more failures"}},
                         !.bad = {"not ok"},
                         !.success = {"all tests passed", "Ember Tests: passed"}]
    [] OTHER -> Nothing

(* Compilers, bundlers and build systems.  *)
PromiseBuilds(c) ==
  CASE c = "cargo build" ->
         [Nothing EXCEPT !.counted = CargoErrors \ {"plain error"},
                         !.ways = {CargoErrors \ {"plain error"}, {"total locations"}},
                         !.bad = CargoErrors, !.success = {"Build OK"}]
    [] c = "cargo check" ->
         [Nothing EXCEPT !.bad = {"plain error", "error A"}, !.success = {"Build OK"}]
    [] c = "go build" ->
         [Nothing EXCEPT !.counted = {"x.go:1: undefined"},
                         !.bad = {"x.go:1: undefined", "text"}, !.success = {"build OK"}]
    [] c = "go vet" ->
         [Nothing EXCEPT !.counted = {"x.go:1: undefined"}, !.ways = {{"vet issues"}},
                         !.bad = {"x.go:1: undefined"}, !.success = {"go vet: ok"}]
    [] c = "go run" -> [Nothing EXCEPT !.counted = {"goroutine 1 [running]:"}]
    [] c = "go mod graph" ->
         [Nothing EXCEPT !.counted = {"a x", "b x"}, !.ways = {{"a x", "b x"}, {"deps across"}}]
    [] c = "go mod tidy" -> [Nothing EXCEPT !.bad = {"error"}, !.success = {"go mod complete"}]
    [] c = "dotnet build" ->
         [Nothing EXCEPT !.counted = {"warning CS1", "warning CS2"},
                         !.ways = {{"warning CS1", "warning CS2"}}]
    [] c = "dotnet restore" ->
         [Nothing EXCEPT !.counted = {": error NU", "MSBUILD : error"},
                         !.bad = {": error NU", "MSBUILD : error"},
                         !.success = {"restore complete"}]
    [] c = "swift build" ->
         [Nothing EXCEPT !.counted = {"x.swift:1: error:", "x.swift:1: warning:"},
                         !.ways = {{"more errors"}}]
    [] c = "swift run" -> [Nothing EXCEPT !.counted = {"Fatal error:"}]
    [] c \in {"swift package", "vite build", "vite"} -> [Nothing EXCEPT !.counted = {"error"}]
    [] c = "tsc" ->
         [Nothing EXCEPT !.counted = DOMAIN TsFile, !.ways = {{"errors"}}, !.bad = DOMAIN TsFile,
                         !.success = {"Build OK"}]
    [] c = "webpack" -> [Nothing EXCEPT !.counted = {"ERROR in"}, !.keep = {"webpack compiled"}]
    [] c = "next build" ->
         [Nothing EXCEPT !.counted = {"Error:", "Type error:"},
                         !.bad = {"Error:", "Type error:"}, !.success = {"Build complete"}]
    [] c \in {"next dev", "next export"} -> [Nothing EXCEPT !.counted = {"Error:"}]
    [] c = "next lint" ->
         [Nothing EXCEPT !.counted = {"Error:"}, !.bad = {"Error:", "Warning:"},
                         !.success = {"No lint errors found."}]
    [] c = "make" ->
         [Nothing EXCEPT !.counted = {"x.c:1: error:", "make: *** [x] Error 1"},
                         !.bad = MakeErrors,
                         !.success = {"make: ok (nothing to do)", "make: complete"}]
    [] c = "cmake --build" ->
         [Nothing EXCEPT !.counted = {": error:", "make[1]: Error", "CMake Error"}]
    [] c = "cmake -B" -> [Nothing EXCEPT !.counted = {"CMake Error", "CMake Warning"}]
    [] c = "cmake" -> [Nothing EXCEPT !.counted = {"CMake Error"}]
    [] c = "bazel build" ->
         [Nothing EXCEPT !.counted = {"ERROR:"}, !.bad = {"ERROR:"}, !.success = {"build OK"}]
    [] c = "bazel test" ->
         [Nothing EXCEPT !.counted = {"//x FAILED", "//x PASSED"},
                         !.ways = {{"passed", "failed"}}]
    [] c = "bazel query" -> [Nothing EXCEPT !.counted = {"text"}, !.ways = {{"more targets"}}]
    [] c = "turbo" -> [Nothing EXCEPT !.counted = {"web:build: error"}, !.keep = {"Time:"}]
    [] c = "nx" ->
         [Nothing EXCEPT !.counted = {"> nx run"}, !.ways = {{"tasks passed"}},
                         !.keep = {"NX Ran 2 tasks"}]
    [] c = "ember build" ->
         [Nothing EXCEPT !.counted = {"x.ts:1"}, !.ways = {{"more errors"}},
                         !.keep = {"Build successful", "Build failed"}]
    [] c = "ember serve" -> [Nothing EXCEPT !.keep = {"Serving on"}]
    [] OTHER -> Nothing

(* Linters and formatters.  *)
PromiseLints(c) ==
  CASE c = "golangci-lint run" ->
         [Nothing EXCEPT !.counted = {"a.go: error", "a.go: warning", "b.go: warning"},
                         !.ways = {{"issues found"}, {"more issues"}},
                         !.bad = {"a.go: error", "a.go: warning", "ERR"},
                         !.success = {"No issues found."}]
    [] c = "golangci-lint run json" ->
         [Nothing EXCEPT !.counted = {"{issue a}", "{issue b}"},
                         !.ways = {{"issues found"}, {"more issues"}}]
    [] c = "clippy" -> [Nothing EXCEPT !.keep = {"error: aborting", "2 warnings emitted"}]
    [] c = "eslint" ->
         [Nothing EXCEPT !.bad = Problems, !.success = {"All files clean"},
                         !.keep = {"2 problems"}]
    [] c = "stylelint" ->
         [Nothing EXCEPT !.counted = Problems, !.ways = {{"more issues"}}, !.bad = Problems,
                         !.success = {"No issues found."}, !.keep = {"2 problems"}]
    [] c = "ruff check" ->
         [Nothing EXCEPT !.counted = {"E501", "F401"}, !.ways = {{"E501", "F401"}},
                         !.bad = {"E501", "F401", "text"}, !.success = {"ruff: ok"},
                         !.keep = {"Found 2 errors"}]
    [] c = "ruff format" -> [Nothing EXCEPT !.keep = {"2 files reformatted"}]
    [] c = "mypy" ->
         [Nothing EXCEPT !.counted = {"a.py: error", "b.py: error"},
                         !.ways = {{"mypy: errors"}, {"more in file"}},
                         !.keep = {"Found 1 error"}]
    [] c = "biome" ->
         [Nothing EXCEPT !.counted = {"./x.ts:1 lint/rule", "cross message"},
                         !.keep = {"Found 1 diagnostics"}]
    [] c = "prettier --check" ->
         [Nothing EXCEPT !.bad = {"[warn] x.js", "SyntaxError"},
                         !.success = {"All files formatted correctly."},
                         !.keep = {"SyntaxError"}]
    [] c = "prettier --write" ->
         [Nothing EXCEPT !.bad = {"SyntaxError"}, !.success = {"formatted"}]
    [] c = "prettier" ->
         [Nothing EXCEPT !.bad = {"SyntaxError", "[warn] x.js"},
                         !.success = {"formatted", "All files formatted correctly."}]
    [] c = "rubocop" ->
         [Nothing EXCEPT !.bad = {"{error}", "{warning}", "{convention}"},
                         !.success = {"no offenses"}]
    [] OTHER -> Nothing

(* Package managers and script runners.  *)
PromisePackages(c) ==
  CASE c = "npm install" -> [Nothing EXCEPT !.keep = {"3 vulnerabilities"}]
    [] c = "pnpm install" ->
         [Nothing EXCEPT !.counted = {"ERR_PNPM"}, !.bad = {"ERR_PNPM"},
                         !.success = {"install complete"}]
    [] c = "npm test" ->
         [Nothing EXCEPT !.counted = {"x test", "FAIL", "bullet"},
                         !.keep = {"1 failing", "1 passed", "1 failed"}]
    [] c \in {"npm run", "npm run again", "pnpm run"} -> [Nothing EXCEPT !.keep = {"error"}]
    [] c = "npm run test" -> [Nothing EXCEPT !.counted = {"FAIL", "bullet"}]
    [] c = "npm audit" ->
         [Nothing EXCEPT !.bad = {"Severity: high", "3 vulnerabilities"},
                         !.success = {"no vulnerabilities found"},
                         !.keep = {"3 vulnerabilities"}]
    [] c = "npm outdated" ->
         [Nothing EXCEPT !.counted = {"a 1.0 2.0", "b 1.0 1.1"},
                         !.ways = {{"more minor"}, {"packages outdated"}},
                         !.bad = {"a 1.0 2.0", "b 1.0 1.1"},
                         !.success = {"all packages up to date"}]
    [] c = "pip install" ->
         [Nothing EXCEPT !.bad = {"ERROR:", "Failed to build"},
                         !.success = {"ok (already satisfied)"}]
    [] c = "poetry install" ->
         [Nothing EXCEPT !.counted = {"ERROR:"}, !.bad = {"ERROR:"},
                         !.success = {"ok (up to date)"}]
    [] c = "pip list" -> [Nothing EXCEPT !.counted = {"a 1.0"}, !.ways = {{"more packages"}}]
    [] c = "pip list json" ->
         [Nothing EXCEPT !.counted = {"{package}"},
                         !.ways = {{"more packages"}, {"packages installed"}}]
    [] c = "pip show" -> [Nothing EXCEPT !.keep = {"text", "last"}]
    [] c = "uv sync" -> [Nothing EXCEPT !.counted = {"error", "+ a"}]
    [] c = "python" -> [Nothing EXCEPT !.keep = {"Traceback"}]
    [] c = "python data" -> [Nothing EXCEPT !.counted = {"Slide 1"}, !.ways = {{"slides total"}}]
    [] c = "python table" -> [Nothing EXCEPT !.keep = {"a | b | c", "a,b", "Row 1"}]
    [] c = "brew install" -> [Nothing EXCEPT !.counted = {"==> Caveats", "Error:", "Warning:"}]
    [] c = "brew uninstall" -> [Nothing EXCEPT !.counted = {"Error:"}]
    [] c = "brew update" ->
         [Nothing EXCEPT !.counted = {"Error:"}, !.bad = {"Error:"},
                         !.success = {"brew update complete"}]
    [] c = "brew list" -> [Nothing EXCEPT !.counted = {"a"}, !.ways = {{"more packages"}}]
    [] c = "prisma generate" ->
         [Nothing EXCEPT !.counted = {"Error"}, !.bad = {"Error"},
                         !.success = {"generate complete"}]
    [] c = "prisma migrate" ->
         [Nothing EXCEPT !.counted = {"Error"}, !.bad = {"Error"},
                         !.success = {"migrate complete", "migrations applied"}]
    [] c = "prisma db push" ->
         [Nothing EXCEPT !.counted = {"Error"}, !.bad = {"Error"},
                         !.success = {"db push complete"}]
    [] c = "prisma db seed" -> [Nothing EXCEPT !.bad = {"Error"}, !.success = {"seed complete"}]
    [] c = "prisma studio" -> [Nothing EXCEPT !.bad = {"Error"}, !.success = {"studio started"}]
    [] c = "prisma validate" ->
         [Nothing EXCEPT !.bad = {"Error"}, !.success = {"Schema is valid."}]
    [] c = "prisma format" ->
         [Nothing EXCEPT !.counted = {"a.prisma"}, !.ways = {{"files formatted"}}]
    [] c = "prisma" -> [Nothing EXCEPT !.keep = {"Error"}]
    [] OTHER -> Nothing

(* Files and git.  *)
PromiseFiles(c) ==
  CASE c = "ls" ->
         [Nothing EXCEPT !.counted = {"dir/", "a.rs", "a.md", "a.py"},
                         !.ways = {{"more"}, {"dirs", "files"}}]
    [] c = "tree" -> [Nothing EXCEPT !.keep = {"2 directories, 3 files"}]
    [] c = "find" -> [Nothing EXCEPT !.counted = {"a/", "b/"}, !.ways = {{"total"}}]
    [] c = "grep" ->
         [Nothing EXCEPT !.counted = {"a.rs:1", "b.rs:1", "match"},
                         !.ways = {{"matches"}, {"more matches"}}]
    [] c = "diff" -> [Nothing EXCEPT !.counted = {"@@"}, !.ways = {{"more hunks"}}]
    [] c = "cat" -> [Nothing EXCEPT !.counted = {"text"}, !.ways = {{"lines omitted"}}]
    [] c = "read strip" -> [Nothing EXCEPT !.counted = {"x /* c */", "x /*", "*/ x"}]
    [] c \in {"read structural", "read aggressive"} ->
         [Nothing EXCEPT !.counted = {"pub fn {", "fn {", "type {", "use x"}]
    [] c = "read python" -> [Nothing EXCEPT !.counted = {"def f", "class C", "import x", "@d"}]
    [] c = "read auto" -> [Nothing EXCEPT !.counted = {"fn {"}]
    [] c = "git status" ->
         [Nothing EXCEPT !.bad = {" M a", "M  a", "?? a"},
                         !.success = {"nothing to commit, working tree clean"}]
    [] c = "git status merging" ->
         [Nothing EXCEPT !.counted = {" M a", "UU a", "AA a", "DD a", "UD a", "UA a"},
                         !.ways = {{"Modified"}}, !.bad = {"UU a", "AA a", "DD a", "UD a", "UA a"},
                         !.success = {"merge in progress, no conflicts",
                              "nothing to commit, working tree clean"}]
    [] c = "git diff" ->
         [Nothing EXCEPT !.counted = {"-a", "+a", "+b"},
                         !.ways = {{"added", "removed", "modified"}}]
    [] c = "git log" -> [Nothing EXCEPT !.counted = {"1a2b3c"}, !.ways = {{"more commits"}}]
    [] c = "git push" ->
         [Nothing EXCEPT !.counted = PushPullErrorTerms, !.bad = PushPullErrorTerms,
                         !.success = {"ok", "ok (up to date)"}]
    [] c = "git push again" ->
         [Nothing EXCEPT !.counted = {"error:"}, !.bad = {"error:"}, !.success = {"ok"}]
    [] c = "git commit" -> [Nothing EXCEPT !.keep = {"[main 1a2b3c]"}]
    [] c = "git branch" -> [Nothing EXCEPT !.counted = {"a"}, !.ways = {{"more"}}]
    [] c = "git merge" ->
         [Nothing EXCEPT !.counted = {"CONFLICT"}, !.bad = {"CONFLICT"},
                         !.success = {"ok (already up to date)", "ok (fast-forward)"}]
    [] c = "git rebase" ->
         [Nothing EXCEPT !.counted = {"CONFLICT"}, !.bad = {"CONFLICT"},
                         !.success = {"ok", "ok (already up to date)"}]
    [] c = "git clone" ->
         [Nothing EXCEPT !.counted = {"fatal:", "error:"}, !.bad = {"fatal:", "error:"},
                         !.success = {"ok, cloned"}]
    [] c = "git checkout" -> [Nothing EXCEPT !.bad = {"error:"}, !.success = {"ok"}]
    [] c = "git show" -> [Nothing EXCEPT !.counted = {"text"}]
    [] OTHER -> Nothing

(* Clusters, clouds and the system.  *)
PromiseServices(c) ==
  CASE c = "curl" -> [Nothing EXCEPT !.counted = {"text"}, !.ways = {{"more lines"}}]
    [] c = "jq" -> [Nothing EXCEPT !.counted = {"text"}, !.ways = {{"lines omitted"}}]
    [] c \in {"docker ps", "helm list", "helm uninstall", "gh pr list"} ->
         [Nothing EXCEPT !.counted = {"row"}]
    [] c = "docker build" ->
         [Nothing EXCEPT !.counted = {"ERROR"}, !.bad = {"ERROR"}, !.success = {"Build OK"}]
    [] c = "kubectl get" -> [Nothing EXCEPT !.counted = {"NAME", "row"}, !.ways = {{"more"}}]
    [] c = "kubectl get pods" ->
         [Nothing EXCEPT !.counted = {"pod Running", "pod Completed", "pod Error", "pod Pending"},
                         !.ways = {{"running"}, {"pods, all running"}, {"more"}},
                         !.bad = {"pod Error", "pod Pending"}, !.success = {"pods, all running"}]
    [] c = "kubectl describe" ->
         [Nothing EXCEPT !.counted = {"Name:", "Status:", "Events:"}, !.keep = {"Events:"}]
    [] c = "kubectl apply" -> [Nothing EXCEPT !.counted = {"error:"}]
    [] c = "kubectl events" ->
         [Nothing EXCEPT !.counted = {"Warning Other", "Normal BackOff", "Warning Failed"},
                         !.ways = {{"more"}}]
    [] c \in {"helm install", "helm status"} -> [Nothing EXCEPT !.keep = {"Error:"}]
    [] c = "helm diff" ->
         [Nothing EXCEPT !.counted = {"+a", "-a"}, !.bad = {"+a", "-a"}, !.success = {"no diff"}]
    [] c = "helm template" ->
         [Nothing EXCEPT !.counted = {"text", "kind:"}, !.ways = {{"lines total"}}]
    [] c = "terraform plan" ->
         [Nothing EXCEPT !.counted = ToSet(TerraformChanges), !.ways = {{"more"}}]
    [] c = "terraform plan clean" ->
         [Nothing EXCEPT !.bad = {"Error:", "| Error:"}, !.success = {"no changes detected"}]
    [] c = "terraform apply" -> [Nothing EXCEPT !.counted = {"Error:", "| Error:"}]
    [] c = "terraform init" ->
         [Nothing EXCEPT !.bad = {"Error:"}, !.success = {"terraform init complete"}]
    [] c = "terraform validate" ->
         [Nothing EXCEPT !.bad = {"Error:", "| Error:"}, !.success = {"terraform validate: ok"}]
    [] c = "terraform state list" -> [Nothing EXCEPT !.counted = {"a"}, !.ways = {{"more"}}]
    [] c = "terraform state show" -> [Nothing EXCEPT !.keep = {"resource a"}]
    [] c = "aws ec2" -> [Nothing EXCEPT !.counted = {"{item}"}, !.ways = {{"more"}}]
    [] c = "aws error" -> [Nothing EXCEPT !.counted = {"Error Code", "An error"}]
    [] c = "aws s3 ls" ->
         [Nothing EXCEPT !.counted = {"object"}, !.ways = {{"objects"}}, !.keep = {"PRE a/"}]
    [] c = "gh pr view" -> [Nothing EXCEPT !.keep = {"title:"}]
    [] c = "gh pr checks" ->
         [Nothing EXCEPT !.counted = {"check pass", "check fail"},
                         !.ways = {{"passed", "failed"}}]
    [] c = "gh run list" -> [Nothing EXCEPT !.counted = {"completed failure"}]
    [] c = "gh repo clone" -> [Nothing EXCEPT !.keep = {"text"}]
    [] c = "psql" -> [Nothing EXCEPT !.counted = {"header", "row"}, !.ways = {{"more rows"}}]
    [] c = "psql error" -> [Nothing EXCEPT !.counted = {"ERROR:"}]
    [] c = "wget" -> [Nothing EXCEPT !.counted = {"saved", "ERROR 404"}]
    [] c = "rsync" -> [Nothing EXCEPT !.counted = {"error"}]
    [] c = "ffmpeg" -> [Nothing EXCEPT !.counted = {"Error"}]
    [] c = "env" ->
         [Nothing EXCEPT !.counted = {"PATH", "DB_URL", "EDITOR", "HOME"},
                         !.ways = {{"more variables"}}]
    [] c = "log" ->
         [Nothing EXCEPT !.counted = {"text a", "text b"}, !.ways = {{"text a", "text b"}}]
    [] OTHER -> Nothing

(* Texts of the pipeline.  *)
PromiseTexts(c) ==
  CASE c = "hook go" ->
         [Nothing EXCEPT !.bad = {"{a fail}", "{b fail}"}, !.success = {"ok packages"}]
    [] c = "hook jest" ->
         [Nothing EXCEPT !.bad = {"{failed 1}", "{failed 2}"}, !.success = {"ok tests"}]
    [] c = "hook cargo" -> [Nothing EXCEPT !.keep = {"{rustc error 1}"}]
    [] OTHER -> Nothing
=============================================================================
