-------------------------- MODULE MCCommandOutput --------------------------
(***************************************************************************)
(* The commands of the runs: how users type them and the blocks of lines    *)
(* they print (sized to exceed the caps of the filters two or three blocks  *)
(* in).  A row says what differs from Once.                                 *)
(***************************************************************************)
EXTENDS CommandOutput, TLC

N(k, n) == [i \in 1..n |-> k]
One(K) == {<<k>> : k \in K}
Once == [dotgit |-> {{}}, runs |-> 1]
RowWith(words, prints, what) == [typed |-> words, blocks |-> prints] @@ what @@ Once
Row(words, prints) == RowWith(words, prints, Once)

TestRows ==
  "pytest" :> Row(<<"pytest", "tests">>, One({"ERROR", "=== end", "text", "1 failed in 2s"}) \cup {N("FAILED", 6), N("XPASSED", 6), N("XFAILED", 6),
          <<"____", "text", "text", "text", "text">>})
  @@ "jest" :> Row(<<"jest">>, One({"text", "{passed}", "{skipped}"}) \cup {N("{failed}", 4)})
  @@ "bun test" :> Row(<<"bun", "test">>, One({"FAIL", "", "text", "Tests: 1 failed"}) \cup {<<"bullet">> \o N("text", 9), N("text", 8)})
  @@ "vitest" :> Row(<<"vitest">>, One({"", "text", "Tests: 1 passed"}) \cup {<<"bullet">> \o N("text", 4),
          <<"FAIL", "bullet", "">>})
  @@ "cargo test" :> Row(<<"cargo", "test">>, One({"result: ok", "result: FAILED", "failures:", "text", ""}) \cup {N("test ... FAILED", 6)})
  @@ "cargo nextest run" :> Row(<<"cargo", "nextest", "run">>, One({"FAIL a", "FAIL b", "--- STDOUT a", "--- STDOUT b", "Summary", "text"}))
  @@ "go test" :> Row(<<"go", "test">>, One({"=== RUN", "--- PASS", "--- FAIL", "FAIL pkg", "panic", "ok pkg", "error", ""}) \cup {N("text", 6)})
  @@ "go test -json" :> Row(<<"go", "test", "./...">>, One({"{pass}", "{skip}", "{fail}", "{FAIL pkg}", "{ok pkg}"}) \cup {N("{output}", 6), <<"{output}", "panic">>})
  @@ "playwright test" :> Row(<<"playwright", "test">>, One({"x spec", "", "1 flaky", "1 passed", "1 failed", "Running 3 tests", "text"}) \cup {N("Error:", 5)})
  @@ "dotnet test" :> Row(<<"dotnet", "test">>, One({"Failed", "Error Message:", "text"}) \cup {<<"Stack Trace:">> \o N("text", 5), <<"", "Failed: 1, Passed: 2">>})
  @@ "rspec" :> Row(<<"rspec">>, One({"", "{json report}"}) \cup {<<"Failure/Error:">> \o N("text", 6),
          N("text", 4), <<"", "1 example, 1 failure">>})
  @@ "rake" :> Row(<<"rake", "test">>, One({"", "1 runs, 1 failures", "rake aborted!"}) \cup {<<"1) Failure:">> \o N("text", 6), N("text", 4)})
  @@ "swift test" :> Row(<<"swift", "test">>, One({"Test Case failed", "XCTAssert", "Executed 2 tests", "text"}))
  @@ "mvn" :> Row(<<"mvn", "test">>, One({"[ERROR]", "", "text", "[WARNING]", "[INFO] Downloading", "[INFO] BUILD FAILURE", "Tests run: 2, Failures: 1"})
       \cup {<<"FAILED">> \o N("text", 9)})
  @@ "gradle" :> Row(<<"gradle", "build">>, One({"> Task", "> Task FAILED", "> Task UP-TO-DATE", ": error:", "* Get more help", "BUILD FAILED", "BUILD SUCCESSFUL", ""})
       \cup {<<"FAILURE:">> \o N("text", 6)})
  @@ "ember test" :> Row(<<"ember", "test">>, One({"ok", "", "---", "# pass 1", "# fail 1"}) \cup {<<"not ok", "---", "text">>,
          <<"not ok", "not ok", "not ok">>, <<"not ok">> \o N("text", 9)})

BuildRows ==
  "cargo build" :> Row(<<"cargo", "build">>, One({"finished ok", "finished failed", "text"}) \cup
       {<<"error A", "error B", "error A">>, <<"error 1", "error 2", "error 3", "error 4", "error 5">>,
        <<"error 6", "error 7", "error 8", "error 9">>, <<"warning", "warning [x]", "warning [y]", "warning [x]">>})
  @@ "cargo check" :> Row(<<"cargo", "check">>, One({"plain error", "error A", "warning", "finished ok", "finished failed"}))
  @@ "go build" :> Row(<<"go", "build">>, One({"x.go:1: undefined", "", "text"}))
  @@ "go vet" :> Row(<<"go", "vet">>, One({"text", ""}) \cup {N("x.go:1: undefined", 9)})
  @@ "go run" :> Row(<<"go", "run">>, One({"goroutine 1 [running]:", "panic:"}) \cup {N("text", 30)})
  @@ "go mod graph" :> Row(<<"go", "mod", "graph">>, One({"a x", "b x", "text"}))
  @@ "go mod tidy" :> Row(<<"go", "mod", "tidy">>, One({"error", "text"}) \cup {N("go: ", 7)})
  @@ "dotnet build" :> Row(<<"dotnet", "build">>, One({"error CS", "Build FAILED", "1 Error(s)", "Build succeeded"}) \cup {<<"warning CS1", "warning CS2", "warning CS2">>})
  @@ "dotnet restore" :> Row(<<"dotnet", "restore">>, One({": error NU", "MSBUILD : error", "Restored", "text"}))
  @@ "swift build" :> Row(<<"swift", "build">>, One({"Build complete", "text"}) \cup {N("x.swift:1: error:", 9), N("x.swift:1: warning:", 4)})
  @@ "swift run" :> Row(<<"swift", "run">>, One({"Fatal error:"}) \cup {N("text", 16)})
  @@ "swift package" :> Row(<<"swift", "package">>, One({"Fetching", "error", "text", "[1/2]"}))
  @@ "tsc" :> Row(<<"tsc">>, One({"a TS2339", "a TS2345", "b TS2339", "b TS5055", "text"}))
  @@ "webpack" :> Row(<<"webpack">>, One({"asset", "", "webpack compiled"}) \cup {<<"ERROR in">> \o N("text", 9),
          <<"WARNING in">> \o N("text", 6)})
  @@ "vite build" :> Row(<<"vite", "build">>, One({"vite v5", "transforming", "modules transformed", "", "warn", "built in"})
          \cup {<<"error">> \o N("text", 8), N("1 kB", 8)})
  @@ "vite" :> Row(<<"vite">>, One({"hmr update", "error", "text", ""}))
  @@ "next build" :> Row(<<"next", "build">>, One({"Error:", "Type error:", "warn -", "done Compiled successfully", "done Collecting", "static pages (2/2)", "Compiled in 2s"}))
  @@ "next dev" :> Row(<<"next", "dev">>, One({"Error:", "warn -", "ready", "text"}))
  @@ "next lint" :> Row(<<"next", "lint">>, One({"Error:", "text"}) \cup {N("Warning:", 6)})
  @@ "next export" :> Row(<<"next", "export">>, One({"Error:", "warn -", "ready"}) \cup {N("text", 11)})
  @@ "make" :> Row(<<"make">>, One({"gcc -c", "nothing to be done"}) \cup One(MakeErrors) \cup {N("text", 3)})
  @@ "cmake --build" :> Row(<<"cmake", "--build">>, One({"[ 50%] Building", ": error:", "x.c: warning:", "make[1]: Error", "CMake Error", "text"}))
  @@ "cmake -B" :> Row(<<"cmake", "-B">>, One({"CMake Error", "CMake Warning", "-- Configuring done", "-- Looking for"}))
  @@ "cmake" :> Row(<<"cmake">>, One({"[ 50%] Building", "CMake Error", "-- Configuring done", "text"}))
  @@ "bazel build" :> Row(<<"bazel", "build">>, One({"ERROR:", "INFO: Build completed", "INFO: Elapsed", "  bazel-bin/x", "text"}) \cup {<<"Target //x up-to-date:", "  bazel-bin/x">>})
  @@ "bazel test" :> Row(<<"bazel", "test">>, One({"//x FAILED", "//x PASSED", "see test.log"}))
  @@ "bazel query" :> Row(<<"bazel", "query">>, {N("text", 13), <<"">>})
  @@ "turbo" :> Row(<<"turbo", "run">>, One({"scope", "Tasks:", "Time:", "web:build: cache hit"}) \cup {<<"web:build: error">> \o N("web:build: text", 9)})
  @@ "nx" :> Row(<<"nx", "run-many">>, {<<"> nx run", "text">>, <<"> nx run", "error">>, <<"> nx run", "[local cache]">>,
          <<"NX Ran 2 tasks">>, <<"NX Cloud">>, <<"text">>})
  @@ "ember build" :> Row(<<"ember", "build">>, One({"Build successful", "Build failed", "text"}) \cup {N("x.ts:1", 18)})
  @@ "ember serve" :> Row(<<"ember", "serve">>, One({"Serving on", "text"}))

LintRows ==
  "golangci-lint run" :> Row(<<"golangci-lint", "run">>, {N("a.go: error", 15), N("a.go: warning", 15), N("b.go: warning", 16), <<"ERR">>, <<"WARN", "WARN">>, <<"text">>, <<"">>})
  @@ "golangci-lint run json" :> Row(<<"golangci-lint", "run", "--out-format=json">>, {N("{issue a}", 15), N("{issue b}", 16)})
  @@ "clippy" :> Row(<<"clippy">>, One({"error[A]", "error[B]", "help:", "error: aborting", "2 warnings emitted"}) \cup
       {<<"warning: 1", "warning: 2", "warning: 3">>, <<"warning: 3", "warning: 4", "warning: 5", "warning: 6">>})
  @@ "eslint" :> Row(<<"eslint", ".">>, {<<"/x.js">> \o N("  1:1 error", 9), <<"/x.js", "  1:1 warning">>, <<"">>, <<"2 problems">>, <<"0 problems">>})
  @@ "stylelint" :> Row(<<"stylelint", "a.css">>, {<<"/x.css">> \o N("  1:1 error", 15), <<"/x.css", "  1:1 warning">>, <<"">>, <<"2 problems">>})
  @@ "ruff check" :> Row(<<"ruff", "check">>, One({"text", "Found 2 errors", ""}) \cup {<<"E501", "E501">>, <<"F401", "E501">>})
  @@ "ruff format" :> Row(<<"ruff", "format">>, One({"Reformatted x.py", "2 files reformatted", "text"}))
  @@ "mypy" :> Row(<<"mypy", ".">>, {N("a.py: error", 3), N("b.py: error", 4), <<"text">>, <<"Found 1 error">>})
  @@ "biome" :> Row(<<"biome", "check">>, {<<"./x.ts:1 lint/rule", "text", "cross message">>, <<"Found 1 diagnostics">>, <<"text">>})
  @@ "prettier --check" :> Row(<<"prettier", "--check", ".">>, One({"SyntaxError", "All matched files", "Checking"}) \cup {N("[warn] x.js", 5)})
  @@ "prettier --write" :> Row(<<"prettier", "--write", ".">>, One({"SyntaxError", "x.js 4ms", "text"}))
  @@ "prettier" :> Row(<<"prettier", ".">>, One({"SyntaxError", "x.js 4ms", "All matched files", "Checking"}) \cup {N("[warn] x.js", 5)})
  @@ "rubocop" :> Row(<<"rubocop">>, One({"{", "x.rb:1: E: ", "1 file inspected, 1 offense"}) \cup {N("{error}", 5), N("{warning}", 5), N("{convention}", 3)})

PackageRows ==
  "npm install" :> Row(<<"npm", "install">>, One({"npm WARN", "text", "added 3 packages", "3 vulnerabilities"}))
  @@ "pnpm install" :> Row(<<"pnpm", "install">>, One({"ERR_PNPM", "Progress: done", "Packages: +3", "WARN deprecated", "text"}))
  @@ "npm test" :> Row(<<"npm", "test">>, One({"x test", "FAIL", "", "1 failing", "1 passed", "text"}) \cup {<<"bullet", "text", "x test">>})
  @@ "npm run" :> Row(<<"npm", "run", "build">>, One({"error", "npm WARN", "> a@1.0.0 build", "done in 2s", "", "success"}) \cup {N("text", 11), N("10:5 error", 8), <<"src/a.ts", "10:5 error", "text">>, <<"error", "error">> \o N("text", 16)})
  @@ "npm run again" :> RowWith(<<"npm", "run", "dev">>, {<<"error">>, N("text", 12), <<"done in 2s">>}, [runs |-> 2])
  @@ "npm run test" :> Row(<<"npm", "run", "unit">>, One({"FAIL", "", "Test Suites:", "Tests: 1 failed", "Test Files 1 failed"}) \cup {<<"bullet">> \o N("text", 6)})
  @@ "pnpm run" :> Row(<<"pnpm", "run", "build">>, One({"error", "compiled", "npm WARN"}) \cup {N("text", 12), <<"error", "error">> \o N("text", 16)})
  @@ "npm audit" :> Row(<<"npm", "audit">>, One({"a 1.0", "node_modules/a", "fix available", "3 vulnerabilities", ""}) \cup {<<"a 1.0", "Severity: high">>})
  @@ "npm outdated" :> Row(<<"npm", "outdated">>, {<<"Package Current Latest">>, <<"Package Current Latest">> \o N("a 1.0 2.0", 7), <<"Package Current Latest">> \o N("b 1.0 1.1", 9) \o <<"">>})
  @@ "pip install" :> Row(<<"pip", "install", "a">>, One({"Requirement already satisfied", "ERROR:", "Failed to build", "WARNING:", "text", "Successfully installed a"}))
  @@ "poetry install" :> Row(<<"poetry", "install">>, One({"- Installing a", "Package operations: 1 install", "Package operations: 0 installs", "No dependencies to install", "WARNING:", "ERROR:", "text"}))
  @@ "pip list" :> Row(<<"pip", "list">>, {N("a 1.0", 21), <<"">>})
  @@ "pip list json" :> Row(<<"pip3", "list">>, {N("{package}", 101), <<"text">>})
  @@ "pip show" :> Row(<<"pip", "show", "a">>, One({"text", "last", ""}))
  @@ "uv sync" :> Row(<<"uv", "sync">>, One({"Downloading a", "Resolved 1 package", "error", "+ a"}))
  @@ "python" :> Row(<<"python", "a.py">>, One({"Traceback", "a,b"}) \cup {N("text", 26)})
  @@ "python data" :> Row(<<"python3", "data.py">>, {<<".pptx", "Slide 1">>, <<"Slide 1", "bullet", "placeholder">>, N("Slide 1", 11)})
  @@ "python table" :> Row(<<"python3", "table.py">>, {N("a | b | c", 7), N("a,b", 6), <<"">>, <<"style=", ".docx", "Paragraph">>, N("Row 1", 6), <<"Sheet workbook">>})
  @@ "brew install" :> Row(<<"brew", "install", "a">>, {<<"==> Caveats", "text">>, <<"==> Pouring">>, <<"==> Downloading", "text">>, <<"Error:">>, <<"Warning:">>, <<"installed to">>, <<"already installed">>})
  @@ "brew uninstall" :> Row(<<"brew", "uninstall", "a">>, One({"Uninstalling a", "Error:", "text"}))
  @@ "brew update" :> Row(<<"brew", "update">>, One({"Updated 1 tap", "==> New", "Error:", "Warning:", "text"}))
  @@ "brew list" :> Row(<<"brew", "list">>, {N("a", 15), <<"">>})
  @@ "brew info" :> Row(<<"brew", "info", "a">>, {N("text", 9), <<"==> Caveats">>, <<"==> Analytics">>})
  @@ "prisma generate" :> Row(<<"prisma", "generate">>, One({"Error", "Generated", "warn", "text"}))
  @@ "prisma migrate" :> Row(<<"prisma", "migrate">>, One({"Error", "in sync", "text"}) \cup {N("migration.sql", 3)})
  @@ "prisma db push" :> Row(<<"prisma", "db", "push">>, One({"Error", "in sync", "text"}))
  @@ "prisma db seed" :> Row(<<"prisma", "db", "seed">>, One({"Error", "text", ""}))
  @@ "prisma studio" :> Row(<<"prisma", "studio">>, One({"http://localhost", "Error"}))
  @@ "prisma validate" :> Row(<<"prisma", "validate">>, One({"Error", "text"}))
  @@ "prisma format" :> Row(<<"prisma", "format">>, One({"a.prisma", "text"}))
  @@ "prisma" :> Row(<<"prisma", "version">>, {<<"Error">>, <<"warn">>} \cup {N("text", 6)})

ServiceRows ==
  "docker logs" :> Row(<<"docker", "logs", "web">>, {N("text", 30)})
  @@ "curl" :> Row(<<"curl", "x">>, {N("text", 13)})
  @@ "jq" :> Row(<<"jq", ".">>, {N("text", 6), N("text", 82)})
  @@ "json" :> Row(<<"json", "a">>, One({"{item}", "text"}))
  @@ "docker ps" :> Row(<<"docker", "ps">>, One({"NAMES", "row", ""}))
  @@ "docker images" :> Row(<<"docker", "images">>, One({"REPOSITORY", "repo 12MB", ""}))
  @@ "docker build" :> Row(<<"docker", "build", ".">>, One({"ERROR", "Step 1", "Successfully built a", "Successfully tagged a"}))
  @@ "kubectl get" :> Row(<<"kubectl", "get", "svc">>, {<<"NAME">>, N("row", 16), <<"">>})
  @@ "kubectl get pods" :> Row(<<"kubectl", "get", "pods">>, {<<"NAME STATUS", "pod Running">>, <<"pod Completed", "pod Running">>, <<"pod Error", "pod Pending">>, <<"">>})
  @@ "kubectl logs" :> Row(<<"kubectl", "logs", "a">>, {N("text", 30)})
  @@ "kubectl describe" :> Row(<<"kubectl", "describe", "pod">>, {<<"Name:">>, <<"Status:">>, <<"Events:", " indented">>, <<"Annotations:">> \o N(" indented", 7), <<"Labels:", " indented">>, <<"text">>, <<"">>})
  @@ "kubectl apply" :> Row(<<"kubectl", "apply", "-f">>, One({"pod/a created", "deployment.apps/a configured", "error:", "text"}))
  @@ "kubectl events" :> Row(<<"kubectl", "get", "events">>, {<<"TYPE REASON", "Normal Other">>, <<"TYPE REASON", "Warning Failed">>, <<"TYPE REASON">> \o N("Warning Other", 9), <<"TYPE REASON", "Normal BackOff">>})
  @@ "helm list" :> Row(<<"helm", "list">>, One({"NAME", "row", ""}))
  @@ "helm install" :> Row(<<"helm", "install", "a">>, One({"NAME:", "STATUS:", "NOTES:", "Error:", "text"}))
  @@ "helm uninstall" :> Row(<<"helm", "uninstall", "a">>, One({"row", ""}))
  @@ "helm status" :> Row(<<"helm", "status", "a">>, One({"NAME:", "STATUS:", "READY:", "Error:", "text"}))
  @@ "helm diff" :> Row(<<"helm", "diff", "a">>, One({"+a", "-a", "@@", "Release", "text"}))
  @@ "helm template" :> Row(<<"helm", "template", "a">>, {N("text", 25), <<"kind:">>})
  @@ "terraform plan" :> Row(<<"terraform", "plan">>, One({"Plan: 1 to add", "Error:", "| Error:", "+ a"}) \cup
       {N("will be created", 5), N("will be destroyed", 6), <<"must be replaced", "will be updated in-place">>})
  @@ "terraform plan clean" :> Row(<<"tofu", "plan">>, One({"No changes. Your infrastructure", "No changes.", "Error:", "| Error:", "+ a"}))
  @@ "terraform apply" :> Row(<<"terraform", "apply">>, One({"a: Creating...", "Apply complete!", "Error:", "| Error:", "text"}))
  @@ "terraform init" :> Row(<<"terraform", "init">>, One({"Error:", "| Error:", "text"}))
  @@ "terraform validate" :> Row(<<"terraform", "validate">>, One({"Success!", "Error:", "| Error:", "warning"}))
  @@ "terraform output" :> Row(<<"terraform", "output">>, {<<"k = v">>, <<"k = {", "value = v", "}">>, <<"k = {", "sensitive = true", "}">>, <<"k = {", "sensitive =  true", "value = v", "}">>})
  @@ "terraform state list" :> Row(<<"terraform", "state", "list">>, {N("a", 18), <<"">>})
  @@ "terraform state show" :> Row(<<"terraform", "state", "show">>, One({"# a", "resource a", "id = 1", "x = 1"}))
  @@ "aws ec2" :> Row(<<"aws", "ec2", "describe-instances">>, {N("{item}", 9), <<"text">>})
  @@ "aws error" :> Row(<<"aws", "iam", "list-users">>, {<<"Error Code">>, <<"An error">>, <<"text">>})
  @@ "aws s3 ls" :> Row(<<"aws", "s3", "ls">>, One({"object", "PRE a/", "PRE b/"}))
  @@ "gh pr list" :> Row(<<"gh", "pr", "list">>, One({"row", ""}))
  @@ "gh pr view" :> Row(<<"gh", "pr", "view">>, {<<"title:">>, <<"--">>, N("text", 9), <<"">>, <<"<!-- -->">>, <<"checks:">>})
  @@ "gh pr checks" :> Row(<<"gh", "pr", "checks">>, One({"check pass", "check fail"}))
  @@ "gh run list" :> Row(<<"gh", "run", "list">>, One({"completed success", "completed failure", "queued", "text"}))
  @@ "gh repo clone" :> Row(<<"gh", "repo", "clone">>, One({"text", ""}))
  @@ "psql" :> Row(<<"psql">>, {<<"header", "---+---">>, N("row", 12), <<"(3 rows)">>, <<"">>})
  @@ "psql error" :> Row(<<"psql", "-c">>, One({"ERROR:", "DETAIL:", "row"}))
  @@ "wget" :> Row(<<"wget", "x">>, One({"45%[==>]", "saved", "ERROR 404"}))
  @@ "rsync" :> Row(<<"rsync", "a", "b">>, {<<"xfr#1">>, N("45% 1MB/s", 3), <<"error">>, <<"", "sent 1 bytes">>})
  @@ "ffmpeg" :> Row(<<"ffmpeg", "-i">>, {N("frame=", 3), <<"size=">>, <<"Error">>, <<"Output", "">>})
  @@ "journalctl" :> Row(<<"journalctl">>, {N("text", 30)})
  @@ "env" :> Row(<<"env">>, One({"PATH", "NODE_TOKEN", "AWS_SECRET", "DB_URL", "EDITOR", "text"}) \cup {N("HOME", 6)})
  @@ "log" :> Row(<<"log", "a">>, {<<"ERROR a", "ERROR b", "ERROR a">>, <<"WARN a", "text b">>, N("text a", 4)})

FileRows ==
  "ls" :> Row(<<"ls">>, {N("dir/", 15), <<"node_modules/">>, <<"a.rs", "a.md", "a.py">>, N("a.rs", 18), <<"">>})
  @@ "tree" :> Row(<<"tree">>, {N("text", 15), <<"2 directories, 3 files">>})
  @@ "find" :> Row(<<"find", ".", "-name", "x">>, {N("a/", 20), N("b/", 17), <<"">>})
  @@ "grep" :> Row(<<"grep", "-r", "x">>, {N("a.rs:1", 70), N("b.rs:1", 70), N("match", 26)})
  @@ "diff" :> RowWith(<<"diff", "a", "b">>, {<<"diff", "---", "+++", "@@", "-a", "+a">>, <<"@@", "x", "-a", "x", "x", "x">>, <<"@@", "+a", "@@", "-a">>}, [dotgit |-> {{}, {"MERGE_HEAD"}}])
  @@ "cat" :> RowWith(<<"cat", "a">>, {N("text", 90), N("text", 45)}, [dotgit |-> {{}, {"rebase-merge"}}])
  @@ "read strip" :> Row(<<>>, {<<"x">>, <<"// c">>, <<"/*", "x", "*/">>, <<"x /* c */">>, <<"x /*", "c", "*/ x">>, <<"", "", "">>})
  @@ "read structural" :> Row(<<>>, {<<"pub fn {", "x", "if {", "}", "}">>, <<"fn {", "x", "}">>, <<"/// d">>, <<"type {", "x", "}">>, <<"impl {">>, <<"}">>, <<"use x">>})
  @@ "read aggressive" :> Row(<<>>, {<<"pub fn {", "x", "if {", "}", "}">>, <<"fn {", "x", "}">>, <<"type {", "x", "}">>, <<"use x">>})
  @@ "read python" :> Row(<<>>, {<<"def f", "    x", "">>, <<"class C", "    def m", "        x">>, <<"import x">>, <<"@d">>, <<"    import x">>})
  @@ "read auto" :> Row(<<>>, {N("x", 40), N("// c", 25), <<"fn {">> \o N("x", 48) \o <<"}">>})
  @@ "git status" :> RowWith(<<"git", "status">>, {N(" M a", 9), N("M  a", 8), N("?? a", 6), <<"MM a">>}, [dotgit |-> {{}, {"MERGE_HEAD"}, {"rebase-apply", "rebase-apply/applying"}}])
  @@ "git status merging" :> RowWith(<<"git", "status", "-s">>, One({"UU a", "AA a", "DD a", "UD a", "UA a", " M a", "?? a"}), [dotgit |-> {{"MERGE_HEAD"}, {"CHERRY_PICK_HEAD"}, {"REVERT_HEAD"}, {"BISECT_LOG"}, {"rebase-merge"}}])
  @@ "git diff" :> RowWith(<<"git", "diff">>, {<<"diff --git", "index", "--- a", "+++ a", "@@", "-a", "+a">>, <<"diff --git", "@@", " a", " a", " a">> \o N("+b", 22) \o <<" a">>,
         <<"diff --git", "@@", " a", " a", " a", "-a", "-a", "+b">>, <<"diff --git", "@@">> \o N("-a", 19) \o <<"@@">> \o N("+b", 19) \o <<"\\ No newline">>}, [dotgit |-> {{}, {"CHERRY_PICK_HEAD"}}])
  @@ "git log" :> Row(<<"git", "log">>, {N("1a2b3c", 9), <<"1a2b3c">>})
  @@ "git push" :> Row(<<"git", "push">>, One({"error:", "rejected", "fatal:", "main -> main", "1 file changed", "Everything up-to-date", "text"}) \cup {N("text", 4)})
  @@ "git push again" :> RowWith(<<"git", "fetch">>, One({"error:", "main -> main", "text"}), [runs |-> 2])
  @@ "git commit" :> Row(<<"git", "commit">>, One({"[main 1a2b3c]", "1 file changed", "text", "error:"}))
  @@ "git branch" :> Row(<<"git", "branch">>, {N("a", 11), <<"">>})
  @@ "git merge" :> Row(<<"git", "merge", "a">>, One({"CONFLICT", "Automatic merge failed", "Already up to date.", "Fast-forward", "Merge made by", "1 file changed", "text"}))
  @@ "git rebase" :> Row(<<"git", "rebase", "a">>, One({"CONFLICT", "error: could not apply", "Successfully rebased", "is up to date", "text"}))
  @@ "git clone" :> Row(<<"git", "clone", "a">>, One({"fatal:", "error:", "Cloning into 'a'", "text"}))
  @@ "git checkout" :> Row(<<"git", "checkout", "a">>, One({"error:", "Switched to branch", "Already on", "text", ""}))
  @@ "git show" :> Row(<<"git", "show">>, One({"text"}))

(* Texts that only the pipeline filters.  *)
TextRows ==
  "flutter" :> Row(<<"flutter", "build">>, {<<"error: x", "a">>, <<"> Task :a", "> Task :b">>, <<"b", "Got dependencies!", "c">>,
      <<"d", "", "warning: y">>})
  @@ "filter" :> Row(<<>>, {<<"error: x", "a">>, <<"b", "[==>   ]", "c">>, <<"d", "d", "warning: y">>})
  @@ "filter flutter" :> Row(<<>>, {<<"error: x", "a", "> Task :a">>, <<"a again", "c", "a">>, <<"warning: y", "> Task :a", "b">>})
  @@ "filter long" :> Row(<<>>, {N("45% done", 26), <<"a", "b", "error: x", "c", "d", "warning: y">>})
  @@ "hook flutter" :> Row(<<>>, {<<"error: x", "a", "e">>, <<"b", "c">>, <<"a again", "warning: y", "f">>})
  @@ "hook go" :> Row(<<>>, {<<"{a output}", "{b output}">>, <<"{a fail}">>, <<"{a ok}">>, <<"{b fail}">>, <<"{b ok}">>})
  @@ "hook jest" :> Row(<<>>, {<<"{failed 1}", "{passed 1}">>, <<"{passed 2}", "{passed 1}">>, <<"{failed 2}", "text">>})
  @@ "hook cargo" :> Row(<<>>, {<<"{rustc error 1}", "{artifact}">>, <<"{rustc warning}", "{artifact}">>, <<"{rustc error 2}">>})
  @@ "filter json" :> Row(<<>>, {<<"{info a1}", "{info a2}">>, <<"{info a3}", "{info a4}", "">>, <<"{error m}", "{debug m}">>,
      <<"{warn m}", "text">>, <<"{info b}">>})
  @@ "filter messages" :> Row(<<>>, {<<"{msg a}", "{err a}">>, <<"text", "{msg a}">>, <<"{msg b}">>})
  @@ "filter trace" :> Row(<<>>, {<<"thread panicked at", "stack backtrace:", "  0: main", "  1: /rustc/", "note:">>,
      <<"Traceback", "  File user", "    code", "  File site-packages/", "    code", "ValueError: x">>,
      <<"Error: js", "    at user (x:1:1)">>, <<"x.Exception:", "    at x.user(", "    at java.x(", "Caused by:">>, <<"goroutine 1", "\ttab", "">>})
MCUnknown == "flutter" :> [hint |-> "flutter", query |-> TRUE, history |-> FALSE]
  @@ [c \in {"filter", "filter long", "filter json", "filter messages", "filter trace"} |-> [hint |-> "", query |-> FALSE, history |-> FALSE]]
  @@ "filter flutter" :> [hint |-> "flutter", query |-> FALSE, history |-> FALSE]
  @@ "hook flutter" :> [hint |-> "flutter", query |-> FALSE, history |-> TRUE]
  @@ "hook go" :> [hint |-> "go", query |-> FALSE, history |-> FALSE]
  @@ "hook jest" :> [hint |-> "jest", query |-> FALSE, history |-> FALSE]
  @@ "hook cargo" :> [hint |-> "cargo", query |-> FALSE, history |-> FALSE]
Rule(kinds, action) == [kinds |-> kinds, action |-> action, n |-> 0, unless |-> {}]
MCPatterns == "flutter" :> <<Rule({"Got dependencies!"}, "Remove"), Rule({"> Task :a", "> Task :b"}, "Collapse")>>
MCGlobal == [threshold |-> 5, head |-> 2, tail |-> 2, deduplicate |-> TRUE, ceiling |-> 56, cap |-> 7,
             entropyLines |-> 7, chunkThreshold |-> 6, chunkSize |-> 3, router |-> TRUE]
MCAlike == {{"a", "a again"}, {"b", "warning: y"}}

Rows == TestRows @@ TextRows @@ BuildRows @@ LintRows @@ PackageRows @@ ServiceRows @@ FileRows
HandlerFor(words) == GetHandler(words[1], "")
MCCommands == [c \in DOMAIN Rows |->
                 [args |-> IF Rows[c].typed = <<>> THEN <<>> ELSE RewriteArgs(HandlerFor(Rows[c].typed), Rows[c].typed)] @@ Rows[c]]

(* Words that no row prints with, for what becomes of them.  *)
MoreTyped ==
  {<<"cargo", "+nightly", "clippy", "--", "-D">>, <<"cargo", "check", "--message-format=json">>,
   <<"git", "--no-pager", "log", "-5">>, <<"git", "-C", "a", "status">>, <<"git", "log", "--oneline">>,
   <<"docker", "logs", "--tail", "5">>, <<"npm", "build">>, <<"vitest", "watch">>, <<"vitest", "run", "--reporter=dot">>,
   <<"find", ".", "-maxdepth", "2">>, <<"py.test", "-v">>, <<"pytest", "--tb=long">>, <<"grep", "--heading", "x">>,
   <<"jest", "--coverage">>, <<"go", "test", "-json", "./...">>, <<"pip", "list", "--format=json">>,
   <<"journalctl", "-n", "5">>, <<"kubectl", "logs", "--tail=5">>, <<"ruff", "check", "--output-format", "json">>,
   <<"terraform", "plan", "-no-color">>, <<"brew", "install", "-q">>, <<"wget", "-v", "x">>, <<"tsc", "--noEmit">>,
   <<"rubocop", "-f", "s">>, <<"rspec", "-f", "d">>, <<"nx", "--output-style=static">>, <<"mypy", "--no-color">>,
   <<"make", "--print-directory">>, <<"tree", "-a">>, <<"aws", "ec2", "describe-instances", "--output", "table">>,
   <<"helm", "upgrade">>, <<"playwright", "test", "--reporter=dot">>, <<"bloop", "build">>, <<"git">>, <<"ninja">>}
(* Lines that agents run, made of commands, operators and what may precede a command.  *)
Simple == {<<"git", "status">>, <<"cargo", "build">>, <<"bloop", "x">>, <<"git", "show", "|", "head", "-5">>,
           <<"git", "log", ">", "f">>, <<"tail", "-n", "5", "f">>, <<"panda", "run", "git", "log">>, <<"git", "commit", "-m", "\"a", "b\"">>}
Before == {<<"exec">>, <<"A=1">>, <<"A=\"a", "b\"">>, <<"direnv", "exec", ".">>, <<"exec", "A=1", "\\n">>, [i \in 1..10 |-> "exec"]}
MCLines == Simple \cup {p \o s : p \in Before, s \in Simple}
  \cup {s \o <<op>> \o u : s, u \in Simple, op \in Operators}
  \cup {<<"head", "-5", "f">>, <<"head", "f", "g">>, <<"tail", "-f", "f">>, <<"head", "--lines=5", "f">>, <<"head", "-n", "5">>,
         <<"exec">>, <<"A=1">>, <<"direnv", "exec", ".", "exec", "git", "status">>, <<"git", "", "status">>,
         <<"git", "commit", "-m", "\"a", "", "b\"">>, <<"git", "commit", "-m", "\"a", "&&", "b\"">>,
         <<"git", "commit", "-m", "\"a", ">", "b\"">>, <<"pytest", "&&", "make", ";", "ls">>}
MCPrefixes == {<<"direnv", "exec", ".">>, <<"direnv">>}
MCTyped == {MCCommands[c].typed : c \in DOMAIN MCCommands} \cup MoreTyped \cup MCLines
MCSimilarities == {40, 56, 72, 90}
MCCritical == {"error: x", "warning: y", "{error m}", "{warn m}", "{err a}", "{rustc error 1}", "{rustc error 2}",
               "{rustc warning}", "thread panicked at", "ValueError: x", "Error: js", "x.Exception:", "error", "error:", "ERROR", "fatal:", "10:5 error"}

(* Three calls of git status in a tree with one modified file.  *)
StatusAgain == [c \in {"git status"} |-> [MCCommands[c] EXCEPT !.blocks = {<<" M a">>}, !.runs = 3,
                                                             !.dotgit = {{}}]]
StatusTyped == {<<"git", "status">>}
============================================================================
