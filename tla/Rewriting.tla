----------------------------- MODULE Rewriting -----------------------------
(***************************************************************************)
(* From the words of a command to its handler and to the words that are    *)
(* executed (handlers/mod.rs and the rewrite_args of the handlers).  args   *)
(* is the sequence of words with the program first; a word is a string, and *)
(* a test of a word's prefix is membership in the words that have it.      *)
(***************************************************************************)
EXTENDS Integers, Sequences, SequencesExt

Sub(args) == IF Len(args) >= 2 THEN args[2] ELSE ""
Given(args, words) == \E i \in DOMAIN args : args[i] \in words
Put(args, i, words) == SubSeq(args, 1, i - 1) \o words \o SubSeq(args, i, Len(args))
(* The words are appended unless one of given is there.  *)
Unless(args, given, words) == IF Given(args, given) THEN args ELSE args \o words

(***************************************************************************)
(* The handler of a program: by its name, by an alias, or, for a name that  *)
(* neither knows, the most similar one when it stands out.  Similarities    *)
(* are percentages.                                                        *)
(***************************************************************************)
GetHandlerExact(name) ==
  CASE name \in {"docker", "docker-compose"} -> "docker"
    [] name \in {"npm", "yarn"} -> "npm"
    [] name = "cat" -> "read"
    [] name \in {"grep", "rg"} -> "grep"
    [] name \in {"pip", "pip3"} -> "pip"
    [] name \in {"mypy", "mypy3"} -> "mypy"
    [] name \in {"python", "python3"} -> "python"
    [] name \in {"terraform", "tofu"} -> "terraform"
    [] name \in {"make", "gmake"} -> "make"
    [] name \in {"env", "printenv"} -> "env"
    [] name \in {"gradle", "./gradlew", "gradlew"} -> "gradle"
    [] name \in {"clippy", "cargo-clippy"} -> "clippy"
    [] name \in {"cargo", "curl", "git", "pnpm", "ls", "find", "tsc", "vitest", "jest", "eslint",
                 "pytest", "uv", "ruff", "kubectl", "gh", "aws", "psql", "tree", "diff", "jq", "go",
                 "mvn", "brew", "helm", "journalctl", "json", "log", "ember", "next", "playwright",
                 "prisma", "golangci-lint", "prettier", "nx", "vite", "webpack", "turbo",
                 "stylelint", "biome", "rspec", "rubocop", "rake", "wget", "rsync", "ffmpeg",
                 "swift", "dotnet", "cmake", "bazel"} -> name
    [] OTHER -> ""
StaticAliases ==
  [a \in {"py", "poetry", "pdm", "uvx", "py.test", "bun", "deno", "ninja", "flake8", "pylint", "k",
          "minikube", "gcloud", "az", "python3.11", "bazelisk"} |->
     CASE a \in {"py", "python3.11"} -> "python"
       [] a \in {"poetry", "pdm"} -> "pip"
       [] a = "uvx" -> "uv"
       [] a = "py.test" -> "pytest"
       [] a \in {"bun", "deno"} -> "jest"
       [] a = "ninja" -> "make"
       [] a \in {"flake8", "pylint"} -> "mypy"
       [] a \in {"k", "minikube"} -> "kubectl"
       [] a \in {"gcloud", "az"} -> "aws"
       [] a = "bazelisk" -> "bazel"]
GetHandlerAlias(name) == IF name \in DOMAIN StaticAliases THEN GetHandlerExact(StaticAliases[name])
                         ELSE ""
(* With a similarity and a margin that are high the handler also rewrites the   *)
(* words; with middling ones it only filters.                                   *)
BertThreshold == [high |-> 70, med |-> 55]
BertMargin    == [high |-> 15, med |-> 8]
GetHandlerBert(best, second) ==
  IF best >= BertThreshold.high /\ best - second >= BertMargin.high THEN "full"
  ELSE IF best >= BertThreshold.med /\ best - second >= BertMargin.med THEN "filter"
  ELSE "none"

(* routed is the handler that similarity gives, "" for none.  *)
GetHandler(name, routed) ==
  IF GetHandlerExact(name) # "" THEN GetHandlerExact(name)
  ELSE IF GetHandlerAlias(name) # "" THEN GetHandlerAlias(name) ELSE routed

(***************************************************************************)
(* git's subcommand is the first word that is no option and no value of    *)
(* one.                                                                    *)
(***************************************************************************)
ValueOptions == {"-C", "-c"}
GlobalOptions == {"--no-pager"}
GitSubcmdAt(args) ==
  LET free[i \in 1..Len(args)] == i = 1 \/ ~(free[i - 1] /\ args[i - 1] \in ValueOptions)
      subs == {i \in 2..Len(args) : free[i] /\ args[i] \notin ValueOptions \cup GlobalOptions}
  IN  IF subs = {} THEN 0 ELSE CHOOSE i \in subs : \A j \in subs : i <= j
(* The place of the subcommand is that of the first word that reads like it.  *)
GitRewrite(args) ==
  LET at    == GitSubcmdAt(args)
      sub   == IF at = 0 THEN "" ELSE args[at]
      first == CHOOSE i \in 1..Len(args) : args[i] = sub /\ \A j \in 1..(i - 1) : args[j] # sub
      small == Given(args, {"-5"})
      new(words, flag) == IF Given(args, {flag}) THEN words ELSE words \o <<flag>>
      shape == IF small THEN <<>> ELSE new(new(<<>>, "--graph"), "--decorate")
  IN  CASE sub = "log" -> Put(args, first + 1, new(<<>>, "--oneline") \o shape)
        [] sub = "status" -> IF Given(args, {"--porcelain", "--short", "-s"}) THEN args
                             ELSE Put(args, first + 1, <<"--porcelain">>)
        [] OTHER -> args

Toolchains == {"+nightly"}
CargoSubcmd(args) ==
  LET subs == SelectSeq(Tail(args), LAMBDA w : w \notin Toolchains)
  IN  IF subs = <<>> THEN "" ELSE subs[1]
MessageFormat == {"--message-format", "--message-format=json"}
(* The words go before the "--" that ends cargo's own.  *)
CargoRewrite(args) ==
  LET ends == {i \in DOMAIN args : args[i] = "--"}
      at   == IF ends = {} THEN Len(args) + 1 ELSE CHOOSE i \in ends : \A j \in ends : i <= j
  IN  IF CargoSubcmd(args) \notin {"build", "check", "clippy"} \/ Given(args, MessageFormat) THEN args
      ELSE Put(args, at, <<"--message-format", "json">>)

DockerRewrite(args) ==
  CASE Sub(args) = "logs" ->
         IF Given(args, {"--tail"}) THEN args ELSE Put(args, 3, <<"--tail", "200">>)
    [] Sub(args) \in {"ps", "images"} -> Unless(args, {"--format"}, <<"--format", "table ...">>)
    [] OTHER -> args
FindRewrite(args) ==
  IF Given(args, {"-maxdepth", "-mindepth"}) THEN args
  ELSE IF Len(args) >= 2 THEN Put(args, 3, <<"-maxdepth", "8">>) ELSE args \o <<"-maxdepth", "8">>
GoRewrite(args) == IF Sub(args) = "test" /\ Given(args, {"./...", "..."}) /\ ~Given(args, {"-json"})
                   THEN Put(args, 3, <<"-json">>) ELSE args
GrepRewrite(args) ==
  Unless(Unless(Unless(args, {"--no-heading", "--heading"}, <<"--no-heading">>),
                {"--with-filename", "-H", "--no-filename", "-h"}, <<"--with-filename">>),
         {"--null", "-Z"}, <<"--null">>)
JestRewrite(args) ==
  Unless(Unless(Unless(args, {"--json"}, <<"--json">>),
                {"--no-coverage", "--coverage"}, <<"--no-coverage">>),
         {"--no-watch", "--watchAll=false"}, <<"--no-watch">>)
(* A reporter of the user's is replaced.  *)
Reporters == {"--reporter=dot", "--reporter=json"}
VitestRewrite(args) ==
  LET out == SelectSeq(args, LAMBDA w : w \notin Reporters) \o <<"--reporter=json">>
  IN  IF Given(out, {"run", "--run"}) THEN out ELSE Put(out, 2, <<"run">>)
NpmBuiltins == {"install", "i", "add", "ci", "test", "run", "audit", "outdated", "start"}
NpmRewrite(args) ==
  IF Sub(args) # "" /\ Sub(args) \notin NpmBuiltins THEN Put(args, 2, <<"run">>)
  ELSE IF Sub(args) \in {"install", "i", "add", "ci"}
  THEN Unless(args, {"--no-progress"}, <<"--no-progress">>) ELSE args
PipRewrite(args) ==
  CASE Sub(args) \in {"install", "add"} -> Unless(args, {"-q", "--quiet"}, <<"-q">>)
    [] Sub(args) \in {"list", "outdated"} -> Unless(args, {"--format=json"}, <<"--format=json">>)
    [] OTHER -> args
PytestRewrite(args) == Unless(Unless(args, {"-v", "-s", "-q"}, <<"-q">>),
                              {"--tb=short", "--tb=long"}, <<"--tb=short">>)
AwsRewrite(args) ==
  LET action == IF Len(args) >= 3 THEN args[3] ELSE ""
  IN  IF /\ Sub(args) \in {"ec2", "ecs", "iam", "logs"}
         /\ action \in {"", "describe-instances", "list-users", "get-user"}
      THEN Unless(args, {"--output"}, <<"--output", "json">>) ELSE args
JournalctlRewrite(args) == Unless(Unless(args, {"--no-pager"}, <<"--no-pager">>),
                                  {"-n", "--lines=5"}, <<"-n", "200">>)
(* A mutant: the flag with its value is not seen.  *)
MutKubectlExactFlag(args) == IF Sub(args) = "logs" THEN Unless(args, {"--tail"}, <<"--tail=200">>) ELSE args
KubectlRewrite(args) ==
  IF Sub(args) = "logs" THEN Unless(args, {"--tail", "--tail=5", "--tail=200"}, <<"--tail=200">>) ELSE args
RuffRewrite(args) == IF Sub(args) = "check"
                     THEN Unless(args, {"--output-format"}, <<"--output-format", "concise">>) ELSE args
TerraformRewrite(args) == IF Sub(args) \in {"plan", "apply", "destroy"}
                          THEN Unless(args, {"-no-color", "--no-color"}, <<"-no-color">>) ELSE args
BrewRewrite(args) == IF Sub(args) \in {"install", "reinstall", "upgrade"}
                     THEN Unless(args, {"--quiet", "-q"}, <<"--quiet">>) ELSE args
HelmRewrite(args) == IF Sub(args) \in {"install", "upgrade", "rollback"}
                     THEN Unless(args, {"--no-color"}, <<"--no-color">>) ELSE args
TreeRewrite(args) == Unless(args, {"-I", "--gitignore", "-a"}, <<"-I", "node_modules|...">>)
MakeRewrite(args) == Unless(args, {"--no-print-directory", "--print-directory"},
                            <<"--no-print-directory">>)
MypyRewrite(args) == Unless(args, {"--no-color", "--no-colour"}, <<"--no-color">>)
NxRewrite(args) == Unless(args, {"--output-style=static", "--output-style=stream"},
                          <<"--output-style=stream">>)
PlaywrightRewrite(args) == Unless(args, Reporters \cup {"--reporter=list"}, <<"--reporter=list">>)
RspecRewrite(args) == Unless(args, {"--format", "-f"}, <<"--format", "json">>)
RubocopRewrite(args) == Unless(args, {"--format", "-f"}, <<"--format", "json">>)
TscRewrite(args) == Unless(args, {"--noEmit", "--noemit"}, <<"--noEmit">>)
WgetRewrite(args) == Unless(args, {"--quiet", "-q", "--verbose", "-v", "--debug"}, <<"--quiet">>)

RewriteArgs(handler, args) ==
  CASE handler = "git" -> GitRewrite(args)        [] handler = "cargo" -> CargoRewrite(args)
    [] handler = "docker" -> DockerRewrite(args)  [] handler = "find" -> FindRewrite(args)
    [] handler = "go" -> GoRewrite(args)          [] handler = "grep" -> GrepRewrite(args)
    [] handler = "jest" -> JestRewrite(args)      [] handler = "vitest" -> VitestRewrite(args)
    [] handler = "npm" -> NpmRewrite(args)        [] handler = "pip" -> PipRewrite(args)
    [] handler = "pytest" -> PytestRewrite(args)  [] handler = "aws" -> AwsRewrite(args)
    [] handler = "journalctl" -> JournalctlRewrite(args)
    [] handler = "kubectl" -> KubectlRewrite(args) [] handler = "ruff" -> RuffRewrite(args)
    [] handler = "terraform" -> TerraformRewrite(args)
    [] handler = "brew" -> BrewRewrite(args)      [] handler = "helm" -> HelmRewrite(args)
    [] handler = "tree" -> TreeRewrite(args)      [] handler = "make" -> MakeRewrite(args)
    [] handler = "mypy" -> MypyRewrite(args)      [] handler = "nx" -> NxRewrite(args)
    [] handler = "playwright" -> PlaywrightRewrite(args)
    [] handler = "rspec" -> RspecRewrite(args)    [] handler = "rubocop" -> RubocopRewrite(args)
    [] handler = "tsc" -> TscRewrite(args)        [] handler = "wget" -> WgetRewrite(args)
    [] OTHER -> args
============================================================================
