------------------------------ MODULE Services ------------------------------
(***************************************************************************)
(* What the handlers of cluster, cloud and system commands return for an   *)
(* output: docker, kubectl, helm, terraform, aws, gh, psql, curl, wget,     *)
(* rsync, ffmpeg, journalctl, env, log, json and jq.                        *)
(***************************************************************************)
EXTENDS Lines

KeepOrWhole(t, K) == OrWhole(Lines(At(t, K)), t)

(* Logs go to the summarizer, with a third of their lines as its budget.  *)
LogBudget(n) == Min({200, Max({20, n \div 3})})
ServiceLogs(t) == IF t = <<>> THEN <<>> ELSE Note("summarized", LogBudget(Len(t)))

(***************************************************************************)
(* JSON: the items of a response.  One item stands for a response that is  *)
(* no longer than its schema, which is then not used.                       *)
(***************************************************************************)
Items(t) == At(t, {"{item}"})
SchemaOr(t, other) == IF Len(Items(t)) > 1 THEN Note("schema", 0) ELSE other
Json(t) == SchemaOr(t, Whole(t))
Curl(t) == SchemaOr(t, Capped(Every(t), 30, "more lines"))
Jq(t) ==
  LET all == Every(t)
  IN  IF Len(t) <= 20 THEN Whole(t)
      ELSE IF Items(t) # <<>> THEN Note("schema of the first", 0) \o Note("items", Len(Items(t)))
      ELSE IF Len(t) \in 81..500
      THEN Lines(Take(all, 60)) \o Note("lines omitted", Len(t) - 80) \o Lines(Final(all, 20))
      ELSE Note("summarized", 40)

(***************************************************************************)
(* docker.  A build shows its errors alone, and what it built only when it  *)
(* has none.                                                               *)
(***************************************************************************)
DockerPs(t) == IF t = <<>> THEN <<>>
               ELSE <<Line(1)>> \o Lines(Where(t, LAMBDA i : i > 1 /\ t[i] # ""))
DockerImages(t) ==
  LET sized == Where(t, LAMBDA i : i > 1 /\ t[i] = "repo 12MB")
  IN  IF t = <<>> THEN <<>>
      ELSE Note("REPOSITORY", 0) \o Lines(Where(t, LAMBDA i : i > 1 /\ t[i] # ""))
             \o Counted("images", Len(sized))
DockerBuild(t) ==
  LET built == Final(At(t, {"Successfully built a"}), 1)
  IN  IF Len(t) <= 3 THEN Whole(t)
      ELSE IF Has(t, {"ERROR"}) THEN Lines(At(t, {"ERROR"}))
      ELSE IF built # <<>>
      THEN Note("Build OK", built[1]) \o Lines(Final(At(t, {"Successfully tagged a"}), 1))
      ELSE Whole(t)

(***************************************************************************)
(* kubectl.  Pods that run or have completed are only counted.             *)
(***************************************************************************)
KubectlGet(t) ==
  IF Filled(t) = <<>> THEN Whole(t)
  ELSE Lines(Take(Filled(t), 1)) \o Capped(Tail(Filled(t)), 30, "more")
HealthyStatuses == {"pod Running", "pod Completed"}
KubectlGetPods(t) ==
  LET pods    == Tail(Filled(t))
      problem == Only(pods, LAMBDA i : t[i] \notin HealthyStatuses)
      states  == FirstOf(t, {t[problem[j]] : j \in DOMAIN problem})
  IN  IF Filled(t) = <<>> \/ t[Filled(t)[1]] # "NAME STATUS" THEN KubectlGet(t)
      ELSE IF pods = <<>> THEN Whole(t)
      ELSE IF problem = <<>> THEN Note("pods, all running", Len(pods))
      ELSE Lines(Take(Filled(t), 1)) \o Lines(problem)
             \o Counted("running", Len(pods) - Len(problem))
             \o [j \in DOMAIN states |-> <<t[states[j]], Len(At(t, {t[states[j]]}))>>]

(* A section that is kept goes on to the next line that is not indented; of   *)
(* annotations and labels five lines are kept.                                 *)
DescribeStep(t, a, i) ==
  LET k    == t[i]
      kept == Append(a.out, Line(i))
      in   == \/ k \in {"Name:", "Status:", "Events:"}
              \/ a.in /\ k \in {"", " indented"}
  IN  IF k \in {"Annotations:", "Labels:"} THEN [a EXCEPT !.out = kept, !.notes = TRUE, !.n = 0]
      ELSE IF a.notes /\ k = " indented"
      THEN [a EXCEPT !.n = @ + 1,
                     !.out = CASE a.n < 5 -> kept
                               [] a.n = 5 -> @ \o Note("annotations", 6)
                               [] OTHER -> @]
      ELSE [a EXCEPT !.notes = FALSE, !.in = in, !.out = IF in THEN kept ELSE @]
KubectlDescribe(t) ==
  OrWhole(Scan(LAMBDA a, i : DescribeStep(t, a, i),
               [in |-> FALSE, notes |-> FALSE, n |-> 0, out |-> <<>>], t).out, t)

KubectlChanges(t) == KeepOrWhole(t, {"pod/a created", "deployment.apps/a configured", "error:"})
KubectlEvents(t) ==
  LET columns == Filled(t) # <<>> /\ t[Filled(t)[1]] = "TYPE REASON"
      warnings == At(t, IF columns THEN {"Warning Other", "Normal BackOff", "Warning Failed"} ELSE {})
  IN  IF Filled(t) = <<>> THEN Whole(t)
      ELSE IF warnings = <<>> THEN Note("no warning events", 0)
      ELSE Lines(Take(Filled(t), 1)) \o Capped(warnings, 20, "more")

(***************************************************************************)
(* helm.                                                                   *)
(***************************************************************************)
HelmList(t) == Lines(Filled(t))
HelmDeploy(t) == KeepOrWhole(t, {"NAME:", "STATUS:", "NOTES:", "has been upgraded", "Error:"})
HelmUninstall(t) == Lines(Filled(t))
HelmStatus(t) == KeepOrWhole(t, {"NAME:", "STATUS:", "NOTES:", "READY:", "Error:"})
HelmDiff(t) == OrNote(Lines(At(t, {"+a", "-a", "@@", "Release"})), "no diff")
HelmTemplate(t) ==
  IF Len(t) <= 60 THEN Whole(t)
  ELSE Lines(Take(Every(t), 60)) \o Note("lines total", Len(t))
         \o Note("resources", Len(At(t, {"kind:"})))

(***************************************************************************)
(* terraform.  A plan is grouped by what happens to a resource, eight of   *)
(* each group shown; the addresses keep their order in a group.             *)
(***************************************************************************)
TerraformChanges == <<"will be created", "will be updated in-place", "must be replaced",
                      "will be destroyed">>
TerraformPlan(t) ==
  LET summary == Final(At(t, {"Plan: 1 to add"}), 1)
      n(k)    == Len(At(t, {k}))
      group(k) == Counted(k, n(k)) \o Capped(At(t, {k}), 8, "more")
      header  == IF summary # <<>> THEN Lines(summary)
                 ELSE Note("to add", n("will be created"))
                        \o Note("to change", n("will be updated in-place") + n("must be replaced"))
                        \o Note("to destroy", n("will be destroyed"))
  IN  IF Has(t, {"No changes. Your infrastructure"}) /\ ~Has(t, {"Error:", "| Error:"})
      THEN Note("no changes detected", 0)
      ELSE IF Has(t, {"No changes. Your infrastructure", "No changes."}) THEN Whole(t)
      ELSE IF Has(t, ToSet(TerraformChanges))
      THEN header \o FlattenSeq([j \in 1..4 |-> group(TerraformChanges[j])])
      ELSE KeepOrWhole(t, {"+ a", "- a", "~ a", "Plan: 1 to add"})
TerraformApply(t) == KeepOrWhole(t, {"a: Creating...", "a: Creation complete", "Apply complete!",
                                     "Error:", "| Error:"})
(* An error counts only when a line begins with it: in the frame that terraform *)
(* draws around its messages it does not.                                       *)
TerraformInit(t) ==
  IF Has(t, {"Error:"}) THEN Lines(At(t, {"Error:", "| Error:"}))
  ELSE Note("terraform init complete", 0)
TerraformValidate(t) ==
  IF Has(t, {"Success!"}) /\ ~Has(t, {"Error:", "| Error:"}) THEN Note("terraform validate: ok", 0)
  ELSE KeepOrWhole(t, {"Success!", "Error:", "| Error:", "warning"})

(* The number of a pair is the line of its key.  *)
TerraformOutput(t) ==
  LET Pair(a, what) == IF a.key = 0 THEN a.out ELSE Append(a.out, <<what, a.key>>)
      Step(a, i) ==
        CASE t[i] = "sensitive = true" -> [key |-> 0, hide |-> FALSE, out |-> Pair(a, "sensitive")]
          [] t[i] = "}" -> [a EXCEPT !.key = 0, !.hide = FALSE]
          [] t[i] = "sensitive =  true" -> [a EXCEPT !.hide = TRUE]
          [] t[i] = "value = v" -> [key |-> 0, hide |-> FALSE,
                                    out |-> Pair(a, IF a.hide THEN "sensitive" ELSE "value")]
          [] t[i] = "k = {" -> [a EXCEPT !.key = i]
          [] t[i] = "k = v" -> [a EXCEPT !.out = Append(@, <<"value", i>>)]
          [] OTHER -> a
  IN  OrWhole(Scan(Step, [key |-> 0, hide |-> FALSE, out |-> <<>>], t).out, t)
TerraformStateList(t) == Capped(Filled(t), 50, "more")
TerraformStateShow(t) == KeepOrWhole(t, {"# a", "resource a", "id = 1"})

(***************************************************************************)
(* aws: an error is returned as it came; a list as its first 25 resources, *)
(* when that is shorter, else as a schema.                                  *)
(***************************************************************************)
AwsResources(t) == Capped(Items(t), 25, "more")
Aws(t) ==
  IF Has(t, {"Error Code"}) \/ (t # <<>> /\ t[1] = "An error") THEN Whole(t)
  ELSE IF Len(Items(t)) > 1 THEN Note("header", 0) \o AwsResources(t)
  ELSE Whole(t)
AwsS3Ls(t) ==
  LET objects == Len(At(t, {"object"}))
      prefixes == FirstOf(t, {"PRE a/", "PRE b/"})
  IN  OrWhole(Counted("objects", objects) \o Lines(prefixes), t)

(***************************************************************************)
(* gh.                                                                     *)
(***************************************************************************)
GhList(t) == Lines(Filled(t))
GhPrViewStep(t, a, i) ==
  LET k == t[i]
      blanks == IF k = "" THEN a.blanks + 1 ELSE 0
  IN  IF k = "title:" THEN [a EXCEPT !.out = Append(@, Line(i))]
      ELSE IF k \in {"--", "---"} THEN [a EXCEPT !.body = TRUE]
      ELSE IF a.body /\ a.n < 20
      THEN IF k = "<!-- -->" THEN a
           ELSE IF blanks >= 3 THEN [a EXCEPT !.blanks = blanks]
           ELSE [a EXCEPT !.blanks = blanks, !.n = @ + 1, !.out = Append(@, Line(i))]
      ELSE IF k = "checks:" THEN [a EXCEPT !.out = Append(@, Line(i))]
      ELSE a
GhPrView(t) ==
  OrWhole(Scan(LAMBDA a, i : GhPrViewStep(t, a, i),
               [body |-> FALSE, n |-> 0, blanks |-> 0, out |-> <<>>], t).out, t)
GhPrChecks(t) == LET failed == At(t, {"check fail"})
                 IN  Note("passed", Len(At(t, {"check pass"}))) \o Note("failed", Len(failed)) \o Lines(failed)
GhRun(t) == KeepOrWhole(t, {"completed success", "completed failure", "queued"})
GhLastLine(t) == OrWhole(Lines(LastFilled(t)), t)

(***************************************************************************)
(* psql: errors alone when there is one; else the header and twenty rows,  *)
(* then the count that psql printed last.                                  *)
(***************************************************************************)
Psql(t) ==
  LET data  == Where(t, LAMBDA i : t[i] \notin {"", "---+---"})
      count == Only(Final(data, 1), LAMBDA i : t[i] = "(3 rows)")
      table == Take(data, Len(data) - Len(count))
  IN  IF Has(t, {"ERROR:"}) THEN Lines(At(t, {"ERROR:", "DETAIL:"}))
      ELSE IF data = <<>> THEN Whole(t)
      ELSE Capped(table, 21, "more rows") \o Lines(count)

(***************************************************************************)
(* wget, rsync, ffmpeg: progress is dropped.                               *)
(***************************************************************************)
Wget(t) == OrWhole(Lines(Where(t, LAMBDA i : t[i] # "45%[==>]")), t)
Rsync(t) ==
  LET kept == Where(t, LAMBDA i : t[i] \notin {"", "xfr#1", "45% 1MB/s"})
  IN  IF Len(t) < 5 THEN Whole(t)
      ELSE OrWhole(Lines(kept) \o Counted("files transferred", IF Has(t, {"xfr#1"}) THEN 1 ELSE 0), t)
Ffmpeg(t) == IF Len(t) < 5 THEN Whole(t)
             ELSE OrWhole(Lines(Where(t, LAMBDA i : t[i] \notin {"", "frame=", "size="})), t)

(***************************************************************************)
(* env: variables by category, the value of one whose name says that it is *)
(* a secret replaced; lines without "=" are dropped.                        *)
(***************************************************************************)
EnvCategory == [PATH |-> "Path", NODE_TOKEN |-> "Language", AWS_SECRET |-> "Cloud",
                DB_URL |-> "Cloud", EDITOR |-> "Tools", MY_PASSWORD |-> "Other", HOME |-> "Other"]
IsSensitive == {"NODE_TOKEN", "AWS_SECRET", "MY_PASSWORD"}
Env(t) ==
  LET show(s) == [j \in DOMAIN s |-> IF t[s[j]] \in IsSensitive THEN <<"redacted", s[j]>> ELSE Line(s[j])]
      of(c)   == Where(t, LAMBDA i : t[i] \in DOMAIN EnvCategory /\ EnvCategory[t[i]] = c)
      section(c) == IF of(c) = <<>> THEN <<>> ELSE Note(c, 0) \o show(of(c))
      other   == of("Other")
  IN  section("Path") \o section("Language") \o section("Cloud") \o section("Tools")
        \o (IF other = <<>> THEN <<>> ELSE Note("Other", IF Len(other) > 10 THEN Len(other) ELSE 0))
        \o show(Take(other, 10)) \o More(other, 10, "more variables")

(***************************************************************************)
(* log: the lines that are the same but for numbers, times and paths are   *)
(* one group, written once with its size, two hundred lines of them at      *)
(* most; before them ten groups of errors and five of warnings.             *)
(***************************************************************************)
Log(t, errors, warnings) ==
  LET groups == FirstOf(t, ToSet(t))
      size(i) == Len(At(t, {t[i]}))
      top(K, n) == LET s == Only(groups, LAMBDA i : t[i] \in K)
                   IN  Take(SortSeq(s, LAMBDA i, j : size(i) > size(j)), n)
      heads == top(errors, 10) \o top(warnings, 5)
      entry(s) == [j \in DOMAIN s |-> <<t[s[j]], size(s[j])>>]
      summary == IF heads = <<>> THEN <<>>
                 ELSE Note("Log Summary", 0) \o entry(heads) \o Note("blank", 0)
  IN  summary \o entry(Take(groups, 200 - Len(summary)))
=============================================================================
