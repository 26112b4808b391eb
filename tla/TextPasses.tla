----------------------------- MODULE TextPasses -----------------------------
(***************************************************************************)
(* The passes of ccr-core over a text that cost no embedding: whitespace,  *)
(* JSON logs, JSON events, the rules for every command, the patterns of a   *)
(* command, stack traces and similar lines.  A pass maps the kinds of its   *)
(* lines to entries (Lines.tla); here a kind is a line's content, and two   *)
(* lines of one kind are equal.                                            *)
(***************************************************************************)
EXTENDS Lines

CONSTANTS
  Critical,  \* the kinds with a word like "error", "warning" or "failed"
  Alike      \* sets of kinds whose lines are nearly the same

(* A pass takes the entries of the one before as its lines.  *)
Kinds(out, t) == [j \in DOMAIN out |-> IF out[j][1] = "line" THEN t[out[j][2]] ELSE out[j][1]]
Through(out, result) ==
  [j \in DOMAIN result |-> IF result[j][1] = "line" THEN out[result[j][2]] ELSE result[j]]
Then(out, t, Pass(_)) == Through(out, Pass(Kinds(out, t)))

(* Of equal lines in a row one is left, and one of blank lines.  *)
Normalize(t, deduplicate) ==
  Lines(Where(t, LAMBDA i : i = 1 \/ t[i] # t[i - 1] \/ (~deduplicate /\ t[i] # "")))

(***************************************************************************)
(* Logs of one JSON object a line: more than half the lines are objects     *)
(* and one has a level.  A level that is no word is INFO, of INFO lines     *)
(* with the same first twenty characters three in a row stay.              *)
(***************************************************************************)
NormalizeLevel ==
  [k \in {"{error m}", "{fatal m}", "{warn m}", "{info a1}", "{info a2}", "{info a3}", "{info a4}",
          "{info b}", "{level 50}", "{debug m}"} |->
     CASE k \in {"{error m}", "{fatal m}"} -> "ERROR"
       [] k = "{warn m}" -> "WARN"
       [] k = "{debug m}" -> "DEBUG"
       [] OTHER -> "INFO"]
Prefix(k) == IF k \in {"{info a1}", "{info a2}", "{info a3}", "{info a4}"} THEN "a" ELSE k
GoEvents == {"{a output}", "{a fail}", "{a ok}", "{b output}", "{b fail}", "{b ok}"}
JestEvents == {"{failed 1}", "{failed 2}", "{passed 1}", "{passed 2}"}
CargoEvents == {"{rustc error 1}", "{rustc error 2}", "{rustc warning}", "{artifact}"}
Messages == {"{msg a}", "{msg b}", "{err a}", "{severity error}"}
Objects == DOMAIN NormalizeLevel \cup GoEvents \cup JestEvents \cup CargoEvents \cup Messages

IsJsonLog(t) ==
  /\ Len(Filled(t)) >= 3
  /\ 2 * Len(At(t, Objects)) > Len(Filled(t))
  /\ Has(t, DOMAIN NormalizeLevel \cup {"{severity error}"})
JsonLog(t) ==
  LET flush(a) == [out |-> a.out \o Counted("similar INFO lines", a.run - 3), prefix |-> "", run |-> 0]
      put(a, i) == [flush(a) EXCEPT !.out = Append(@, Line(i))]
      Step(a, i) ==
        LET k == t[i]
            level == IF k \in DOMAIN NormalizeLevel THEN NormalizeLevel[k]
                     ELSE IF k = "{severity error}" THEN "ERROR" ELSE "INFO"
        IN  IF k = "" THEN flush(a)
            ELSE IF k \notin Objects \/ level \in {"WARN", "ERROR"} THEN put(a, i)
            ELSE IF level = "DEBUG" THEN a
            ELSE IF Prefix(k) = a.prefix
                 THEN [a EXCEPT !.run = @ + 1, !.out = IF a.run < 3 THEN Append(@, Line(i)) ELSE @]
            ELSE [put(a, i) EXCEPT !.prefix = Prefix(k), !.run = 1]
  IN  flush(Scan(Step, [out |-> <<>>, prefix |-> "", run |-> 0], t)).out

(***************************************************************************)
(* Streams of JSON events: three of the first ten lines are objects.  The   *)
(* command decides what they are; lines that are no object are dropped.     *)
(***************************************************************************)
Detect(t) == Len(At([j \in 1..Len(Take(Filled(t), 10)) |-> t[Filled(t)[j]]], Objects)) >= 3
(* A package that never ended is reported ok.  *)
CompactGoTest(t) ==
  LET of(p)    == {"{" \o p \o " output}", "{" \o p \o " fail}", "{" \o p \o " ok}"}
      ended(w) == Len(At(t, {"{a " \o w \o "}", "{b " \o w \o "}"}))
      passedAfter(p, i) == \E j \in DOMAIN t : j > i /\ t[j] = "{" \o p \o " ok}"
      output(p) == Take(Where(t, LAMBDA i : t[i] = "{" \o p \o " output}" /\ ~passedAfter(p, i)), 100)
      package(p) == IF ~Has(t, of(p)) THEN <<>>
                    ELSE IF Has(t, {"{" \o p \o " fail}"})
                    THEN LastLine(t, {"{" \o p \o " fail}"}) \o Lines(output(p))
                    ELSE Note("ok " \o p, 0)
  IN  OrWhole(package("a") \o package("b")
              \o (IF ended("fail") > 0 THEN Note("packages failed", ended("fail"))
                  ELSE Counted("ok packages", ended("ok"))), t)
CompactGeneric(t) ==
  LET first == Where(t, LAMBDA i : t[i] \in Objects \ (GoEvents \cup JestEvents \cup CargoEvents)
                                   /\ \A j \in 1..(i - 1) : t[j] # t[i])
      level(k) == IF k = "{severity error}" THEN "ERROR"
                  ELSE IF k \in DOMAIN NormalizeLevel THEN NormalizeLevel[k] ELSE "INFO"
      of(L) == Only(first, LAMBDA i : level(t[i]) \in L)
  IN  OrWhole(Lines(of({"ERROR"}) \o of({"WARN"}) \o Take(of({"INFO", "DEBUG"}), 10)), t)
CompactJestJson(t) ==
  LET failed == At(t, {"{failed 1}", "{failed 2}"})
      total  == Len(At(t, JestEvents))
  IN  IF failed # <<>> THEN Lines(failed) \o Note("failed", Len(failed)) \o Note("passed", total - Len(failed))
      ELSE IF total > 0 THEN Note("ok tests", total) ELSE CompactGeneric(t)
CompactCargoJson(t) ==
  OrWhole(Lines(At(t, {"{rustc error 1}", "{rustc error 2}"}))
          \o Counted("warnings suppressed", Len(At(t, {"{rustc warning}"}))), t)
Ndjson(t, hint) ==
  CASE hint = "go" -> CompactGoTest(t)
    [] hint \in {"jest", "vitest"} -> CompactJestJson(t)
    [] hint = "cargo" -> CompactCargoJson(t)
    [] OTHER -> CompactGeneric(t)

(* Progress bars, transfers, spinners, percentages and rulers go, whatever  *)
(* the command.                                                             *)
Progress == {"[==>   ]", "Downloading 3 MB", "remote: Counting", "remote: error:", "|", "45% done", "3/4",
             "===", "   Compiling x"}
GlobalRules(t) == Lines(Where(t, LAMBDA i : t[i] \notin Progress))

(***************************************************************************)
(* The patterns of a command: a sequence of rules [kinds, action, n,       *)
(* unless].  A MatchOutput rule may replace the output; else the first rule *)
(* that matches a line decides what becomes of it, lines that are collapsed *)
(* in a row become a count, and the rules for the head and the tail apply    *)
(* in their order.                                                          *)
(***************************************************************************)
LineActions == {"Remove", "Collapse", "ReplaceWith", "TruncateLinesAt"}
MatchLines(t, rules) ==
  LET flush(a) == [out |-> a.out \o Counted("matching lines collapsed", a.n), rule |-> 0, n |-> 0]
      put(a, e) == [flush(a) EXCEPT !.out = @ \o e]
      Step(a, i) ==
        LET found == Where(rules, LAMBDA r : rules[r].action \in LineActions /\ t[i] \in rules[r].kinds)
            r == found[1]
        IN  IF found = <<>> THEN put(a, <<Line(i)>>)
            ELSE CASE rules[r].action = "Remove" -> flush(a)
                   [] rules[r].action = "Collapse" ->
                        IF a.rule = r THEN [a EXCEPT !.n = @ + 1]
                        ELSE [flush(a) EXCEPT !.rule = r, !.n = 1]
                   [] rules[r].action = "ReplaceWith" -> put(a, Note("replacement", 0))
                   [] rules[r].action = "TruncateLinesAt" -> put(a, <<Line(i)>>)
  IN  flush(Scan(Step, [out |-> <<>>, rule |-> 0, n |-> 0], t)).out
Apply(t, rules) ==
  LET cut(out, r) == CASE r.action = "HeadLines" -> Take(out, r.n)
                       [] r.action = "TailLines" -> Final(out, r.n)
                       [] OTHER -> out
      out == FoldLeft(cut, MatchLines(t, rules), rules)
  IN  IF \E r \in ToSet(rules) : r.action = "MatchOutput" /\ Has(t, r.kinds) /\ ~Has(t, r.unless)
      THEN Note("message", 0)
      ELSE IF ~(\E k \in ToSet(Kinds(out, t)) : k # "") /\ \E r \in ToSet(rules) : r.action = "OnEmpty"
      THEN Note("empty message", 0) ELSE out

(***************************************************************************)
(* Stack traces: the headers, five frames of the program and a count of    *)
(* the others.  The line that follows a frame of Python is taken for its    *)
(* source unless it is known to be something else.                         *)
(***************************************************************************)
TraceStart ==
  [k \in {"thread panicked at", "Traceback", "Error: js", "x.Exception:", "goroutine 1"} |->
     CASE k = "thread panicked at" -> "rust" [] k = "Traceback" -> "python" [] k = "Error: js" -> "js"
       [] k = "x.Exception:" -> "java" [] k = "goroutine 1" -> "go"]
FramesOf == [rust |-> {"  0: main", "  1: /rustc/"}, python |-> {"  File user", "  File site-packages/"},
             js |-> {"    at user (x:1:1)", "    at node_modules/ (x:1:1)"},
             java |-> {"    at x.user(", "    at java.x("}, go |-> {"\tx.go:1", "\truntime/x.go:1", "\ttab"}]
IsStdlibFrame(k) == k \in {"  1: /rustc/", "  File site-packages/", "    at node_modules/ (x:1:1)",
                           "    at java.x(", "\truntime/x.go:1"}
MaxUserFrames == 5
Exceptions == {"ValueError: x"}

StackTrace(t) ==
  LET none == [kind |-> "", headers |-> <<>>, frames |-> <<>>, stdlib |-> 0, mode |-> ""]
      flush(a) == none @@ [out |-> a.out \o a.headers \o a.frames \o Counted("frames omitted", a.stdlib)]
      start(a, i) ==
        IF t[i] \in DOMAIN TraceStart /\ (t[i] = "Error: js" => i < Len(t) /\ t[i + 1] \in FramesOf.js)
        THEN [a EXCEPT !.kind = TraceStart[t[i]], !.headers = <<Line(i)>>]
        ELSE [a EXCEPT !.out = Append(@, Line(i))]
      frame(a, i) == IF ~IsStdlibFrame(t[i]) /\ Len(a.frames) < MaxUserFrames
                     THEN [a EXCEPT !.frames = Append(@, Line(i))] ELSE [a EXCEPT !.stdlib = @ + 1]
      header(a, i) == [a EXCEPT !.headers = Append(@, Line(i))]
      known(k) == k \in FramesOf.python \cup Exceptions \cup {"Traceback"}
      Step(a, i) ==
        LET k == t[i] IN
        CASE a.kind = "" -> start(a, i)
          [] a.kind = "rust" /\ k = "stack backtrace:" -> [a EXCEPT !.mode = "backtrace"]
          [] a.kind = "rust" /\ a.mode = "backtrace" /\ k \in FramesOf.rust -> frame(a, i)
          [] a.kind = "rust" /\ (k = "note:" \/ (k = "" /\ a.mode = "backtrace")) -> a
          [] a.kind = "python" /\ a.mode = "source" /\ ~known(k) -> [a EXCEPT !.mode = ""]
          [] a.kind = "python" /\ a.mode # "exception" /\ k \in FramesOf.python ->
               [frame(a, i) EXCEPT !.mode = "source"]
          [] a.kind = "python" /\ a.mode # "exception" /\ k \in Exceptions ->
               [header(a, i) EXCEPT !.mode = "exception"]
          [] a.kind = "python" /\ a.mode = "exception" /\ k \notin FramesOf.python \cup {"", "Traceback"} ->
               header(a, i)
          [] a.kind \in {"js", "java", "go"} /\ k \in FramesOf[a.kind] -> frame(a, i)
          [] a.kind = "java" /\ k = "Caused by:" -> header(a, i)
          [] a.kind = "java" /\ k = "    ... 3 more" -> a
          [] OTHER -> start(flush(a), i)
  IN  flush(Scan(Step, none @@ [out |-> <<>>], t)).out

(* The lines near an earlier one are replaced by a count after it; critical  *)
(* lines stand alone.                                                       *)
Near(k, l) == k = l \/ \E A \in Alike : {k, l} \subseteq A
(* The critical lines are grouped like the others.  *)
MutSimHashGroupsAll(t) ==
  LET first(i) == \A j \in 1..(i - 1) : ~Near(t[j], t[i])
      near(i) == {j \in DOMAIN t : j > i /\ Near(t[i], t[j])}
      s == Where(t, first)
  IN  FlattenSeq([j \in DOMAIN s |-> <<Line(s[j])>> \o Counted("similar lines omitted", Cardinality(near(s[j])))])
SimHash(t) ==
  LET Step(a, i) ==
        LET group == {j \in (i + 1)..Len(t) : j \notin a.grouped /\ t[j] \notin Critical /\ Near(t[i], t[j])}
            near  == IF t[i] \in Critical THEN {} ELSE group
        IN  IF i \in a.grouped THEN a
            ELSE [out |-> Append(a.out, Line(i)) \o Counted("similar lines omitted", Cardinality(near)),
                  grouped |-> a.grouped \cup near]
  IN  Scan(Step, [out |-> <<>>, grouped |-> {}], t).out
============================================================================
