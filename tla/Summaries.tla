----------------------------- MODULE Summaries -----------------------------
(***************************************************************************)
(* The summarizer and the pipeline of ccr-core.  What an embedding decides *)
(* is open: each operator returns the set of the outcomes that some scores  *)
(* have.  Lines are kept by their scores up to a budget, the critical ones   *)
(* whatever the budget, or, when the model does not answer, by their place. *)
(***************************************************************************)
EXTENDS TextPasses

CONSTANTS
  NoiseKinds,  \* the kinds that may be nearer to the noise prototype than to the useful one
  Global,      \* summarize_threshold_lines, head_lines, tail_lines, deduplicate_lines, and
               \* in lines the input_char_ceiling, the output_char_cap (0 for none), and the
               \* sizes from which the budget depends on entropy and a text is cut in chunks;
               \* and whether the router is on
  Patterns     \* the rules of the commands that have some

(* A mark with the number of lines for each gap between the lines of S.  *)
Assemble(t, S) ==
  LET s == Where(t, LAMBDA i : i \in S)
      gap(j) == s[j] - (IF j = 1 THEN 0 ELSE s[j - 1]) - 1
  IN  FlattenSeq([j \in DOMAIN s |-> Counted("lines omitted", gap(j)) \o <<Line(s[j])>>])
      \o IF s = <<>> THEN <<>> ELSE Counted("lines omitted", Len(t) - Last(s))
SummarizeHeadtail(t, budget) ==
  LET head == budget \div 2
      tail == budget - head
  IN  IF Len(t) <= budget THEN Whole(t)
      ELSE Lines(Take(Every(t), head)) \o Note("lines cut", Len(t) - budget)
           \o Lines(Final(Every(t), tail))

(* The critical lines and, as far as the budget has room, others that score *)
(* above the threshold.  The threshold is a share of the highest score, so  *)
(* that one line reaches it, unless it also has a floor.                    *)
MmrFill(t, budget, floor) ==
  LET crit == ToSet(At(t, Critical))
      rest == ToSet(Filled(t)) \ crit
      room == Max({0, Min({budget, Len(t)}) - Cardinality(crit)})
  IN  {crit \cup S : S \in {S \in SUBSET rest :
         /\ Cardinality(S) <= room
         /\ S = {} => crit # {} \/ rest = {} \/ room = 0 \/ floor}}
SummarizeSemantic(t, budget) == {Assemble(t, S) : S \in MmrFill(t, budget, FALSE)}
SummarizeSemanticIntent(t, budget) == {Assemble(t, S) : S \in MmrFill(t, budget, FALSE)}
SummarizeAgainstCentroid(t, budget) == {Assemble(t, S) : S \in MmrFill(t, budget, TRUE)}
(* Each line that is kept brings its nearest neighbour along.  *)
SummarizeSemanticAnchored(t, budget) ==
  LET crit == Len(At(t, Critical))
      near(S) == LET rest == ToSet(Filled(t)) \ S
                     n == Min({Cardinality(S), Cardinality(rest),
                               Max({0, 2 * Min({budget, Len(t)}) - crit - Cardinality(S)})})
                 IN  kSubset(n, rest)
  IN  UNION {{Assemble(t, S \cup N) : N \in near(S)} : S \in MmrFill(t, budget, FALSE)}
(* One line for each cluster of similar lines, with the number of the others; *)
(* a cluster is critical when the line that stands for it is.  What is not    *)
(* kept leaves no mark.                                                      *)
DoClusterSummarize(t, budget) ==
  LET Cluster(k) == UNION ({{k}} \cup {A \in Alike : k \in A}) \cap (ToSet(t) \ {""})
      clusters == {Cluster(k) : k \in ToSet(t) \ {""}}
      choices == {f \in [clusters -> ToSet(t) \ {""}] : \A C \in clusters : f[C] \in C}
      chosen(f) == LET crit == {C \in clusters : f[C] \in Critical}
                       n == Max({0, budget - Cardinality(crit)})
                   IN  {crit \cup S : S \in kSubset(Min({n, Cardinality(clusters \ crit)}), clusters \ crit)}
      written(f, S) ==
        LET of(i) == CHOOSE C \in S : f[C] = t[i]
            s == Only(FirstOf(t, ToSet(t)), LAMBDA i : \E C \in S : f[C] = t[i])
        IN  FlattenSeq([j \in DOMAIN s |->
              <<Line(s[j])>> \o Counted("similar", Len(At(t, of(s[j]))) - 1)])
  IN  UNION {{written(f, S) : S \in chosen(f)} : f \in choices}

(* The lower the entropy of many lines, the lower the budget.  *)
EntropyAdjustedBudget(t, budget) ==
  IF Len(Filled(t)) < Global.entropyLines THEN {budget} ELSE Max({1, budget \div 20})..budget
NoiseFilter(t) ==
  {Lines(Where(t, LAMBDA i : t[i] \notin K)) : K \in SUBSET (NoiseKinds \cap ToSet(t))}

-----------------------------------------------------------------------------
(* how has the command's name, whether there is a query and a history of     *)
(* the command, and whether the model answers.                              *)
SummarizeSingle(t, budget, how) ==
  IF Filled(t) = <<>> THEN {Whole(t)}
  ELSE IF ~how.answers THEN {SummarizeHeadtail(t, budget)}
  ELSE CASE how.query /\ how.hint # "" -> SummarizeSemanticIntent(t, budget)
         [] how.query /\ how.hint = "" -> SummarizeSemantic(t, budget)
         [] ~how.query /\ how.hint # "" /\ how.history -> SummarizeAgainstCentroid(t, budget)
         [] ~how.query /\ how.hint # "" /\ ~how.history -> DoClusterSummarize(t, budget)
         [] OTHER -> SummarizeSemanticAnchored(t, budget)
(* Summaries of the chunks, and one of them when they are long.  *)
SummarizeChunked(t, budget, how) ==
  LET size == Global.chunkSize
      chunk(n) == Final(Take(Every(t), n * size), Len(Take(Every(t), n * size)) - (n - 1) * size)
      single(lines) == LET u == Kinds(Lines(lines), t)
                       IN  IF Filled(u) = <<>> THEN {<<>>}
                           ELSE {Through(Lines(lines), r) : r \in SummarizeSingle(u, budget, how)}
      joined == FoldLeft(LAMBDA done, n : {x \o y : x \in done, y \in single(chunk(n))}, {<<>>},
                         [n \in 1..((Len(t) + size - 1) \div size) |-> n])
      again(out) == {Through(out, r) :
                      r \in SummarizeSingle(Kinds(out, t), budget, how)}
  IN  UNION {IF 2 * Len(out) > 3 * budget THEN again(out) ELSE {out} : out \in joined}
HeadTailTruncate(t) ==
  LET budget == Global.head + Global.tail
  IN  IF Len(t) <= budget THEN Whole(t)
      ELSE Lines(Take(Every(t), Global.head)) \o Note("more lines", Len(t) - budget)
           \o Lines(Final(Every(t), Global.tail))

Summarize(t, how) ==
  LET single(u, b) == IF Len(u) > Global.chunkThreshold
                      THEN SummarizeChunked(u, b, how)
                      ELSE SummarizeSingle(u, b, how)
      budgets(u) == IF how.answers THEN EntropyAdjustedBudget(u, Global.head + Global.tail)
                    ELSE {Global.head + Global.tail}
      rest(out) == LET u == Kinds(out, t)
                   IN  IF Len(u) <= Global.threshold THEN {out}
                       ELSE UNION {{Through(out, r) : r \in single(u, b)} : b \in budgets(u)}
  IN  UNION {rest(out) : out \in IF how.answers THEN NoiseFilter(t) ELSE {Whole(t)}}

(* The passes of a text; whether the summary needs embeddings depends on     *)
(* how much the passes before it removed.  With use_router, a text that      *)
(* scores as short or random goes through untouched.                         *)
Process(t, how) ==
  LET ceiling == IF Global.ceiling > 0 /\ Len(t) > Global.ceiling
                 THEN Lines(Take(Every(t), Global.ceiling)) \o Note("input truncated", 0) ELSE Whole(t)
      normal == Then(ceiling, t, LAMBDA u : Normalize(u, Global.deduplicate))
      events == Then(normal, t, LAMBDA u : IF IsJsonLog(u) THEN JsonLog(u)
                                           ELSE IF Detect(u) THEN Ndjson(u, how.hint) ELSE Whole(u))
      ruled == Then(events, t, GlobalRules)
      matched == Then(ruled, t, LAMBDA u : IF how.hint \in DOMAIN Patterns THEN Apply(u, Patterns[how.hint]) ELSE Whole(u))
      skip == 5 * (Len(ceiling) - Len(matched)) > 4 * Len(ceiling)
      traced == Then(matched, t, StackTrace)
      text == IF Len(traced) >= Global.threshold THEN Then(traced, t, SimHash) ELSE traced
      short(out) == IF Global.cap > 0 /\ Len(out) > Global.cap
                    THEN Take(out, Global.cap) \o Note("output capped", 0) ELSE out
  IN  (IF Global.router THEN {Whole(t)} ELSE {}) \cup {short(out) : out \in
         IF Len(text) <= Global.threshold THEN {text}
         ELSE IF skip THEN {Then(text, t, HeadTailTruncate)}
         ELSE {Through(text, r) : r \in Summarize(Kinds(text, t), how)}}
============================================================================
