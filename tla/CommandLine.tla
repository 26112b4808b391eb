---------------------------- MODULE CommandLine ----------------------------
(***************************************************************************)
(* panda rewrite (ccr/src/cmd/rewrite.rs): what the hook before a shell    *)
(* command makes of the agent's command line.  A line is the sequence of    *)
(* the pieces between its blanks: words, operators, and the pieces of       *)
(* quoted words with blanks in them; "" stands for a further blank, and     *)
(* "\n" for a backslash before the end of a line.                          *)
(***************************************************************************)
EXTENDS Rewriting

CONSTANT TransparentPrefixes  \* the sequences of words in [hooks].transparent_prefixes

PandaBin == "/bin/panda"
ShellPrefixBuiltins == {"noglob", "command", "builtin", "exec", "nocorrect"}
MaxPrefixDepth == 10
Operators == {"&&", "||", ";"}

(* The pieces with a quote that opens, and with the quote that closes it.  *)
Opening == {"\"a", "A=\"a"}
Closing == {"b\""}
Quoted(line) ==
  LET q[i \in 0..Len(line)] == i > 0 /\ (line[i] \in Opening \/ (q[i - 1] /\ line[i] \notin Closing))
  IN  {i \in DOMAIN line : q[i - 1]}
CollapseLineContinuations(line) == SelectSeq(line, LAMBDA w : w # "\\n")
Diversions == {"|", ">", ">>", "2>&1"}
(* A mutant: redirections only.  *)
MutRedirectsOnly(cmd) == \E i \in DOMAIN cmd \ Quoted(cmd) : cmd[i] \in Diversions \ {"|"}
HasStdoutDiversion(cmd) == \E i \in DOMAIN cmd \ Quoted(cmd) : cmd[i] \in Diversions
Assignments == {"A=1", "A=\"a"}
(* The place of the first piece after the assignments.  *)
EnvPrefixEnd(cmd) ==
  LET starts == {i \in DOMAIN cmd \ Quoted(cmd) : cmd[i] \notin Assignments \cup {""}}
  IN  IF starts = {} THEN Len(cmd) + 1 ELSE CHOOSE i \in starts : \A j \in starts : i <= j
(* The number of words of the prefix: a builtin or the longest of the user's. *)
PrefixLength(cmd) ==
  LET found == {Len(p) : p \in {p \in TransparentPrefixes : IsPrefix(p, cmd)}}
  IN  IF cmd # <<>> /\ cmd[1] \in ShellPrefixBuiltins THEN 1
      ELSE IF found = {} THEN 0 ELSE CHOOSE n \in found : \A k \in found : k <= n

(* head and tail of one file become cat; <<>> when they do not.  *)
RewriteHeadTail(words) ==
  LET value[i \in 1..Len(words)] == i > 2 /\ ~value[i - 1] /\ words[i - 1] \in {"-n", "--lines"}
      options == {"-5", "-n", "--lines", "--lines=5", "-c", "-f", "-q"}
      given == {words[i] : i \in {i \in 2..Len(words) : ~value[i]}}
      files == {i \in 2..Len(words) : ~value[i] /\ words[i] \notin options}
  IN  IF /\ words # <<>> /\ words[1] \in {"head", "tail"}
         /\ given \cap {"-c", "-f", "-q", "-"} = {} /\ Cardinality(files) = 1
      THEN <<PandaBin, "run", "cat">> \o [j \in {1} |-> words[CHOOSE i \in files : TRUE]]
      ELSE <<>>

(* The words are printed with blanks between them and without quotes; the shell *)
(* that reads them takes some words of the handlers apart.                    *)
Unquoted == "table ..." :> <<"table", "{{.ID}}">> @@ "node_modules|..." :> <<"node_modules", "|", ".git">>
Printed(words) ==
  FlattenSeq([j \in DOMAIN words |-> IF words[j] \in DOMAIN Unquoted THEN Unquoted[words[j]] ELSE <<words[j]>>])
RewriteWith(handler, words) ==
  IF handler = "" THEN <<>> ELSE <<PandaBin, "run">> \o Printed(RewriteArgs(handler, words))
After(before, new) == IF new = <<>> THEN <<>> ELSE before \o new
(* The first way that gives something, if any does.  *)
FirstFilled(ways) == LET found == SelectSeq(ways, LAMBDA w : w # <<>>)
                     IN  IF found = <<>> THEN <<>> ELSE found[1]
(* The command that runs instead of cmd, or <<>> when it is left alone.  A    *)
(* name no handler has may be routed to one by its similarity.               *)
RewriteSingle(cmd, routed) ==
  LET at[d \in 0..MaxPrefixDepth] ==
        IF d = 0 THEN 1 ELSE at[d - 1] + PrefixLength(SubSeq(cmd, at[d - 1], Len(cmd)))
      inner   == SubSeq(cmd, at[MaxPrefixDepth], Len(cmd))
      deep    == at[MaxPrefixDepth] # at[MaxPrefixDepth - 1]
      end     == EnvPrefixEnd(inner)
      before  == SubSeq(cmd, 1, at[MaxPrefixDepth] - 1) \o SubSeq(inner, 1, end - 1)
      words   == SelectSeq(SubSeq(inner, end, Len(inner)), LAMBDA w : w # "")
      handler == IF words[1] = PandaBin THEN "" ELSE GetHandler(words[1], routed)
  IN  IF deep \/ IsPrefix(<<"panda", "run">>, inner) \/ HasStdoutDiversion(cmd) \/ words = <<>>
      THEN <<>>
      ELSE After(before, FirstFilled(<<RewriteHeadTail(words), RewriteWith(handler, words)>>))

(* The parts between the operators op, wherever op stands, each on its own;   *)
(* <<>> when there is no operator or nothing to rewrite.                     *)
Joined(op, parts, new) ==
  IF Len(parts) > 1 /\ \E j \in DOMAIN parts : new[j] # <<>>
  THEN FlattenSeq([j \in DOMAIN parts |->
         (IF j = 1 THEN <<>> ELSE <<op>>) \o (IF new[j] # <<>> THEN new[j] ELSE parts[j])])
  ELSE <<>>
RewriteParts(op, parts, routed) == Joined(op, parts, [j \in DOMAIN parts |-> RewriteSingle(parts[j], routed)])
RewriteCompound(line, op, routed) ==
  LET ends == <<0>> \o SelectSeq([i \in DOMAIN line |-> i], LAMBDA i : line[i] = op) \o <<Len(line) + 1>>
  IN  RewriteParts(op, [j \in 1..(Len(ends) - 1) |-> SubSeq(line, ends[j] + 1, ends[j + 1] - 1)], routed)
RewriteCommand(typed, routed) ==
  LET line == CollapseLineContinuations(typed)
  IN  FirstFilled([j \in 1..3 |-> RewriteCompound(line, <<"&&", "||", ";">>[j], routed)]
                  \o <<RewriteSingle(line, routed)>>)
============================================================================
