------------------------------- MODULE Lines -------------------------------
(***************************************************************************)
(* A command's output as the handlers of ccr/src/handlers see it: a        *)
(* sequence of lines, each abstracted to its kind, the alternative of the   *)
(* handler's tests that it takes.  What a handler returns is a sequence of  *)
(* entries: <<"line", i>> for line i of the output, whole, indented or      *)
(* shortened, and <<what, n>> for a line the handler writes itself, with    *)
(* the number it states (0 when it states none).                            *)
(***************************************************************************)
EXTENDS Integers, Sequences, FiniteSets, SequencesExt, FiniteSetsExt

Line(i) == <<"line", i>>
Note(what, n) == << <<what, n>> >>

(* The lines with the numbers of s.  *)
Lines(s) == [j \in DOMAIN s |-> Line(s[j])]
(* The output as it came.  *)
Whole(t) == [i \in DOMAIN t |-> Line(i)]

(* A loop over the lines that carries a state: step(state, i) for i = 1, 2, ...  *)
Scan(step(_, _), start, t) ==
  LET after[i \in 0..Len(t)] ==
        IF i = 0 THEN start ELSE step(after[i - 1], i)
  IN  after[Len(t)]

(* The numbers in S of the lines, in order; those of the lines that satisfy P,  *)
(* those of the kinds K; the elements of s that satisfy P.                      *)
InOrder(S, t) == Scan(LAMBDA s, i : IF i \in S THEN Append(s, i) ELSE s, <<>>, t)
Where(t, P(_)) == InOrder({i \in DOMAIN t : P(i)}, t)
Only(s, P(_)) == LET w == Where(s, LAMBDA j : P(s[j])) IN [j \in DOMAIN w |-> s[w[j]]]
At(t, K) == Where(t, LAMBDA i : t[i] \in K)
Has(t, K) == \E i \in DOMAIN t : t[i] \in K
(* The first line of each kind of K.  *)
FirstOf(t, K) == Where(t, LAMBDA i : t[i] \in K /\ \A j \in 1..(i - 1) : t[j] # t[i])
Every(t) == [i \in DOMAIN t |-> i]
Filled(t) == Where(t, LAMBDA i : t[i] # "")
(* At most n of s, and those with a count of the rest.  *)
Take(s, n) == SubSeq(s, 1, Min({n, Len(s)}))
Final(s, n) == SubSeq(s, Max({1, Len(s) - n + 1}), Len(s))
More(s, n, what) == IF Len(s) > n THEN Note(what, Len(s) - n) ELSE <<>>
Capped(s, n, what) == Lines(Take(s, n)) \o More(s, n, what)
FirstLine(t, K) == Lines(Take(At(t, K), 1))
LastLine(t, K) == Lines(Final(At(t, K), 1))
LastFilled(t) == Final(Filled(t), 1)
(* A line that is written only when its number is positive.  *)
Counted(what, n) == IF n > 0 THEN Note(what, n) ELSE <<>>
(* A filter that kept nothing returns the output as it came.  *)
OrWhole(out, t) == IF out = <<>> THEN Whole(t) ELSE out
OrNote(out, what) == IF out = <<>> THEN Note(what, 0) ELSE out
============================================================================
