----------------------------- MODULE MCBashHook ------------------------------
(***************************************************************************)
(* Instances of BashHook for TLC.                                          *)
(***************************************************************************)
EXTENDS BashHook, TLC

CONSTANTS a, b, x, cmd1, cmd2

\* Texts a and b differ in noise only and are similar; x is another command's.
OneText == {a}
TwoTexts == {a, b}
ThreeTexts == {a, b, x}
MCCmd == a :> cmd1 @@ b :> cmd1 @@ x :> cmd2
MCNorm == a :> a @@ b :> a @@ x :> x
MCSimilar == {<<s, t>> \in ThreeTexts \X ThreeTexts : MCCmd[s] = MCCmd[t]}

Symmetric == Permutations(Calls) \cup Permutations(Sessions)
=============================================================================
