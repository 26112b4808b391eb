------------------------------ MODULE MCReadHook ------------------------------
(***************************************************************************)
(* Instances of ReadHook for TLC.                                          *)
(***************************************************************************)
EXTENDS ReadHook, TLC

\* Texts are similar when they are equal: what the markers promise.
MCSimilar == {<<t, t>> : t \in Texts}

\* Files of one region, always read whole.
OneRegion == {1}
Whole == {{1}}

Symmetric == Permutations(Calls) \cup Permutations(Files) \cup Permutations(Values)
=============================================================================
