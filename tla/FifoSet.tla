------------------------------- MODULE FifoSet -------------------------------
(***************************************************************************)
(* What a bounded first-in first-out cache promises about the keys it      *)
(* holds: at most Bound of them, each once; adding a key it holds moves    *)
(* nothing, and adding a new one drops the oldest when the cache is full.  *)
(***************************************************************************)
EXTENDS Naturals, Sequences, Functions

CONSTANTS Keys, Bound

VARIABLE keys  \* oldest first

Init == keys = <<>>

Add(k) ==
  /\ k \notin Range(keys)
  /\ keys' = IF Len(keys) < Bound THEN Append(keys, k) ELSE Append(Tail(keys), k)

Next == \E k \in Keys : Add(k)

Spec == Init /\ [][Next]_keys
=============================================================================
