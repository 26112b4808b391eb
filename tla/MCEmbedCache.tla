---------------------------- MODULE MCEmbedCache -----------------------------
(***************************************************************************)
(* EmbedCache for TLC: batches of one text, two texts and a repeated text, *)
(* some longer than the cache is large.                                    *)
(***************************************************************************)
EXTENDS EmbedCache, TLC

MCVectors == {<<"vector", k>> : k \in Keys}
MCEmbedding == [k \in Keys |-> <<"vector", k>>]
MCBatches == UNION {[1..n -> Keys] : n \in 1..2} \cup {b \in [1..3 -> Keys] : b[1] # b[2] /\ b[2] # b[3]}

Symmetric == Permutations(Conns)
=============================================================================
