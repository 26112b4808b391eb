---------------------------- MODULE MCZoomStore -----------------------------
(***************************************************************************)
(* A shell call and a read of two sessions, and an expand.  The passes of  *)
(* the shell hook after its caches: the pipeline, then cross-command dedup *)
(* are saved, the summary against the centroid behind them is not          *)
(* (hook.rs:464-623).  Of the read hook the pipeline is, dedup across      *)
(* files is not (hook.rs:1096-1109).                                       *)
(***************************************************************************)
EXTENDS ZoomStore

CONSTANTS shell, read

MCSessionOf == [c \in Calls |-> IF c = read THEN "s2" ELSE "s1"]
MCKeyOf == [c \in Calls |-> IF c = read THEN "(read)" ELSE "cargo test"]
MCSaves == [c \in Calls |-> IF c = read THEN <<TRUE, FALSE>> ELSE <<TRUE, TRUE, FALSE>>]
=============================================================================
