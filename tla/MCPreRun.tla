------------------------------ MODULE MCPreRun ------------------------------
(***************************************************************************)
(* Instances of PreRun for TLC.                                            *)
(***************************************************************************)
EXTENDS PreRun, TLC

CONSTANTS status, show, branchA, branchB, clean, dirty, l1, l2, l3

\* git status prints l1 and what has changed; terraform show prints much the same.
TwoCommands == {status, show}
MCSlot == status :> "git status" @@ show :> "terraform show"
MCPrints ==
  status :> (clean :> {l1, l2} @@ dirty :> {l1, l3}) @@
  show :> (clean :> {l1} @@ dirty :> {l1, l2})
MCEffect == [m \in TwoCommands |-> [w \in Worlds |-> w]]
MCFingerprint == [s \in {"git status", "terraform show"} |-> [w \in Worlds |-> w]]
MCTtl == "git status" :> 0 @@ "terraform show" :> 1
MCAlike == {{l1, l2}, {l1, l3}, {l1}} \X {{l1, l2}, {l1, l3}, {l1}}
MCLong == {{l1, l3}}
MCBrief == {{}}

\* git branch a, git branch b: a new branch changes nothing the hash covers.
TwoBranches == {branchA, branchB}
BranchSlot == [m \in TwoBranches |-> "git branch"]
BranchPrints == [m \in TwoBranches |-> [w \in Worlds |-> {}]]
BranchEffect == [m \in TwoBranches |-> [w \in Worlds |-> dirty]]
BranchFingerprint == [s \in {"git branch"} |-> [w \in Worlds |-> 0]]
BranchTtl == [s \in {"git branch"} |-> 1]

Symmetric == Permutations(Calls)
=============================================================================
