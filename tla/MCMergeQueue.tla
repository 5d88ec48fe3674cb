---------------------------- MODULE MCMergeQueue -----------------------------
(* Two merges on one integration branch: m1 over two repositories, m2 over  *)
(* one of them.                                                             *)
EXTENDS MergeQueue

TwoMerges == {"m1", "m2"}
Worktrees == {"w1", "w2", "w3"}
Sources == [m \in TwoMerges |-> IF m = "m1" THEN <<"w1", "w2">> ELSE <<"w3">>]
Repos == [w \in Worktrees |-> IF w = "w2" THEN "r2" ELSE "r1"]
OneBranch == [m \in TwoMerges |-> "b"]
=============================================================================
