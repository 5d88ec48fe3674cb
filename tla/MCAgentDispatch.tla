-------------------------- MODULE MCAgentDispatch ---------------------------
(* Two tasks of two runs that name the same worktree; one of them verifies. *)
EXTENDS AgentDispatch

CONSTANTS a, b

MCTask == {a, b}
MCSlug == [t \in MCTask |-> "s"]
MCVerifies == {a}
MCServices ==
    {[find |-> TRUE, correlates |-> TRUE, names |-> TRUE],
     [find |-> FALSE, correlates |-> FALSE, names |-> FALSE]}
MCMaxAttempts == [t \in MCTask |-> IF t = a THEN 2 ELSE 1]
=============================================================================
