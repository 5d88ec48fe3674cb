---------------------------- MODULE MCDagLedger -----------------------------
(***************************************************************************)
(* An instance of the ledger across restarts: an agent a with a declared    *)
(* output and a retry budget; a merge m that needs a, reads its output and  *)
(* gates on what it says; an approval g that runs whether or not m          *)
(* succeeded.                                                               *)
(***************************************************************************)
EXTENDS ChainRecovery

CONSTANTS a, m, g

MCTask == {a, m, g}
MCKind == [t \in MCTask |-> CASE t = a -> "agent" [] t = m -> "merge" [] t = g -> "approval"]
MCDeps ==
    [t \in MCTask |->
        CASE t = a -> <<>>
          [] t = m -> <<[up |-> a, cond |-> "succeeded", gate |-> "contains"]>>
          [] t = g -> <<[up |-> m, cond |-> "completed", gate |-> "none"]>>]
MCInputs == [t \in MCTask |-> IF t = m THEN {a} ELSE {}]
MCMaxAttempts == [t \in MCTask |-> IF t = a THEN 2 ELSE 1]
MCRetryOn == [t \in MCTask |-> IF t = a THEN {"transient_network"} ELSE {}]
MCProduces == [t \in MCTask |-> IF t = a THEN {"unrelated", "containing"} ELSE {}]
=============================================================================
