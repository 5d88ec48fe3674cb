----------------------------- MODULE DagPromise -----------------------------
(***************************************************************************)
(* What the orchestrator promises whoever plans a run, with nothing of how  *)
(* it keeps it: a task waits, is started, and ends; the run is open or has  *)
(* a verdict.  Attempts, retries, parks, backoff, drains and recoveries are *)
(* gone; what is left is when each may happen.  DagLedger implements it.    *)
(***************************************************************************)
EXTENDS Sequences

CONSTANTS
    Task,               \* the tasks of the run
    Deps,               \* task -> its dependency edges [up, cond, gate]
    Inputs,             \* task -> the producers of its inputs
    Content,            \* what an output may hold; "absent" if it is not there
    GateHolds(_, _)     \* whether an edge's gate lets an output pass

VARIABLES
    status,     \* what each task has come to
    product,    \* the output of each task
    verdict     \* what the run has come to

promise == <<status, product, verdict>>

Ended == {"succeeded", "failed", "cancelled"}
Status == Ended \cup {"waiting", "started"}

Init ==
    /\ status = [t \in Task |-> "waiting"]
    /\ product = [t \in Task |-> "absent"]
    /\ verdict = "open"

EdgeHolds(e) ==
    /\ IF e.cond = "succeeded" THEN status[e.up] = "succeeded" ELSE status[e.up] \in Ended
    /\ GateHolds(e.gate, product[e.up])

\* What a plan says of when a task may start.
Allowed(t) ==
    /\ \A i \in DOMAIN Deps[t] : EdgeHolds(Deps[t][i])
    /\ \A p \in Inputs[t] : product[p] # "absent"

\* Tasks start together, each because the state before allows it.
Begin(S) ==
    /\ S # {}
    /\ \A t \in S : status[t] = "waiting" /\ Allowed(t)
    /\ status' = [t \in Task |-> IF t \in S THEN "started" ELSE status[t]]
    /\ UNCHANGED <<product, verdict>>

\* A started task ends or goes back to waiting; an output comes with success.
Leave(t, s) ==
    /\ status[t] = "started" /\ s # "started"
    /\ status' = [status EXCEPT ![t] = s]
    /\ \/ UNCHANGED product
       \/ s = "succeeded" /\ \E c \in Content \ {"absent"} : product' = [product EXCEPT ![t] = c]
    /\ UNCHANGED verdict

\* Tasks that have not ended are cancelled.
Cancel(S) ==
    /\ S # {}
    /\ \A t \in S : status[t] \notin Ended
    /\ status' = [t \in Task |-> IF t \in S THEN "cancelled" ELSE status[t]]
    /\ UNCHANGED <<product, verdict>>

\* A task that did not succeed is given another chance, and a failed run with it.
Retry(t) ==
    /\ status[t] \notin {"succeeded", "cancelled"}
    /\ verdict \in {"open", "failed"}
    /\ status' = [status EXCEPT ![t] = "waiting"]
    /\ verdict' = "open"
    /\ UNCHANGED product

\* A run succeeds when all its tasks are done and some succeeded; it is
\* cancelled when none is under way any more; it may always fail.
Conclude(v) ==
    /\ verdict = "open"
    /\ CASE v = "succeeded" -> /\ \A t \in Task : status[t] \in {"succeeded", "cancelled"}
                               /\ \E t \in Task : status[t] = "succeeded"
         [] v = "cancelled" -> \A t \in Task : status[t] # "started"
         [] v = "failed"    -> TRUE
    /\ verdict' = v
    /\ UNCHANGED <<status, product>>

Next ==
    \/ \E S \in SUBSET Task : Begin(S) \/ Cancel(S)
    \/ \E t \in Task : Retry(t) \/ \E s \in Status : Leave(t, s)
    \/ \E v \in Ended : Conclude(v)

Spec == Init /\ [][Next]_promise
=============================================================================
