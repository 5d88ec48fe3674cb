--------------------------- MODULE ReadyEvaluator ---------------------------
(***************************************************************************)
(* The pure readiness evaluator of lib/ready-evaluator.js: the verdict of   *)
(* one task over a snapshot of the task states, with the dependency gates   *)
(* and the declared inputs.  Nothing here has state: DagLedger passes the   *)
(* snapshot in, as promoteReady does.                                       *)
(*                                                                          *)
(* A dependency edge is [up, cond, gate]; the graph is acyclic (the spec    *)
(* validator refuses cycles).  What a gate can tell of an output is its     *)
(* class: absent, present without the gate's value in it, containing it,    *)
(* or equal to it.                                                          *)
(***************************************************************************)
EXTENDS Integers, Sequences, FiniteSets

CONSTANTS
    Task,       \* the tasks of the run's spec
    Deps,       \* task -> sequence of dependency edges, in spec order
    Inputs      \* task -> the producers of its declared task:// inputs

Condition == {"succeeded", "completed"}
GateExpect == {"none", "exists", "not_exists", "contains", "not_contains", "equals"}

\* What the outputs row of a producer holds, as far as a gate can tell.
Content == {"absent", "unrelated", "containing", "equal"}

Edge == [up: Task, cond: Condition, gate: GateExpect]

ASSUME DepsAssumption == Deps \in [Task -> Seq(Edge)]
ASSUME InputsAssumption == Inputs \in [Task -> SUBSET Task]

-----------------------------------------------------------------------------

TaskState == {"pending", "ready", "queued", "running", "succeeded", "failed",
              "retry_wait", "blocked", "cancelled"}

InProgress == {"pending", "ready", "queued", "running", "retry_wait"}
CompletedSet == {"succeeded", "failed", "cancelled"}

\* READY_BLOCKED_CODES: the reasons the evaluator gives for a blocked task.
\* dependency_gate_evaluator_unavailable and upstream_not_succeeded need an
\* unwired evaluator or a dangling edge; the engine has neither.
BlockedCode == {"upstream_blocked", "upstream_failed", "upstream_cancelled",
                "dependency_gate_not_met", "dag.output_missing"}

\* The parks that only an external action releases.
ParkCode == {"approval_pending", "merge_conflicted"}

Verdicts == BlockedCode \cup {"ready", "waiting"}

EvaluateGate(expect, payload) ==
    \/ expect = "none"
    \/ expect = "exists" /\ payload # "absent"
    \/ expect = "not_exists" /\ payload = "absent"
    \/ expect = "contains" /\ payload \in {"containing", "equal"}
    \/ expect = "not_contains" /\ payload \notin {"containing", "equal"}
    \/ expect = "equals" /\ payload = "equal"

\* Mutant: a blocked upstream counts as completed.
UpstreamSatisfies_BlockedEnds(upState, cond) ==
    CASE upState \in InProgress                         -> "waiting"
      [] upState = "blocked" /\ cond = "succeeded"      -> "upstream_blocked"
      [] upState = "succeeded"                          -> "satisfied"
      [] upState = "failed" /\ cond = "succeeded"       -> "upstream_failed"
      [] upState = "cancelled" /\ cond = "succeeded"    -> "upstream_cancelled"
      [] OTHER                                          -> "satisfied"

\* One edge against the committed state of its upstream: "blocked" is not a
\* completed state, so it satisfies neither condition.
UpstreamSatisfies(upState, cond) ==
    CASE upState \in InProgress                         -> "waiting"
      [] upState = "blocked"                            -> "upstream_blocked"
      [] upState = "succeeded"                          -> "satisfied"
      [] upState = "failed" /\ cond = "succeeded"       -> "upstream_failed"
      [] upState = "cancelled" /\ cond = "succeeded"    -> "upstream_cancelled"
      [] OTHER                                          -> "satisfied"

\* The edge with its gate, which is read only once the base condition holds.
EdgeVerdict(e, st, out) ==
    LET base == UpstreamSatisfies(st[e.up], e.cond)
    IN  IF base = "satisfied" /\ ~EvaluateGate(e.gate, out[e.up])
        THEN "dependency_gate_not_met"
        ELSE base

IsReadySource(state, code, deadlinePassed) ==
    \/ state = "pending"
    \/ state = "retry_wait" /\ deadlinePassed
    \/ state = "blocked" /\ code \notin ParkCode

\* The verdict of task t: the first edge that blocks decides, then any edge
\* still waiting, then the inputs.
Verdict(t, st, out) ==
    LET verdict(i) == EdgeVerdict(Deps[t][i], st, out)
        edges == DOMAIN Deps[t]
        blocking == {i \in edges : verdict(i) \in BlockedCode}
    IN  IF blocking # {}
        THEN verdict(CHOOSE i \in blocking : \A j \in blocking : i <= j)
        ELSE IF \E i \in edges : verdict(i) = "waiting" THEN "waiting"
        ELSE IF \E p \in Inputs[t] : out[p] = "absent" THEN "dag.output_missing"
        ELSE "ready"

=============================================================================
