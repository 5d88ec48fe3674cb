----------------------------- MODULE DagLedger ------------------------------
(***************************************************************************)
(* The durable state of one run: the runs, tasks, attempts, approvals and   *)
(* outputs rows of lib/dag-store.js, and every transaction that writes them.*)
(* An action is one store.tx() and its guard is what that transaction       *)
(* re-reads; nothing a caller merely remembers is assumed.  LedgerSpec lets *)
(* any transaction come at any moment, which is what the owner and version  *)
(* checks are there to survive; DagEngine says which ones the program does  *)
(* issue, and when.                                                         *)
(*                                                                          *)
(* Not kept: row versions (every compare-and-set re-reads its row inside    *)
(* the same transaction, so it can only fail on the state), timestamps      *)
(* other than "the retry deadline has passed", and the event rows except    *)
(* for the count of billed retries that shouldRetry reads back from them.   *)
(***************************************************************************)
EXTENDS ReadyEvaluator

CONSTANTS
    Kind,           \* task -> "agent", "approval" or "merge"
    MaxAttempts,    \* task -> retry.maxAttempts; 1 also stands for no retry block
    RetryOn,        \* task -> retry.retryOn, the policy keys; {} retries every failure
    Produces,       \* task -> contents its declared output may have; {} if none is declared
    BlockDownstream,\* the tasks whose failurePolicy is block_downstream
    MaxOrdinal      \* bound: attempts per task

KindName == {"agent", "approval", "merge"}
PolicyKey == {"transient_network", "permanent", "internal"}

ASSUME KindAssumption == Kind \in [Task -> KindName]
ASSUME MaxAttemptsAssumption == MaxAttempts \in [Task -> Nat \ {0}]
ASSUME RetryOnAssumption == RetryOn \in [Task -> SUBSET PolicyKey]
ASSUME ProducesAssumption == Produces \in [Task -> SUBSET (Content \ {"absent"})]
ASSUME BlockDownstreamAssumption == BlockDownstream \subseteq Task
ASSUME MaxOrdinalAssumption == MaxOrdinal \in Nat \ {0}

VARIABLES
    run,        \* runs.state
    intent,     \* runs.control_intent
    task,       \* tasks.state
    reason,     \* the code in tasks.blocked_reason
    due,        \* the tasks in retry_wait whose retry_not_before has passed
    att,        \* att[t][n]: attempts.state of task t's attempt of ordinal n
    appr,       \* approvals.state of the task's row
    out,        \* outputs.value_json of the task's declared output
    billed      \* retry_scheduled events of the task that count against its budget

ledger == <<run, intent, task, reason, due, att, appr, out, billed>>

RunState == {"running", "pausing", "paused", "cancelling",
             "succeeded", "failed", "cancelled"}
RunTerminal == {"succeeded", "failed", "cancelled"}
Intent == {"none", "pause", "stop"}
TaskTerminal == {"succeeded", "failed", "cancelled"}

\* An attempt row is born running.  "claimed" is running with child_session
\* null, "dispatched" is running with the child session recorded.
AttemptState == {"claimed", "dispatched", "succeeded", "failed", "cancelled", "orphaned"}
NonTerminal == {"claimed", "dispatched"}
ApprovalState == {"none", "pending", "approved", "rejected"}

FailureType == {"transient", "timeout", "permanent", "internal"}

TypeOK ==
    /\ run \in RunState
    /\ intent \in Intent
    /\ task \in [Task -> TaskState]
    /\ reason \in [Task -> BlockedCode \cup ParkCode \cup {"none"}]
    /\ due \in SUBSET Task
    /\ att \in [Task -> Seq(AttemptState)]
    /\ appr \in [Task -> ApprovalState]
    /\ out \in [Task -> Content]
    /\ billed \in [Task -> Nat]

\* createRun: the run row, and every task row pending.
LedgerInit ==
    /\ run = "running" /\ intent = "none"
    /\ task = [t \in Task |-> "pending"]
    /\ reason = [t \in Task |-> "none"]
    /\ due = {}
    /\ att = [t \in Task |-> <<>>]
    /\ appr = [t \in Task |-> "none"]
    /\ out = [t \in Task |-> "absent"]
    /\ billed = [t \in Task |-> 0]

-----------------------------------------------------------------------------
(* Reads *)

Live(t, n) == n \in DOMAIN att[t] /\ att[t][n] \in NonTerminal
HasNonTerminalAttempt(t) == \E n \in DOMAIN att[t] : Live(t, n)
AdmissionClosed == intent \in {"pause", "stop"}

PolicyKeyOf(failure) ==
    IF failure \in {"transient", "timeout"} THEN "transient_network" ELSE failure

\* Mutant: the first execution is not counted.
ShouldRetry_OneMore(t, failure) ==
    /\ billed[t] < MaxAttempts[t]
    /\ RetryOn[t] = {} \/ PolicyKeyOf(failure) \in RetryOn[t]

\* Whether the policy retries this failure: the execution number comes from
\* the billed events, so machine and manual retries are free.
ShouldRetry(t, failure) ==
    /\ billed[t] + 1 < MaxAttempts[t]
    /\ RetryOn[t] = {} \/ PolicyKeyOf(failure) \in RetryOn[t]

ReadySources == {t \in Task : IsReadySource(task[t], reason[t], t \in due)}
NowReady == {t \in ReadySources : Verdict(t, task, out) = "ready"}

\* Mutant: every verdict but "ready" is taken for a block.
NowBlocked_Waiting ==
    {t \in ReadySources :
        /\ Verdict(t, task, out) # "ready"
        /\ ~(task[t] = "blocked" /\ reason[t] = Verdict(t, task, out))}

\* Blocked rows whose code would not change are not rewritten.
NowBlocked ==
    {t \in ReadySources :
        /\ Verdict(t, task, out) \in BlockedCode
        /\ ~(task[t] = "blocked" /\ reason[t] = Verdict(t, task, out))}

IsSoftBlocked(t) ==
    task[t] = "blocked" /\ reason[t] \in ParkCode \cup {"dag.output_missing"}

\* Mutant: only what still waits counts as live, not what was let through.
HasLiveWork_Waiting ==
    \E t \in Task : task[t] \in {"pending", "retry_wait"} \/ IsSoftBlocked(t)

HasLiveWork ==
    \E t \in Task : task[t] \in InProgress \/ IsSoftBlocked(t)
AllTerminal == \A t \in Task : task[t] \in TaskTerminal

\* Mutant: the pause intent does not hold the verdict back.
FinalState_UnderPause ==
    IF run \in RunTerminal THEN "none"
    ELSE IF ~AllTerminal /\ HasLiveWork THEN "none"
    ELSE IF run = "cancelling" THEN "cancelled"
    ELSE IF ~AllTerminal \/ \E t \in Task : task[t] = "failed" THEN "failed"
    ELSE IF \A t \in Task : task[t] = "cancelled" THEN "cancelled"
    ELSE "succeeded"

\* What finalizeRunIfDone would write, or "none".
FinalState ==
    IF run \in RunTerminal \/ intent = "pause" THEN "none"
    ELSE IF ~AllTerminal /\ HasLiveWork THEN "none"
    ELSE IF run = "cancelling" THEN "cancelled"
    ELSE IF ~AllTerminal \/ \E t \in Task : task[t] = "failed" THEN "failed"
    ELSE IF \A t \in Task : task[t] = "cancelled" THEN "cancelled"
    ELSE "succeeded"

\* The tasks one failed task f blocks in propagateDownstream.
Downstream(f) ==
    {t \in Task :
        /\ task[t] \in {"pending", "retry_wait"}
        /\ \E i \in DOMAIN Deps[t] : Deps[t][i].up = f /\ Deps[t][i].cond = "succeeded"}

\* Mutant: attempts in flight do not hold the drain back.
CanDrain_Early == run = "pausing" /\ intent = "pause"

CanDrain ==
    /\ run = "pausing" /\ intent = "pause"
    /\ \A t \in Task : ~HasNonTerminalAttempt(t)

-----------------------------------------------------------------------------
(* Transactions of a reconcile pass *)

UpdateTasks(S, state, code) ==
    /\ task' = [t \in Task |-> IF t \in S THEN state ELSE task[t]]
    /\ reason' = [t \in Task |-> IF t \in S THEN code ELSE reason[t]]
    /\ due' = due \ S

ReconcileApproval(t) ==
    /\ appr[t] \in {"approved", "rejected"}
    /\ task[t] = "blocked" /\ reason[t] = "approval_pending"
    /\ UpdateTasks({t}, IF appr[t] = "approved" THEN "succeeded" ELSE "failed", "none")
    /\ UNCHANGED <<run, intent, att, appr, out, billed>>

\* All verdicts are taken from the one snapshot, then written together.
PromoteReady ==
    /\ NowReady \cup NowBlocked # {}
    /\ task' = [t \in Task |-> IF t \in NowReady THEN "ready"
                               ELSE IF t \in NowBlocked THEN "blocked" ELSE task[t]]
    /\ reason' = [t \in Task |-> IF t \in NowReady THEN "none"
                                 ELSE IF t \in NowBlocked THEN Verdict(t, task, out)
                                 ELSE reason[t]]
    /\ due' = due \ (NowReady \cup NowBlocked)
    /\ UNCHANGED <<run, intent, att, appr, out, billed>>

\* ready -> queued -> running and the attempt row, in one transaction.
Claim(t) ==
    /\ task[t] = "ready"
    /\ ~HasNonTerminalAttempt(t)
    /\ Len(att[t]) < MaxOrdinal
    /\ task' = [task EXCEPT ![t] = "running"]
    /\ att' = [att EXCEPT ![t] = Append(@, "claimed")]
    /\ UNCHANGED <<run, intent, reason, due, appr, out, billed>>

RecordDispatch(t, n) ==
    /\ Live(t, n)
    /\ att' = [att EXCEPT ![t][n] = "dispatched"]
    /\ UNCHANGED <<run, intent, task, reason, due, appr, out, billed>>

RequestApproval(t) ==
    /\ appr[t] = "none"
    /\ appr' = [appr EXCEPT ![t] = "pending"]
    /\ UNCHANGED <<run, intent, task, reason, due, att, out, billed>>

\* Mutant: a merge conflict is parked under the approval's code.
Park_WrongCode(t, n, code) ==
    /\ Live(t, n) \/ task[t] = "running"
    /\ att' = IF Live(t, n) THEN [att EXCEPT ![t][n] = "failed"] ELSE att
    /\ IF task[t] = "running"
       THEN UpdateTasks({t}, "blocked", "approval_pending")
       ELSE UNCHANGED <<task, reason, due>>
    /\ UNCHANGED <<run, intent, appr, out, billed>>

\* parkOrResolveApproval's last transaction, and parkMergeConflict: the two
\* writes have a check each.
Park(t, n, code) ==
    /\ Live(t, n) \/ task[t] = "running"
    /\ att' = IF Live(t, n) THEN [att EXCEPT ![t][n] = "failed"] ELSE att
    /\ IF task[t] = "running"
       THEN UpdateTasks({t}, "blocked", code)
       ELSE UNCHANGED <<task, reason, due>>
    /\ UNCHANGED <<run, intent, appr, out, billed>>

\* The retry branch of commitTerminalAndRelease.
CommitRetry(t, n, bill) ==
    /\ Live(t, n)
    /\ att' = [att EXCEPT ![t][n] = "failed"]
    /\ task' = [task EXCEPT ![t] = "retry_wait"]
    /\ due' = due \ {t}
    /\ billed' = IF bill THEN [billed EXCEPT ![t] = @ + 1] ELSE billed
    /\ UNCHANGED <<run, intent, reason, appr, out>>

\* Mutant: the output is stored whatever the verdict.
CommitTerminal_AnyOutput(t, n, target) ==
    /\ Live(t, n)
    /\ att' = [att EXCEPT ![t][n] = target]
    /\ task' = [task EXCEPT ![t] = target]
    /\ due' = due \ {t}
    /\ IF Produces[t] # {}
       THEN \E c \in Produces[t] : out' = [out EXCEPT ![t] = c]
       ELSE UNCHANGED out
    /\ UNCHANGED <<run, intent, reason, appr, billed>>

\* The terminal branch: the attempt, the output and the task together.
CommitTerminal(t, n, target) ==
    /\ Live(t, n)
    /\ att' = [att EXCEPT ![t][n] = target]
    /\ task' = [task EXCEPT ![t] = target]
    /\ due' = due \ {t}
    /\ IF target = "succeeded" /\ Produces[t] # {}
       THEN \E c \in Produces[t] : out' = [out EXCEPT ![t] = c]
       ELSE UNCHANGED out
    /\ UNCHANGED <<run, intent, reason, appr, billed>>

\* A harvested or refused attempt: "completed", "aborted", or a failure type.
Commit(t, n, result) ==
    IF result \in FailureType /\ ShouldRetry(t, result)
    THEN CommitRetry(t, n, TRUE)
    ELSE CommitTerminal(t, n, CASE result = "completed" -> "succeeded"
                                [] result = "aborted" -> "cancelled"
                                [] OTHER -> "failed")

Propagate(f) ==
    /\ task[f] = "failed" /\ f \in BlockDownstream
    /\ Downstream(f) # {}
    /\ UpdateTasks(Downstream(f), "blocked", "upstream_failed")
    /\ UNCHANGED <<run, intent, att, appr, out, billed>>

Finalize ==
    /\ FinalState # "none"
    /\ run' = FinalState
    /\ UNCHANGED <<intent, task, reason, due, att, appr, out, billed>>

DrainToPaused ==
    /\ CanDrain
    /\ run' = "paused"
    /\ UNCHANGED <<intent, task, reason, due, att, appr, out, billed>>

-----------------------------------------------------------------------------
(* Transactions of the control and approval tools *)

Pause ==
    /\ run \in {"running", "pausing", "paused"}
    /\ run' = IF run = "running" THEN "pausing" ELSE run
    /\ intent' = "pause"
    /\ UNCHANGED <<task, reason, due, att, appr, out, billed>>

Resume ==
    /\ run = "paused"
    /\ run' = "running" /\ intent' = "none"
    /\ UNCHANGED <<task, reason, due, att, appr, out, billed>>

\* Mutant: running tasks are cancelled too, under their attempts.
Stop_Running ==
    /\ run \notin RunTerminal
    /\ run' = "cancelling" /\ intent' = "stop"
    /\ UpdateTasks({t \in Task : task[t] \notin TaskTerminal}, "cancelled", "none")
    /\ UNCHANGED <<att, appr, out, billed>>

\* Mutant: a finished run can be stopped.
Stop_Finished ==
    /\ run' = "cancelling" /\ intent' = "stop"
    /\ UpdateTasks({t \in Task : task[t] # "running" /\ task[t] \notin TaskTerminal},
                   "cancelled", "none")
    /\ UNCHANGED <<att, appr, out, billed>>

\* The stop intent cancels every task that is not running, in the same write.
Stop ==
    /\ run \notin RunTerminal
    /\ run' = "cancelling" /\ intent' = "stop"
    /\ UpdateTasks({t \in Task : task[t] # "running" /\ task[t] \notin TaskTerminal},
                   "cancelled", "none")
    /\ UNCHANGED <<att, appr, out, billed>>

TaskControlAllowed == run \notin {"cancelling", "cancelled", "succeeded"}

\* Mutant: a succeeded task can be run again.
CanRetryTask_Succeeded(t) ==
    \/ task[t] \in {"failed", "succeeded"}
    \/ task[t] = "blocked" /\ reason[t] \in {"upstream_failed", "merge_conflicted"}

CanRetryTask(t) ==
    \/ task[t] = "failed"
    \/ task[t] = "blocked" /\ reason[t] \in {"upstream_failed", "merge_conflicted"}

\* Re-arms the task, due at once; a failed run comes back to running.
RetryTask(t) ==
    /\ TaskControlAllowed /\ CanRetryTask(t)
    /\ IF run = "failed"
       THEN run' = "running" /\ intent' = "none"
       ELSE UNCHANGED <<run, intent>>
    /\ task' = [task EXCEPT ![t] = "retry_wait"]
    /\ reason' = [reason EXCEPT ![t] = "none"]
    /\ due' = due \cup {t}
    /\ UNCHANGED <<att, appr, out, billed>>

CancelTask(t) ==
    /\ TaskControlAllowed
    /\ task[t] \in {"pending", "ready", "queued", "blocked"}
    /\ UpdateTasks({t}, "cancelled", "none")
    /\ UNCHANGED <<run, intent, att, appr, out, billed>>

Decide(t, decision) ==
    /\ task[t] = "blocked" /\ reason[t] = "approval_pending"
    /\ appr[t] = "pending"
    /\ appr' = [appr EXCEPT ![t] = decision]
    /\ UNCHANGED <<run, intent, task, reason, due, att, out, billed>>

-----------------------------------------------------------------------------
(* Transactions of the boot-time reconcile, and time *)

RecoverNeverDispatched(t, n) ==
    /\ n \in DOMAIN att[t] /\ att[t][n] = "claimed"
    /\ att' = [att EXCEPT ![t][n] = "failed"]
    /\ task' = [task EXCEPT ![t] = "retry_wait"]
    /\ due' = due \cup {t}
    /\ UNCHANGED <<run, intent, reason, appr, out, billed>>

RecoverOrphaned(t, n) ==
    /\ n \in DOMAIN att[t] /\ att[t][n] = "dispatched"
    /\ att' = [att EXCEPT ![t][n] = "orphaned"]
    /\ task' = [task EXCEPT ![t] = "failed"]
    /\ due' = due \ {t}
    /\ UNCHANGED <<run, intent, reason, appr, out, billed>>

\* The event chain does not verify at load: the run is parked failed, and its
\* intent, tasks and attempts stay as they are.
ParkBroken ==
    /\ run \notin RunTerminal
    /\ run' = "failed"
    /\ UNCHANGED <<intent, task, reason, due, att, appr, out, billed>>

BackoffElapses(t) ==
    /\ task[t] = "retry_wait" /\ t \notin due
    /\ due' = due \cup {t}
    /\ UNCHANGED <<run, intent, task, reason, att, appr, out, billed>>

-----------------------------------------------------------------------------

PassTx ==
    \/ PromoteReady
    \/ Finalize
    \/ DrainToPaused
    \/ \E t \in Task :
        \/ ReconcileApproval(t)
        \/ Claim(t)
        \/ Propagate(t)
        \/ Kind[t] = "approval" /\ RequestApproval(t)

\* A caller settles only an attempt that it owns and that is live.  The
\* commits re-check that; Park checks the attempt and the task apart, and would
\* park the task of another attempt, so here the caller's ownership is needed
\* (DagEngine's OneOwner shows that the program has it).  A merge executor that
\* throws and a rejected approval fail their task with no policy asked.
AttemptTx ==
    \E t \in Task : \E n \in {k \in DOMAIN att[t] : Live(t, k)} :
        \/ Kind[t] = "agent" /\ RecordDispatch(t, n)
        \/ Kind[t] = "approval" /\ appr[t] = "pending" /\ Park(t, n, "approval_pending")
        \/ Kind[t] = "merge" /\ Park(t, n, "merge_conflicted")
        \/ Kind[t] = "merge" /\ CommitRetry(t, n, FALSE)
        \/ Kind[t] # "agent" /\ CommitTerminal(t, n, "failed")
        \/ \E result \in FailureType \cup {"completed", "aborted"} : Commit(t, n, result)

ControlTx ==
    \/ Pause
    \/ Resume
    \/ Stop
    \/ \E t \in Task :
        \/ RetryTask(t)
        \/ CancelTask(t)
        \/ \E decision \in {"approved", "rejected"} : Decide(t, decision)

RecoveryTx ==
    \E t \in Task : \E n \in DOMAIN att[t] :
        \/ RecoverNeverDispatched(t, n)
        \/ RecoverOrphaned(t, n)

LedgerNext ==
    \/ PassTx
    \/ AttemptTx
    \/ ControlTx
    \/ RecoveryTx
    \/ ParkBroken
    \/ \E t \in Task : BackoffElapses(t)

LedgerSpec == LedgerInit /\ [][LedgerNext]_ledger

-----------------------------------------------------------------------------
(* Properties *)

\* A task is running exactly when one of its attempts is live, and then that
\* attempt is the last one it was given: no transaction strands a running
\* task without an attempt or leaves two attempts alive for one task.
RunningHasItsAttempt ==
    \A t \in Task :
        /\ task[t] = "running" <=> HasNonTerminalAttempt(t)
        /\ \A n \in DOMAIN att[t] : Live(t, n) => n = Len(att[t])

Started(t) ==
    \/ task[t] \in {"ready", "queued", "running", "succeeded"}
    \/ task[t] = "blocked" /\ reason[t] \in ParkCode

\* A task that was let through the readiness check stays justified while it is
\* ready, runs, is parked or has succeeded: its succeeded-edges (gates
\* included) still hold and its inputs are still there, whatever was retried,
\* cancelled or recovered around it.
StartedIsJustified ==
    \A t \in Task : Started(t) =>
        /\ \A i \in DOMAIN Deps[t] :
              Deps[t][i].cond = "succeeded" => EdgeVerdict(Deps[t][i], task, out) = "satisfied"
        /\ \A p \in Inputs[t] : out[p] # "absent"

\* promoteReady takes a present output to mean that its producer succeeded.
OutputMeansSuccess == \A t \in Task : out[t] # "absent" => task[t] = "succeeded"

\* State and control intent never part: a draining or paused run keeps its
\* pause intent (admission stays closed), a cancelling one its stop intent, a
\* live run none, and neither has a run that succeeded; only a run parked for
\* its event chain may be failed with an intent, and retry_task clears it.
IntentMatchesRun ==
    /\ run \in {"running", "succeeded"} => intent = "none"
    /\ run \in {"pausing", "paused"} => intent = "pause"
    /\ run = "cancelling" => intent = "stop"
    /\ run = "cancelled" => intent # "pause"

\* The policy's budget bounds the retries billed to it, whatever machine and
\* manual retries came between.
BudgetRespected == \A t \in Task : billed[t] < MaxAttempts[t]

\* A parked approval always has its approvals row, so dag_approve can find it.
ParkHasApproval ==
    \A t \in Task : task[t] = "blocked" /\ reason[t] = "approval_pending" => appr[t] # "none"

\* A succeeded or cancelled task is never rewritten, a run leaves its terminal
\* state only by retry_task reviving a failed one, and an attempt that ended
\* keeps its verdict.
Absorbing ==
    /\ \A t \in Task : task[t] \in {"succeeded", "cancelled"} => task'[t] = task[t]
    /\ run \in RunTerminal => run' = run \/ (run = "failed" /\ run' = "running")
    /\ \A t \in Task : \A n \in DOMAIN att[t] :
          att[t][n] \notin NonTerminal => n \in DOMAIN att'[t] /\ att'[t][n] = att[t][n]
AbsorbingStates == [][Absorbing]_ledger

-----------------------------------------------------------------------------
(* The abstract specification *)

\* What is left of a task's state when its attempts, parks and delays are not
\* looked at: one that was let through and has not ended is started.
StatusOf(t) ==
    IF task[t] \in TaskTerminal THEN task[t]
    ELSE IF Started(t) THEN "started" ELSE "waiting"

Promise == INSTANCE DagPromise WITH
    status <- [t \in Task |-> StatusOf(t)],
    product <- out,
    verdict <- IF run \in RunTerminal THEN run ELSE "open",
    GateHolds <- EvaluateGate

\* The ledger keeps the promise of the plan: tasks start only when every edge,
\* gate and input allows it at that moment, outputs come with success, ended
\* work stays ended unless it is retried, and the run's verdict fits its tasks.
PromiseKept == Promise!Spec
=============================================================================
