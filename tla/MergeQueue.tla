----------------------------- MODULE MergeQueue ------------------------------
(***************************************************************************)
(* Merge tasks over the merge queue of dsh-worktrees: runMergeTask of       *)
(* lib/executors/merge.js, from the claim to the terminal commit, and what  *)
(* lib/recovery.js makes of an attempt that a crash cut short.              *)
(*                                                                          *)
(* The queue is another plugin's and survives a restart.  Of it only the    *)
(* contract in merge.js is modelled: enqueue returns the active job of the  *)
(* same source and branch instead of a second one, and drain works on every *)
(* job of a repository and an integration branch, whoever enqueued it.      *)
(* A merge attempt never records a child session, so its row cannot tell    *)
(* how far it came.                                                         *)
(***************************************************************************)
EXTENDS Naturals, Sequences, FiniteSets

CONSTANTS
    Merge,          \* the merge tasks, of one run or several
    Unchanged,      \* the worktrees whose agent committed nothing
    Worktree,       \* the worktrees of their upstreams' last succeeded attempts
    SourcesOf,      \* merge -> sequence of worktrees, in dependsOn order
    RepoOf,         \* worktree -> repository
    BranchOf,       \* merge -> integration branch
    Verify,         \* the merges that declare a verify block
    MaxAttempts,    \* retry.maxAttempts of every merge; its retryOn is transient_network
    MaxOrdinal,     \* bound: attempts per merge
    Mishaps,        \* what the environment may do: "gone", "refuse", "fail", "busy", "conflict"
    MaxMishaps,     \* bound: how often it does
    Crashes         \* bound: crashes of the host

ASSUME SourcesAssumption == \A m \in Merge : SourcesOf[m] \in Seq(Worktree) /\ SourcesOf[m] # <<>>
ASSUME UnchangedAssumption == Unchanged \subseteq Worktree /\ Verify \subseteq Merge
ASSUME MishapAssumption ==
    Mishaps \subseteq {"gone", "refuse", "fail", "busy", "conflict"} /\ MaxMishaps \in Nat

VARIABLES
    task,       \* merge -> tasks.state (retry_wait stands for due, too)
    att,        \* merge -> states of its attempts, by ordinal
    billed,     \* merge -> retries billed to the policy
    out,        \* merge -> integratedCommit of the outputs row: "commit", "null" or "absent"
    pc,         \* merge -> where its executor is suspended: "idle", "enqueue", "drain", "read"
    toEnqueue,  \* merge -> the sources still to enqueue
    toDrain,    \* merge -> the repositories still to drain
    worst,      \* merge -> outcomes seen so far in this attempt
    job,        \* <<worktree, branch>> -> "none", "queued" or "conflicted"
    integrated, \* the <<worktree, branch>> whose work is on the branch
    mishaps,    \* history: how many there were, and whether any but a busy queue
    crashes

rows == <<task, att, billed, out>>
local == <<pc, toEnqueue, toDrain, worst>>
queue == <<job, integrated>>
vars == <<rows, local, queue, mishaps, crashes>>

Branch == {BranchOf[m] : m \in Merge}
Repo == {RepoOf[w] : w \in Worktree}
Outcome == {"conflicted", "failed", "queued", "no_changes", "succeeded"}
Ordinal(m) == Len(att[m])

Init ==
    /\ task = [m \in Merge |-> "ready"] /\ att = [m \in Merge |-> <<>>]
    /\ billed = [m \in Merge |-> 0] /\ out = [m \in Merge |-> "absent"]
    /\ pc = [m \in Merge |-> "idle"] /\ toEnqueue = [m \in Merge |-> <<>>]
    /\ toDrain = [m \in Merge |-> {}] /\ worst = [m \in Merge |-> {}]
    /\ job = [k \in Worktree \X Branch |-> "none"] /\ integrated = Unchanged \X Branch
    /\ mishaps = [count |-> 0, worse |-> FALSE] /\ crashes = 0

Mishap(kind) ==
    /\ kind \in Mishaps /\ mishaps.count < MaxMishaps
    /\ mishaps' = [count |-> mishaps.count + 1, worse |-> mishaps.worse \/ kind # "busy"]

-----------------------------------------------------------------------------
(* Commits *)

\* Mutant: every retry is billed to the policy.
Bills_All(failure) == TRUE

\* The re-poll behind a busy queue is stamped manual: shouldRetry skips it.
Bills(failure) == failure # "queued_ahead"

\* commitTerminalAndRelease: the policy decides on a transient failure, a
\* busy queue always retries, and anything else is final.
Retries(m, failure) ==
    \/ failure = "queued_ahead" /\ (Bills(failure) => billed[m] + 1 < MaxAttempts)
    \/ failure = "transient" /\ billed[m] + 1 < MaxAttempts

EndAttempt(m, verdict) == att' = [att EXCEPT ![m][Ordinal(m)] = verdict]

Fail(m, failure) ==
    /\ EndAttempt(m, "failed")
    /\ task' = [task EXCEPT ![m] = IF Retries(m, failure) THEN "retry_wait" ELSE "failed"]
    /\ billed' = IF Retries(m, failure) /\ Bills(failure)
                 THEN [billed EXCEPT ![m] = @ + 1] ELSE billed
    /\ pc' = [pc EXCEPT ![m] = "idle"]
    /\ UNCHANGED out

\* parkMergeConflict: the attempt failed, the task blocked, in one transaction.
ParkConflict(m) ==
    /\ EndAttempt(m, "failed")
    /\ task' = [task EXCEPT ![m] = "blocked"]
    /\ pc' = [pc EXCEPT ![m] = "idle"]
    /\ UNCHANGED <<billed, out>>

Succeed(m) ==
    /\ EndAttempt(m, "succeeded")
    /\ task' = [task EXCEPT ![m] = "succeeded"]
    /\ out' = [out EXCEPT ![m] = IF "succeeded" \in worst[m] THEN "commit" ELSE "null"]
    /\ pc' = [pc EXCEPT ![m] = "idle"]
    /\ UNCHANGED billed

-----------------------------------------------------------------------------
(* One attempt *)

Claim(m) ==
    /\ task[m] \in {"ready", "retry_wait"} /\ pc[m] = "idle" /\ Ordinal(m) < MaxOrdinal
    /\ task' = [task EXCEPT ![m] = "running"]
    /\ att' = [att EXCEPT ![m] = Append(@, "running")]
    /\ pc' = [pc EXCEPT ![m] = "enqueue"]
    /\ toEnqueue' = [toEnqueue EXCEPT ![m] = SourcesOf[m]]
    /\ worst' = [worst EXCEPT ![m] = {}]
    /\ UNCHANGED <<billed, out, toDrain, queue, mishaps, crashes>>

\* dsh-worktrees is not loaded when the attempt begins.
QueueGone(m) ==
    /\ pc[m] = "enqueue" /\ toEnqueue[m] = SourcesOf[m]
    /\ Mishap("gone")
    /\ Fail(m, "permanent")
    /\ UNCHANGED <<toEnqueue, toDrain, worst, queue, crashes>>

\* queue.enqueue of the next source; the awaited call has its effect and
\* answers, or is refused (it throws, answers ok:false, or names no repoKey).
\* What was enqueued before stays queued.
EnqueueRefused(m) ==
    /\ pc[m] = "enqueue" /\ toEnqueue[m] # <<>>
    /\ Mishap("refuse")
    /\ Fail(m, "transient")
    /\ UNCHANGED <<toEnqueue, toDrain, worst, queue, crashes>>

EnqueueNext(m) ==
    /\ pc[m] = "enqueue" /\ toEnqueue[m] # <<>>
    /\ LET k == <<Head(toEnqueue[m]), BranchOf[m]>> IN
       /\ job' = [job EXCEPT ![k] = IF @ = "none" THEN "queued" ELSE @]
    /\ toEnqueue' = [toEnqueue EXCEPT ![m] = Tail(@)]
    /\ UNCHANGED <<rows, pc, toDrain, worst, integrated, mishaps, crashes>>

\* The unique repositories of the jobs.
ReposOf(m) == {RepoOf[SourcesOf[m][i]] : i \in DOMAIN SourcesOf[m]}

StartDraining(m) ==
    /\ pc[m] = "enqueue" /\ toEnqueue[m] = <<>>
    /\ toDrain' = [toDrain EXCEPT ![m] = ReposOf(m)]
    /\ pc' = [pc EXCEPT ![m] = "drain"]
    /\ UNCHANGED <<rows, toEnqueue, worst, queue, mishaps, crashes>>

JobsIn(r, m) == {k \in Worktree \X {BranchOf[m]} : RepoOf[k[1]] = r /\ job[k] # "none"}

\* What queue.drain does and answers.  It stops at the first job that fails or
\* conflicts; the jobs before it are on the branch.  A drain that throws, or answers
\* what merge.js does not know, counts as failed, however far it came.
DrainWorks(m, r, outcome, done) ==
    LET jobs == JobsIn(r, m)
        stuck == {k \in jobs : job[k] = "conflicted"}
    IN  /\ done \subseteq jobs \ stuck
        /\ \/ outcome \in {"succeeded", "no_changes"} /\ stuck = {} /\ done = jobs
              /\ (outcome = "succeeded" <=> done \ integrated # {})
              /\ UNCHANGED mishaps
           \/ outcome = "conflicted" /\ stuck # {} /\ done = {} /\ UNCHANGED mishaps
           \/ outcome = "conflicted" /\ stuck = {} /\ done # jobs /\ Mishap("conflict")
           \/ outcome = "failed" /\ Mishap("fail")
           \/ outcome = "queued" /\ done = {} /\ Mishap("busy")
        /\ \E hit \in IF outcome = "conflicted" /\ stuck = {} THEN jobs \ done ELSE {<<>>} :
              job' = [k \in DOMAIN job |->
                        IF k \in done THEN "none" ELSE IF k = hit THEN "conflicted" ELSE job[k]]
        /\ integrated' = integrated \cup done

\* The drain of one repository ends; its answer is not read yet.
DrainNext(m) ==
    /\ pc[m] = "drain"
    /\ \E r \in toDrain[m], outcome \in Outcome : \E done \in SUBSET JobsIn(r, m) :
        /\ DrainWorks(m, r, outcome, done)
        /\ toDrain' = [toDrain EXCEPT ![m] = @ \ {r}]
        /\ worst' = [worst EXCEPT ![m] = @ \cup {outcome}]
    /\ pc' = [pc EXCEPT ![m] = "read"]
    /\ UNCHANGED <<rows, toEnqueue, crashes>>

DrainAnother(m) ==
    /\ pc[m] = "read" /\ toDrain[m] # {}
    /\ pc' = [pc EXCEPT ![m] = "drain"]
    /\ UNCHANGED <<rows, toEnqueue, toDrain, worst, queue, mishaps, crashes>>

\* Mutant: a success anywhere hides the repositories that only queued.
MapOutcome_AnySuccess(m) ==
    IF "conflicted" \in worst[m] THEN "conflicted"
    ELSE IF "failed" \in worst[m] THEN "failed"
    ELSE IF "succeeded" \in worst[m] THEN "done"
    ELSE IF "queued" \in worst[m] THEN "queued" ELSE "done"

\* Mutant: a failure hides the conflict.
MapOutcome_FailedFirst(m) ==
    IF "failed" \in worst[m] THEN "failed"
    ELSE IF "conflicted" \in worst[m] THEN "conflicted"
    ELSE IF "queued" \in worst[m] THEN "queued" ELSE "done"

\* conflicted before failed before queued; else every repository is done.
MapOutcome(m) ==
    IF "conflicted" \in worst[m] THEN "conflicted"
    ELSE IF "failed" \in worst[m] THEN "failed"
    ELSE IF "queued" \in worst[m] THEN "queued" ELSE "done"

\* The verify gate's receipt is the integrated commit; an integration that
\* changed nothing has none.  A commit that there is may be another than the spec
\* expects, or have no declared output to be read from.
GateMayPass(m) == m \in Verify => "succeeded" \in worst[m]

Settle(m) ==
    /\ pc[m] = "read" /\ toDrain[m] = {}
    /\ \/ MapOutcome(m) = "conflicted" /\ ParkConflict(m)
       \/ MapOutcome(m) = "failed" /\ Fail(m, "transient")
       \/ MapOutcome(m) = "queued" /\ Fail(m, "queued_ahead")
       \/ MapOutcome(m) = "done" /\ m \in Verify /\ Fail(m, "permanent")
       \/ MapOutcome(m) = "done" /\ GateMayPass(m) /\ Succeed(m)
    /\ UNCHANGED <<toEnqueue, toDrain, worst, queue, mishaps, crashes>>

-----------------------------------------------------------------------------
(* Around it *)

\* A human resolves the conflict in the queue, then re-runs the task.
Resolve(k) ==
    /\ job[k] = "conflicted"
    /\ job' = [job EXCEPT ![k] = "queued"]
    /\ UNCHANGED <<rows, local, integrated, mishaps, crashes>>

RetryTask(m) ==
    /\ task[m] \in {"blocked", "failed"}
    /\ task' = [task EXCEPT ![m] = "retry_wait"]
    /\ UNCHANGED <<att, billed, out, local, queue, mishaps, crashes>>

\* The host dies and comes back: every attempt found running has no child
\* session, so recoverNeverDispatched fails it and makes its task due.
CrashAndRecover ==
    /\ crashes < Crashes /\ \E m \in Merge : pc[m] # "idle"
    /\ LET cut == {m \in Merge : task[m] = "running"} IN
       /\ att' = [m \in Merge |-> IF m \in cut THEN [att[m] EXCEPT ![Ordinal(m)] = "failed"]
                                  ELSE att[m]]
       /\ task' = [m \in Merge |-> IF m \in cut THEN "retry_wait" ELSE task[m]]
    /\ pc' = [m \in Merge |-> "idle"] /\ toEnqueue' = [m \in Merge |-> <<>>]
    /\ toDrain' = [m \in Merge |-> {}] /\ worst' = [m \in Merge |-> {}]
    /\ crashes' = crashes + 1
    /\ UNCHANGED <<billed, out, queue, mishaps>>

Attempt(m) ==
    \/ Claim(m) \/ EnqueueNext(m) \/ StartDraining(m)
    \/ DrainNext(m) \/ DrainAnother(m) \/ Settle(m)

Next ==
    \/ \E m \in Merge : Attempt(m) \/ QueueGone(m) \/ EnqueueRefused(m) \/ RetryTask(m)
    \/ \E k \in Worktree \X Branch : Resolve(k)
    \/ CrashAndRecover

Spec == Init /\ [][Next]_vars

\* Ticks go on being called, and a human resolves and retries what is parked.
FairSpec ==
    /\ Spec
    /\ \A m \in Merge : WF_vars(Attempt(m)) /\ WF_vars(task[m] = "blocked" /\ RetryTask(m))
    /\ \A k \in Worktree \X Branch : WF_vars(Resolve(k))

-----------------------------------------------------------------------------
(* Properties *)

\* A merge that succeeded has the work of every one of its sources on its
\* integration branch and left no job of theirs behind, whichever attempt, drain
\* or other merge integrated it and whatever was refused, queued, resolved or
\* cut short on the way.
SuccessMeansIntegrated ==
    \A m \in Merge : task[m] = "succeeded" =>
        \A i \in DOMAIN SourcesOf[m] : LET k == <<SourcesOf[m][i], BranchOf[m]>> IN
            k \in integrated /\ job[k] = "none"

\* An attempt that met a conflict in any of its repositories, whatever the
\* others answered, ends parked for a human and is never retried by the policy.
ConflictWaitsForAHuman ==
    [][\A m \in Merge :
        pc[m] = "read" /\ task'[m] \in {"retry_wait", "failed"} /\ crashes' = crashes
            => "conflicted" \notin worst[m]]_vars

\* A busy queue is not a failure: a merge that met nothing worse gets there in
\* the end, whatever the number of re-polls.  Left out: a merge whose verify gate
\* wants a commit of its own, and a crash.
MergesComplete ==
    \A m \in Merge \ Verify :
        <>(task[m] = "succeeded" \/ crashes > 0 \/ mishaps.worse)
=============================================================================
