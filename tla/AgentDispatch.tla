--------------------------- MODULE AgentDispatch ----------------------------
(***************************************************************************)
(* The agent executor and the worktrees it works in: dispatch() of          *)
(* lib/executor.js from the claim to the recorded child, resolveWorktreeCwd *)
(* and the worktree service behind the seam, the attempt's timer, harvest() *)
(* with the mapping of the child's end, the verify gate, and the commit.    *)
(*                                                                          *)
(* Every task declares a worktree; tasks may belong to one run or to        *)
(* several, so their dispatches interleave at each await.  "waiting" stands *)
(* for pending, ready, queued and retry_wait; whether a failure is retried  *)
(* is the policy's business (DagLedger) and open here.                      *)
(***************************************************************************)
EXTENDS Naturals, Sequences, FiniteSets

CONSTANTS
    Task,        \* agent tasks that declare a worktree
    Slug,        \* task -> the slug of its worktree, one repository for all
    Declares,    \* the tasks that declare an output
    Verifies,    \* the tasks that declare verify
    Services,    \* the worktree services that may be deployed
    MaxAttempts, \* bound: task -> its attempts
    MaxCrashes   \* bound: ends of the host process

ASSUME VerifyAssumption == Verifies \subseteq Task /\ Declares \subseteq Task
ASSUME BoundAssumption == MaxCrashes \in Nat
ASSUME ServiceAssumption ==
    Services \subseteq [find : BOOLEAN, correlates : BOOLEAN, names : BOOLEAN]

VARIABLES
    service,  \* what the deployed service offers: findActiveByTask, correlationId, id
    task,     \* task -> "waiting", "running", "failed", "succeeded" or "cancelled"
    att,      \* task -> its attempts: state, child_session recorded, worktreeId of its event
    out,      \* task -> its outputs row: producing attempt (0: none) and what it says
    stopped,  \* the tasks whose run was stopped
    wts,      \* the service's worktrees: slug, correlating attempt, active
    pc,       \* task -> its dispatch: "idle", "probe", "create", "start" or "record"
    cwd,      \* task -> the worktree its dispatch resolved, 0 before
    flight,   \* inFlight: the executor's entries, one record each
    crashes,  \* ends of the process so far
    worked    \* history: task -> the worktree its accepted work was done in, 0 before

rows == <<task, att, out, stopped>>
disk == <<service, wts>>
vars == <<service, task, att, out, stopped, wts, pc, cwd, flight, crashes, worked>>

None == 0
TaskState == {"waiting", "running", "failed", "succeeded", "cancelled"}

\* How a child ends: an infra rejection, error, max-tokens or refusal; aborted;
\* completed without a structured value or with one that breaks the schema, with
\* a status that is not the expected one, with the one that is.
Ending == {"faulted", "aborted", "unfit", "unexpected", "expected"}
Completed == {"unfit", "unexpected", "expected"}

\* A task that declares no output asks for no structured value.
EndingOf(t) == IF t \in Declares THEN Ending ELSE {"faulted", "aborted", "unfit"}

Attempts(t) == 1 .. Len(att[t])
Last(t) == Len(att[t])
Entry(t) == {e \in flight : e.task = t}
Live == {e \in flight : e.end = "none"}

TypeOK ==
    /\ service \in Services
    /\ task \in [Task -> TaskState]
    /\ att \in [Task -> Seq([state : {"running", "succeeded", "failed", "cancelled", "orphaned"},
                             session : BOOLEAN, wt : Nat])]
    /\ out \in [Task -> [by : Nat, says : Completed]]
    /\ stopped \subseteq Task
    /\ wts \in Seq([slug : {Slug[t] : t \in Task}, task : Task, ordinal : Nat, active : BOOLEAN])
    /\ pc \in [Task -> {"idle", "probe", "create", "start", "record"}]
    /\ cwd \in [Task -> Nat]
    /\ flight \subseteq [task : Task, ordinal : Nat, wt : Nat, end : Ending \cup {"none"},
                         abort : {"none", "timer", "control"}]
    /\ crashes \in 0 .. MaxCrashes
    /\ worked \in [Task -> Nat]

Init ==
    /\ service \in Services
    /\ task = [t \in Task |-> "waiting"]
    /\ att = [t \in Task |-> <<>>]
    /\ out = [t \in Task |-> [by |-> None, says |-> "unfit"]]
    /\ stopped = {} /\ wts = <<>>
    /\ pc = [t \in Task |-> "idle"] /\ cwd = [t \in Task |-> None]
    /\ flight = {} /\ crashes = 0
    /\ worked = [t \in Task |-> None]

-----------------------------------------------------------------------------
(* Dispatch: claim, cwd resolution, start, record *)

\* A round claims the task and calls dispatch with all attempt ids of the task.
\* That the run was stopped does not keep it from claiming: the admission gate was
\* read before the awaits of its dispatch loop.
Claim(t) ==
    /\ task[t] = "waiting"
    /\ Len(att[t]) < MaxAttempts[t]
    /\ task' = [task EXCEPT ![t] = "running"]
    /\ att' = [att EXCEPT ![t] = Append(@, [state |-> "running", session |-> FALSE, wt |-> None])]
    /\ pc' = [pc EXCEPT ![t] = IF service.find THEN "probe" ELSE "create"]
    /\ UNCHANGED <<disk, out, stopped, cwd, flight, crashes, worked>>

\* commitTerminalAndRelease of a failure: retried or failed for good.
CommitFailure(t) ==
    /\ att' = [att EXCEPT ![t][Last(t)].state = "failed"]
    /\ \E s \in {"waiting", "failed"} : task' = [task EXCEPT ![t] = s]
    /\ UNCHANGED <<out, stopped, worked>>

\* The attempt never takes off: no service behind the seam, a probe or a create
\* that throws, no path or one outside the gate, a prompt too long, a depth
\* refused, no agent to hang off, start() refused.  A worktree made stays.
DispatchFails(t) ==
    /\ pc[t] \in {"probe", "create", "start"}
    /\ pc' = [pc EXCEPT ![t] = "idle"]
    /\ cwd' = [cwd EXCEPT ![t] = None]
    /\ CommitFailure(t)
    /\ UNCHANGED <<disk, flight, crashes>>

\* Worktrees live on until the plugin that owns them collects them.
ActiveFor(t) == {k \in DOMAIN wts : wts[k].active /\ wts[k].slug = Slug[t]}

\* Mutant: a claim is taken to know of its own attempt only.
InHistory_CurrentOnly(t, k) == wts[k].task = t /\ wts[k].ordinal = Last(t)

\* taskAttemptIds.includes(active.correlationId)
InHistory(t, k) == wts[k].task = t /\ wts[k].ordinal \in Attempts(t)

\* Mutant: the slug alone decides, as before the ownership gate.
Owns_BySlug(t, k) == wts[k].active

Owns(t, k) == service.correlates /\ InHistory(t, k)

\* findActiveByTask(repoRoot, slug): an own worktree is reused, a foreign one
\* leaves it to create.
Probe(t) ==
    /\ pc[t] = "probe"
    /\ IF \E k \in ActiveFor(t) : Owns(t, k)
       THEN \E k \in ActiveFor(t) :
               /\ Owns(t, k)
               /\ cwd' = [cwd EXCEPT ![t] = k]
               /\ pc' = [pc EXCEPT ![t] = "start"]
       ELSE pc' = [pc EXCEPT ![t] = "create"] /\ UNCHANGED cwd
    /\ UNCHANGED <<rows, disk, flight, crashes, worked>>

\* create(): the service refuses a slug that is taken (DispatchFails).
Create(t) ==
    /\ pc[t] = "create" /\ ActiveFor(t) = {}
    /\ wts' = Append(wts, [slug |-> Slug[t], task |-> t, ordinal |-> Last(t), active |-> TRUE])
    /\ cwd' = [cwd EXCEPT ![t] = Len(wts) + 1]
    /\ pc' = [pc EXCEPT ![t] = "start"]
    /\ UNCHANGED <<rows, service, flight, crashes, worked>>

\* start() accepts: the timer runs and the child is registered.
Start(t) ==
    /\ pc[t] = "start"
    /\ flight' = flight \cup
         {[task |-> t, ordinal |-> Last(t), wt |-> cwd[t], end |-> "none",
           abort |-> "none"]}
    /\ pc' = [pc EXCEPT ![t] = "record"]
    /\ UNCHANGED <<rows, disk, cwd, crashes, worked>>

\* Mutant: only a worktree made for this very attempt rides along.
WorktreeId_FreshOnly(t) ==
    IF service.names /\ wts[cwd[t]].ordinal = Last(t) THEN cwd[t] ELSE None

\* The id of the record, where the service gives one.
WorktreeId(t) == IF service.names THEN cwd[t] ELSE None

\* The engine records child session and worktree, in one transaction and in the
\* turn of the event loop that registered the child: no timer and no end of the
\* child comes between the two, only the end of the process.
Record(t) ==
    /\ pc[t] = "record"
    /\ att' = [att EXCEPT ![t][Last(t)].session = TRUE, ![t][Last(t)].wt = WorktreeId(t)]
    /\ pc' = [pc EXCEPT ![t] = "idle"]
    /\ cwd' = [cwd EXCEPT ![t] = None]
    /\ UNCHANGED <<task, out, stopped, disk, flight, crashes, worked>>

-----------------------------------------------------------------------------
(* A child under way: its end, its timer, the control plane *)

Update(e, f) == flight' = (flight \ {e}) \cup {f}

\* An abort may come too late for the child to notice, and a child may be
\* aborted by its parent.
ChildEnds(e) ==
    /\ e.end = "none" /\ pc[e.task] # "record"
    /\ \E how \in EndingOf(e.task) : Update(e, [e EXCEPT !.end = how])
    /\ UNCHANGED <<rows, disk, pc, cwd, crashes, worked>>

\* Of the two abort sources the first one counts: it sets meta.timedOut or
\* meta.abortedByControl, and the flags are read of a child that ends aborted.
AbortedBy(e, source) ==
    IF e.abort = "none" /\ e.end \in {"none", "aborted"}
    THEN [e EXCEPT !.abort = source] ELSE e

\* Mutant: the timer is cleared once start() has resolved.
Timer_ClearedAtStart(e) == FALSE

Timer(e) ==
    /\ AbortedBy(e, "timer") # e /\ pc[e.task] # "record"
    /\ Update(e, AbortedBy(e, "timer"))
    /\ UNCHANGED <<rows, disk, pc, cwd, crashes, worked>>

AbortAll(t) == flight' = (flight \ Entry(t)) \cup {AbortedBy(e, "control") : e \in Entry(t)}

\* dag_control stop of a run that is not over: what is not running is cancelled,
\* what is in flight aborted.
Stop(t) ==
    /\ t \notin stopped /\ task[t] \in {"waiting", "running"}
    /\ stopped' = stopped \cup {t}
    /\ task' = [task EXCEPT ![t] = IF @ = "waiting" THEN "cancelled" ELSE @]
    /\ AbortAll(t)
    /\ UNCHANGED <<att, out, disk, pc, cwd, crashes, worked>>

\* The passes of a stopping run abort what registered after the stop.
Sweep(t) ==
    /\ t \in stopped
    /\ \E e \in Entry(t) : AbortedBy(e, "control") # e
    /\ AbortAll(t)
    /\ UNCHANGED <<rows, disk, pc, cwd, crashes, worked>>

-----------------------------------------------------------------------------
(* Harvest: mapSettlement, the verify gate, the commit *)

\* mapSettlement: "none" for a success, else the kind of failure; "faulted" and
\* "unfit" stand for internal, transient and permanent, alike to the commit.
Mapped(e) ==
    CASE e.end = "aborted" -> IF e.abort = "timer" THEN "timeout" ELSE "aborted"
      [] e.end = "faulted" -> "faulted"
      [] e.end = "unfit"   -> IF e.task \in Declares THEN "unfit" ELSE "none"
      [] OTHER -> "none"

\* Mutant: any receipt passes the gate.
GatePasses_AnyStatus(e) == e.task \in Verifies => e.end # "unfit"

\* findVerifyReceipt and the status compare, on this attempt's pending output.
GatePasses(e) == e.task \in Verifies => e.end = "expected"

\* evaluateVerifyGate: an existing failure passes through unchanged.
Effective(e) == IF Mapped(e) = "none" /\ ~GatePasses(e) THEN "unfit" ELSE Mapped(e)

\* harvestSettled: the entry goes, the attempt ends in one transaction.
Harvest(e) ==
    /\ e.end # "none"
    /\ flight' = flight \ {e}
    /\ CASE Effective(e) = "none" ->
              /\ att' = [att EXCEPT ![e.task][e.ordinal].state = "succeeded"]
              /\ task' = [task EXCEPT ![e.task] = "succeeded"]
              /\ out' = IF e.task \in Declares
                        THEN [out EXCEPT ![e.task] = [by |-> e.ordinal, says |-> e.end]]
                        ELSE out
              /\ worked' = [worked EXCEPT ![e.task] = e.wt]
              /\ UNCHANGED stopped
         [] Effective(e) = "aborted" ->
              /\ att' = [att EXCEPT ![e.task][e.ordinal].state = "cancelled"]
              /\ task' = [task EXCEPT ![e.task] = "cancelled"]
              /\ UNCHANGED <<out, stopped, worked>>
         [] OTHER -> CommitFailure(e.task)
    /\ UNCHANGED <<disk, pc, cwd, crashes>>

-----------------------------------------------------------------------------
(* The world around *)

\* retry_task of a failed task.
RetryTask(t) ==
    /\ task[t] = "failed" /\ t \notin stopped
    /\ task' = [task EXCEPT ![t] = "waiting"]
    /\ UNCHANGED <<att, out, stopped, disk, pc, cwd, flight, crashes, worked>>

\* The worktrees plugin merges or removes a worktree, whoever works in it.
Collect(k) ==
    /\ wts[k].active
    /\ wts' = [wts EXCEPT ![k].active = FALSE]
    /\ UNCHANGED <<rows, service, pc, cwd, flight, crashes, worked>>

\* The process ends and its children with it; the next one settles the attempts
\* it finds: never dispatched, to be retried; dispatched, orphaned and failed.
Crash ==
    /\ crashes < MaxCrashes
    /\ crashes' = crashes + 1
    /\ flight' = {}
    /\ pc' = [t \in Task |-> "idle"] /\ cwd' = [t \in Task |-> None]
    /\ att' = [t \in Task |-> IF task[t] # "running" THEN att[t] ELSE
              [att[t] EXCEPT ![Last(t)].state = IF att[t][Last(t)].session THEN "orphaned" ELSE "failed"]]
    /\ task' = [t \in Task |-> IF task[t] # "running" THEN task[t] ELSE
                 IF att[t][Last(t)].session THEN "failed" ELSE "waiting"]
    /\ UNCHANGED <<disk, out, stopped, worked>>

Dispatch(t) == DispatchFails(t) \/ Probe(t) \/ Create(t) \/ Start(t) \/ Record(t)

Next ==
    \/ \E t \in Task : Claim(t) \/ Dispatch(t) \/ Stop(t) \/ Sweep(t) \/ RetryTask(t)
    \/ \E e \in flight : ChildEnds(e) \/ Timer(e) \/ Harvest(e)
    \/ \E k \in DOMAIN wts : Collect(k)
    \/ Crash

Spec == Init /\ [][Next]_vars

\* The event loop serves every await of a dispatch and every timer, a child told
\* to stop ends, a tick or the autoTick timer harvests what has ended.
Fairness ==
    \A t \in Task :
        /\ WF_vars(Dispatch(t))
        /\ WF_vars(\E e \in Entry(t) : Timer(e))
        /\ WF_vars(\E e \in Entry(t) : e.abort # "none" /\ ChildEnds(e))
        /\ WF_vars(\E e \in Entry(t) : Harvest(e))

FairSpec == Spec /\ Fairness

-----------------------------------------------------------------------------
(* Properties *)

\* resolveWorktreeCwd: two children never work in one checkout, whatever the
\* slugs of their tasks, across retries, restarts and collections.
CheckoutIsExclusive ==
    \A d, e \in Live : d.wt = e.wt => d = e

\* The reuse probe with its ownership gate: where the service can prove
\* ownership, no attempt is turned away from create() by the worktree an
\* earlier attempt of its own task has left, a crashed dispatch included.
OwnCheckoutIsNoObstacle ==
    \A t \in Task : pc[t] = "create" /\ service.find /\ service.correlates =>
        \A k \in ActiveFor(t) : wts[k].task # t

\* lastSucceededWorktreeId of merge.js: the worktree of the last succeeded
\* attempt's dispatched event, or none.
MergeSource(t) ==
    LET done == {n \in Attempts(t) : att[t][n].state = "succeeded"}
    IN  IF done = {} THEN None
        ELSE att[t][CHOOSE n \in done : \A m \in done : m <= n].wt

\* What a merge would integrate for a succeeded task is the worktree the
\* accepted work was done in, whichever attempt made that worktree.
MergeSourceIsTheWork ==
    \A t \in Task : task[t] = "succeeded" =>
        MergeSource(t) = IF service.names THEN worked[t] ELSE None

\* A succeeded task that declares verify has an outputs row with the expected
\* status, written by the attempt that succeeded: no failed, late or earlier
\* attempt lends it its receipt.
SuccessCarriesItsReceipt ==
    \A t \in Task : task[t] = "succeeded" /\ t \in Verifies =>
        out[t] = [by |-> Last(t), says |-> "expected"]

\* The attempt's timer: no child keeps its task running forever.
AttemptsEnd == \A t \in Task : task[t] = "running" ~> task[t] # "running"
=============================================================================
