----------------------------- MODULE DagEngine ------------------------------
(***************************************************************************)
(* The reconcile engine of lib/engine.js over the ledger: the passes that   *)
(* dag_tick (oneRound) and the timer (autoTick) run, the executor's map of  *)
(* children in flight, the admission slots and session keys, the control    *)
(* and approval tools, and a host crash with its boot-time reconcile.       *)
(*                                                                          *)
(* JavaScript runs a pass without interruption between two awaits.  thread  *)
(* is that rule: it names the pass whose synchronous section is running, or *)
(* "free" at an await.  An await of a promise that is already settled (the  *)
(* engine's own async calls) only lets the microtask queue run: other       *)
(* passes, and promises of the subagent runtime.  Timers and tool calls     *)
(* come between macrotasks, when no pass is at such an await.               *)
(* Each transaction is a step of its own all the same, because the host may *)
(* crash between two of them.  Memory that a synchronous section writes     *)
(* before its transaction is written in the transaction's step.             *)
(***************************************************************************)
EXTENDS DagLedger

CONSTANTS
    TickPass,       \* the dag_tick calls that may overlap
    AutoPass,       \* the timer callbacks that may overlap
    MaxRunning,     \* limits.maxRunningAgents
    QueueCapacity,  \* limits.queueCapacity
    IdRank,         \* task -> its rank in task_id order
    Priority,       \* task -> rank given by critical path depth and priority; lower first
    KeyOf,          \* task -> concurrencyKey, or NoKey
    NoKey,
    TimedTask,      \* the tasks whose timer may fire
    StartFailures,  \* what executor.dispatch may fail with
    ChildResults,   \* how a child may end if nobody aborts it
    MergeResults,   \* how the worktree queue may answer
    Decisions,      \* the decisions dag_approve is called with
    Controls,       \* the control actions that are issued
    Crashes         \* whether the host may crash

Pass == TickPass \cup AutoPass
Key == {KeyOf[t] : t \in Task} \ {NoKey}
Slot == 0 .. MaxRunning - 1

ASSUME PassAssumption == TickPass \cap AutoPass = {} /\ {"free", "boot"} \cap Pass = {}
ASSUME MaxRunningAssumption == MaxRunning \in 1 .. 32
ASSUME QueueCapacityAssumption == QueueCapacity \in 1 .. 1024
ASSUME RankAssumption == IdRank \in [Task -> Nat] /\ Priority \in [Task -> Nat]
ASSUME StartFailuresAssumption == StartFailures \subseteq {"transient", "permanent", "internal"}
ASSUME DecisionsAssumption == Decisions \subseteq {"approved", "rejected"}
ASSUME ChildResultsAssumption == ChildResults \subseteq {"completed", "error", "permanent", "internal"}
ASSUME MergeResultsAssumption ==
    MergeResults \subseteq {"completed", "transient", "permanent", "threw", "conflicted", "queued"}

VARIABLES
    thread,     \* the pass in a synchronous section, "free", or "boot"
    pass,       \* the locals of each pass
    flight,     \* executor.inFlight, in registration order
    slots,      \* admission: the slot indices held
    holder,     \* admission: the attempt holding each session key, or NoAttempt
    meta        \* attemptMeta: the slot of each attempt that this process claimed

memory == <<thread, pass, flight, slots, holder, meta>>
vars == <<ledger, memory>>

NoAttempt == <<>>
Attempt == Task \X (1 .. MaxOrdinal)

PC == {"idle", "approvals", "dispatch", "starting", "merging", "parking",
       "dispatched", "harvest", "committing", "harvested", "conclude"}

IdlePass == [pc |-> "idle", wave |-> 1, queue |-> {}, cur |-> NoAttempt,
             snap |-> <<>>, result |-> "none"]

EngineInit ==
    /\ LedgerInit
    /\ thread = "free"
    /\ pass = [p \in Pass |-> IdlePass]
    /\ flight = <<>>
    /\ slots = {}
    /\ holder = [k \in Key |-> NoAttempt]
    /\ meta = <<>>

-----------------------------------------------------------------------------
(* Executor and admission *)

\* An entry of the in-flight map: the child's result once it has settled, and
\* who aborted it first, the timer or the control plane.
Entry(x, cause) == [id |-> x, result |-> "pending", cause |-> cause]

\* stop, its sweeps and dispose: the first abort source keeps the attempt.
AbortAll(entries) ==
    [i \in DOMAIN entries |->
        IF entries[i].result = "pending" /\ entries[i].cause = "none"
        THEN [entries[i] EXCEPT !.cause = "control"] ELSE entries[i]]

Swept(entries, onStop) == IF onStop = "stop" THEN AbortAll(entries) ELSE entries

\* Mutant: an agent error keeps its own name, which no policy knows.
Mapped_RawError(entry) ==
    IF entry.result = "aborted" /\ entry.cause = "timer" THEN "timeout" ELSE entry.result

\* mapSettlement, with the abort-source discrimination.
Mapped(entry) ==
    CASE entry.result = "error" -> "transient"
      [] entry.result = "aborted" /\ entry.cause = "timer" -> "timeout"
      [] OTHER -> entry.result

SettledId(x) == \E i \in DOMAIN flight : flight[i].id = x /\ flight[i].result # "pending"
PlaceOf(x) == CHOOSE i \in DOMAIN flight : flight[i].id = x
EntryOf(x) == flight[PlaceOf(x)]
Without(x) ==
    [i \in 1 .. Len(flight) - 1 |-> IF i < PlaceOf(x) THEN flight[i] ELSE flight[i + 1]]
FlightIds == [i \in DOMAIN flight |-> flight[i].id]

\* tryAcquireSlot takes the lowest free index.
FreeSlots == Slot \ slots
LowestSlot == CHOOSE s \in FreeSlots : \A r \in FreeSlots : s <= r
\* Mutant: the key is refused only to the task that already holds it.
KeyTaken_SameTask(t) ==
    /\ KeyOf[t] # NoKey /\ holder[KeyOf[t]] # NoAttempt
    /\ holder[KeyOf[t]][1] = t

KeyTaken(t) == KeyOf[t] # NoKey /\ holder[KeyOf[t]] # NoAttempt

Acquire(x) ==
    /\ slots' = slots \cup {LowestSlot}
    /\ meta' = [y \in DOMAIN meta \cup {x} |-> IF y = x THEN LowestSlot ELSE meta[y]]
    /\ holder' = IF KeyOf[x[1]] = NoKey THEN holder ELSE [holder EXCEPT ![KeyOf[x[1]]] = x]

\* Mutant: the slot is forgotten, not returned.
Release_NoSlot(x) ==
    /\ slots' = slots
    /\ meta' = [y \in DOMAIN meta \ {x} |-> meta[y]]
    /\ holder' = [k \in Key |-> IF holder[k] = x THEN NoAttempt ELSE holder[k]]

\* Slot by index, key by holder, outside the transaction.
Release(x) ==
    /\ slots' = slots \ {meta[x]}
    /\ meta' = [y \in DOMAIN meta \ {x} |-> meta[y]]
    /\ holder' = [k \in Key |-> IF holder[k] = x THEN NoAttempt ELSE holder[k]]

-----------------------------------------------------------------------------
(* The steps of a pass *)

At(p, pc) == thread \in {p, "free"} /\ pass[p].pc = pc

\* A pass moves on; it keeps the thread, or yields it at an await.
Goto(p, pc) == pass' = [pass EXCEPT ![p].pc = pc]
Keep(p) == thread' = p
Yield == thread' = "free"

\* Where a pass awaits only the engine's own call, and so the moments a timer
\* callback or a tool call may come.
MicroPC == {"dispatched", "committing", "harvested", "conclude"}
Macrotask == thread = "free" /\ \A p \in Pass : pass[p].pc \notin MicroPC

Decided == {t \in Task : /\ appr[t] \in {"approved", "rejected"}
                         /\ task[t] = "blocked" /\ reason[t] = "approval_pending"}

\* buildQueue: the ready rows in task_id order, cut at the capacity.
QueueOf(state) ==
    LET ready == {t \in Task : state[t] = "ready"}
    IN  {t \in ready : Cardinality({u \in ready : IdRank[u] < IdRank[t]}) < QueueCapacity}

\* drain: priority first.  Equal ranks are left to the ready times.
Heads(queue) == {t \in queue : \A u \in queue : Priority[t] <= Priority[u]}

\* oneRound and autoTick skip a finished run and sweep under a stop intent.
\* A tick that waits for a child to settle may start its next round in the
\* microtasks of that settlement; the timer starts a macrotask.
StartPass(p) ==
    /\ pass[p].pc = "idle"
    /\ IF p \in TickPass THEN thread = "free" ELSE Macrotask
    /\ run \notin RunTerminal
    /\ flight' = Swept(flight, intent)
    /\ Goto(p, "approvals") /\ Keep(p)
    /\ UNCHANGED <<ledger, slots, holder, meta>>

PassReconcileApproval(p) ==
    /\ At(p, "approvals")
    /\ \E t \in Decided : ReconcileApproval(t)
    /\ Keep(p)
    /\ UNCHANGED <<pass, flight, slots, holder, meta>>

MaybePromote == PromoteReady \/ (NowReady \cup NowBlocked = {} /\ UNCHANGED ledger)

EnterDispatch(p) ==
    pass' = [pass EXCEPT ![p].pc = "dispatch", ![p].queue = QueueOf(task')]

EnterHarvest(p, wave) ==
    pass' = [pass EXCEPT ![p].pc = "harvest", ![p].wave = wave, ![p].snap = FlightIds]

\* Steps 2-4 of a round: promote, then dispatch if admission is open.
TickPromote(p) ==
    /\ p \in TickPass /\ At(p, "approvals") /\ Decided = {}
    /\ MaybePromote
    /\ IF ~AdmissionClosed /\ QueueOf(task') # {}
       THEN EnterDispatch(p) ELSE EnterHarvest(p, 1)
    /\ Keep(p)
    /\ UNCHANGED <<flight, slots, holder, meta>>

AutoHarvest(p) ==
    /\ p \in AutoPass /\ At(p, "approvals") /\ Decided = {}
    /\ EnterHarvest(p, 1)
    /\ Keep(p)
    /\ UNCHANGED <<ledger, flight, slots, holder, meta>>

\* One queue entry that is claimed.  An agent or a merge is then awaited, an
\* approval is resolved at once.
ClaimNext(p, t) ==
    LET x == <<t, Len(att[t]) + 1>>
        next == CASE Kind[t] = "agent" -> "starting"
                  [] Kind[t] = "merge" -> "merging"
                  [] Kind[t] = "approval" -> "parking"
    IN  /\ At(p, "dispatch") /\ t \in Heads(pass[p].queue)
        /\ FreeSlots # {} /\ ~KeyTaken(t)
        /\ Claim(t)
        /\ Acquire(x)
        /\ pass' = [pass EXCEPT ![p].pc = next, ![p].cur = x, ![p].queue = @ \ {t}]
        /\ IF Kind[t] = "approval" THEN Keep(p) ELSE Yield
        /\ UNCHANGED flight

\* One queue entry that is not: its key is held, or the claim is lost.
SkipNext(p, t) ==
    /\ At(p, "dispatch") /\ t \in Heads(pass[p].queue)
    /\ FreeSlots # {}
    /\ KeyTaken(t) \/ task[t] # "ready" \/ HasNonTerminalAttempt(t) \/ Len(att[t]) = MaxOrdinal
    /\ pass' = [pass EXCEPT ![p].queue = @ \ {t}]
    /\ Keep(p)
    /\ UNCHANGED <<ledger, flight, slots, holder, meta>>

\* The queue is done, or the slots are: the surplus stays ready.
EndDispatch(p) ==
    /\ At(p, "dispatch")
    /\ pass[p].queue = {} \/ FreeSlots = {}
    /\ pass' = [pass EXCEPT ![p].pc = "dispatched", ![p].queue = {}]
    /\ Yield
    /\ UNCHANGED <<ledger, flight, slots, holder, meta>>

\* Back from an attempt that is no longer this pass's to settle.
BackToDispatch(p) ==
    /\ pass' = [pass EXCEPT ![p].pc = "dispatch", ![p].cur = NoAttempt]
    /\ Keep(p)

\* executor.dispatch answers ok: the child is registered and recorded.  Its
\* timer has run since before start was awaited.
StartOk(p, cause) ==
    LET x == pass[p].cur
    IN  /\ At(p, "starting")
        /\ cause = "none" \/ x[1] \in TimedTask
        /\ RecordDispatch(x[1], x[2])
        /\ flight' = Append(flight, Entry(x, cause))
        /\ BackToDispatch(p)
        /\ UNCHANGED <<slots, holder, meta>>

\* Mutant: the refused dispatch returns without releasing.
StartFails_Leak(p, failure) ==
    LET x == pass[p].cur
    IN  /\ At(p, "starting")
        /\ Commit(x[1], x[2], failure)
        /\ BackToDispatch(p)
        /\ UNCHANGED <<flight, slots, holder, meta>>

StartFails(p, failure) ==
    LET x == pass[p].cur
    IN  /\ At(p, "starting")
        /\ Commit(x[1], x[2], failure)
        /\ Release(x)
        /\ BackToDispatch(p)
        /\ UNCHANGED flight

\* Mutant: polling a busy queue is billed to the policy's budget.
MergeEnds_Billed(p, result) ==
    LET x == pass[p].cur
    IN  /\ At(p, "merging")
        /\ CASE result = "conflicted" -> Park(x[1], x[2], "merge_conflicted")
             [] result = "queued"     -> CommitRetry(x[1], x[2], TRUE)
             [] result = "threw"      -> CommitTerminal(x[1], x[2], "failed")
             [] OTHER                 -> Commit(x[1], x[2], result)
        /\ Release(x)
        /\ BackToDispatch(p)
        /\ UNCHANGED flight

\* runMergeTask's outcome.  A busy queue is polled again outside the budget; a
\* queue that throws fails the task with no policy asked.
MergeEnds(p, result) ==
    LET x == pass[p].cur
    IN  /\ At(p, "merging")
        /\ CASE result = "conflicted" -> Park(x[1], x[2], "merge_conflicted")
             [] result = "queued"     -> CommitRetry(x[1], x[2], FALSE)
             [] result = "threw"      -> CommitTerminal(x[1], x[2], "failed")
             [] OTHER                 -> Commit(x[1], x[2], result)
        /\ Release(x)
        /\ BackToDispatch(p)
        /\ UNCHANGED flight

\* parkOrResolveApproval: two transactions when there is no decision yet.
AskApproval(p) ==
    /\ At(p, "parking")
    /\ RequestApproval(pass[p].cur[1])
    /\ Keep(p)
    /\ UNCHANGED <<pass, flight, slots, holder, meta>>

ResolveApproval(p) ==
    LET x == pass[p].cur
    IN  /\ At(p, "parking")
        /\ CASE appr[x[1]] = "pending"  -> Park(x[1], x[2], "approval_pending")
             [] appr[x[1]] = "approved" -> CommitTerminal(x[1], x[2], "succeeded")
             [] appr[x[1]] = "rejected" -> CommitTerminal(x[1], x[2], "failed")
             [] OTHER                   -> FALSE
        /\ Release(x)
        /\ BackToDispatch(p)
        /\ UNCHANGED flight

\* harvestSettled takes its snapshot of the map when it is called.
BeginHarvest(p) ==
    /\ At(p, "dispatched")
    /\ EnterHarvest(p, pass[p].wave)
    /\ Keep(p)
    /\ UNCHANGED <<ledger, flight, slots, holder, meta>>

\* Mutant: the entry stays in the map until after the await.
HarvestNext_KeepEntry(p) ==
    LET settled == {i \in DOMAIN pass[p].snap : SettledId(pass[p].snap[i])}
        i == CHOOSE j \in settled : \A k \in settled : j <= k
        x == pass[p].snap[i]
    IN  /\ At(p, "harvest") /\ settled # {}
        /\ pass' = [pass EXCEPT ![p].pc = "committing", ![p].cur = x,
                                ![p].result = Mapped(EntryOf(x)),
                                ![p].snap = SubSeq(@, i + 1, Len(@))]
        /\ Yield
        /\ UNCHANGED <<ledger, flight, slots, holder, meta>>

\* The next settled attempt of the snapshot that is still in the map: its
\* entry goes before the await, its commit comes after it.
HarvestNext(p) ==
    LET settled == {i \in DOMAIN pass[p].snap : SettledId(pass[p].snap[i])}
        i == CHOOSE j \in settled : \A k \in settled : j <= k
        x == pass[p].snap[i]
    IN  /\ At(p, "harvest") /\ settled # {}
        /\ pass' = [pass EXCEPT ![p].pc = "committing", ![p].cur = x,
                                ![p].result = Mapped(EntryOf(x)),
                                ![p].snap = SubSeq(@, i + 1, Len(@))]
        /\ flight' = Without(x)
        /\ Yield
        /\ UNCHANGED <<ledger, slots, holder, meta>>

\* A commit that lost its attempt writes nothing; the resources go either way.
HarvestCommit(p) ==
    LET x == pass[p].cur
    IN  /\ At(p, "committing")
        /\ IF Live(x[1], x[2]) THEN Commit(x[1], x[2], pass[p].result) ELSE UNCHANGED ledger
        /\ Release(x)
        /\ pass' = [pass EXCEPT ![p].pc = "harvest", ![p].cur = NoAttempt, ![p].result = "none"]
        /\ Keep(p)
        /\ UNCHANGED flight

EndHarvest(p) ==
    /\ At(p, "harvest")
    /\ \A i \in DOMAIN pass[p].snap : ~SettledId(pass[p].snap[i])
    /\ pass' = [pass EXCEPT ![p].snap = <<>>,
                            ![p].pc = IF pass[p].wave = 1 THEN "harvested" ELSE "conclude"]
    /\ Yield
    /\ UNCHANGED <<ledger, flight, slots, holder, meta>>

\* Step 6b: promote what the harvest released; a tick then dispatches a second
\* wave if that promoted anything.
PromoteAgain(p) ==
    /\ At(p, "harvested")
    /\ MaybePromote
    /\ IF /\ p \in TickPass /\ NowReady \cup NowBlocked # {} /\ ~AdmissionClosed
          /\ QueueOf(task') # {} /\ run \notin RunTerminal
       THEN pass' = [pass EXCEPT ![p].pc = "dispatch", ![p].queue = QueueOf(task'), ![p].wave = 2]
       ELSE Goto(p, "conclude")
    /\ Keep(p)
    /\ UNCHANGED <<flight, slots, holder, meta>>

\* Step 7, one transaction per failed task.
PassPropagate(p) ==
    /\ At(p, "conclude")
    /\ \E f \in Task : Propagate(f)
    /\ Keep(p)
    /\ UNCHANGED <<pass, flight, slots, holder, meta>>

\* Mutant: no closing sweep.
Conclude_NoSweep(p) ==
    /\ At(p, "conclude")
    /\ \A f \in Task : ~(task[f] = "failed" /\ f \in BlockDownstream /\ Downstream(f) # {})
    /\ Finalize \/ DrainToPaused \/ (FinalState = "none" /\ ~CanDrain /\ UNCHANGED ledger)
    /\ pass' = [pass EXCEPT ![p] = IdlePass]
    /\ Yield
    /\ UNCHANGED <<flight, slots, holder, meta>>

\* Mutant: the round does not look whether a pause has drained.
Conclude_NoDrain(p) ==
    /\ At(p, "conclude")
    /\ \A f \in Task : ~(task[f] = "failed" /\ f \in BlockDownstream /\ Downstream(f) # {})
    /\ Finalize \/ (FinalState = "none" /\ UNCHANGED ledger)
    /\ flight' = IF p \in TickPass THEN Swept(flight, intent) ELSE flight
    /\ pass' = [pass EXCEPT ![p] = IdlePass]
    /\ Yield
    /\ UNCHANGED <<slots, holder, meta>>

\* Steps 8 and 9, and a round's closing sweep.
Conclude(p) ==
    /\ At(p, "conclude")
    /\ \A f \in Task : ~(task[f] = "failed" /\ f \in BlockDownstream /\ Downstream(f) # {})
    /\ Finalize \/ DrainToPaused \/ (FinalState = "none" /\ ~CanDrain /\ UNCHANGED ledger)
    /\ flight' = IF p \in TickPass THEN Swept(flight, intent) ELSE flight
    /\ pass' = [pass EXCEPT ![p] = IdlePass]
    /\ Yield
    /\ UNCHANGED <<slots, holder, meta>>

PassStep(p) ==
    \/ PassReconcileApproval(p)
    \/ TickPromote(p)
    \/ AutoHarvest(p)
    \/ \E t \in Task : ClaimNext(p, t) \/ SkipNext(p, t)
    \/ EndDispatch(p)
    \/ \E cause \in {"none", "timer"} : StartOk(p, cause)
    \/ \E failure \in StartFailures : StartFails(p, failure)
    \/ \E result \in MergeResults : MergeEnds(p, result)
    \/ AskApproval(p)
    \/ ResolveApproval(p)
    \/ BeginHarvest(p)
    \/ HarvestNext(p)
    \/ HarvestCommit(p)
    \/ EndHarvest(p)
    \/ PromoteAgain(p)
    \/ PassPropagate(p)
    \/ Conclude(p)

-----------------------------------------------------------------------------
(* Children, timers, tools, crashes *)

\* The child's result becomes visible to harvestSettled's probe.
ChildSettles(i) ==
    /\ thread = "free" /\ flight[i].result = "pending"
    /\ \E r \in ChildResults \cup (IF flight[i].cause = "none" THEN {} ELSE {"aborted"}) :
          flight' = [flight EXCEPT ![i].result = r]
    /\ UNCHANGED <<ledger, thread, pass, slots, holder, meta>>

TimerFires(i) ==
    /\ Macrotask /\ flight[i].id[1] \in TimedTask
    /\ flight[i].result = "pending" /\ flight[i].cause = "none"
    /\ flight' = [flight EXCEPT ![i].cause = "timer"]
    /\ UNCHANGED <<ledger, thread, pass, slots, holder, meta>>

TimePasses(t) == BackoffElapses(t) /\ UNCHANGED memory

ControlStop == "stop" \in Controls /\ Stop /\ flight' = AbortAll(flight)

ControlOther ==
    /\ \/ "pause" \in Controls /\ Pause
       \/ "resume" \in Controls /\ Resume
       \/ \E t \in Task :
            \/ "retry_task" \in Controls /\ RetryTask(t)
            \/ "cancel_task" \in Controls /\ CancelTask(t)
    /\ UNCHANGED flight

Control ==
    /\ Macrotask
    /\ ControlStop \/ ControlOther
    /\ UNCHANGED <<thread, pass, slots, holder, meta>>

\* dag_approve.
Approve ==
    /\ Macrotask
    /\ \E t \in Task : \E d \in Decisions : Decide(t, d)
    /\ UNCHANGED memory

\* Everything in memory is gone; what a transaction committed is not.
Crash ==
    /\ Crashes /\ thread # "boot"
    /\ thread' = "boot"
    /\ pass' = [p \in Pass |-> IdlePass]
    /\ flight' = <<>> /\ slots' = {} /\ meta' = <<>>
    /\ holder' = [k \in Key |-> NoAttempt]
    /\ UNCHANGED ledger

\* reconcile, before any tool is registered: attempts of unfinished runs only.
BootReconcile ==
    /\ thread = "boot" /\ run \notin RunTerminal
    /\ RecoveryTx
    /\ UNCHANGED memory

BootDone ==
    /\ thread = "boot"
    /\ run \in RunTerminal \/ \A t \in Task : ~HasNonTerminalAttempt(t)
    /\ thread' = "free"
    /\ UNCHANGED <<ledger, pass, flight, slots, holder, meta>>

EngineNext ==
    \/ \E p \in Pass : StartPass(p) \/ PassStep(p)
    \/ \E i \in DOMAIN flight : ChildSettles(i) \/ TimerFires(i)
    \/ \E t \in Task : TimePasses(t)
    \/ Control
    \/ Approve
    \/ Crash
    \/ BootReconcile
    \/ BootDone

EngineSpec == EngineInit /\ [][EngineNext]_vars

\* The event loop is a FIFO: whatever is ready again and again at the moments
\* the thread is free gets its turn.  A tick is called again while the run is
\* unfinished, as dag_tick's hint says; every child ends, since each has a
\* timeout; a human decides every approval.
Fairness ==
    /\ \A p \in Pass : SF_vars(StartPass(p)) /\ SF_vars(PassStep(p))
    /\ SF_vars(\E i \in DOMAIN flight : ChildSettles(i))
    /\ \A t \in Task : WF_vars(TimePasses(t))
    /\ SF_vars(Approve)
    /\ WF_vars(BootReconcile) /\ WF_vars(BootDone)

FairSpec == EngineSpec /\ Fairness

-----------------------------------------------------------------------------
(* Properties *)

PassLocals == [pc: PC, wave: {1, 2}, queue: SUBSET Task, cur: Attempt \cup {NoAttempt},
               snap: Seq(Attempt), result: FailureType \cup {"completed", "aborted", "none"}]

FlightEntry == [id: Attempt, cause: {"none", "timer", "control"},
                result: {"pending", "completed", "error", "permanent", "internal", "aborted"}]

EngineTypeOK ==
    /\ TypeOK
    /\ thread \in Pass \cup {"free", "boot"}
    /\ pass \in [Pass -> PassLocals]
    /\ flight \in Seq(FlightEntry)
    /\ slots \subseteq Slot
    /\ holder \in [Key -> Attempt \cup {NoAttempt}]
    /\ meta \in [DOMAIN meta -> Slot] /\ DOMAIN meta \subseteq Attempt

InHand == {"starting", "merging", "parking", "committing"}
Owners(x) ==
    {p \in Pass : pass[p].pc \in InHand /\ pass[p].cur = x}
    \cup {i \in DOMAIN flight : flight[i].id = x}

\* Every live attempt has exactly one owner in memory, an in-flight entry or a
\* pass that is to settle it, and nothing else is owned: whatever two
\* overlapping passes, timers and tools interleave, no attempt is leaked, none
\* is settled twice, and no commit is lost.
OneOwner ==
    thread # "boot" =>
        \A t \in Task : \A n \in 1 .. MaxOrdinal :
            Cardinality(Owners(<<t, n>>)) = IF Live(t, n) THEN 1 ELSE 0

\* The slots held are those of the live attempts, one each: none leaks at an
\* early exit of the dispatch loop, and releasing by index never frees a slot
\* that another attempt was given.
SlotsAccounted ==
    thread # "boot" =>
        /\ DOMAIN meta = {x \in Attempt : Live(x[1], x[2])}
        /\ slots = {meta[x] : x \in DOMAIN meta}
        /\ \A x, y \in DOMAIN meta : meta[x] = meta[y] => x = y

\* A session key is held by the live attempt that declares it, and by no other.
KeyIsExclusive ==
    thread # "boot" =>
        \A x \in Attempt : KeyOf[x[1]] # NoKey =>
            (Live(x[1], x[2]) <=> holder[KeyOf[x[1]]] = x)

\* A paused or finished run has no attempt left alive, though a pass may have
\* been suspended in its dispatch loop when the pause or the verdict came.
DrainedRunIsIdle ==
    run \in RunTerminal \cup {"paused"} => \A t \in Task : ~HasNonTerminalAttempt(t)

\* Once a stop has landed and no pass is under way, every child still running
\* has been told to stop: none that registered late escaped the sweeps.
NoStragglerOutlivesStop ==
    /\ intent = "stop" /\ thread = "free"
    /\ \A p \in Pass : pass[p].pc = "idle"
    => \A i \in DOMAIN flight : flight[i].result # "pending" \/ flight[i].cause # "none"

NewAttempt(t) == Len(att'[t]) > Len(att[t])

\* No attempt is born in a finished run: a pass that was suspended while
\* another one finished the run does not claim when it comes back.
ClaimsNeedALiveRun ==
    [][\A t \in Task : NewAttempt(t) => run \notin RunTerminal]_vars

\* A run is finalized as failed only if none of its blocked tasks could be let
\* through by a readiness check at that moment.
FinalizeOnlyDeadGraphs ==
    [][run # "failed" /\ run' = "failed" =>
        \A t \in Task : task[t] = "blocked" => t \notin NowReady]_vars

\* A task that keeps its run alive for want of an input can still get it: every
\* missing input has a producer that may yet be attempted again.
SoftBlockCanClear ==
    \A t \in Task : task[t] = "blocked" /\ reason[t] = "dag.output_missing" =>
        \A p \in Inputs[t] : out[p] = "absent" => task[p] \notin {"succeeded", "cancelled"}

\* The bound on the attempts of a task keeps a ready one from being claimed.
BoundReached == \E t \in Task : task[t] = "ready" /\ Len(att[t]) = MaxOrdinal

\* The run reaches a verdict, through the retries, the approvals, the shared
\* key and the queue that is cut short, unless the host crashes or somebody
\* pauses it again and again, or it is left paused.
RunFinishes ==
    \/ <>(run \in RunTerminal)
    \/ []<>(thread = "boot" \/ run \in {"pausing", "paused"} \/ BoundReached)

\* A pause drains, though a suspended dispatch loop may still claim after it and
\* attempts may fail, retry or ask for an approval: the run does not stay in
\* pausing while the host is up.
PauseDrains == run = "pausing" ~> run # "pausing" \/ thread = "boot"

\* A stop completes: the run does not stay in cancelling.
StopCompletes == run = "cancelling" ~> run = "cancelled"

=============================================================================
