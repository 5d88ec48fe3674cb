# A TLA+ model of dsh-dag-orchestrator

The plugin runs a DAG of tasks on behalf of an agent host. A *run* is planned from
a spec; *tasks* become ready, are claimed as *attempts*, and an attempt is a child
agent, an approval by a human, or a merge of worktrees. Everything durable is in one
SQLite file and is written in transactions; everything else (children in flight,
slots, keys) is process memory. There is no scheduler thread: the state moves when
somebody calls `dag_tick`, when an optional timer fires, and when a tool writes.

This directory holds the specification of that machinery, its model-checking runs
and the proofs about it.

## The system

| component | source | state | operations |
|---|---|---|---|
| durable store | `lib/dag-store.js` | runs, tasks, attempts, events, approvals, outputs | compare-and-set writes inside `tx()` |
| readiness evaluator | `lib/ready-evaluator.js` | none | `evaluateReady`, `evaluateGate` |
| terminal commit | `lib/terminal-commit.js` | none | retry and terminal transaction, release |
| reconcile engine | `lib/engine.js` | attempt metadata | `oneRound`, `tick`, `autoTick`, `planRun`, `status`, `control` |
| executor | `lib/executor.js`, `lib/reflect.js` | in-flight map, timers | `dispatch`, `harvest`, `abort`, `dispose` |
| admission | `lib/admission.js` | slot pool per run, session keys | acquire and release |
| queue, critical path | `lib/bounded-queue.js`, `lib/critical-path.js` | per round | enqueue up to a capacity, drain by priority |
| merge executor | `lib/executors/merge.js` | none of its own (the worktree queue's) | `runMergeTask`, `parkMergeConflict` |
| crash recovery | `lib/recovery.js` | none | `reconcile` at boot |
| tools | `lib/tools/*.js` | none | `dag_plan`, `dag_tick`, `dag_status`, `dag_control`, `dag_approve` |
| plugin | `lib/index.js` | timer | boot order, teardown |
| verify gate, validator, cwd gate, seam, face, UI, config | | none | pure checks, probes, views |

How they interact. A tick pass reconciles approvals, promotes tasks, checks that
admission is open, drains a queue through *claim, start, record*, harvests children
that have settled, promotes and dispatches once more, propagates failures, tries to
finalize the run and to drain a pause. The timer's pass does the same without
dispatching. The control tools write the run and task rows at once and, for a stop,
abort the children in flight. After a crash, `reconcile` settles what was alive
before any tool is registered.

What is hard. (1) JavaScript interleaves at every `await`: two passes and the tools
meet in the middle of a dispatch loop or a harvest, each with a queue, a snapshot or
a child result read earlier. (2) A child registers only after its start has
resolved, so a stop can miss it. (3) Slots are released by index, without an owner.
(4) The host can die between two transactions. (5) Verdicts about the whole graph
(finalize, drain) are taken from states that the same round has just made stale.
(6) The retry budget is read back from events of several kinds. The list with lines is under
`hazards` in `PROJECT.json`.

What makes each part correct. Store: no running task without exactly one live
attempt; verdicts are final; outputs belong to successes; an event and its projection
are written together, and a chain that verifies is the history. Evaluator: what justified a
start keeps holding. Engine: every live attempt has one owner; nothing is claimed
in a finished run; pauses drain, stops complete, runs finish; only a dead graph is
finalized failed; a tool call returns within its budgets. Executor: every child is told
to stop; no two children share a checkout; a success carries its receipt. Merge executor:
success means integrated. Admission: slots and keys are those of the live attempts.
Recovery: any crash point leads back to a state with these properties, and nothing is
derived from a broken log. Validator: an accepted graph is acyclic and its inputs are
upstream.

## Modules

```
ReadyEvaluator      verdict of one task, gates, edges             (constants only)
   DagLedger        the rows and every transaction on them        EXTENDS ReadyEvaluator
      ChainRecovery boots, orphans, the broken event chain        EXTENDS DagLedger
      DagEngine     passes, executor, admission, tools, crash     EXTENDS DagLedger
DagPromise          what a plan is promised                       INSTANCEd by DagLedger
EventChain          tx(), the hash chain, verifyChain
TickLoop            one dag_tick call: rounds, waits, budgets
MergeQueue          merges over the worktree queue
AgentDispatch       agent executor, worktrees, timer, verify gate
SpecGraph           cycle search, upstream closure, depth

DagLedgerProofs ChainRecoveryProofs DagEngineProofs EventChainProofs
TickLoopProofs MergeQueueProofs AgentDispatchProofs
SpecGraphProofs                                                   theorems
MCDagLedger MCDagEngine MCEventChain MCTickLoop
MCMergeQueue MCAgentDispatch MCSpecGraph                          instances for TLC
```

**ReadyEvaluator.** `Verdict(t, st, out)` is `evaluateReady` for one task over a
snapshot. Edges are evaluated in spec order, a block beats a wait, and inputs are
looked at last. An output is one of four classes, because that is all a gate can
tell of it.

**DagLedger.** One variable per column that anything decides on: `run` and `intent`
(runs), `task`, `reason` and `due` (tasks; `due` says that `retry_not_before` has
passed), `att` (attempts by ordinal), `appr` (approvals), `out` (outputs), and `billed`,
the number of `attempt.retry_scheduled` events that `shouldRetry` counts.
One action per `store.tx()`, whose guard is only what that transaction re-reads. The
`LedgerSpec` lets any transaction come at any moment, so its properties rest on those
checks alone. The exception is `Park`: the code checks the attempt and the task apart,
and a caller without a live attempt would park the task of another one. There the
specification asks that the caller own a live attempt, and `DagEngine` shows that it does.
Row versions are not kept: each compare-and-set re-reads its row inside
its transaction. The attempt state `running` is split into `claimed` (no child session)
and `dispatched`, which is the distinction recovery makes. An approval that is already
rejected when it is claimed, and a merge whose executor throws, fail their task in one
transaction that asks no retry policy (`AttemptTx`).

**DagPromise** is the abstract specification: a task waits, starts when its edges, gates
and inputs allow, and ends; a verdict is given once, except that a failed run may be
re-opened. It is stated without the evaluator's verdicts or the ledger's states.
`DagLedger!PromiseKept` is the refinement, with `StatusOf` as the mapping.

**ChainRecovery** puts the ledger's transactions under a process that crashes and boots
again: `VerifyChain` parks an unfinished run whose chain is broken, `Classify` settles the
orphans of the others, one transaction each, and tools and passes write only when the boot
is done. The process settles only attempts it claimed itself.

**DagEngine.** Memory: `flight` (the executor's map), `slots`, `holder` (session
keys), `meta` (the engine's attempt metadata), and for every overlapping call a
record of its locals. `thread` says whose synchronous section is running: a step
`Keep`s the thread up to the next `await` and `Yield`s it there. The engine's own
async calls resolve in microtasks, so at those awaits only other passes and promises of the
subagent runtime run (`MicroPC`); tool calls and timers need a macrotask. A crash may come
between any two steps. Some details that are folded together:

- `start`'s return, the registration and the `attempt.dispatched` transaction are
  one synchronous section, hence one step (`StartOk`).
- `reflect`'s first probe of a promise only registers it; `ChildSettles` is the moment
  at which the probe would answer "settled".
- A completed child that the verify gate or the output schema refuses is a
  "permanent" result (`AgentDispatch` has the gate).
- A merge is one await with its outcome (`MergeQueue` has the calls).
- Its boot never finds a broken chain (`ChainRecovery` has that).
- `ResolveApproval` has the code's branch for an already approved task; no behaviour of the
  program reaches it, as an approved task is settled by `ReconcileApproval`.

**EventChain.** One run's log with `BEGIN IMMEDIATE`, one projection change and one event in
either order, a throw at any point, and `verifyChain`. A hash is a free term: equal exactly
when predecessor, sequence number and body are. Something outside the store overwrites,
deletes or renumbers rows while nothing runs; it recomputes no hash. New events are chained
on top of whatever was left.

**TickLoop.** `tick()` around its rounds. What a round commits is the engine's subject; here
a round promotes, starts, harvests, and the state is the loop's: `rounds`, `budget`, `streak`,
what `boundedRace` was called with, the records of `reflect.js`. Children settle at any moment
or never. Timers may fire early or late as `Date.now` sees it, by `Jitter`. With `pump`, the
timer's pass works beside the call.

**MergeQueue.** `runMergeTask` from claim to commit, suspended at each `enqueue` and `drain`.
The queue is another plugin's; its contract, as `merge.js` relies on it, is external:
enqueue returns the active job of the same source and branch, drain works on every job of
the repository and branch and stops at the first that fails or conflicts. A crash takes the
executor and leaves the queue; recovery re-runs the task because a merge never
records a child session. A human resolves conflicts and retries. All merges retry on
`transient_network`. A drain that throws or answers nonsense counts as failed, however far it came; a
verify gate may miss whatever was integrated, and must miss when nothing was. The answer of an upstream
without a worktree is left out.

**AgentDispatch.** `dispatch()` with its awaits (`findActiveByTask`, `create`, `start`), the
record of the dispatch, timer, abort, harvest, verify gate and commit, over the worktree
service, which refuses an occupied slug and may collect an idle worktree at any time.
`Services` lists what may be deployed: older services cannot find a worktree by task or do
not keep the correlation id. All tasks share the interleaving, whether they are of
one run or several. `waiting` stands for pending, ready, queued and retry_wait, and
whether a failure is retried is open, so what holds here holds for every policy. A task of a stopped run may
still be claimed: what an overlapping pass may do after a stop is `DagEngine`'s business. Registration and record
are one turn of the event loop, so only a crash separates them. The plugin's teardown ends
every child, as a crash does. The containment test of the cwd gate is a refusal.

**SpecGraph.** `detectCycle` with its explicit colours and stack, `upstreamClosure`, and
`criticalPathDepth`, one step per visit: the loop over `order` visits every task once. The arrays are walked
in any order. The document has one input, chosen freely: its reader, its producer, and whether that declares
what it names; fields, kinds and the hash have no state and are left out.

## Runs

| run | question | bounds |
|---|---|---|
| `ledger` | do the checks inside the transactions suffice, across restarts with a log that may be broken? | agent, gated merge, approval behind a completed-edge; 2 attempts per task; any number of crashes |
| `engine_overlap` | does anything get lost when passes, tools and crashes interleave? | two agents, two ticks, 2 slots, all controls, a timer, a refused start |
| `engine_ledger` | does the engine implement the ledger? | agent, merge, approval; a tick and the timer; all controls, decisions, merge outcomes, crash |
| `engine_live` | does a pause drain and a run finish? | four tasks, an approval, a queue of one, a shared key, pause and resume, crash |
| `tick_loop` | when does a call return, and what does it leave? | five tasks (one, then three side by side, then one), 2 slots, 6 rounds, budget 3, jitter 1, timer on and off |
| `merge_queue` | what does a successful merge mean? | two merges on one branch, three worktrees in two repositories, two mishaps, 3 attempts, one crash |
| `event_chain` | what does a log that verifies say? | three events, three outside writes |
| `agent_dispatch` | where does an agent work, and what is merged? | two tasks with one slug, 2 + 1 attempts, one crash, oldest and newest service |
| `spec_graph` | what do the graph rules accept and report? | every dependency relation on three tasks, self and dangling ones included |
| `stop_wedges`, `finalize_early`, `soft_block_hangs` | three places where the program departs from its comments | see below |

What each shows.

- `ledger`: the type invariant; a task runs exactly while its last attempt is live; a started
  task was let through, and what let it through still holds; outputs are of successes;
  the intent agrees with the run; the policy's retries stay in budget; a park can be
  found by its approval; an orphan is settled by the next boot; verdicts are final;
  `DagPromise` is implemented; the boot that finds a broken chain changes nothing of the run
  but the run row.
- `engine_overlap`: the types; each live attempt has one owner in memory, slots are those of live
  attempts, a drained run is idle, no child survives a stop untold, nothing is claimed in a
  finished run.
- `engine_ledger`: every step is a transaction of `LedgerSpec` or a stutter, hence all that is
  proved of the ledger holds of the engine's runs, the promise included.
- `engine_live`: a key has one holder; a pause drains; the run reaches a verdict.
- `tick_loop`: the call blocks for at most `SettleMs` plus one timer's lateness in all its waits
  together, harvests what settled while it waited if a round is
  left, leaves with nothing in flight only when the run is over or its rounds are used up and a task is
  ready (timer off), and returns.
- `merge_queue`: success means that all sources are on the branch and no job of theirs is left; a
  conflict anywhere ends in a park, never in a policy retry; re-polls of a busy queue
  never exhaust the budget.
- `event_chain`: log and projections agree outside a transaction; each row
  that verifies is a committed event, chained to its predecessor.
- `agent_dispatch`: no two children in one checkout; no attempt is locked out by its own task's
  worktree where the service can prove ownership; the event names the worktree the accepted
  work was done in; no success without its own receipt; no child keeps a task running for ever.
- `spec_graph`: accepted means acyclic; the reported path is a cycle; an input is refused exactly
  when its producer is not upstream; the depth is the longest chain; the searches end.

The type invariants of the ledger and of the engine are checked by these runs; those of `TickLoop`, `AgentDispatch`,
`MergeQueue` and `SpecGraph` are proved, as parts of the invariants below.

Why the bounds are enough for what is asked: a lost or doubled ownership needs two
passes and one attempt; reuse of a slot or key needs a second task; a retry needs a second
attempt, and `MaxOrdinal` 2 gives every task one more. `retry_task`, recovery and merge polls
retry without a budget, so the bound on ordinals also cuts those loops: in
`Claim` it leaves the task ready, as a full pool would; `RunFinishes` names that state as an
exception, with a crash and a pause, none of which the run can be expected to outlive. A merge
interferes with another through a shared branch and repository, which two merges have; three attempts leave room
for a billed retry, an unbilled one and a success. Cutting a log short and appending to
it needs two rows, renumbering three. A dispatch race over a slug needs two tasks; reuse, loss
and collection of a worktree need one more attempt than that. Three nodes give cycles of
length two and three, a cross edge, a diamond's longest chain and an unreachable part.

What the bounds do not reach in TLC: three overlapping passes, longer cycles, deeper graphs; the proofs below
have no bounds. Several runs in one process are in neither. `ledger`
runs on `ChainSpec`, whose steps on the ledger are a subset of `LedgerSpec`'s. Deadlock is checked in `ledger` only: elsewhere a finished run, call, merge or search
with nothing left to do really stops.

Fairness, used by `engine_live`, `tick_loop`, `merge_queue`, `agent_dispatch`, `spec_graph`
and `stop_wedges`:

- a pass that can continue again and again does (the event loop is a FIFO); strong fairness
  is used where another pass may hold the thread for a moment, which disables the step;
- `dag_tick` is called again while the run is unfinished (its result says so), and the timer
  fires again;
- every child of `DagEngine` ends, and every aborted child of `AgentDispatch` (each has a timeout, and an
  abort ends a child; `AttemptsEnd` does not assume that a child ends by itself). In
  `TickLoop` a child may hang for ever; there only the call's own steps and its timers are fair;
- back-offs elapse, a human decides every approval, resolves every conflict and retries the
  merge parked on it.

## What the checks found

- `stop_wedges` (`engine.js:1101`): a stop leaves running tasks to their harvest. A child that had
  already failed in a retryable way goes to `retry_wait`; nothing takes it from there
  and the run stays in `cancelling`.
- `finalize_early` (`engine.js:1405`): after `retry_task` of a failed agent, the merge behind it runs in the
  round's second wave, and the task behind the merge is still
  `blocked(upstream_blocked)` when `finalizeRunIfDone` takes its verdict.
- `soft_block_hangs` (`engine.js:1204`): a consumer with a completed-edge and an input waits for the output of
  a cancelled producer; the soft block keeps the run from ever being finalized.

Smaller disagreements between code and comments, met while modelling and kept in the models as
the code has them; no run is spent on them:

- `engine.js:716`: the admission gate is read before a dispatch loop and not again after its
  awaits, so a pause (`tools/dag-control.js:42`) does not keep a suspended loop from claiming the rest of its
  queue, and one of two overlapping ticks may claim after a stop. The run drains (`PauseDrains`),
  and the closing sweep aborts the late child (`NoStragglerOutlivesStop`).
- `engine.js:135`: `boundedRace` waits until all of the children have settled, not any, as its comment
  at line 112 says.
- `engine.js:1563`: with the timer on, "quiescent" can be returned while the timer's pass has just
  made work ready; hence the exception in `QuiescentMeansIdle`.
- `engine.js:1516`: "quiescent — nothing runnable right now" can be answered while a task is ready and has a
  free slot: the last round promotes more tasks than there are slots, its second wave harvests all it
  started, and the call ends there. The next call goes on with it; the second exception in
  `QuiescentMeansIdle`.
- `recovery.js:112`: a merge cut short is logged as "nothing ever ran", though its queue calls did.
- `merge.js:439`: a merge with a verify block fails its gate when another merge's drain has integrated
  its sources first, for its own answer is then `no_changes`.
- `dag-store.js:729`: `verifyChain` does not notice that the newest events were deleted.
- `engine.js:2113`: `retry_task` revives a run that was parked for a broken chain, which then executes on
  top of it (`SECURITY.md:75` says otherwise) until the next boot parks it again (`BrokenIsQuarantined`).
- `spec-validate.js:398`: `upstreamClosure` says that a task is never in its own closure; on a cyclic graph,
  which is refused anyway, it is.
- `spec-validate.js:722`: a merge whose only source is another merge with a worktree is
  accepted at planning, though a merge never records a worktree to integrate.

## What is proved

All theorems hold for every value of the constants, under the `ASSUME`s of the modules. Those give the types of
the constants and what the validator guarantees of a spec: `MaxAttempts` is positive, a merge has a source, a spec has
finitely many tasks, and in `TickLoop` its graph is acyclic, which is `AcceptedSpecIsAcyclic` of `SpecGraphProofs`. Every
invariant, action property and refinement that a passing run checks is a theorem.

**DagLedgerProofs** proves the ledger's properties:

1. `TypeCorrect`: the type invariant is inductive on its own.
2. `OneLiveAttempt`: a task runs exactly while its last attempt is live. With the types
   this is the inductive invariant `IInv`. The lemma `AttemptEnds` is its heart:
   the attempt being settled was the only live one, so the task must stop running in the
   same transaction.
3. `StepEffect` uses `IInv` to say what a step may do to a task: a succeeded task and
   its output stay, because a late commit would need a live attempt and the task would be
   running. From it follow `OutputsAreOfSuccess`, `VerdictsAreFinal`, and
   `StartsAreJustified`: only a "ready" verdict starts a task, that verdict means that its
   succeeded-edges, gates and inputs hold (`ReadyIsJustified`), and these can never be
   withdrawn (`JustifiedStays`).
4. `IntentIsTrue`, `BudgetHolds` and `ParksAreFindable` are inductive given the types.
5. `LedgerKeepsPromise`: the ledger implements `DagPromise`; each transaction
   is a start, an end, a verdict, a re-opening or a stutter under the mapping.

**DagEngineProofs** proves the engine for any graph, any number of overlapping ticks and timers, and any limits. The
ledger's theorems cannot be assumed of it at first: that the engine implements the ledger rests on the very properties
of memory that rest on the rows being right. So one invariant, `EngineInv`, carries both and the argument goes round once:

1. `Ownership`: a live attempt is in one pair of hands, a pass that is to settle it (`Hand`) or an in-flight entry, and
   what is in hand is live. Hence what a pass settles or parks is live, and every step of the engine is one ledger
   transaction or none (`EngineIsLedgerStep`); `Park`, whose code checks too little, is the case that needs it.
2. So the ledger's inductive facts hold after the step: a task runs exactly while its last attempt is live, the intent
   agrees with the run. A paused or finished run has nothing live (`DrainedRunIsIdle`, itself inductive in this company).
3. `ThreadDiscipline` and `AdmissionIsOpen`: a pass in its dispatch loop has the thread, and the run it is in has no verdict
   and is not paused. `AdmissionIsOpen` survives other passes because they cannot move while this one has the thread, and
   survives its own awaits because of 2: a run with an attempt in hand neither drains nor ends. That makes a claim legal.
4. A claim takes a free slot and a free key and records both; every release is by the attempt's own owner. So `SlotsAccounted`
   and `KeyIsExclusive` are preserved, and releasing by index is harmless.
5. `SweepIsDue`: after a stop, a child nobody told is left to a tick that has not ended yet, whose last step sweeps.

From it follow `EngineTypeCorrect`, `OwnersAreUnique` (the owners are counted, by `FiniteSetTheorems`), `SlotsAreAccounted`,
`KeysAreExclusive`, `RestIsKept`, `StopReachesEveryChild`, `NoClaimAfterTheEnd`, `EngineImplementsLedger` and, with the
ledger's theorems, `EngineKeepsPromise`. The first attempt at the refinement showed that the ledger lacked the
one-transaction end of a rejected approval and of a merge that threw; the instance had not reached it because no
policy allowed that merge a second attempt.

**ChainRecoveryProofs**: `OrphansAreSettled`, `BrokenRunIsLeftAlone` and `RestartsKeepTheLedger`, by which all that is
proved of `LedgerSpec` holds of `ChainSpec`, the specification the `ledger` run checks. A pass gives a verdict only when
no task is running, and a running task is one with a live attempt; so a finished run has live attempts only if a boot
parked it. A boot ends when the run is finished or nothing is live; afterwards what is live and was not live before
(`LiveWasLive`) has been claimed by the process itself.

**EventChainProofs**: `TransactionsAreAtomic` (the open transaction's save and its insertion
account for every difference) and `VerifiedIsGenuine`. The invariant says that every hash in the table or
in the history was computed by an insertion; as hashes are free terms, a row whose hash matches
its contents is that insertion's.

**TickLoopProofs**: `RoundLimitHolds`, `CallBlocksNoLonger` (what is spent and what is left of the budget never
exceed `SettleMs`, but for the last wait's lateness), `WaitsAreHarvested` (after a wait the loop always turns).
`NothingIsAbandoned` is `QuiescentMeansIdle`. Its invariant `IdleInv` says what a round leaves: without
the timer, nothing is in flight at its end only if the run is finished, or it harvested a child while a ready task
had no slot, and then it counts as progress and another round follows. It needs that what is left of an acyclic graph has
a task to start (`SomeTaskIsFree`): a smallest set of tasks without one would be left with none by taking out a task
that nobody waits for. The property had been stated without its last-round exception, which the proof found to be
missing; the instance then had too few tasks for it.

**MergeQueueProofs**: `SuccessIsOnTheBranch` for any merges whatsoever, and `SuccessLeavesNoJob`
where no two merges take the same worktree to the same branch; if two do, which the program does
not forbid, the second's job may wait in the queue after the first has succeeded. The invariant follows a
source through an attempt: still to enqueue, or on the branch, or in a job
(`EnqueuedIsKnown`); after its repository's drain answered nothing worse than `no_changes`, on the branch
and without a job (`DrainedIsDone`). `ConflictsArePutAside` is the action property on conflicts: only
the merge's own settling step takes it out of `running`, and there a conflict comes before every other answer. `BusyIsNoFailure` is the safety half
of `MergesComplete`: where there has been nothing worse than a busy queue and crashes, no answer was a failure, no job is in
conflict, and no retry has been billed.

**AgentDispatchProofs**: `DispatchTypes`, `OneChildPerCheckout`, `OwnCheckoutIsReused`, `MergeSourceIsRight`,
`ReceiptOfTheSuccess`. In the invariant a task has at most one in-flight entry, and none while a
dispatch of it has not started its child; an entry is the last attempt of a running task and works in a
worktree that some attempt of the same task made; the attempt's row names that worktree from the turn on in
which the child was registered; and a succeeded attempt is the last one of a succeeded task. `NoTaskIsForgotten` is the safety half of
`AttemptsEnd`: a running task is being dispatched or has a child in flight, so the steps that its fairness is about exist.

**SpecGraphProofs**: `AcceptedSpecIsAcyclic`, `ReportedCycleIsReal`, `InputVerdict`. The invariant of the search: the stack
is a path of distinct unfinished tasks; the loop over `order` has passed none that is still white; what a grey task's loop has passed is finished or right above it; finished tasks
are closed downstream, and every nonempty set of them has a member that nothing in the set follows. So the graph
has no cycle when all are finished. For the closure: what is collected and pending lies in every set that is
closed upstream, and what is collected lacks nothing that is not pending. `RankIsLongestChain`:
the recursion is an induction over the steps of the model, not over data, so it can be proved: a memoized depth is that
of a chain and of none longer (`DepthInv`), as a chain from a task is the task and a chain from one that follows it.
`RankingNeverStalls` combines the two invariants into the safety half of `PlanningEnds`: a set of tasks without
depths has a last one, which can be computed.

Only model-checked: liveness (`PauseDrains`, `RunFinishes`, `CallReturns`, `MergesComplete`,
`AttemptsEnd`, `PlanningEnds`), which is out of the prover's reach, as is `ENABLED`; and the three properties that the
code violates, of which there is nothing to prove.

Each property has a mutant: an operator named after the definition it replaces
(`Stop_RunOnly` for `Stop`, and so on), under which the property fails. Mutants are marked as such
and are used by no specification.

## Not modelled

- The user interface, the read-only face and `dag_status`: projections without state of their own.
- Configuration and types: defaults; the limits are constants.
- The validator's rules on single fields, and the hash of the spec: what they guarantee is assumed
  where it is needed. `verify.expectOutput` is checked against nothing but itself at planning.
- Containment of paths (`cwd-gate.js`): a matter of the file system; its refusal is an input.
- Prompt assembly and tool filters: they decide only whether a dispatch fails.
- A store that throws (a full disk): after `engine.js:1102` the attempt would have no owner until the
  next restart. Row versions and timestamps.
- Several runs sharing session keys and the timer's loop in `DagEngine`.

## Plan

Done: all modules above, 12 runs, and the theorems. Left, in order:

1. A faulty store in `DagEngine`: commits that throw after the in-flight entry is gone.
2. The safety halves of `PauseDrains` and `CallReturns`: that a pausing run always has a pass or an entry that will drain
   it, and a measure that the steps of a call decrease.
3. Two runs over one admission pool, with plugin teardown beside a running pass.
4. What a decision, an approval's retry and a cancelled park should leave in the approvals table
   (`engine.js:2107`), once the intended behaviour is documented.
