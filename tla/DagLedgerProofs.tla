--------------------------- MODULE DagLedgerProofs ---------------------------
(***************************************************************************)
(* Proofs about DagLedger for every graph, policy and bound.                *)
(*                                                                          *)
(* The order is that of dependence: type correctness stands alone; that a   *)
(* running task is the owner of its one live attempt needs the types; and   *)
(* everything said of a task that has ended needs both, because it is the   *)
(* live attempt that keeps a late commit from rewriting it.                 *)
(***************************************************************************)
EXTENDS DagLedger, WellFoundedInduction, TLAPS

-----------------------------------------------------------------------------
(* Facts about the operators *)

\* Rewriting one element of a sequence leaves its length and the others.
LEMMA RewriteOne ==
    ASSUME NEW S, NEW s \in Seq(S), NEW n \in DOMAIN s, NEW v \in S
    PROVE  /\ [s EXCEPT ![n] = v] \in Seq(S)
           /\ Len([s EXCEPT ![n] = v]) = Len(s)
           /\ DOMAIN [s EXCEPT ![n] = v] = DOMAIN s
OBVIOUS

\* What UpdateTasks writes is of the right type if its arguments are.
LEMMA UpdateTasksType ==
    ASSUME TypeOK, NEW S \in SUBSET Task, NEW state \in TaskState,
           NEW code \in BlockedCode \cup ParkCode \cup {"none"},
           UpdateTasks(S, state, code)
    PROVE  /\ task' \in [Task -> TaskState]
           /\ reason' \in [Task -> BlockedCode \cup ParkCode \cup {"none"}]
           /\ due' \in SUBSET Task
BY DEF UpdateTasks, TypeOK

\* Settling an attempt keeps the attempts table well typed.
LEMMA SettleType ==
    ASSUME TypeOK, NEW t \in Task, NEW n \in DOMAIN att[t], NEW s \in AttemptState
    PROVE  [att EXCEPT ![t][n] = s] \in [Task -> Seq(AttemptState)]
<1>1. att[t] \in Seq(AttemptState)
  BY DEF TypeOK
<1>2. [att[t] EXCEPT ![n] = s] \in Seq(AttemptState)
  BY <1>1, RewriteOne
<1>3. QED
  BY <1>2 DEF TypeOK

\* A set of positions has a first one.
LEMMA MinimumOfNat ==
    ASSUME NEW S \in SUBSET Nat, S # {}
    PROVE  \E i \in S : \A k \in S : i <= k
<1>1. PICK i \in S : \A k \in S : <<k, i>> \notin OpToRel(<, Nat)
  BY WFMin, NatLessThanWellFounded
<1>2. \A k \in S : ~(k < i)
  BY <1>1 DEF OpToRel
<1>3. QED
  BY <1>2

-----------------------------------------------------------------------------
(* The transactions of one attempt *)

\* What AttemptTx does to attempt n of task t, whatever the task's kind.
Settles(t, n) ==
    \/ RecordDispatch(t, n)
    \/ \E code \in ParkCode : Park(t, n, code)
    \/ CommitRetry(t, n, FALSE)
    \/ CommitTerminal(t, n, "failed")
    \/ \E result \in FailureType \cup {"completed", "aborted"} : Commit(t, n, result)

-----------------------------------------------------------------------------
(* Type correctness *)

\* Every transaction leaves every column with a value of its domain.
LEMMA TypeStep == TypeOK /\ [LedgerNext]_ledger => TypeOK'
<1> SUFFICES ASSUME TypeOK, [LedgerNext]_ledger PROVE TypeOK'
  OBVIOUS
<1>1. CASE PassTx
  <2>1. CASE PromoteReady
    BY <2>1 DEF PromoteReady, TypeOK, NowBlocked, TaskState, ReadySources
  <2>2. CASE Finalize
    BY <2>2 DEF Finalize, TypeOK, FinalState, RunState
  <2>3. CASE DrainToPaused
    BY <2>3 DEF DrainToPaused, TypeOK, RunState
  <2>4. ASSUME NEW t \in Task, ReconcileApproval(t) PROVE TypeOK'
    BY <2>4, UpdateTasksType DEF ReconcileApproval, TypeOK, TaskState
  <2>5. ASSUME NEW t \in Task, Claim(t) PROVE TypeOK'
    BY <2>5 DEF Claim, TypeOK, TaskState, AttemptState
  <2>6. ASSUME NEW t \in Task, Propagate(t) PROVE TypeOK'
    <3>1. Downstream(t) \in SUBSET Task
      BY DEF Downstream
    <3>2. UpdateTasks(Downstream(t), "blocked", "upstream_failed")
      BY <2>6 DEF Propagate
    <3>3. QED
      BY <2>6, <3>1, <3>2, UpdateTasksType DEF Propagate, TypeOK, TaskState, BlockedCode
  <2>7. ASSUME NEW t \in Task, RequestApproval(t) PROVE TypeOK'
    BY <2>7 DEF RequestApproval, TypeOK, ApprovalState
  <2>8. QED
    BY <1>1, <2>1, <2>2, <2>3, <2>4, <2>5, <2>6, <2>7 DEF PassTx
<1>2. CASE AttemptTx
  <2> PICK t \in Task : \E n \in DOMAIN att[t] : Live(t, n) /\ Settles(t, n)
    BY <1>2 DEF AttemptTx, Settles, ParkCode
  <2> PICK n \in DOMAIN att[t] : Live(t, n) /\ Settles(t, n)
    OBVIOUS
  <2>1. CASE RecordDispatch(t, n)
    BY <2>1, SettleType DEF RecordDispatch, TypeOK, AttemptState
  <2>2. ASSUME NEW code \in ParkCode, Park(t, n, code) PROVE TypeOK'
    <3>1. att' \in [Task -> Seq(AttemptState)]
      BY <2>2, SettleType DEF Park, AttemptState
    <3>2. /\ task' \in [Task -> TaskState]
          /\ reason' \in [Task -> BlockedCode \cup ParkCode \cup {"none"}]
          /\ due' \in SUBSET Task
      BY <2>2, UpdateTasksType DEF Park, TypeOK, TaskState
    <3>3. QED
      BY <2>2, <3>1, <3>2 DEF Park, TypeOK
  <2>3. ASSUME NEW bill \in BOOLEAN, CommitRetry(t, n, bill) PROVE TypeOK'
    <3>1. att' \in [Task -> Seq(AttemptState)]
      BY <2>3, SettleType DEF CommitRetry, AttemptState
    <3>2. QED
      BY <2>3, <3>1 DEF CommitRetry, TypeOK, TaskState
  <2>4. ASSUME NEW target \in TaskTerminal, CommitTerminal(t, n, target) PROVE TypeOK'
    <3>1. att' \in [Task -> Seq(AttemptState)]
      BY <2>4, SettleType DEF CommitTerminal, AttemptState, TaskTerminal
    <3>2. out' \in [Task -> Content]
      BY <2>4, ProducesAssumption DEF CommitTerminal, TypeOK
    <3>3. QED
      BY <2>4, <3>1, <3>2 DEF CommitTerminal, TypeOK, TaskState, TaskTerminal
  <2>5. ASSUME NEW result \in FailureType \cup {"completed", "aborted"}, Commit(t, n, result)
        PROVE TypeOK'
    BY <2>5, <2>3, <2>4 DEF Commit, TaskTerminal
  <2>6. QED
    BY <2>1, <2>2, <2>3, <2>4, <2>5 DEF Settles, TaskTerminal
<1>3. CASE ControlTx
  <2>1. CASE Pause
    BY <2>1 DEF Pause, TypeOK, RunState, Intent
  <2>2. CASE Resume
    BY <2>2 DEF Resume, TypeOK, RunState, Intent
  <2>3. CASE Stop
    BY <2>3, UpdateTasksType DEF Stop, TypeOK, RunState, Intent, TaskState
  <2>4. ASSUME NEW t \in Task, RetryTask(t) PROVE TypeOK'
    BY <2>4 DEF RetryTask, TypeOK, RunState, Intent, TaskState
  <2>5. ASSUME NEW t \in Task, CancelTask(t) PROVE TypeOK'
    BY <2>5, UpdateTasksType DEF CancelTask, TypeOK, TaskState
  <2>6. ASSUME NEW t \in Task, NEW d \in {"approved", "rejected"}, Decide(t, d) PROVE TypeOK'
    BY <2>6 DEF Decide, TypeOK, ApprovalState
  <2>7. QED
    BY <1>3, <2>1, <2>2, <2>3, <2>4, <2>5, <2>6 DEF ControlTx
<1>4. CASE RecoveryTx
  <2> PICK t \in Task : \E n \in DOMAIN att[t] :
        RecoverNeverDispatched(t, n) \/ RecoverOrphaned(t, n)
    BY <1>4 DEF RecoveryTx
  <2> PICK n \in DOMAIN att[t] : RecoverNeverDispatched(t, n) \/ RecoverOrphaned(t, n)
    OBVIOUS
  <2>1. CASE RecoverNeverDispatched(t, n)
    BY <2>1, SettleType DEF RecoverNeverDispatched, TypeOK, AttemptState, TaskState
  <2>2. CASE RecoverOrphaned(t, n)
    BY <2>2, SettleType DEF RecoverOrphaned, TypeOK, AttemptState, TaskState
  <2>3. QED
    BY <2>1, <2>2
<1>5. ASSUME NEW t \in Task, BackoffElapses(t) PROVE TypeOK'
  BY <1>5 DEF BackoffElapses, TypeOK
<1>6. CASE ParkBroken
  BY <1>6 DEF ParkBroken, TypeOK, RunState
<1>7. CASE UNCHANGED ledger
  BY <1>7 DEF ledger, TypeOK
<1>8. QED
  BY <1>1, <1>2, <1>3, <1>4, <1>5, <1>6, <1>7 DEF LedgerNext

\* Type correctness of the ledger, for every graph and every interleaving of
\* its transactions.
THEOREM TypeCorrect == LedgerSpec => []TypeOK
<1>1. LedgerInit => TypeOK
  BY DEF LedgerInit, TypeOK, RunState, Intent, TaskState, ApprovalState, Content
<1>2. QED
  BY <1>1, TypeStep, PTL DEF LedgerSpec

-----------------------------------------------------------------------------
(* A running task and its attempt *)

IInv == TypeOK /\ RunningHasItsAttempt

\* A write of the tasks table that neither starts nor ends a running task, and
\* touches no attempt, leaves the correspondence as it is.
LEMMA TaskWriteOnly ==
    ASSUME IInv, UNCHANGED att, \A t \in Task : task'[t] = "running" <=> task[t] = "running"
    PROVE  RunningHasItsAttempt'
BY DEF IInv, RunningHasItsAttempt, HasNonTerminalAttempt, Live

\* The attempt that a transaction settles was the only live one of its task,
\* so the task must stop running with it.
LEMMA AttemptEnds ==
    ASSUME IInv, NEW t \in Task, NEW n \in DOMAIN att[t], Live(t, n),
           NEW v \in AttemptState \ NonTerminal, att' = [att EXCEPT ![t][n] = v],
           task'[t] # "running", \A u \in Task \ {t} : task'[u] = task[u]
    PROVE  RunningHasItsAttempt'
<1>1. /\ att[t] \in Seq(AttemptState)
      /\ att'[t] = [att[t] EXCEPT ![n] = v]
      /\ \A u \in Task \ {t} : att'[u] = att[u]
  BY DEF IInv, TypeOK
<1>2. DOMAIN att'[t] = DOMAIN att[t]
  BY <1>1, RewriteOne
<1>3. \A k \in DOMAIN att[t] : Live(t, k) => k = n
  BY DEF IInv, RunningHasItsAttempt
<1>4. ~HasNonTerminalAttempt(t)'
  BY <1>1, <1>2, <1>3 DEF HasNonTerminalAttempt, Live
<1>5. \A u \in Task \ {t} :
        /\ task'[u] = "running" <=> HasNonTerminalAttempt(u)'
        /\ \A k \in DOMAIN att'[u] : Live(u, k)' => k = Len(att'[u])
  BY <1>1 DEF IInv, RunningHasItsAttempt, HasNonTerminalAttempt, Live
<1>6. QED
  BY <1>4, <1>5 DEF RunningHasItsAttempt, HasNonTerminalAttempt

LEMMA RunningStep == IInv /\ [LedgerNext]_ledger => RunningHasItsAttempt'
<1> SUFFICES ASSUME IInv, [LedgerNext]_ledger PROVE RunningHasItsAttempt'
  OBVIOUS
<1> TypeOK
  BY DEF IInv
<1>1. CASE PassTx
  <2>1. CASE PromoteReady
    BY <2>1, TaskWriteOnly
       DEF PromoteReady, NowReady, NowBlocked, ReadySources, IsReadySource, TypeOK
  <2>2. CASE Finalize \/ DrainToPaused
    BY <2>2, TaskWriteOnly DEF Finalize, DrainToPaused
  <2>3. ASSUME NEW t \in Task, ReconcileApproval(t) PROVE RunningHasItsAttempt'
    BY <2>3, TaskWriteOnly DEF ReconcileApproval, UpdateTasks
  <2>4. ASSUME NEW t \in Task, Claim(t) PROVE RunningHasItsAttempt'
    <3>1. /\ att[t] \in Seq(AttemptState)
          /\ att'[t] = Append(att[t], "claimed")
          /\ task'[t] = "running"
          /\ \A u \in Task \ {t} : att'[u] = att[u] /\ task'[u] = task[u]
      BY <2>4 DEF Claim, TypeOK
    <3>2. Live(t, Len(att[t]))'
      BY <3>1 DEF Live, NonTerminal
    <3>3. \A k \in DOMAIN att'[t] : Live(t, k)' => k = Len(att'[t])
      <4>1. \A k \in DOMAIN att[t] : ~Live(t, k)
        BY <2>4 DEF Claim, HasNonTerminalAttempt
      <4>2. \A k \in DOMAIN att'[t] :
              k = Len(att'[t]) \/ (k \in DOMAIN att[t] /\ att'[t][k] = att[t][k])
        BY <3>1
      <4>3. QED
        BY <4>1, <4>2 DEF Live
    <3>4. \A u \in Task \ {t} :
            /\ task'[u] = "running" <=> HasNonTerminalAttempt(u)'
            /\ \A k \in DOMAIN att'[u] : Live(u, k)' => k = Len(att'[u])
      BY <3>1 DEF IInv, RunningHasItsAttempt, HasNonTerminalAttempt, Live
    <3>5. HasNonTerminalAttempt(t)'
      BY <3>2 DEF HasNonTerminalAttempt, Live
    <3>6. QED
      BY <3>1, <3>3, <3>4, <3>5 DEF RunningHasItsAttempt
  <2>5. ASSUME NEW t \in Task, Propagate(t) PROVE RunningHasItsAttempt'
    BY <2>5, TaskWriteOnly DEF Propagate, Downstream, UpdateTasks
  <2>6. ASSUME NEW t \in Task, RequestApproval(t) PROVE RunningHasItsAttempt'
    BY <2>6, TaskWriteOnly DEF RequestApproval
  <2>7. QED
    BY <1>1, <2>1, <2>2, <2>3, <2>4, <2>5, <2>6 DEF PassTx
<1>2. CASE AttemptTx
  <2> PICK t \in Task : \E n \in DOMAIN att[t] : Live(t, n) /\ Settles(t, n)
    BY <1>2 DEF AttemptTx, Settles, ParkCode
  <2> PICK n \in DOMAIN att[t] : Live(t, n) /\ Settles(t, n)
    OBVIOUS
  <2>1. task[t] = "running"
    BY DEF IInv, RunningHasItsAttempt, HasNonTerminalAttempt
  <2>2. CASE RecordDispatch(t, n)
    <3>1. /\ att[t] \in Seq(AttemptState)
          /\ att'[t] = [att[t] EXCEPT ![n] = "dispatched"]
          /\ task' = task
          /\ \A u \in Task \ {t} : att'[u] = att[u]
      BY <2>2 DEF RecordDispatch, TypeOK
    <3>2. \A k \in Nat : Live(t, k)' <=> Live(t, k)
      BY <3>1 DEF Live, NonTerminal
    <3>3. DOMAIN att'[t] = DOMAIN att[t] /\ Len(att'[t]) = Len(att[t])
      BY <3>1, RewriteOne DEF AttemptState
    <3>4. DOMAIN att[t] \subseteq Nat
      BY <3>1
    <3>5. HasNonTerminalAttempt(t)' <=> HasNonTerminalAttempt(t)
      BY <3>2, <3>3, <3>4 DEF HasNonTerminalAttempt
    <3>6. \A k \in DOMAIN att'[t] : Live(t, k)' => k = Len(att'[t])
      BY <3>2, <3>3, <3>4 DEF IInv, RunningHasItsAttempt
    <3>7. \A u \in Task \ {t} :
            /\ task'[u] = "running" <=> HasNonTerminalAttempt(u)'
            /\ \A k \in DOMAIN att'[u] : Live(u, k)' => k = Len(att'[u])
      BY <3>1 DEF IInv, RunningHasItsAttempt, HasNonTerminalAttempt, Live
    <3>8. QED
      BY <3>1, <3>5, <3>6, <3>7 DEF IInv, RunningHasItsAttempt
  <2>3. ASSUME NEW code \in ParkCode, Park(t, n, code) PROVE RunningHasItsAttempt'
    BY <2>1, <2>3, AttemptEnds DEF Park, UpdateTasks, TypeOK, AttemptState, NonTerminal
  <2>4. ASSUME NEW bill \in BOOLEAN, CommitRetry(t, n, bill) PROVE RunningHasItsAttempt'
    BY <2>4, AttemptEnds DEF CommitRetry, TypeOK, AttemptState, NonTerminal
  <2>5. ASSUME NEW target \in TaskTerminal, CommitTerminal(t, n, target)
        PROVE RunningHasItsAttempt'
    BY <2>5, AttemptEnds DEF CommitTerminal, TypeOK, AttemptState, NonTerminal, TaskTerminal
  <2>6. ASSUME NEW result \in FailureType \cup {"completed", "aborted"}, Commit(t, n, result)
        PROVE RunningHasItsAttempt'
    BY <2>6, <2>4, <2>5 DEF Commit, TaskTerminal
  <2>7. QED
    BY <2>2, <2>3, <2>4, <2>5, <2>6 DEF Settles, TaskTerminal
<1>3. CASE ControlTx
  <2>1. CASE Pause \/ Resume
    BY <2>1, TaskWriteOnly DEF Pause, Resume
  <2>2. CASE Stop
    BY <2>2, TaskWriteOnly DEF Stop, UpdateTasks
  <2>3. ASSUME NEW t \in Task, RetryTask(t) PROVE RunningHasItsAttempt'
    BY <2>3, TaskWriteOnly DEF RetryTask, CanRetryTask, TypeOK
  <2>4. ASSUME NEW t \in Task, CancelTask(t) PROVE RunningHasItsAttempt'
    BY <2>4, TaskWriteOnly DEF CancelTask, UpdateTasks
  <2>5. ASSUME NEW t \in Task, NEW d \in {"approved", "rejected"}, Decide(t, d)
        PROVE RunningHasItsAttempt'
    BY <2>5, TaskWriteOnly DEF Decide
  <2>6. QED
    BY <1>3, <2>1, <2>2, <2>3, <2>4, <2>5 DEF ControlTx
<1>4. CASE RecoveryTx
  <2> PICK t \in Task : \E n \in DOMAIN att[t] :
        RecoverNeverDispatched(t, n) \/ RecoverOrphaned(t, n)
    BY <1>4 DEF RecoveryTx
  <2> PICK n \in DOMAIN att[t] : RecoverNeverDispatched(t, n) \/ RecoverOrphaned(t, n)
    OBVIOUS
  <2>1. Live(t, n)
    BY DEF RecoverNeverDispatched, RecoverOrphaned, Live, NonTerminal
  <2>2. CASE RecoverNeverDispatched(t, n)
    BY <2>1, <2>2, AttemptEnds DEF RecoverNeverDispatched, TypeOK, AttemptState, NonTerminal
  <2>3. CASE RecoverOrphaned(t, n)
    BY <2>1, <2>3, AttemptEnds DEF RecoverOrphaned, TypeOK, AttemptState, NonTerminal
  <2>4. QED
    BY <2>2, <2>3
<1>5. ASSUME NEW t \in Task, BackoffElapses(t) PROVE RunningHasItsAttempt'
  BY <1>5, TaskWriteOnly DEF BackoffElapses
<1>6. CASE ParkBroken
  BY <1>6, TaskWriteOnly DEF ParkBroken
<1>7. CASE UNCHANGED ledger
  BY <1>7, TaskWriteOnly DEF ledger
<1>8. QED
  BY <1>1, <1>2, <1>3, <1>4, <1>5, <1>6, <1>7 DEF LedgerNext

LEMMA Inductive == LedgerSpec => []IInv
<1>1. LedgerInit => IInv
  <2>1. LedgerInit => TypeOK
    BY DEF LedgerInit, TypeOK, RunState, Intent, TaskState, ApprovalState, Content
  <2>2. LedgerInit => RunningHasItsAttempt
    BY DEF LedgerInit, RunningHasItsAttempt, HasNonTerminalAttempt, Live
  <2>3. QED
    BY <2>1, <2>2 DEF IInv
<1>2. IInv /\ [LedgerNext]_ledger => IInv'
  BY TypeStep, RunningStep DEF IInv
<1>3. QED
  BY <1>1, <1>2, PTL DEF LedgerSpec

\* In every behaviour a task is running exactly while its last attempt is live,
\* and no task ever has two live attempts, whatever order the transactions of
\* passes, controls and recoveries come in.
THEOREM OneLiveAttempt == LedgerSpec => []RunningHasItsAttempt
<1>1. IInv => RunningHasItsAttempt
  BY DEF IInv
<1>2. QED
  BY <1>1, Inductive, PTL

-----------------------------------------------------------------------------
(* What a step may do to a task and its output *)

\* An ended task and a stored output stay; an output comes with success; and
\* only a "ready" verdict starts a task.
TaskEffect(u) ==
    /\ task[u] \in {"succeeded", "cancelled"} => task'[u] = task[u]
    /\ task[u] = "succeeded" => out'[u] = out[u]
    /\ out[u] # "absent" => out'[u] # "absent"
    /\ out'[u] # "absent" => out[u] # "absent" \/ task'[u] = "succeeded"
    /\ Started(u)' => Started(u) \/ Verdict(u, task, out) = "ready"

LEMMA StepEffect ==
    ASSUME IInv, [LedgerNext]_ledger
    PROVE  \A u \in Task : TaskEffect(u)
<1> TypeOK
  BY DEF IInv
<1> USE DEF TaskEffect, Started
<1>1. CASE PassTx
  <2>1. CASE PromoteReady
    <3>1. \A u \in Task : task[u] \in {"succeeded", "cancelled"} => u \notin ReadySources
      BY DEF ReadySources, IsReadySource
    <3>2. \A u \in NowReady : u \in ReadySources /\ Verdict(u, task, out) = "ready"
      BY DEF NowReady
    <3>3. \A u \in NowBlocked : /\ u \in ReadySources
                                /\ Verdict(u, task, out) \in BlockedCode
      BY DEF NowBlocked
    <3>4. BlockedCode \cap ParkCode = {}
      BY DEF BlockedCode, ParkCode
    <3>5. \A u \in Task :
            /\ u \in NowReady => task'[u] = "ready"
            /\ u \notin NowReady /\ u \in NowBlocked =>
                 task'[u] = "blocked" /\ reason'[u] = Verdict(u, task, out)
            /\ u \notin NowReady /\ u \notin NowBlocked =>
                 task'[u] = task[u] /\ reason'[u] = reason[u]
      BY <2>1 DEF PromoteReady
    <3>6. out' = out
      BY <2>1 DEF PromoteReady
    <3>7. QED
      BY <3>1, <3>2, <3>3, <3>4, <3>5, <3>6
  <2>2. CASE Finalize \/ DrainToPaused
    BY <2>2 DEF Finalize, DrainToPaused
  <2>3. ASSUME NEW t \in Task, ReconcileApproval(t) PROVE \A u \in Task : TaskEffect(u)
    BY <2>3 DEF ReconcileApproval, UpdateTasks, ParkCode
  <2>4. ASSUME NEW t \in Task, Claim(t) PROVE \A u \in Task : TaskEffect(u)
    BY <2>4 DEF Claim, TypeOK
  <2>5. ASSUME NEW t \in Task, Propagate(t) PROVE \A u \in Task : TaskEffect(u)
    BY <2>5 DEF Propagate, Downstream, UpdateTasks, ParkCode
  <2>6. ASSUME NEW t \in Task, RequestApproval(t) PROVE \A u \in Task : TaskEffect(u)
    BY <2>6 DEF RequestApproval
  <2>7. QED
    BY <1>1, <2>1, <2>2, <2>3, <2>4, <2>5, <2>6 DEF PassTx
<1>2. CASE AttemptTx
  <2> PICK t \in Task : \E n \in DOMAIN att[t] : Live(t, n) /\ Settles(t, n)
    BY <1>2 DEF AttemptTx, Settles, ParkCode
  <2> PICK n \in DOMAIN att[t] : Live(t, n) /\ Settles(t, n)
    OBVIOUS
  <2>1. task[t] = "running"
    BY DEF IInv, RunningHasItsAttempt, HasNonTerminalAttempt
  <2>2. CASE RecordDispatch(t, n)
    BY <2>2 DEF RecordDispatch
  <2>3. ASSUME NEW code \in ParkCode, Park(t, n, code) PROVE \A u \in Task : TaskEffect(u)
    BY <2>1, <2>3 DEF Park, UpdateTasks
  <2>4. ASSUME NEW bill \in BOOLEAN, CommitRetry(t, n, bill)
        PROVE  \A u \in Task : TaskEffect(u)
    BY <2>1, <2>4 DEF CommitRetry, TypeOK
  <2>5. ASSUME NEW target \in TaskTerminal, CommitTerminal(t, n, target)
        PROVE  \A u \in Task : TaskEffect(u)
    <3>1. /\ task'[t] = target
          /\ \A u \in Task \ {t} : task'[u] = task[u] /\ out'[u] = out[u]
          /\ reason' = reason
      BY <2>5 DEF CommitTerminal, TypeOK
    <3>2. \/ out' = out
          \/ target = "succeeded" /\ out'[t] # "absent"
      BY <2>5, ProducesAssumption DEF CommitTerminal, TypeOK
    <3>3. QED
      BY <2>1, <3>1, <3>2 DEF TaskTerminal
  <2>6. ASSUME NEW result \in FailureType \cup {"completed", "aborted"}, Commit(t, n, result)
        PROVE  \A u \in Task : TaskEffect(u)
    BY <2>6, <2>4, <2>5 DEF Commit, TaskTerminal
  <2>7. QED
    BY <2>2, <2>3, <2>4, <2>5, <2>6 DEF Settles, TaskTerminal
<1>3. CASE ControlTx
  <2>1. CASE Pause \/ Resume
    BY <2>1 DEF Pause, Resume
  <2>2. CASE Stop
    BY <2>2 DEF Stop, UpdateTasks, TaskTerminal
  <2>3. ASSUME NEW t \in Task, RetryTask(t) PROVE \A u \in Task : TaskEffect(u)
    BY <2>3 DEF RetryTask, CanRetryTask, TypeOK
  <2>4. ASSUME NEW t \in Task, CancelTask(t) PROVE \A u \in Task : TaskEffect(u)
    BY <2>4 DEF CancelTask, UpdateTasks
  <2>5. ASSUME NEW t \in Task, NEW d \in {"approved", "rejected"}, Decide(t, d)
        PROVE  \A u \in Task : TaskEffect(u)
    BY <2>5 DEF Decide
  <2>6. QED
    BY <1>3, <2>1, <2>2, <2>3, <2>4, <2>5 DEF ControlTx
<1>4. CASE RecoveryTx
  <2> PICK t \in Task : \E n \in DOMAIN att[t] :
        RecoverNeverDispatched(t, n) \/ RecoverOrphaned(t, n)
    BY <1>4 DEF RecoveryTx
  <2> PICK n \in DOMAIN att[t] : RecoverNeverDispatched(t, n) \/ RecoverOrphaned(t, n)
    OBVIOUS
  <2>1. task[t] = "running"
    BY DEF RecoverNeverDispatched, RecoverOrphaned, IInv, RunningHasItsAttempt,
           HasNonTerminalAttempt, Live, NonTerminal
  <2>2. QED
    BY <2>1 DEF RecoverNeverDispatched, RecoverOrphaned, TypeOK
<1>5. ASSUME NEW t \in Task, BackoffElapses(t) PROVE \A u \in Task : TaskEffect(u)
  BY <1>5 DEF BackoffElapses
<1>6. CASE ParkBroken
  BY <1>6 DEF ParkBroken
<1>7. CASE UNCHANGED ledger
  BY <1>7 DEF ledger
<1>8. QED
  BY <1>1, <1>2, <1>3, <1>4, <1>5, <1>6, <1>7 DEF LedgerNext

-----------------------------------------------------------------------------
(* Outputs and justified starts *)

\* An output is stored only by the commit that makes its task succeed, and no
\* later transaction takes the success back.
THEOREM OutputsAreOfSuccess == LedgerSpec => []OutputMeansSuccess
<1>1. LedgerInit => OutputMeansSuccess
  BY DEF LedgerInit, OutputMeansSuccess
<1>2. IInv /\ OutputMeansSuccess /\ [LedgerNext]_ledger => OutputMeansSuccess'
  BY StepEffect DEF OutputMeansSuccess, TaskEffect
<1>3. QED
  BY <1>1, <1>2, Inductive, PTL DEF LedgerSpec

Justified(t) ==
    /\ \A i \in DOMAIN Deps[t] :
          Deps[t][i].cond = "succeeded" => EdgeVerdict(Deps[t][i], task, out) = "satisfied"
    /\ \A p \in Inputs[t] : out[p] # "absent"

\* An edge's verdict is one of the codes or lets the task through or waits.
LEMMA EdgeVerdictRange ==
    ASSUME TypeOK, NEW e \in Edge
    PROVE  EdgeVerdict(e, task, out) \in BlockedCode \cup {"waiting", "satisfied"}
<1>1. task[e.up] \in TaskState
  BY DEF TypeOK, Edge
<1>2. UpstreamSatisfies(task[e.up], e.cond) \in BlockedCode \cup {"waiting", "satisfied"}
  BY <1>1 DEF UpstreamSatisfies, BlockedCode, TaskState, InProgress
<1>3. QED
  BY <1>2 DEF EdgeVerdict, BlockedCode

\* The evaluator says "ready" only when every edge is satisfied and every input
\* is there.
LEMMA ReadyMeansSatisfied ==
    ASSUME TypeOK, NEW t \in Task, Verdict(t, task, out) = "ready"
    PROVE  /\ \A i \in DOMAIN Deps[t] : EdgeVerdict(Deps[t][i], task, out) = "satisfied"
           /\ \A p \in Inputs[t] : out[p] # "absent"
<1> DEFINE verdict(i) == EdgeVerdict(Deps[t][i], task, out)
           blocking == {i \in DOMAIN Deps[t] : verdict(i) \in BlockedCode}
<1>1. \A i \in DOMAIN Deps[t] : Deps[t][i] \in Edge
  BY DepsAssumption
<1>2. ASSUME blocking # {} PROVE FALSE
  <2>1. PICK j \in blocking : TRUE
    BY <1>2
  <2>2. DOMAIN Deps[t] \subseteq Nat
    BY DepsAssumption
  <2>3. Verdict(t, task, out) = verdict(CHOOSE i \in blocking : \A k \in blocking : i <= k)
    BY <1>2 DEF Verdict
  <2>4. \E i \in blocking : \A k \in blocking : i <= k
    BY <1>2, <2>2, MinimumOfNat
  <2>5. (CHOOSE i \in blocking : \A k \in blocking : i <= k) \in blocking
    BY <2>4
  <2>6. Verdict(t, task, out) \in BlockedCode
    BY <2>3, <2>5
  <2>7. QED
    BY <2>6 DEF BlockedCode
<1>3. ~ \E i \in DOMAIN Deps[t] : verdict(i) = "waiting"
  BY <1>2 DEF Verdict
<1>4. \A p \in Inputs[t] : out[p] # "absent"
  BY <1>2, <1>3 DEF Verdict
<1>5. \A i \in DOMAIN Deps[t] : verdict(i) = "satisfied"
  BY <1>1, <1>2, <1>3, EdgeVerdictRange
<1>6. QED
  BY <1>4, <1>5

\* So the task is justified.
LEMMA ReadyIsJustified ==
    ASSUME TypeOK, NEW t \in Task, Verdict(t, task, out) = "ready"
    PROVE  Justified(t)
BY ReadyMeansSatisfied DEF Justified

\* What justifies a task is never withdrawn: the upstreams it rests on have
\* succeeded for good, and outputs stay.
LEMMA JustifiedStays ==
    ASSUME IInv, [LedgerNext]_ledger, NEW t \in Task, Justified(t)
    PROVE  Justified(t)'
<1> TypeOK
  BY DEF IInv
<1>1. ASSUME NEW i \in DOMAIN Deps[t], Deps[t][i].cond = "succeeded"
      PROVE  EdgeVerdict(Deps[t][i], task, out)' = "satisfied"
  <2> DEFINE e == Deps[t][i]
  <2>1. e \in Edge
    BY DepsAssumption
  <2>2. e.up \in Task /\ task[e.up] \in TaskState
    BY <2>1 DEF Edge, TypeOK
  <2>3. EdgeVerdict(e, task, out) = "satisfied"
    BY <1>1 DEF Justified
  <2>4. UpstreamSatisfies(task[e.up], e.cond) = "satisfied" /\ EvaluateGate(e.gate, out[e.up])
    BY <2>3 DEF EdgeVerdict
  <2>5. task[e.up] = "succeeded"
    BY <1>1, <2>2, <2>4 DEF UpstreamSatisfies, TaskState, InProgress
  <2>6. task'[e.up] = task[e.up] /\ out'[e.up] = out[e.up]
    BY <2>2, <2>5, StepEffect DEF TaskEffect
  <2>7. EdgeVerdict(e, task, out)' = EdgeVerdict(e, task, out)
    BY <2>6 DEF EdgeVerdict
  <2>8. QED
    BY <2>3, <2>7
<1>2. \A p \in Inputs[t] : out'[p] # "absent"
  <2>1. Inputs[t] \subseteq Task
    BY InputsAssumption
  <2>2. QED
    BY <2>1, StepEffect DEF Justified, TaskEffect
<1>3. QED
  BY <1>1, <1>2 DEF Justified

\* No task runs, waits parked, or has succeeded while one of its succeeded-
\* edges or gates does not hold or one of its inputs is missing.  promoteReady
\* looks once; this says that one look is enough.
THEOREM StartsAreJustified == LedgerSpec => []StartedIsJustified
<1>1. LedgerInit => StartedIsJustified
  BY DEF LedgerInit, StartedIsJustified, Started
<1>2. IInv /\ StartedIsJustified /\ [LedgerNext]_ledger => StartedIsJustified'
  <2> SUFFICES ASSUME IInv, StartedIsJustified, [LedgerNext]_ledger,
                      NEW t \in Task, Started(t)'
               PROVE  Justified(t)'
    BY DEF StartedIsJustified, Justified
  <2>1. Started(t) \/ Verdict(t, task, out) = "ready"
    BY StepEffect DEF TaskEffect
  <2>2. Justified(t)
    BY <2>1, ReadyIsJustified DEF IInv, StartedIsJustified, Justified
  <2>3. QED
    BY <2>2, JustifiedStays
<1>3. QED
  BY <1>1, <1>2, Inductive, PTL DEF LedgerSpec

-----------------------------------------------------------------------------
(* Control, budgets and approvals *)

\* What each transaction does to the run's state it does to the intent as well.
LEMMA IntentStep == IInv /\ IntentMatchesRun /\ [LedgerNext]_ledger => IntentMatchesRun'
<1> SUFFICES ASSUME IInv, IntentMatchesRun, [LedgerNext]_ledger PROVE IntentMatchesRun'
  OBVIOUS
<1> run \in RunState /\ intent \in Intent
  BY DEF IInv, TypeOK
<1>1. CASE UNCHANGED <<run, intent>>
  BY <1>1 DEF IntentMatchesRun
<1>2. CASE Finalize
  BY <1>2 DEF Finalize, FinalState, IntentMatchesRun, RunState, RunTerminal
<1>3. CASE DrainToPaused
  BY <1>3 DEF DrainToPaused, CanDrain, IntentMatchesRun
<1>4. CASE Pause \/ Resume
  BY <1>4 DEF Pause, Resume, IntentMatchesRun
<1>5. CASE Stop
  BY <1>5 DEF Stop, IntentMatchesRun
<1>6. ASSUME NEW t \in Task, RetryTask(t) PROVE IntentMatchesRun'
  BY <1>6 DEF RetryTask, IntentMatchesRun
<1>7. PassTx => Finalize \/ DrainToPaused \/ UNCHANGED <<run, intent>>
  BY DEF PassTx, PromoteReady, ReconcileApproval, Claim, Propagate, RequestApproval
<1>8. AttemptTx => UNCHANGED <<run, intent>>
  BY DEF AttemptTx, RecordDispatch, Park, CommitRetry, CommitTerminal, Commit
<1>9. ControlTx => \/ Pause \/ Resume \/ Stop
                   \/ \E t \in Task : RetryTask(t)
                   \/ UNCHANGED <<run, intent>>
  BY DEF ControlTx, CancelTask, Decide
<1>10. RecoveryTx => UNCHANGED <<run, intent>>
  BY DEF RecoveryTx, RecoverNeverDispatched, RecoverOrphaned
<1>11. \A t \in Task : BackoffElapses(t) => UNCHANGED <<run, intent>>
  BY DEF BackoffElapses
<1>12. CASE ParkBroken
  BY <1>12 DEF ParkBroken, IntentMatchesRun
<1>13. QED
  BY <1>1, <1>2, <1>3, <1>4, <1>5, <1>6, <1>7, <1>8, <1>9, <1>10, <1>11, <1>12
     DEF LedgerNext, ledger

\* The control intent and the run's state never part, so admission is closed
\* exactly while the run drains or is being stopped.
THEOREM IntentIsTrue == LedgerSpec => []IntentMatchesRun
<1>1. LedgerInit => IntentMatchesRun
  BY DEF LedgerInit, IntentMatchesRun
<1>2. QED
  BY <1>1, IntentStep, Inductive, PTL DEF LedgerSpec

\* The retry count that a step adds was asked of the policy first.
LEMMA BilledStep ==
    ASSUME IInv, [LedgerNext]_ledger
    PROVE  \/ billed' = billed
           \/ \E t \in Task : /\ billed[t] + 1 < MaxAttempts[t]
                              /\ billed' = [billed EXCEPT ![t] = @ + 1]
<1> DEFINE Goal == \/ billed' = billed
                   \/ \E t \in Task : /\ billed[t] + 1 < MaxAttempts[t]
                                      /\ billed' = [billed EXCEPT ![t] = @ + 1]
<1>1. PassTx => billed' = billed
  BY DEF PassTx, PromoteReady, Finalize, DrainToPaused, ReconcileApproval, Claim, Propagate,
         RequestApproval
<1>2. CASE AttemptTx
  <2>1. PICK t \in Task : \E n \in DOMAIN att[t] : Settles(t, n)
    BY <1>2 DEF AttemptTx, Settles, ParkCode
  <2>2. PICK n \in DOMAIN att[t] : Settles(t, n)
    BY <2>1
  <2>3. ASSUME NEW result \in FailureType \cup {"completed", "aborted"}, Commit(t, n, result)
        PROVE  Goal
    BY <2>3 DEF Commit, CommitRetry, CommitTerminal, ShouldRetry
  <2>4. QED
    BY <2>2, <2>3 DEF Settles, RecordDispatch, Park, CommitRetry, CommitTerminal
<1>3. ControlTx => billed' = billed
  BY DEF ControlTx, Pause, Resume, Stop, RetryTask, CancelTask, Decide
<1>4. RecoveryTx => billed' = billed
  BY DEF RecoveryTx, RecoverNeverDispatched, RecoverOrphaned
<1>5. \A t \in Task : BackoffElapses(t) => billed' = billed
  BY DEF BackoffElapses
<1>6. ParkBroken => billed' = billed
  BY DEF ParkBroken
<1>7. QED
  BY <1>1, <1>2, <1>3, <1>4, <1>5, <1>6 DEF LedgerNext, ledger

\* The retries billed to a task's policy stay within its maxAttempts.
THEOREM BudgetHolds == LedgerSpec => []BudgetRespected
<1>1. LedgerInit => BudgetRespected
  BY MaxAttemptsAssumption DEF LedgerInit, BudgetRespected
<1>2. IInv /\ BudgetRespected /\ [LedgerNext]_ledger => BudgetRespected'
  BY BilledStep, MaxAttemptsAssumption DEF BudgetRespected, IInv, TypeOK
<1>3. QED
  BY <1>1, <1>2, Inductive, PTL DEF LedgerSpec

\* A step parks a task for approval only if its approvals row is there, and
\* takes no row away.
LEMMA ApprovalStep ==
    ASSUME IInv, [LedgerNext]_ledger, NEW t \in Task
    PROVE  /\ appr[t] # "none" => appr'[t] # "none"
           /\ task'[t] = "blocked" /\ reason'[t] = "approval_pending" =>
                \/ task[t] = "blocked" /\ reason[t] = "approval_pending"
                \/ appr[t] # "none"
<1> TypeOK
  BY DEF IInv
<1> DEFINE Parked == task[t] = "blocked" /\ reason[t] = "approval_pending"
           Goal == /\ appr[t] # "none" => appr'[t] # "none"
                   /\ Parked' => Parked \/ appr[t] # "none"
<1>1. CASE PassTx
  <2>1. CASE PromoteReady
    BY <2>1 DEF PromoteReady, NowBlocked, BlockedCode, TypeOK
  <2>2. CASE Finalize \/ DrainToPaused
    BY <2>2 DEF Finalize, DrainToPaused
  <2>3. ASSUME NEW u \in Task,
               ReconcileApproval(u) \/ Claim(u) \/ Propagate(u) \/ RequestApproval(u)
        PROVE  Goal
    BY <2>3 DEF ReconcileApproval, Claim, Propagate, RequestApproval, UpdateTasks, TypeOK
  <2>4. QED
    BY <1>1, <2>1, <2>2, <2>3 DEF PassTx
<1>2. CASE AttemptTx
  <2>1. ASSUME NEW u \in Task, NEW n \in DOMAIN att[u],
               \/ appr[u] = "pending" /\ Park(u, n, "approval_pending")
               \/ Park(u, n, "merge_conflicted")
        PROVE  Goal
    BY <2>1 DEF Park, UpdateTasks, TypeOK
  <2>2. ASSUME NEW u \in Task, NEW n \in DOMAIN att[u], RecordDispatch(u, n) PROVE Goal
    BY <2>2 DEF RecordDispatch
  <2>3. ASSUME NEW u \in Task, NEW n \in DOMAIN att[u], NEW bill \in BOOLEAN,
               CommitRetry(u, n, bill)
        PROVE  Goal
    BY <2>3 DEF CommitRetry, TypeOK
  <2>4. ASSUME NEW u \in Task, NEW n \in DOMAIN att[u], NEW target \in TaskTerminal,
               CommitTerminal(u, n, target)
        PROVE  Goal
    BY <2>4 DEF CommitTerminal, TypeOK, TaskTerminal
  <2>5. ASSUME NEW u \in Task, NEW n \in DOMAIN att[u],
               NEW result \in FailureType \cup {"completed", "aborted"}, Commit(u, n, result)
        PROVE  Goal
    BY <2>5, <2>3, <2>4 DEF Commit, TaskTerminal
  <2>6. QED
    BY <1>2, <2>1, <2>2, <2>3, <2>4, <2>5 DEF AttemptTx, TaskTerminal
<1>3. CASE ControlTx
  <2>1. CASE Pause \/ Resume
    BY <2>1 DEF Pause, Resume
  <2>2. CASE Stop
    BY <2>2 DEF Stop, UpdateTasks, TypeOK
  <2>3. ASSUME NEW u \in Task, RetryTask(u) \/ CancelTask(u) PROVE Goal
    BY <2>3 DEF RetryTask, CancelTask, UpdateTasks, TypeOK
  <2>4. ASSUME NEW u \in Task, NEW d \in {"approved", "rejected"}, Decide(u, d) PROVE Goal
    BY <2>4 DEF Decide, TypeOK
  <2>5. QED
    BY <1>3, <2>1, <2>2, <2>3, <2>4 DEF ControlTx
<1>4. CASE RecoveryTx
  BY <1>4 DEF RecoveryTx, RecoverNeverDispatched, RecoverOrphaned, TypeOK
<1>5. ASSUME NEW u \in Task, BackoffElapses(u) PROVE Goal
  BY <1>5 DEF BackoffElapses
<1>6. CASE ParkBroken
  BY <1>6 DEF ParkBroken
<1>7. CASE UNCHANGED ledger
  BY <1>7 DEF ledger
<1>8. QED
  BY <1>1, <1>2, <1>3, <1>4, <1>5, <1>6, <1>7 DEF LedgerNext

\* Whoever waits for a human can be found: a task parked for approval has its
\* approvals row, a crash between the request and the park notwithstanding.
THEOREM ParksAreFindable == LedgerSpec => []ParkHasApproval
<1>1. LedgerInit => ParkHasApproval
  BY DEF LedgerInit, ParkHasApproval
<1>2. IInv /\ ParkHasApproval /\ [LedgerNext]_ledger => ParkHasApproval'
  <2> SUFFICES ASSUME IInv, ParkHasApproval, [LedgerNext]_ledger, NEW t \in Task,
                      task'[t] = "blocked" /\ reason'[t] = "approval_pending"
               PROVE  appr'[t] # "none"
    BY DEF ParkHasApproval
  <2>1. QED
    BY ApprovalStep DEF ParkHasApproval
<1>3. QED
  BY <1>1, <1>2, Inductive, PTL DEF LedgerSpec

-----------------------------------------------------------------------------
(* What ended stays ended *)

\* A step adds attempts or settles a live one; it rewrites no verdict.
LEMMA VerdictsStay ==
    ASSUME IInv, [LedgerNext]_ledger, NEW t \in Task, NEW n \in DOMAIN att[t],
           att[t][n] \notin NonTerminal
    PROVE  n \in DOMAIN att'[t] /\ att'[t][n] = att[t][n]
<1>1. att[t] \in Seq(AttemptState) /\ att \in [Task -> Seq(AttemptState)]
  BY DEF IInv, TypeOK
<1>2. ASSUME NEW u \in Task, NEW k \in DOMAIN att[u], Live(u, k), NEW v \in AttemptState,
             att' = [att EXCEPT ![u][k] = v]
      PROVE  n \in DOMAIN att'[t] /\ att'[t][n] = att[t][n]
  <2>1. CASE u # t
    BY <1>1, <1>2, <2>1
  <2>2. CASE u = t
    <3>1. k # n /\ att'[t] = [att[t] EXCEPT ![k] = v]
      BY <1>1, <1>2, <2>2 DEF Live
    <3>2. QED
      BY <1>1, <3>1
  <2>3. QED
    BY <2>1, <2>2
<1>3. CASE UNCHANGED att
  BY <1>3
<1>4. ASSUME NEW u \in Task, Claim(u) PROVE n \in DOMAIN att'[t] /\ att'[t][n] = att[t][n]
  BY <1>1, <1>4 DEF Claim
<1>5. PassTx => UNCHANGED att \/ \E u \in Task : Claim(u)
  BY DEF PassTx, PromoteReady, Finalize, DrainToPaused, ReconcileApproval, Propagate,
         RequestApproval
<1>6. AttemptTx => \E u \in Task : \E k \in DOMAIN att[u] :
        Live(u, k) /\ \E v \in AttemptState : att' = [att EXCEPT ![u][k] = v]
  BY DEF AttemptTx, RecordDispatch, Park, CommitRetry, CommitTerminal, Commit, AttemptState
<1>7. ControlTx => UNCHANGED att
  BY DEF ControlTx, Pause, Resume, Stop, RetryTask, CancelTask, Decide
<1>8. RecoveryTx => \E u \in Task : \E k \in DOMAIN att[u] :
        Live(u, k) /\ \E v \in AttemptState : att' = [att EXCEPT ![u][k] = v]
  BY DEF RecoveryTx, RecoverNeverDispatched, RecoverOrphaned, Live, NonTerminal, AttemptState
<1>9. \A u \in Task : BackoffElapses(u) => UNCHANGED att
  BY DEF BackoffElapses
<1>10. ParkBroken => UNCHANGED att
  BY DEF ParkBroken
<1>11. QED
  BY <1>2, <1>3, <1>4, <1>5, <1>6, <1>7, <1>8, <1>9, <1>10 DEF LedgerNext, ledger

\* Only retry_task takes a run out of a terminal state, and only a failed one.
LEMMA RunStays ==
    ASSUME IInv, [LedgerNext]_ledger, run \in RunTerminal
    PROVE  run' = run \/ (run = "failed" /\ run' = "running")
<1>1. PassTx => run' = run
  BY DEF PassTx, PromoteReady, Finalize, FinalState, DrainToPaused, CanDrain, RunTerminal,
         ReconcileApproval, Claim, Propagate, RequestApproval
<1>2. AttemptTx => run' = run
  BY DEF AttemptTx, RecordDispatch, Park, CommitRetry, CommitTerminal, Commit
<1>3. ControlTx => run' = run \/ (run = "failed" /\ run' = "running")
  BY DEF ControlTx, Pause, Resume, Stop, RetryTask, CancelTask, Decide, RunTerminal
<1>4. RecoveryTx => run' = run
  BY DEF RecoveryTx, RecoverNeverDispatched, RecoverOrphaned
<1>5. \A t \in Task : BackoffElapses(t) => run' = run
  BY DEF BackoffElapses
<1>6. ~ParkBroken
  BY DEF ParkBroken
<1>7. QED
  BY <1>1, <1>2, <1>3, <1>4, <1>5, <1>6 DEF LedgerNext, ledger

\* Verdicts are final: of succeeded and cancelled tasks, of runs (but for the
\* revival of a failed one) and of attempts.
THEOREM VerdictsAreFinal == LedgerSpec => AbsorbingStates
<1>1. IInv /\ [LedgerNext]_ledger => Absorbing
  BY StepEffect, RunStays, VerdictsStay DEF Absorbing, TaskEffect
<1>2. QED
  BY <1>1, Inductive, PTL DEF LedgerSpec, AbsorbingStates

-----------------------------------------------------------------------------
(* What a transaction may do to the attempts and to the verdict *)

\* Only a claim adds an attempt.
LEMMA AttemptsStay ==
    ASSUME TypeOK, AttemptTx \/ ControlTx \/ RecoveryTx, NEW u \in Task
    PROVE  DOMAIN att'[u] = DOMAIN att[u]
<1>1. CASE ControlTx
  <2>1. att' = att
    BY <1>1 DEF ControlTx, Pause, Resume, Stop, RetryTask, CancelTask, Decide
  <2>2. QED
    BY <2>1
<1>2. CASE AttemptTx \/ RecoveryTx
  <2>1. \/ att' = att
        \/ \E t \in Task : \E n \in DOMAIN att[t] : \E v \in AttemptState :
              att' = [att EXCEPT ![t][n] = v]
    <3>1. CASE AttemptTx
      <4> PICK t \in Task : \E n \in DOMAIN att[t] : Live(t, n) /\ Settles(t, n)
        BY <3>1 DEF AttemptTx, Settles, ParkCode
      <4> PICK n \in DOMAIN att[t] : Live(t, n) /\ Settles(t, n)
        OBVIOUS
      <4>1. \E v \in AttemptState : att' = [att EXCEPT ![t][n] = v]
        BY DEF Settles, RecordDispatch, Park, CommitRetry, Commit, CommitTerminal, AttemptState
      <4>2. QED
        BY <4>1
    <3>2. CASE RecoveryTx
      <4> PICK t \in Task : \E n \in DOMAIN att[t] :
            RecoverNeverDispatched(t, n) \/ RecoverOrphaned(t, n)
        BY <3>2 DEF RecoveryTx
      <4> PICK n \in DOMAIN att[t] : RecoverNeverDispatched(t, n) \/ RecoverOrphaned(t, n)
        OBVIOUS
      <4>1. \E v \in AttemptState : att' = [att EXCEPT ![t][n] = v]
        BY DEF RecoverNeverDispatched, RecoverOrphaned, AttemptState
      <4>2. QED
        BY <4>1
    <3>3. QED
      BY <1>2, <3>1, <3>2
  <2>2. CASE att' = att
    BY <2>2
  <2>3. ASSUME NEW t \in Task, NEW n \in DOMAIN att[t], NEW v \in AttemptState,
               att' = [att EXCEPT ![t][n] = v]
        PROVE  DOMAIN att'[u] = DOMAIN att[u]
    BY <2>3 DEF TypeOK
  <2>4. QED
    BY <2>1, <2>2, <2>3
<1>3. QED
  BY <1>1, <1>2

\* What is live after a transaction was live before, or has just been claimed.
LEMMA LiveWasLive ==
    ASSUME IInv, [LedgerNext]_ledger, NEW t \in Task, NEW n \in DOMAIN att[t], Live(t, n)'
    PROVE  Live(t, n)
BY VerdictsStay DEF Live

\* The tools and the executors give no verdict on a run.
LEMMA NoVerdict ==
    ASSUME AttemptTx \/ ControlTx \/ RecoveryTx, run' \in RunTerminal
    PROVE  run' = run
<1>1. CASE AttemptTx \/ RecoveryTx
  <2>1. ASSUME NEW t \in Task, NEW n \in DOMAIN att[t], Settles(t, n)
        PROVE  run' = run
    <3>1. ASSUME NEW target, CommitTerminal(t, n, target) PROVE run' = run
      BY <3>1 DEF CommitTerminal
    <3>2. ASSUME NEW bill, CommitRetry(t, n, bill) PROVE run' = run
      BY <3>2 DEF CommitRetry
    <3>3. ASSUME NEW result, Commit(t, n, result) PROVE run' = run
      BY <3>1, <3>2, <3>3 DEF Commit
    <3>4. QED
      BY <2>1, <3>1, <3>2, <3>3 DEF Settles, RecordDispatch, Park
  <2>2. AttemptTx => \E t \in Task : \E n \in DOMAIN att[t] : Settles(t, n)
    BY DEF AttemptTx, Settles, ParkCode
  <2>3. RecoveryTx => run' = run
    BY DEF RecoveryTx, RecoverNeverDispatched, RecoverOrphaned
  <2>4. QED
    BY <1>1, <2>1, <2>2, <2>3
<1>2. CASE ControlTx
  BY <1>2 DEF ControlTx, Pause, Resume, Stop, RetryTask, CancelTask, Decide, RunTerminal
<1>3. QED
  BY <1>1, <1>2

\* A pass finalizes a run only when nothing is live in it.
LEMMA FinalizeNeedsRest ==
    ASSUME IInv, Finalize
    PROVE  \A t \in Task : ~HasNonTerminalAttempt(t)
<1>1. AllTerminal \/ ~HasLiveWork
  BY DEF Finalize, FinalState
<1>2. \A t \in Task : task[t] # "running"
  BY <1>1 DEF AllTerminal, HasLiveWork, TaskTerminal, InProgress
<1>3. QED
  BY <1>2 DEF IInv, RunningHasItsAttempt

-----------------------------------------------------------------------------
(* The promise                                                              *)
(* DagLedger implements DagPromise: each transaction is one step of the     *)
(* promise or none.  A task's status depends on its row alone, so an action *)
(* that leaves a task's state and reason alone leaves its status; the rest  *)
(* is what each action does to the rows it writes.                          *)


status == [t \in Task |-> StatusOf(t)]
verdict == IF run \in RunTerminal THEN run ELSE "open"

\* The row of a task decides its status.
RowKept(t) == task'[t] = task[t] /\ reason'[t] = reason[t]

LEMMA StatusOfRow ==
    ASSUME NEW t \in Task, RowKept(t)
    PROVE  StatusOf(t)' = StatusOf(t)
BY DEF RowKept, StatusOf, Started

LEMMA StatusRange == \A t \in Task : StatusOf(t) \in Promise!Status
BY DEF StatusOf, TaskTerminal, Promise!Status, Promise!Ended

\* The effect on the statuses of an action that writes one row, or a set.
LEMMA OneStatus ==
    ASSUME NEW t \in Task, \A u \in Task \ {t} : RowKept(u)
    PROVE  status' = [status EXCEPT ![t] = StatusOf(t)']
<1>1. \A u \in Task \ {t} : StatusOf(u)' = StatusOf(u)
  BY StatusOfRow
<1>2. QED
  BY <1>1 DEF status

LEMMA SomeStatuses ==
    ASSUME NEW S \in SUBSET Task, NEW s, \A t \in S : StatusOf(t)' = s,
           \A u \in Task \ S : StatusOf(u)' = StatusOf(u)
    PROVE  status' = [t \in Task |-> IF t \in S THEN s ELSE status[t]]
BY DEF status

\* Nothing that the promise speaks of has changed.
Silent == (\A t \in Task : StatusOf(t)' = StatusOf(t)) /\ out' = out /\ verdict' = verdict

LEMMA SilentStutters == Silent => UNCHANGED Promise!promise
BY DEF Silent, verdict, Promise!promise

\* The evaluator's "ready" is what the promise allows: its completed-edges have
\* ended as well, though they may be retried later.
LEMMA ReadyIsAllowed ==
    ASSUME TypeOK, NEW t \in Task, Verdict(t, task, out) = "ready"
    PROVE  Promise!Allowed(t)
<1>1. \A i \in DOMAIN Deps[t] : Deps[t][i] \in Edge
  BY DepsAssumption
<1>2. ASSUME NEW i \in DOMAIN Deps[t] PROVE Promise!EdgeHolds(Deps[t][i])
  <2> DEFINE e == Deps[t][i]
  <2>1. e \in Edge /\ e.up \in Task /\ task[e.up] \in TaskState
    BY <1>1 DEF Edge, TypeOK
  <2>2. /\ UpstreamSatisfies(task[e.up], e.cond) = "satisfied"
        /\ EvaluateGate(e.gate, out[e.up])
    BY ReadyMeansSatisfied DEF EdgeVerdict
  <2>3. /\ e.cond = "succeeded" => task[e.up] = "succeeded"
        /\ task[e.up] \in TaskTerminal
    BY <2>1, <2>2 DEF UpstreamSatisfies, TaskState, InProgress, TaskTerminal
  <2>4. StatusOf(e.up) = task[e.up]
    BY <2>3 DEF StatusOf
  <2>5. QED
    BY <2>1, <2>2, <2>3, <2>4 DEF Promise!EdgeHolds, Promise!Ended, TaskTerminal
<1>3. QED
  BY <1>2, ReadyMeansSatisfied DEF Promise!Allowed

-----------------------------------------------------------------------------
(* The steps *)

\* A started task leaves: its attempt is settled, or its approval is decided.
LEMMA Leaves ==
    ASSUME NEW t \in Task, StatusOf(t) = "started", StatusOf(t)' # "started",
           \A u \in Task \ {t} : RowKept(u), run' = run,
           \/ out' = out
           \/ /\ StatusOf(t)' = "succeeded"
              /\ \E c \in Content \ {"absent"} : out' = [out EXCEPT ![t] = c]
    PROVE  Promise!Next
<1> DEFINE s == StatusOf(t)'
<1>1. s \in Promise!Status
  BY DEF StatusOf, TaskTerminal, Promise!Status, Promise!Ended
<1>2. status' = [status EXCEPT ![t] = s]
  BY OneStatus
<1>3. Promise!Leave(t, s)
  BY <1>2 DEF Promise!Leave, status
<1>4. QED
  BY <1>1, <1>3 DEF Promise!Next

\* Cancelling rows that had not ended is a step of the promise, or none.
LEMMA Cancels ==
    ASSUME NEW S \in SUBSET Task, \A t \in S : task[t] \notin TaskTerminal,
           UpdateTasks(S, "cancelled", "none"), out' = out, verdict' = verdict
    PROVE  Promise!Next \/ UNCHANGED Promise!promise
<1>1. \A t \in S : StatusOf(t)' = "cancelled"
  BY DEF UpdateTasks, StatusOf, TaskTerminal
<1>2. \A u \in Task \ S : StatusOf(u)' = StatusOf(u)
  BY DEF UpdateTasks, StatusOf, Started
<1>3. CASE S = {}
  BY <1>2, <1>3, SilentStutters DEF Silent
<1>4. CASE S # {}
  <2>1. \A t \in S : StatusOf(t) \notin Promise!Ended
    BY DEF StatusOf, Promise!Ended, TaskTerminal
  <2>2. status' = [t \in Task |-> IF t \in S THEN "cancelled" ELSE status[t]]
    BY <1>1, <1>2, SomeStatuses
  <2>3. Promise!Cancel(S)
    BY <1>4, <2>1, <2>2 DEF Promise!Cancel, status, verdict
  <2>4. QED
    BY <2>3 DEF Promise!Next
<1>5. QED
  BY <1>3, <1>4

LEMMA PassRefines ==
    IInv /\ PassTx => Promise!Next \/ UNCHANGED Promise!promise
<1> SUFFICES ASSUME IInv, PassTx PROVE Promise!Next \/ UNCHANGED Promise!promise
  OBVIOUS
<1> TypeOK
  BY DEF IInv
<1>1. CASE PromoteReady
  <2>1. \A t \in NowReady : StatusOf(t) = "waiting" /\ StatusOf(t)' = "started"
    BY <1>1 DEF PromoteReady, NowReady, ReadySources, IsReadySource, StatusOf, Started,
                TaskTerminal
  <2>2. \A t \in Task \ NowReady : StatusOf(t)' = StatusOf(t)
    <3> SUFFICES ASSUME NEW t \in Task \ NowReady PROVE StatusOf(t)' = StatusOf(t)
      OBVIOUS
    <3>1. CASE t \in NowBlocked
      <4>1. StatusOf(t) = "waiting"
        BY <3>1 DEF NowBlocked, ReadySources, IsReadySource, StatusOf, Started, TaskTerminal
      <4>2. task'[t] = "blocked" /\ reason'[t] = Verdict(t, task, out)
        BY <1>1, <3>1 DEF PromoteReady
      <4>3. Verdict(t, task, out) \notin ParkCode
        BY <3>1 DEF NowBlocked, BlockedCode, ParkCode
      <4>4. QED
        BY <4>1, <4>2, <4>3 DEF StatusOf, Started, TaskTerminal
    <3>2. CASE t \notin NowBlocked
      BY <1>1, <3>2, StatusOfRow DEF PromoteReady, RowKept
    <3>3. QED
      BY <3>1, <3>2
  <2>3. out' = out /\ verdict' = verdict
    BY <1>1 DEF PromoteReady, verdict
  <2>4. CASE NowReady = {}
    BY <2>2, <2>3, <2>4, SilentStutters DEF Silent
  <2>5. CASE NowReady # {}
    <3>1. NowReady \in SUBSET Task
      BY DEF NowReady, ReadySources
    <3>2. \A t \in NowReady : Promise!Allowed(t)
      BY <3>1, ReadyIsAllowed DEF NowReady
    <3>3. status' = [t \in Task |-> IF t \in NowReady THEN "started" ELSE status[t]]
      BY <2>1, <2>2, <3>1, SomeStatuses
    <3>4. Promise!Begin(NowReady)
      BY <2>1, <2>3, <2>5, <3>1, <3>2, <3>3 DEF Promise!Begin, status, verdict
    <3>5. QED
      BY <3>1, <3>4 DEF Promise!Next
  <2>6. QED
    BY <2>4, <2>5
<1>2. CASE Finalize
  <2>1. \A t \in Task : StatusOf(t)' = StatusOf(t)
    BY <1>2, StatusOfRow DEF Finalize, RowKept
  <2>2. run \notin RunTerminal /\ run' \in RunTerminal /\ run' = FinalState
    BY <1>2 DEF Finalize, FinalState, RunTerminal
  <2>3. run' = "succeeded" => /\ \A t \in Task : StatusOf(t) \in {"succeeded", "cancelled"}
                              /\ \E t \in Task : StatusOf(t) = "succeeded"
    <3> SUFFICES ASSUME run' = "succeeded"
                 PROVE  /\ \A t \in Task : StatusOf(t) \in {"succeeded", "cancelled"}
                        /\ \E t \in Task : StatusOf(t) = "succeeded"
      OBVIOUS
    <3>1. AllTerminal /\ \A t \in Task : task[t] # "failed"
      BY <2>2 DEF FinalState
    <3>2. \E t \in Task : task[t] # "cancelled"
      BY <2>2 DEF FinalState
    <3>3. QED
      BY <3>1, <3>2 DEF AllTerminal, StatusOf, TaskTerminal
  <2>4. run' = "cancelled" => \A t \in Task : StatusOf(t) # "started"
    <3>1. AllTerminal \/ ~HasLiveWork
      BY <2>2 DEF FinalState, RunTerminal
    <3>2. CASE AllTerminal
      BY <3>2 DEF AllTerminal, StatusOf, TaskTerminal
    <3>3. CASE ~HasLiveWork
      BY <3>3 DEF HasLiveWork, InProgress, IsSoftBlocked, StatusOf, Started, TaskTerminal
    <3>4. QED
      BY <3>1, <3>2, <3>3
  <2>5. Promise!Conclude(run')
    BY <1>2, <2>1, <2>2, <2>3, <2>4
       DEF Promise!Conclude, Finalize, RunTerminal
  <2>6. QED
    BY <2>2, <2>5 DEF Promise!Next, Promise!Ended, RunTerminal
<1>3. CASE DrainToPaused
  BY <1>3, StatusOfRow, SilentStutters
     DEF DrainToPaused, CanDrain, RowKept, Silent, verdict, RunTerminal
<1>4. ASSUME NEW t \in Task, ReconcileApproval(t) PROVE Promise!Next
  <2>1. StatusOf(t) = "started"
    BY <1>4 DEF ReconcileApproval, StatusOf, Started, ParkCode, TaskTerminal
  <2>2. StatusOf(t)' \in {"succeeded", "failed"}
    BY <1>4 DEF ReconcileApproval, UpdateTasks, StatusOf, TaskTerminal
  <2>3. \A u \in Task \ {t} : RowKept(u)
    BY <1>4 DEF ReconcileApproval, UpdateTasks, RowKept
  <2>4. QED
    BY <1>4, <2>1, <2>2, <2>3, Leaves DEF ReconcileApproval
<1>5. ASSUME NEW t \in Task, Claim(t) PROVE UNCHANGED Promise!promise
  <2>1. \A u \in Task : StatusOf(u)' = StatusOf(u)
    BY <1>5 DEF Claim, StatusOf, Started, TaskTerminal, TypeOK
  <2>2. QED
    BY <1>5, <2>1, SilentStutters DEF Claim, Silent, verdict
<1>6. ASSUME NEW f \in Task, Propagate(f) PROVE UNCHANGED Promise!promise
  <2>1. \A u \in Task : StatusOf(u)' = StatusOf(u)
    BY <1>6 DEF Propagate, Downstream, UpdateTasks, StatusOf, Started, TaskTerminal, ParkCode
  <2>2. QED
    BY <1>6, <2>1, SilentStutters DEF Propagate, Silent, verdict
<1>7. ASSUME NEW t \in Task, RequestApproval(t) PROVE UNCHANGED Promise!promise
  BY <1>7, StatusOfRow, SilentStutters DEF RequestApproval, RowKept, Silent, verdict
<1>8. QED
  BY <1>1, <1>2, <1>3, <1>4, <1>5, <1>6, <1>7 DEF PassTx

LEMMA AttemptRefines ==
    IInv /\ AttemptTx => Promise!Next \/ UNCHANGED Promise!promise
<1> SUFFICES ASSUME IInv, AttemptTx PROVE Promise!Next \/ UNCHANGED Promise!promise
  OBVIOUS
<1> TypeOK
  BY DEF IInv
<1> PICK t \in Task : \E n \in DOMAIN att[t] : Live(t, n) /\ Settles(t, n)
  BY DEF AttemptTx, Settles, ParkCode
<1> PICK n \in DOMAIN att[t] : Live(t, n) /\ Settles(t, n)
  OBVIOUS
<1>1. task[t] = "running" /\ StatusOf(t) = "started"
  BY DEF IInv, RunningHasItsAttempt, HasNonTerminalAttempt, StatusOf, Started, TaskTerminal
<1>2. CASE RecordDispatch(t, n)
  BY <1>2, StatusOfRow, SilentStutters DEF RecordDispatch, RowKept, Silent, verdict
<1>3. ASSUME NEW code \in ParkCode, Park(t, n, code) PROVE UNCHANGED Promise!promise
  <2>1. StatusOf(t)' = "started"
    BY <1>1, <1>3 DEF Park, UpdateTasks, StatusOf, Started, TaskTerminal
  <2>2. \A u \in Task \ {t} : StatusOf(u)' = StatusOf(u)
    BY <1>1, <1>3, StatusOfRow DEF Park, UpdateTasks, RowKept
  <2>3. QED
    BY <1>1, <1>3, <2>1, <2>2, SilentStutters DEF Park, Silent, verdict
<1>4. ASSUME NEW bill \in BOOLEAN, CommitRetry(t, n, bill) PROVE Promise!Next
  <2>1. StatusOf(t)' = "waiting"
    BY <1>4 DEF CommitRetry, StatusOf, Started, TaskTerminal, TypeOK
  <2>2. \A u \in Task \ {t} : RowKept(u)
    BY <1>4 DEF CommitRetry, RowKept, TypeOK
  <2>3. QED
    BY <1>1, <1>4, <2>1, <2>2, Leaves DEF CommitRetry
<1>5. ASSUME NEW target \in TaskTerminal, CommitTerminal(t, n, target) PROVE Promise!Next
  <2>1. StatusOf(t)' = target /\ target # "started"
    BY <1>5 DEF CommitTerminal, StatusOf, TaskTerminal, TypeOK
  <2>2. \A u \in Task \ {t} : RowKept(u)
    BY <1>5 DEF CommitTerminal, RowKept, TypeOK
  <2>3. \/ out' = out
        \/ /\ target = "succeeded"
           /\ \E c \in Content \ {"absent"} : out' = [out EXCEPT ![t] = c]
    BY <1>5, ProducesAssumption DEF CommitTerminal
  <2>4. run' = run
    BY <1>5 DEF CommitTerminal
  <2>5. QED
    BY <1>1, <2>1, <2>2, <2>3, <2>4, Leaves
<1>6. ASSUME NEW result \in FailureType \cup {"completed", "aborted"}, Commit(t, n, result)
      PROVE  Promise!Next
  BY <1>6, <1>4, <1>5 DEF Commit, TaskTerminal
<1>7. QED
  BY <1>2, <1>3, <1>4, <1>5, <1>6 DEF Settles, TaskTerminal

LEMMA ControlRefines ==
    IInv /\ ControlTx => Promise!Next \/ UNCHANGED Promise!promise
<1> SUFFICES ASSUME IInv, ControlTx PROVE Promise!Next \/ UNCHANGED Promise!promise
  OBVIOUS
<1> TypeOK
  BY DEF IInv
<1>1. CASE Pause \/ Resume
  BY <1>1, StatusOfRow, SilentStutters
     DEF Pause, Resume, RowKept, Silent, verdict, RunTerminal
<1>2. CASE Stop
  <2> DEFINE S == {t \in Task : task[t] # "running" /\ task[t] \notin TaskTerminal}
  <2>1. UpdateTasks(S, "cancelled", "none") /\ out' = out /\ verdict' = verdict
    BY <1>2 DEF Stop, verdict, RunTerminal
  <2>2. S \in SUBSET Task /\ \A t \in S : task[t] \notin TaskTerminal
    OBVIOUS
  <2> HIDE DEF S
  <2>3. QED
    BY <2>1, <2>2, Cancels
<1>3. ASSUME NEW t \in Task, RetryTask(t) PROVE Promise!Next
  <2>1. StatusOf(t) \notin {"succeeded", "cancelled"}
    BY <1>3 DEF RetryTask, CanRetryTask, StatusOf, TaskTerminal
  <2>2. StatusOf(t)' = "waiting"
    BY <1>3 DEF RetryTask, StatusOf, Started, TaskTerminal, TypeOK
  <2>3. status' = [status EXCEPT ![t] = "waiting"]
    BY <1>3, <2>2, OneStatus DEF RetryTask, RowKept, TypeOK
  <2>4. verdict \in {"open", "failed"} /\ verdict' = "open" /\ out' = out
    BY <1>3 DEF RetryTask, TaskControlAllowed, verdict, RunTerminal, TypeOK, RunState
  <2>5. Promise!Retry(t)
    BY <2>1, <2>3, <2>4 DEF Promise!Retry, status, verdict
  <2>6. QED
    BY <2>5 DEF Promise!Next
<1>4. ASSUME NEW t \in Task, CancelTask(t)
      PROVE  Promise!Next \/ UNCHANGED Promise!promise
  BY <1>4, Cancels DEF CancelTask, verdict, TaskTerminal
<1>5. ASSUME NEW t \in Task, NEW d \in {"approved", "rejected"}, Decide(t, d)
      PROVE  UNCHANGED Promise!promise
  BY <1>5, StatusOfRow, SilentStutters DEF Decide, RowKept, Silent, verdict
<1>6. QED
  BY <1>1, <1>2, <1>3, <1>4, <1>5 DEF ControlTx

LEMMA RecoveryRefines ==
    IInv /\ RecoveryTx => Promise!Next \/ UNCHANGED Promise!promise
<1> SUFFICES ASSUME IInv, RecoveryTx PROVE Promise!Next
  OBVIOUS
<1> TypeOK
  BY DEF IInv
<1> PICK t \in Task : \E n \in DOMAIN att[t] :
      RecoverNeverDispatched(t, n) \/ RecoverOrphaned(t, n)
  BY DEF RecoveryTx
<1> PICK n \in DOMAIN att[t] : RecoverNeverDispatched(t, n) \/ RecoverOrphaned(t, n)
  OBVIOUS
<1>1. task[t] = "running"
  BY DEF RecoverNeverDispatched, RecoverOrphaned, IInv, RunningHasItsAttempt,
         HasNonTerminalAttempt, Live, NonTerminal
<1>2. StatusOf(t) = "started"
  BY <1>1 DEF StatusOf, Started, TaskTerminal
<1>3. StatusOf(t)' \in {"waiting", "failed"} /\ \A u \in Task \ {t} : RowKept(u)
  BY DEF RecoverNeverDispatched, RecoverOrphaned, StatusOf, Started, TaskTerminal, RowKept, TypeOK
<1>4. run' = run /\ out' = out
  BY DEF RecoverNeverDispatched, RecoverOrphaned
<1>5. QED
  BY <1>2, <1>3, <1>4, Leaves

LEMMA StepRefines ==
    IInv /\ [LedgerNext]_ledger => [Promise!Next]_Promise!promise
<1> SUFFICES ASSUME IInv, [LedgerNext]_ledger
             PROVE  Promise!Next \/ UNCHANGED Promise!promise
  OBVIOUS
<1>1. CASE ParkBroken
  <2>1. \A t \in Task : StatusOf(t)' = StatusOf(t)
    BY <1>1, StatusOfRow DEF ParkBroken, RowKept
  <2>2. Promise!Conclude("failed")
    BY <1>1, <2>1 DEF ParkBroken, Promise!Conclude, RunTerminal
  <2>3. QED
    BY <2>2 DEF Promise!Next, Promise!Ended
<1>2. ASSUME NEW t \in Task, BackoffElapses(t) PROVE UNCHANGED Promise!promise
  BY <1>2, StatusOfRow, SilentStutters DEF BackoffElapses, RowKept, Silent, verdict
<1>3. CASE UNCHANGED ledger
  BY <1>3, StatusOfRow, SilentStutters DEF ledger, RowKept, Silent, verdict
<1>4. QED
  BY <1>1, <1>2, <1>3, PassRefines, AttemptRefines, ControlRefines, RecoveryRefines
     DEF LedgerNext

\* The ledger implements the promise: in whatever order passes, attempts,
\* controls and recoveries commit, a task starts only when the plan allows it,
\* outputs come with success, and the verdict fits the tasks.
THEOREM LedgerKeepsPromise == LedgerSpec => PromiseKept
<1>1. LedgerInit => Promise!Init
  BY DEF LedgerInit, Promise!Init, StatusOf, Started, TaskTerminal, RunTerminal
<1>2. QED
  BY <1>1, StepRefines, Inductive, PTL DEF LedgerSpec, PromiseKept, Promise!Spec
=============================================================================
