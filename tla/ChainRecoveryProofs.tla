------------------------ MODULE ChainRecoveryProofs -------------------------
(***************************************************************************)
(* Restarts and broken event chains, proved for every graph and policy and  *)
(* any number of crashes.                                                   *)
(*                                                                          *)
(* A run gets its verdict from a pass only when no task is running, and a   *)
(* running task is one with a live attempt (DagLedgerProofs); so a finished *)
(* run has live attempts only if a boot parked it for its chain.  A boot    *)
(* ends when the run is finished or nothing is live, which leaves no orphan *)
(* but those of a parked run; and afterwards what becomes live is claimed   *)
(* by the process itself.                                                   *)
(***************************************************************************)
EXTENDS ChainRecovery, DagLedgerProofs

NothingLive == \A t \in Task : ~HasNonTerminalAttempt(t)
Parked == broken /\ parked

BrokenIsParked == phase = "classify" /\ broken => run \in RunTerminal
FinishedIsSettled == run \in RunTerminal => NothingLive \/ Parked
UpHasNoOrphan == phase = "up" => Orphans = {} \/ Parked

BootInv == IInv /\ BrokenIsParked /\ FinishedIsSettled /\ UpHasNoOrphan

-----------------------------------------------------------------------------
(* What the ledger's transactions do to a run's verdict and its attempts *)

\* Every step of the process is a transaction of the ledger or leaves it alone.
LEMMA ChainImplementsLedger == [ChainNext]_vars => [LedgerNext]_ledger
BY DEF ChainNext, PassWrites, AttemptWrites, ToolWrites, TimePasses, ChainBreaks, Crash,
   VerifyChain, Classify, Booted, LedgerNext, vars

\* A pass that finishes a run finds nothing live in it, and leaves it so.
LEMMA VerdictNeedsRest ==
    ASSUME IInv, PassTx, run \notin RunTerminal, run' \in RunTerminal
    PROVE  NothingLive'
<1>1. Finalize
  BY DEF PassTx, PromoteReady, DrainToPaused, ReconcileApproval, Claim, Propagate,
     RequestApproval, RunTerminal
<1>2. NothingLive
  BY <1>1, FinalizeNeedsRest DEF NothingLive
<1>3. QED
  BY <1>1, <1>2 DEF Finalize, NothingLive, HasNonTerminalAttempt, Live

-----------------------------------------------------------------------------
(* The boot *)

LEMMA BootInit == ChainInit => BootInv
<1> SUFFICES ASSUME ChainInit PROVE BootInv
  OBVIOUS
<1>1. LedgerInit /\ phase = "up" /\ run = "running" /\ \A t \in Task : att[t] = <<>>
  BY DEF ChainInit, LedgerInit
<1>2. IInv
  <2>1. TypeOK
    BY <1>1 DEF LedgerInit, TypeOK, RunState, Intent, TaskState, ApprovalState, Content
  <2>2. RunningHasItsAttempt
    BY <1>1 DEF LedgerInit, RunningHasItsAttempt, HasNonTerminalAttempt, Live
  <2>3. QED
    BY <2>1, <2>2 DEF IInv
<1>3. Orphans = {}
  BY <1>1 DEF Orphans, Attempt, Live
<1>4. QED
  BY <1>1, <1>2, <1>3
     DEF BootInv, BrokenIsParked, FinishedIsSettled, UpHasNoOrphan, RunTerminal

\* A process that is up makes no orphan: what a pass claims it owns, and nothing
\* else becomes live.
LEMMA UpKeeps ==
    ASSUME BootInv, PassWrites \/ AttemptWrites \/ ToolWrites \/ TimePasses
    PROVE  BootInv'
<1>1. phase = "up" /\ phase' = "up" /\ broken' = broken /\ parked' = parked
  BY DEF PassWrites, AttemptWrites, ToolWrites, TimePasses, memory
<1>2. [LedgerNext]_ledger
  BY DEF PassWrites, AttemptWrites, ToolWrites, TimePasses, LedgerNext
<1>3. IInv'
  BY <1>2, TypeStep, RunningStep DEF BootInv, IInv
<1>4. Orphans' \subseteq Orphans
  <2> SUFFICES ASSUME NEW x \in Attempt, Live(x[1], x[2])', x \notin owned'
               PROVE  x \in Orphans
    BY DEF Orphans, Attempt
  <2>1. x[1] \in Task /\ x[2] \in DOMAIN att'[x[1]] /\ owned \subseteq owned'
    BY DEF Attempt, Live, PassWrites, AttemptWrites, ToolWrites, TimePasses, memory
  <2>2. x[2] \in DOMAIN att[x[1]]
    <3>1. CASE PassWrites
      BY <2>1, <3>1 DEF PassWrites, NewAttempts
    <3>2. CASE AttemptWrites \/ ToolWrites
      BY <2>1, <3>2, AttemptsStay DEF AttemptWrites, ToolWrites, BootInv, IInv
    <3>3. CASE TimePasses
      BY <2>1, <3>3 DEF TimePasses, BackoffElapses
    <3>4. QED
      BY <3>1, <3>2, <3>3
  <2>3. QED
    BY <1>2, <2>1, <2>2, LiveWasLive DEF BootInv, Orphans
<1>5. FinishedIsSettled'
  <2> SUFFICES ASSUME run' \in RunTerminal PROVE NothingLive' \/ Parked
    BY <1>1 DEF FinishedIsSettled, Parked
  <2>1. CASE PassWrites
    BY <2>1, VerdictNeedsRest DEF PassWrites, BootInv
  <2>2. CASE AttemptWrites \/ ToolWrites
    <3>1. NothingLive \/ Parked
      BY <2>2, NoVerdict DEF AttemptWrites, ToolWrites, BootInv, FinishedIsSettled
    <3>2. NothingLive => NothingLive'
      BY <1>2, <2>2, AttemptsStay, LiveWasLive
         DEF AttemptWrites, ToolWrites, BootInv, IInv, NothingLive, HasNonTerminalAttempt
    <3>3. QED
      BY <3>1, <3>2
  <2>3. CASE TimePasses
    BY <2>3 DEF TimePasses, BackoffElapses, BootInv, FinishedIsSettled, NothingLive,
       HasNonTerminalAttempt, Live
  <2>4. QED
    BY <2>1, <2>2, <2>3
<1>6. QED
  BY <1>1, <1>3, <1>4, <1>5 DEF BootInv, BrokenIsParked, UpHasNoOrphan, Parked

\* A boot parks the broken run before it looks at attempts, and comes up when
\* nothing is left to settle.
LEMMA BootKeeps ==
    ASSUME BootInv, \/ ChainBreaks \/ Crash \/ VerifyChain \/ Classify \/ Booted
                    \/ UNCHANGED vars
    PROVE  BootInv'
<1>1. [LedgerNext]_ledger
  BY ChainImplementsLedger DEF ChainNext
<1>2. IInv'
  BY <1>1, TypeStep, RunningStep DEF BootInv, IInv
<1>3. (UNCHANGED ledger) => (NothingLive => NothingLive')
  BY DEF ledger, NothingLive, HasNonTerminalAttempt, Live
<1>4. CASE ChainBreaks \/ Crash
  BY <1>2, <1>3, <1>4 DEF ChainBreaks, Crash, ledger, BootInv, BrokenIsParked, FinishedIsSettled,
     UpHasNoOrphan, Parked
<1>5. CASE VerifyChain
  <2>1. phase' = "classify" /\ broken' = broken
    BY <1>5 DEF VerifyChain
  <2>2. CASE broken /\ run \notin RunTerminal
    BY <1>2, <1>5, <2>1, <2>2 DEF VerifyChain, ParkBroken, BootInv, BrokenIsParked,
       FinishedIsSettled, UpHasNoOrphan, Parked, RunTerminal
  <2>3. CASE ~(broken /\ run \notin RunTerminal)
    BY <1>2, <1>3, <1>5, <2>1, <2>3 DEF VerifyChain, ledger, BootInv, BrokenIsParked,
       FinishedIsSettled, UpHasNoOrphan, Parked
  <2>4. QED
    BY <2>2, <2>3
<1>6. CASE Classify
  <2>1. run \notin RunTerminal /\ phase' = "classify" /\ broken' = broken
    BY <1>6 DEF Classify, ToClassify, memory
  <2>2. run' \notin RunTerminal
    BY <1>6, <2>1, NoVerdict DEF Classify
  <2>3. ~broken
    BY <1>6, <2>1 DEF Classify, BootInv, BrokenIsParked
  <2>4. QED
    BY <1>2, <2>1, <2>2, <2>3 DEF BootInv, BrokenIsParked, FinishedIsSettled, UpHasNoOrphan
<1>7. CASE Booted
  <2>1. UNCHANGED <<ledger, broken, owned, parked>> /\ phase' = "up"
    BY <1>7 DEF Booted
  <2>2. NothingLive \/ Parked
    BY <1>7 DEF Booted, ToClassify, BootInv, FinishedIsSettled, NothingLive
  <2>3. NothingLive => Orphans' = {}
    BY <1>3, <2>1 DEF NothingLive, HasNonTerminalAttempt, Orphans, Attempt, Live
  <2>4. QED
    BY <1>2, <1>3, <2>1, <2>2, <2>3 DEF ledger, BootInv, BrokenIsParked, FinishedIsSettled,
       UpHasNoOrphan, Parked
<1>8. CASE UNCHANGED vars
  <2>1. UNCHANGED ledger /\ UNCHANGED memory
    BY <1>8 DEF vars
  <2>2. Orphans' = Orphans
    BY <2>1 DEF ledger, memory, Orphans, Live
  <2>3. QED
    BY <1>2, <1>3, <2>1, <2>2 DEF ledger, memory, BootInv, BrokenIsParked, FinishedIsSettled,
       UpHasNoOrphan, Parked
<1>9. QED
  BY <1>4, <1>5, <1>6, <1>7, <1>8

-----------------------------------------------------------------------------

\* The accounts of orphans and parks hold across any number of restarts.
THEOREM BootInvariant == ChainSpec => []BootInv
<1>1. BootInv /\ [ChainNext]_vars => BootInv'
  BY UpKeeps, BootKeeps DEF ChainNext
<1>2. QED
  BY BootInit, <1>1, PTL DEF ChainSpec

\* reconcile leaves no attempt behind that no process executes, but those of a
\* run parked for its broken chain, wherever the host died.
THEOREM OrphansAreSettled == ChainSpec => []NoOrphanAfterBoot
<1>1. BootInv => NoOrphanAfterBoot
  BY DEF BootInv, UpHasNoOrphan, Parked, NoOrphanAfterBoot
<1>2. QED
  BY BootInvariant, <1>1, PTL

\* A boot that finds the chain of an unfinished run broken writes none of its
\* tasks, attempts, outputs and approvals, and does not let the run through.
THEOREM BrokenRunIsLeftAlone == ChainSpec => BrokenIsQuarantined
<1>1. BootInv /\ [ChainNext]_vars =>
        (BootOfBrokenRun =>
            (UNCHANGED <<task, reason, att, out, appr>>
             /\ (phase' = "up" => run \in RunTerminal)))
  <2> SUFFICES ASSUME BootInv, [ChainNext]_vars, BootOfBrokenRun
               PROVE  UNCHANGED <<task, reason, att, out, appr>>
                      /\ (phase' = "up" => run \in RunTerminal)
    OBVIOUS
  <2>1. phase \in {"chain", "classify"} /\ broken
    BY DEF BootOfBrokenRun
  <2>2. CASE Crash \/ UNCHANGED vars
    BY <2>1, <2>2 DEF Crash, vars, memory, ledger
  <2>3. CASE VerifyChain
    BY <2>3 DEF VerifyChain, ParkBroken, ledger
  <2>4. CASE Classify
    BY <2>1, <2>4 DEF Classify, ToClassify, BootInv, BrokenIsParked
  <2>5. CASE Booted
    BY <2>1, <2>5 DEF Booted, BootInv, BrokenIsParked, ledger
  <2>6. QED
    BY <2>1, <2>2, <2>3, <2>4, <2>5
       DEF ChainNext, PassWrites, AttemptWrites, ToolWrites, TimePasses, ChainBreaks
<1>2. QED
  BY BootInvariant, <1>1, PTL DEF ChainSpec, BrokenIsQuarantined

\* The process across restarts implements the ledger, so all that is proved of
\* the ledger holds of it, the promise of DagPromise included.
THEOREM RestartsKeepTheLedger == ChainSpec => LedgerSpec
<1>1. ChainInit => LedgerInit
  BY DEF ChainInit
<1>2. QED
  BY <1>1, ChainImplementsLedger, PTL DEF ChainSpec, LedgerSpec
=============================================================================
