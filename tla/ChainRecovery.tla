--------------------------- MODULE ChainRecovery ----------------------------
(***************************************************************************)
(* The ledger across host restarts when the run's event chain may have      *)
(* been damaged: reconcile of lib/recovery.js verifies the chain, parks an  *)
(* unfinished run whose chain is broken, and settles the attempts of the    *)
(* others.  Between two boots the process issues DagLedger's transactions;  *)
(* it settles only the attempts it claimed itself, as their executors are   *)
(* gone with the process that started them.  The order of a pass is left    *)
(* out (DagEngine has it): a pass may write whenever the run is unfinished  *)
(* and claims while admission is open.                                      *)
(***************************************************************************)
EXTENDS DagLedger

VARIABLES
    phase,      \* "chain" and "classify" while reconcile runs, then "up"
    broken,     \* whether verifyChain fails
    owned,      \* the attempts this process claimed
    parked      \* whether a boot has parked the run for its chain

memory == <<phase, broken, owned, parked>>
vars == <<ledger, memory>>

Attempt == Task \X (1 .. MaxOrdinal)

ChainInit ==
    /\ LedgerInit
    /\ phase = "up" /\ broken = FALSE /\ owned = {}
    /\ parked = FALSE

-----------------------------------------------------------------------------
(* A process that is up *)

NewAttempts == {x \in Attempt : x[2] \in DOMAIN att'[x[1]] /\ x[2] \notin DOMAIN att[x[1]]}

\* A pass of an unfinished run; what it claims is its own.
PassWrites ==
    /\ phase = "up" /\ run \notin RunTerminal
    /\ PassTx
    /\ AdmissionClosed => NewAttempts = {}
    /\ owned' = owned \cup NewAttempts
    /\ UNCHANGED <<phase, broken, parked>>

Orphans == {x \in Attempt : Live(x[1], x[2])} \ owned

\* An attempt of this process is recorded or settled.
AttemptWrites ==
    /\ phase = "up"
    /\ AttemptTx
    /\ \A x \in Orphans : att'[x[1]][x[2]] = att[x[1]][x[2]]
    /\ UNCHANGED memory

ToolWrites == phase = "up" /\ ControlTx /\ UNCHANGED memory

TimePasses == phase = "up" /\ (\E t \in Task : BackoffElapses(t)) /\ UNCHANGED memory

\* The log is damaged from outside, in a way that verifyChain notices.  Nothing
\* reads the chain before the next boot, so the damage is placed there.
ChainBreaks ==
    /\ phase = "chain" /\ ~broken
    /\ broken' = TRUE
    /\ UNCHANGED <<ledger, phase, owned, parked>>

Crash ==
    /\ phase' = "chain" /\ owned' = {}
    /\ UNCHANGED <<ledger, broken, parked>>

-----------------------------------------------------------------------------
(* reconcile *)

\* Step 1: a finished run is only reported, another one is parked.
VerifyChain ==
    /\ phase = "chain"
    /\ IF broken /\ run \notin RunTerminal
       THEN ParkBroken /\ parked' = TRUE
       ELSE UNCHANGED <<ledger, parked>>
    /\ phase' = "classify"
    /\ UNCHANGED <<broken, owned>>

\* Mutant: the runs are those that were listed before the chains were verified.
ToClassify_Stale == \E t \in Task : HasNonTerminalAttempt(t)

\* Mutant: only attempts in the state the older row shape used are looked for.
ToClassify_ClaimedOnly ==
    run \notin RunTerminal /\ \E t \in Task : \E n \in DOMAIN att[t] : att[t][n] = "claimed"

\* Step 2 takes its runs after step 1: a parked one is finished.
ToClassify == run \notin RunTerminal /\ \E t \in Task : HasNonTerminalAttempt(t)

\* One transaction per live attempt.
Classify ==
    /\ phase = "classify" /\ ToClassify
    /\ RecoveryTx
    /\ UNCHANGED memory

Booted ==
    /\ phase = "classify" /\ ~ToClassify
    /\ phase' = "up"
    /\ UNCHANGED <<ledger, broken, owned, parked>>

ChainNext ==
    \/ PassWrites
    \/ AttemptWrites
    \/ ToolWrites
    \/ TimePasses
    \/ ChainBreaks
    \/ Crash
    \/ VerifyChain
    \/ Classify
    \/ Booted

ChainSpec == ChainInit /\ [][ChainNext]_vars

-----------------------------------------------------------------------------
(* Properties *)

\* An attempt that outlived its process is settled by the next boot, so every
\* live attempt is one that this process is executing; only a run whose chain
\* is broken may keep others, and only if it has been parked.
NoOrphanAfterBoot == phase = "up" /\ Orphans # {} => broken /\ parked

BootOfBrokenRun == phase \in {"chain", "classify"} /\ broken

\* Nothing is derived from a log that does not verify: the boot that finds an
\* unfinished run's chain broken changes no task, attempt, output or approval
\* of it, and lets no unfinished run through.
BrokenIsQuarantined ==
    [][BootOfBrokenRun =>
        (UNCHANGED <<task, reason, att, out, appr>>
         /\ (phase' = "up" => run \in RunTerminal))]_vars
=============================================================================
