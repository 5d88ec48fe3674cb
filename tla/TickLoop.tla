------------------------------ MODULE TickLoop -------------------------------
(***************************************************************************)
(* One dag_tick call: tick() of lib/engine.js repeats oneRound() and, when  *)
(* a round made no progress, waits in boundedRace() for the children of the *)
(* run, on a settle budget for the whole call.  What a round commits is     *)
(* DagEngine's subject; here a round only promotes, starts and harvests,    *)
(* and the question is when the call waits, for how long, and what it       *)
(* leaves behind when it returns.                                           *)
(*                                                                          *)
(* A child settles at any moment, or never.  pump is the autoTick timer     *)
(* (off by default), which harvests and promotes in the gaps between two    *)
(* steps of the call but never starts a child.                              *)
(***************************************************************************)
EXTENDS Naturals, FiniteSets

CONSTANTS
    Task,       \* the run's tasks, one child each
    Needs,      \* task -> the tasks that must be over before it starts
    Slots,      \* the run's admission slots
    MaxRounds,  \* options.maxRounds after the clamp
    SettleMs,   \* options.settleMs after the clamp, in units of time
    Jitter,     \* bound: units by which a timer may fire early or late, as Date.now sees it
    PumpModes   \* whether the autoTick timer may be on, or off, or either

ASSUME TaskAssumption == IsFiniteSet(Task)
ASSUME NeedsAssumption == Needs \in [Task -> SUBSET Task]
\* The validator refuses a cycle (SpecGraph's AcceptedIsAcyclic).
ASSUME AcyclicAssumption ==
    \A S \in SUBSET Task : S # {} => \E t \in S : \A v \in S : t \notin Needs[v]
ASSUME BoundAssumption ==
    /\ Slots \in Nat \ {0} /\ MaxRounds \in Nat \ {0}
    /\ SettleMs \in Nat /\ Jitter \in Nat /\ PumpModes \in SUBSET BOOLEAN

VARIABLES
    pump,       \* whether the autoTick timer is on
    pc,         \* the next step of the call: a step of the round, "judge", "wait", "done"
    rounds,     \* rounds
    budget,     \* settleBudget; an overrun is kept at 0, which the code treats alike
    streak,     \* noSettleStreak
    progress,   \* whether this round promoted, started or harvested anything
    child,      \* task -> "pending", "ready", "running", "settled" or "over"
    probed,     \* the children whose promise reflect.js has a record for
    awaited,    \* the children boundedRace was called with
    waited,     \* time spent in the current wait
    spent,      \* history: time spent in all waits of the call
    seen        \* history: the children settled when the last wait ended

callVars == <<pump, pc, rounds, budget, streak, progress, awaited, waited, spent, seen>>
vars == <<callVars, child, probed>>

Step == {"start", "harvest", "restart", "reharvest", "judge", "wait", "done"}
InFlight == {t \in Task : child[t] \in {"running", "settled"}}
Settled == {t \in Task : child[t] = "settled"}

TypeOK ==
    /\ pc \in Step
    /\ rounds \in Nat /\ budget \in 0..SettleMs /\ streak \in 0..2
    /\ progress \in BOOLEAN
    /\ child \in [Task -> {"pending", "ready", "running", "settled", "over"}]
    /\ probed \subseteq Task /\ awaited \subseteq Task /\ seen \subseteq Task
    /\ waited \in 0..(SettleMs + Jitter) /\ spent \in Nat

Init ==
    /\ pc = "start" /\ rounds = 1 /\ budget = SettleMs /\ streak = 0
    /\ progress = FALSE /\ waited = 0 /\ spent = 0
    /\ awaited = {} /\ probed = {} /\ seen = {}
    /\ child = [t \in Task |-> "pending"] /\ pump \in PumpModes

-----------------------------------------------------------------------------
(* The round *)

\* Mutant: only the tasks without dependencies are re-evaluated.
Promotable_Stale == {t \in Task : child[t] = "pending" /\ Needs[t] = {}}

Promotable == {t \in Task : child[t] = "pending" /\ \A d \in Needs[t] : child[d] = "over"}

\* promoteReady and dispatchLoop: everything promotable becomes ready, and as
\* many ready tasks as there are free slots are started.
StartReady(next) ==
    \E S \in SUBSET (Promotable \cup {t \in Task : child[t] = "ready"}) :
        LET ready == Promotable \cup {t \in Task : child[t] = "ready"}
            free == Slots - Cardinality(InFlight)
        IN  /\ Cardinality(S) = IF Cardinality(ready) < free THEN Cardinality(ready) ELSE free
            /\ child' = [t \in Task |-> IF t \in S THEN "running"
                                        ELSE IF t \in ready THEN "ready" ELSE child[t]]
            /\ progress' = (progress \/ Promotable # {} \/ S # {})
            /\ pc' = next
            /\ UNCHANGED <<pump, rounds, budget, streak, probed, awaited, waited, spent, seen>>

\* promiseSettledSync answers "pending" on first contact, settled or not.
Harvestable == Settled \cap probed

Harvest(next) ==
    /\ child' = [t \in Task |-> IF t \in Harvestable THEN "over" ELSE child[t]]
    /\ probed' = probed \cup InFlight
    /\ progress' = (progress \/ Harvestable # {})
    /\ pc' = next
    /\ UNCHANGED <<pump, rounds, budget, streak, awaited, waited, spent, seen>>

\* oneRound: promote and start, harvest, then once more for what the harvest
\* made ready.
Round ==
    \/ pc = "start" /\ StartReady("harvest")
    \/ pc = "harvest" /\ Harvest("restart")
    \/ pc = "restart" /\ IF Promotable # {} THEN StartReady("reharvest")
                         ELSE pc' = "judge" /\ UNCHANGED <<pump, rounds, budget, streak, progress,
                                       child, probed, awaited, waited, spent, seen>>
    \/ pc = "reharvest" /\ Harvest("judge")

-----------------------------------------------------------------------------
(* The loop around it *)

RunFinished == \A t \in Task : child[t] = "over"

LastRound == rounds >= MaxRounds

NextRound == pc' = "start" /\ rounds' = rounds + 1 /\ progress' = FALSE
Return == pc' = "done" /\ UNCHANGED <<rounds, progress>>

\* The quiescent stop: no progress and nothing in flight.
Quiescent == ~progress /\ InFlight = {}

\* No budget left, or two waits without a harvest in a row.
GiveUp == budget = 0 \/ streak >= 2

Judge ==
    /\ pc = "judge"
    /\ \/ /\ RunFinished \/ Quiescent \/ (~progress /\ GiveUp) \/ (progress /\ LastRound)
          /\ Return
          /\ streak' = IF progress /\ ~RunFinished THEN 0 ELSE streak
          /\ UNCHANGED <<awaited, waited, probed>>
       \/ /\ ~RunFinished /\ progress /\ ~LastRound
          /\ NextRound
          /\ streak' = 0
          /\ UNCHANGED <<awaited, waited, probed>>
       \/ /\ ~RunFinished /\ ~progress /\ ~Quiescent /\ ~GiveUp
          /\ pc' = "wait" /\ awaited' = InFlight /\ waited' = 0
          /\ probed' = probed \cup InFlight
          /\ UNCHANGED <<rounds, progress, streak>>
    /\ UNCHANGED <<pump, budget, spent, seen, child>>

\* boundedRace races the timer against all of its promises together.
AllSettled == \A t \in awaited : child[t] \in {"settled", "over"}

\* Mutant: the race has no timer.
TimerDue_Never == FALSE

TimerDue == waited + Jitter >= budget

TimePasses ==
    /\ pc = "wait" /\ ~AllSettled /\ waited < budget + Jitter
    /\ waited' = waited + 1 /\ spent' = spent + 1
    /\ UNCHANGED <<pump, pc, rounds, budget, streak, progress, awaited, seen, child, probed>>

\* Mutant: every wait has the whole budget again.
Left_Reset(ms) == SettleMs

\* The budget is used up across the rounds and never reset.
Left(ms) == IF ms >= budget THEN 0 ELSE budget - ms

\* Mutant: a wait that used the budget up ends the call at once.
AfterWait_Spent == IF LastRound \/ Left(waited) = 0 THEN Return ELSE NextRound

AfterWait == IF LastRound THEN Return ELSE NextRound

\* anySettled is read from promises reflect.js has no record for yet, so it is
\* FALSE whatever settled and the streak always grows; only a harvest resets it.
WaitEnds ==
    /\ pc = "wait" /\ (AllSettled \/ TimerDue)
    /\ budget' = Left(waited)
    /\ streak' = streak + 1
    /\ seen' = Settled
    /\ AfterWait
    /\ UNCHANGED <<pump, awaited, waited, spent, child, probed>>

-----------------------------------------------------------------------------
(* The environment *)

ChildSettles(t) ==
    /\ child[t] = "running"
    /\ child' = [child EXCEPT ![t] = "settled"]
    /\ UNCHANGED <<callVars, probed>>

\* A pass of the timer pump, between two steps of the call.
AutoTick ==
    /\ pump /\ pc # "done"
    /\ LET over == [t \in Task |-> IF t \in Harvestable THEN "over" ELSE child[t]] IN
       child' = [t \in Task |->
                    IF child[t] = "pending" /\ \A d \in Needs[t] : over[d] = "over"
                    THEN "ready" ELSE over[t]]
    /\ probed' = probed \cup InFlight
    /\ UNCHANGED callVars

Call == Round \/ Judge \/ TimePasses \/ WaitEnds
Next == Call \/ AutoTick \/ \E t \in Task : ChildSettles(t)
Spec == Init /\ [][Next]_vars

\* The event loop runs the call's next step and its timer; no child owes an end.
FairSpec == Spec /\ WF_vars(Call)

-----------------------------------------------------------------------------
(* Properties *)

\* The whole call blocks for settleMs at most, plus what a timer fires
\* late, however many rounds and waits it takes and whatever settles meanwhile.
WaitIsBounded == spent <= SettleMs + Jitter

\* The rounds are bounded too, progress or not.
RoundsAreBounded == rounds <= MaxRounds

\* A call that returns with nothing in flight has finished the run, when the
\* timer does not work on it too, or else its rounds are used up and a task that
\* lacked a slot when they were is ready: it never gives up on work it could
\* still start, and a graph that is left always has somewhere to go on.
QuiescentMeansIdle ==
    pc = "done" /\ ~pump /\ InFlight = {} =>
        RunFinished \/ (LastRound /\ \E t \in Task : child[t] = "ready")

\* A wait is always followed by a round when there is one left: a child that
\* settled while the call waited is harvested by that same call.
WaitIsHarvested ==
    pc = "done" /\ ~LastRound => seen \cap Settled = {}

\* The call returns even if a child hangs for ever.
CallReturns == <>(pc = "done")
=============================================================================
