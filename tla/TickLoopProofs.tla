-------------------------- MODULE TickLoopProofs ---------------------------
(***************************************************************************)
(* The bounds of a dag_tick call, proved for every graph, number of slots,  *)
(* round limit, settle budget and timer jitter.                             *)
(*                                                                          *)
(* Between waits the time spent and the budget left make up the settle      *)
(* budget; a wait is entered only with a budget left and takes what it      *)
(* spends from it, so only the last wait can overrun, by the jitter.  The   *)
(* children seen settled at the end of a wait were probed before it, hence  *)
(* the first harvest of the next round takes them all.                      *)
(***************************************************************************)
EXTENDS TickLoop, FiniteSetTheorems, TLAPS

BudgetAccounted ==
    /\ rounds <= MaxRounds
    /\ pc # "wait" /\ budget > 0 => spent + budget <= SettleMs
    /\ pc # "wait" /\ budget = 0 => spent <= SettleMs + Jitter
    /\ pc = "wait" =>
          /\ budget > 0 /\ streak < 2
          /\ waited <= budget + Jitter /\ spent + budget <= SettleMs + waited

Over(t) == child[t] = "over"

SeenIsTaken ==
    /\ pc = "wait" => InFlight \subseteq probed
    /\ pc \in {"start", "harvest"} =>
          \A t \in seen : Over(t) \/ (child[t] = "settled" /\ t \in probed)
    /\ pc \in {"restart", "reharvest", "judge", "wait"} => \A t \in seen : Over(t)
    /\ pc = "done" /\ ~LastRound => \A t \in seen : Over(t)

TickInv == TypeOK /\ BudgetAccounted /\ SeenIsTaken

-----------------------------------------------------------------------------

\* A call starts with its whole budget and in its first round.
LEMMA TickInit == Init => TickInv
<1> SUFFICES ASSUME Init PROVE TickInv
  OBVIOUS
<1>1. /\ SettleMs \in Nat /\ Jitter \in Nat /\ MaxRounds \in Nat /\ 1 <= MaxRounds
      /\ SettleMs \in 0 .. SettleMs /\ 0 \in 0 .. (SettleMs + Jitter) /\ 0 \in 0 .. 2
  BY BoundAssumption
<1>2. /\ pc = "start" /\ rounds = 1 /\ budget = SettleMs /\ streak = 0
      /\ progress = FALSE /\ waited = 0 /\ spent = 0
      /\ awaited = {} /\ probed = {} /\ seen = {}
      /\ child = [t \in Task |-> "pending"]
  BY DEF Init
<1>3. TypeOK
  BY <1>1, <1>2 DEF TypeOK, Step
<1>4. BudgetAccounted
  BY <1>1, <1>2 DEF BudgetAccounted
<1>5. SeenIsTaken
  BY <1>2 DEF SeenIsTaken
<1>6. QED
  BY <1>3, <1>4, <1>5 DEF TickInv

\* promoteReady and dispatchLoop touch no child that was started before.
LEMMA StartReadyKeeps ==
    ASSUME TickInv, NEW next \in Step,
           \/ pc = "start" /\ next = "harvest"
           \/ pc = "restart" /\ next = "reharvest",
           StartReady(next)
    PROVE  TickInv'
<1>1. TypeOK /\ BudgetAccounted /\ SeenIsTaken
  BY DEF TickInv
<1>2. /\ child' \in [Task -> {"pending", "ready", "running", "settled", "over"}]
      /\ \A t \in Task : child[t] \in {"settled", "over"} => child'[t] = child[t]
  <2>1. PICK S \in SUBSET (Promotable \cup {t \in Task : child[t] = "ready"}) :
            child' = [t \in Task |-> IF t \in S THEN "running"
                        ELSE IF t \in Promotable \cup {u \in Task : child[u] = "ready"}
                        THEN "ready" ELSE child[t]]
    BY DEF StartReady
  <2>2. \A t \in Promotable \cup {u \in Task : child[u] = "ready"} :
            child[t] \in {"pending", "ready"}
    BY DEF Promotable
  <2>3. QED
    BY <1>1, <2>1, <2>2 DEF TypeOK
<1>3. /\ pc' = next /\ progress' \in BOOLEAN
      /\ UNCHANGED <<pump, rounds, budget, streak, probed, awaited, waited, spent, seen>>
  BY <1>1 DEF StartReady, TypeOK
<1>4. TypeOK'
  BY <1>1, <1>2, <1>3 DEF TypeOK
<1>5. BudgetAccounted'
  BY <1>1, <1>3 DEF BudgetAccounted
<1>6. SeenIsTaken'
  BY <1>1, <1>2, <1>3 DEF SeenIsTaken, Over, TypeOK
<1>7. QED
  BY <1>4, <1>5, <1>6 DEF TickInv

\* A harvest takes every child that is settled and was probed before.
LEMMA HarvestKeeps ==
    ASSUME TickInv, NEW next \in Step,
           \/ pc = "harvest" /\ next = "restart"
           \/ pc = "reharvest" /\ next = "judge",
           Harvest(next)
    PROVE  TickInv'
<1>1. TypeOK /\ BudgetAccounted /\ SeenIsTaken
  BY DEF TickInv
<1>2. /\ child' \in [Task -> {"pending", "ready", "running", "settled", "over"}]
      /\ \A t \in Task : Over(t) \/ t \in Harvestable => child'[t] = "over"
      /\ probed' \subseteq Task
  BY <1>1 DEF Harvest, TypeOK, Over, InFlight
<1>3. /\ pc' = next /\ progress' \in BOOLEAN
      /\ UNCHANGED <<pump, rounds, budget, streak, awaited, waited, spent, seen>>
  BY <1>1 DEF Harvest, TypeOK
<1>4. TypeOK'
  BY <1>1, <1>2, <1>3 DEF TypeOK
<1>5. BudgetAccounted'
  BY <1>1, <1>3 DEF BudgetAccounted
<1>6. \A t \in seen : Over(t) \/ t \in Harvestable
  BY <1>1 DEF SeenIsTaken, Harvestable, Settled, TypeOK
<1>7. SeenIsTaken'
  BY <1>1, <1>2, <1>3, <1>6 DEF SeenIsTaken, Over, TypeOK
<1>8. QED
  BY <1>4, <1>5, <1>7 DEF TickInv

\* A step of the round.
LEMMA RoundKeeps ==
    ASSUME TickInv, Round
    PROVE  TickInv'
<1>1. CASE \/ pc = "start" /\ StartReady("harvest")
           \/ pc = "restart" /\ StartReady("reharvest")
  BY <1>1, StartReadyKeeps DEF Step
<1>2. CASE \/ pc = "harvest" /\ Harvest("restart")
           \/ pc = "reharvest" /\ Harvest("judge")
  BY <1>2, HarvestKeeps DEF Step
<1>3. CASE /\ pc = "restart" /\ pc' = "judge"
           /\ UNCHANGED <<pump, rounds, budget, streak, progress, child, probed, awaited,
                          waited, spent, seen>>
  BY <1>3 DEF TickInv, TypeOK, Step, BudgetAccounted, SeenIsTaken, Over
<1>4. QED
  BY <1>1, <1>2, <1>3 DEF Round

\* The loop returns, goes round again, or waits with a budget left.
LEMMA JudgeKeeps ==
    ASSUME TickInv, Judge
    PROVE  TickInv'
<1>1. TypeOK /\ BudgetAccounted /\ SeenIsTaken /\ pc = "judge"
      /\ UNCHANGED <<pump, budget, spent, seen, child>>
  BY DEF TickInv, Judge
<1>2. \/ pc' = "done" /\ rounds' = rounds
      \/ pc' = "start" /\ rounds' = rounds + 1 /\ ~LastRound
      \/ pc' = "wait" /\ rounds' = rounds /\ ~GiveUp
  BY DEF Judge, Return, NextRound
<1>3. /\ progress' \in BOOLEAN /\ streak' \in 0 .. 2
      /\ pc' = "wait" => streak' = streak /\ waited' = 0 /\ awaited' = InFlight
                         /\ probed' = probed \cup InFlight
      /\ pc' # "wait" => waited' = waited /\ awaited' = awaited /\ probed' = probed
  <2>1. progress \in BOOLEAN /\ streak \in 0 .. 2 /\ 0 \in 0 .. 2
    BY <1>1 DEF TypeOK
  <2>2. \/ /\ Return /\ streak' \in {0, streak}
           /\ UNCHANGED <<awaited, waited, probed>>
        \/ /\ NextRound /\ streak' = 0 /\ UNCHANGED <<awaited, waited, probed>>
        \/ /\ pc' = "wait" /\ awaited' = InFlight /\ waited' = 0
           /\ probed' = probed \cup InFlight
           /\ UNCHANGED <<rounds, progress, streak>>
    BY DEF Judge
  <2>3. QED
    BY <2>1, <2>2 DEF Return, NextRound
<1>4. InFlight \subseteq Task /\ InFlight' = InFlight /\ \A t : Over(t)' = Over(t)
  BY <1>1 DEF InFlight, Over
<1>5. TypeOK'
  <2>1. 0 \in 0 .. SettleMs + Jitter
    BY BoundAssumption
  <2>2. QED
    BY <1>1, <1>2, <1>3, <1>4, <2>1 DEF TypeOK, Step
<1>6. BudgetAccounted'
  BY <1>1, <1>2, <1>3, BoundAssumption DEF BudgetAccounted, GiveUp, LastRound, TypeOK
<1>7. SeenIsTaken'
  BY <1>1, <1>2, <1>3, <1>4 DEF SeenIsTaken, LastRound
<1>8. QED
  BY <1>5, <1>6, <1>7 DEF TickInv

\* A wait spends from the budget, and what it ends with was probed before it.
LEMMA WaitKeeps ==
    ASSUME TickInv, TimePasses \/ WaitEnds
    PROVE  TickInv'
<1>1. TypeOK /\ BudgetAccounted /\ SeenIsTaken /\ pc = "wait"
      /\ UNCHANGED <<pump, child, probed, awaited>>
  BY DEF TickInv, TimePasses, WaitEnds
<1>2. /\ SettleMs \in Nat /\ Jitter \in Nat /\ MaxRounds \in Nat
      /\ budget \in 0 .. SettleMs /\ waited \in Nat /\ spent \in Nat /\ rounds \in Nat
      /\ streak \in 0 .. 2
  BY <1>1, BoundAssumption DEF TypeOK
<1>3. /\ rounds <= MaxRounds /\ budget > 0 /\ streak < 2
      /\ waited <= budget + Jitter /\ spent + budget <= SettleMs + waited
  BY <1>1 DEF BudgetAccounted
<1>4. InFlight' = InFlight /\ \A t : Over(t)' = Over(t)
  BY <1>1 DEF InFlight, Over
<1>5. CASE TimePasses
  <2>1. /\ waited < budget + Jitter /\ waited' = waited + 1 /\ spent' = spent + 1
        /\ UNCHANGED <<pc, rounds, budget, streak, progress, seen>>
    BY <1>5 DEF TimePasses
  <2>2. waited' \in 0 .. SettleMs + Jitter /\ spent' \in Nat
    BY <1>2, <1>3, <2>1
  <2>3. TypeOK'
    BY <1>1, <2>1, <2>2 DEF TypeOK
  <2>4. BudgetAccounted'
    BY <1>1, <1>2, <1>3, <2>1 DEF BudgetAccounted
  <2>5. SeenIsTaken'
    BY <1>1, <1>4, <2>1 DEF SeenIsTaken
  <2>6. QED
    BY <2>3, <2>4, <2>5 DEF TickInv
<1>6. CASE WaitEnds
  <2>1. /\ budget' = IF waited >= budget THEN 0 ELSE budget - waited
        /\ streak' = streak + 1 /\ seen' = Settled
        /\ UNCHANGED <<waited, spent>>
    BY <1>6 DEF WaitEnds, Left
  <2>2. \/ LastRound /\ pc' = "done" /\ UNCHANGED <<rounds, progress>>
        \/ ~LastRound /\ pc' = "start" /\ rounds' = rounds + 1 /\ progress' = FALSE
    BY <1>6 DEF WaitEnds, AfterWait, Return, NextRound
  <2>3. budget' \in 0 .. SettleMs /\ streak' \in 0 .. 2
    BY <1>2, <1>3, <2>1
  <2>4. TypeOK'
    <3>1. /\ pc' \in Step /\ rounds' \in Nat /\ progress' \in BOOLEAN
      <4>1. pc' \in Step /\ rounds' \in Nat
        BY <1>2, <2>2 DEF Step
      <4>2. progress' = progress \/ progress' = FALSE
        BY <2>2
      <4>3. progress' \in BOOLEAN
        BY <1>1, <4>2, Zenon DEF TypeOK
      <4>4. QED
        BY <4>1, <4>3
    <3>2. seen' \subseteq Task
      BY <2>1 DEF Settled
    <3>3. QED
      BY <1>1, <2>1, <2>3, <3>1, <3>2 DEF TypeOK
  <2>5. rounds' <= MaxRounds
    BY <1>2, <1>3, <2>2 DEF LastRound
  <2>6. /\ budget' > 0 => spent' + budget' <= SettleMs
        /\ budget' = 0 => spent' <= SettleMs + Jitter
    BY <1>2, <1>3, <2>1
  <2>7. BudgetAccounted'
    BY <2>2, <2>5, <2>6 DEF BudgetAccounted
  <2>8. \A t \in Settled : child'[t] = "settled" /\ t \in probed'
    BY <1>1 DEF SeenIsTaken, Settled, InFlight
  <2>9. SeenIsTaken'
    BY <2>1, <2>2, <2>8 DEF SeenIsTaken, LastRound
  <2>10. QED
    BY <2>4, <2>7, <2>9 DEF TickInv
<1>7. QED
  BY <1>5, <1>6

\* Children settle and the timer harvests and promotes, whatever the call does.
LEMMA AroundKeeps ==
    ASSUME TickInv, AutoTick \/ \E t \in Task : ChildSettles(t)
    PROVE  TickInv'
<1>1. TypeOK /\ BudgetAccounted /\ SeenIsTaken /\ UNCHANGED callVars
  BY DEF TickInv, AutoTick, ChildSettles
<1>2. /\ child' \in [Task -> {"pending", "ready", "running", "settled", "over"}]
      /\ \A t \in Task : Over(t) => child'[t] = "over"
      /\ \A t \in Task : child[t] = "settled" => child'[t] \in {"settled", "over"}
      /\ \A t \in Task : child'[t] \in {"running", "settled"} => t \in InFlight
      /\ probed \subseteq probed' /\ probed' \subseteq Task
  <2>1. CASE AutoTick
    BY <1>1, <2>1 DEF AutoTick, TypeOK, Over, InFlight, Harvestable
  <2>2. CASE \E t \in Task : ChildSettles(t)
    BY <1>1, <2>2 DEF ChildSettles, TypeOK, Over, InFlight
  <2>3. QED
    BY <2>1, <2>2
<1>3. TypeOK'
  BY <1>1, <1>2 DEF TypeOK, callVars
<1>4. BudgetAccounted'
  BY <1>1 DEF BudgetAccounted, callVars
<1>5. SeenIsTaken'
  <2>1. InFlight' \subseteq InFlight /\ seen \subseteq Task /\ LastRound' = LastRound
    BY <1>1, <1>2 DEF InFlight, TypeOK, callVars, LastRound
  <2>2. UNCHANGED <<pc, seen>>
    BY <1>1 DEF callVars
  <2>3. QED
    BY <1>1, <1>2, <2>1, <2>2 DEF SeenIsTaken, Over
<1>6. QED
  BY <1>3, <1>4, <1>5 DEF TickInv

-----------------------------------------------------------------------------

\* The accounts of a call hold, whatever settles and whatever the timer does.
THEOREM TickInvariant == Spec => []TickInv
<1>1. TickInv /\ [Next]_vars => TickInv'
  <2> SUFFICES ASSUME TickInv, [Next]_vars PROVE TickInv'
    OBVIOUS
  <2>1. CASE Call
    BY <2>1, RoundKeeps, JudgeKeeps, WaitKeeps DEF Call
  <2>2. CASE AutoTick \/ \E t \in Task : ChildSettles(t)
    BY <2>2, AroundKeeps
  <2>3. CASE UNCHANGED vars
    BY <2>3 DEF vars, callVars, TickInv, TypeOK, BudgetAccounted, SeenIsTaken, Over, InFlight,
       LastRound
  <2>4. QED
    BY <2>1, <2>2, <2>3 DEF Next
<1>2. QED
  BY TickInit, <1>1, PTL DEF Spec

\* A call blocks for its settle budget and one late timer at most, over all its
\* rounds and waits.
THEOREM CallBlocksNoLonger == Spec => []WaitIsBounded
<1>1. TickInv => WaitIsBounded
  BY BoundAssumption DEF TickInv, TypeOK, BudgetAccounted, WaitIsBounded
<1>2. QED
  BY TickInvariant, <1>1, PTL

\* A call goes round MaxRounds times at most.
THEOREM RoundLimitHolds == Spec => []RoundsAreBounded
<1>1. TickInv => RoundsAreBounded
  BY DEF TickInv, BudgetAccounted, RoundsAreBounded
<1>2. QED
  BY TickInvariant, <1>1, PTL

\* What settled while the call waited is harvested by that call, unless its
\* rounds are used up.
THEOREM WaitsAreHarvested == Spec => []WaitIsHarvested
<1>1. TickInv => WaitIsHarvested
  BY DEF TickInv, SeenIsTaken, WaitIsHarvested, Over, Settled
<1>2. QED
  BY TickInvariant, <1>1, PTL

-----------------------------------------------------------------------------
(* What a call leaves behind *)

SomeReady == \E t \in Task : child[t] = "ready"

\* The slots bound the children in flight, and a child is probed only once it
\* has been started.
SlotsRespected == Cardinality(InFlight) <= Slots
ProbedIsStarted == \A t \in probed : child[t] \notin {"pending", "ready"}

\* Without the timer a round starts what it can: when nothing is in flight at
\* the end of one, the run is finished, or the round harvested a child while a
\* ready task had no slot.
RoundsStartAll ==
    ~pump =>
        /\ pc = "harvest" => Promotable = {} /\ (InFlight = {} => ~SomeReady)
        /\ pc = "restart" => /\ Promotable # {} => Cardinality(InFlight) < Slots
                             /\ InFlight = {} /\ SomeReady => progress
        /\ pc = "reharvest" => InFlight \ probed # {}
        /\ pc = "judge" /\ InFlight = {} => RunFinished \/ (progress /\ SomeReady)
        /\ pc = "wait" => InFlight # {}
        /\ pc = "done" /\ InFlight = {} => RunFinished \/ (LastRound /\ SomeReady)

IdleInv == SlotsRespected /\ ProbedIsStarted /\ RoundsStartAll

-----------------------------------------------------------------------------

\* A set of tasks, each of which another one waits for, also has one that waits
\* for none: else a smallest set without would be left with none by taking out
\* a task that nobody in it waits for.
LEMMA SomeTaskIsFree ==
    ASSUME NEW S \in SUBSET Task, S # {}
    PROVE  \E t \in S : Needs[t] \cap S = {}
<1> DEFINE Free(T) == \E t \in T : Needs[t] \cap T = {}
           Bad == {T \in SUBSET Task : T # {} /\ ~Free(T)}
<1>1. SUFFICES ASSUME Bad # {} PROVE FALSE
  BY <1>1
<1>2. PICK T \in Bad : \A U \in Bad : <<U, T>> \notin StrictSubsetOrdering(Task)
  <2>1. IsWellFoundedOn(StrictSubsetOrdering(Task), SUBSET Task)
    BY FS_StrictSubsetOrderingWellFounded, FS_FiniteSubsetsOfFinite, TaskAssumption
  <2> HIDE DEF Bad
  <2>2. Bad \subseteq SUBSET Task
    BY DEF Bad
  <2>3. QED
    BY <1>1, <2>1, <2>2, WFMin
<1>3. PICK t \in T : \A v \in T : t \notin Needs[v]
  BY AcyclicAssumption
<1>4. T \ {t} # {}
  BY <1>3
<1>5. T \ {t} \notin Bad
  BY <1>2, <1>3 DEF StrictSubsetOrdering
<1>6. PICK u \in T \ {t} : Needs[u] \cap (T \ {t}) = {}
  BY <1>4, <1>5
<1>7. Needs[u] \cap T = {}
  BY <1>3, <1>6
<1>8. QED
  BY <1>7

\* With nothing in flight, nothing ready and nothing to promote, all is over.
LEMMA NothingLeft ==
    ASSUME TypeOK, Promotable = {}, InFlight = {}, ~SomeReady
    PROVE  RunFinished
<1> DEFINE Rest == {t \in Task : child[t] = "pending"}
<1>1. \A t \in Task : child[t] \in {"pending", "over"}
  BY DEF TypeOK, InFlight, SomeReady
<1>2. SUFFICES ASSUME Rest # {} PROVE FALSE
  BY <1>1 DEF RunFinished
<1>3. PICK t \in Rest : Needs[t] \cap Rest = {}
  <2> HIDE DEF Rest
  <2>1. Rest \in SUBSET Task
    BY DEF Rest
  <2>2. QED
    BY <1>2, <2>1, SomeTaskIsFree
<1>4. \A d \in Needs[t] : child[d] = "over"
  BY <1>1, <1>3, NeedsAssumption
<1>5. QED
  BY <1>3, <1>4 DEF Promotable

\* The children in flight can be counted.
LEMMA InFlightIsFinite ==
    \A S \in SUBSET Task : IsFiniteSet(S) /\ Cardinality(S) \in Nat
BY FS_Subset, FS_CardinalityType, TaskAssumption

\* promoteReady and dispatchLoop start all that is ready, or as much as there
\* are slots.
LEMMA StartsWhatItCan ==
    ASSUME TypeOK, SlotsRespected, ProbedIsStarted, NEW next, StartReady(next)
    PROVE  /\ SlotsRespected' /\ ProbedIsStarted' /\ Promotable' = {}
           /\ InFlight' = {} => ~SomeReady'
           /\ Promotable # {} /\ Cardinality(InFlight) < Slots => InFlight' \ probed' # {}
<1> DEFINE ready == Promotable \cup {t \in Task : child[t] = "ready"}
           free == Slots - Cardinality(InFlight)
<1>1. PICK S \in SUBSET ready :
        /\ Cardinality(S) = IF Cardinality(ready) < free THEN Cardinality(ready) ELSE free
        /\ child' = [t \in Task |-> IF t \in S THEN "running"
                                    ELSE IF t \in ready THEN "ready" ELSE child[t]]
        /\ probed' = probed
  BY DEF StartReady
<1>2. ready \in SUBSET Task /\ \A t \in ready : child[t] \in {"pending", "ready"}
  BY DEF Promotable
<1>3. \A t \in Task : child[t] = "pending" /\ (\A d \in Needs[t] : child[d] = "over") => t \in ready
  BY DEF Promotable
<1>4. \A t \in Task : child[t] = "ready" => t \in ready
  OBVIOUS
<1> HIDE DEF ready
<1>5. /\ \A t \in S : child'[t] = "running"
      /\ \A t \in ready \ S : child'[t] = "ready"
      /\ \A t \in Task \ ready : child'[t] = child[t]
  BY <1>1, <1>2
<1>6. InFlight' = InFlight \cup S /\ InFlight \cap S = {}
  BY <1>1, <1>2, <1>4, <1>5 DEF InFlight
<1>7. /\ Cardinality(InFlight) \in Nat /\ IsFiniteSet(InFlight)
      /\ Cardinality(S) \in Nat /\ IsFiniteSet(S)
      /\ Cardinality(ready) \in Nat /\ IsFiniteSet(ready)
  BY <1>1, <1>2, InFlightIsFinite DEF InFlight
<1>8. Cardinality(InFlight') = Cardinality(InFlight) + Cardinality(S)
  <2>1. Cardinality(InFlight \cap S) = 0
    BY <1>6, FS_EmptySet
  <2>2. Cardinality(InFlight \cup S) =
          Cardinality(InFlight) + Cardinality(S) - Cardinality(InFlight \cap S)
    BY <1>7, FS_Union
  <2>3. QED
    BY <1>6, <1>7, <2>1, <2>2
<1>9. SlotsRespected'
  <2>1. Cardinality(InFlight) <= Slots
    BY DEF SlotsRespected
  <2>2. Cardinality(InFlight') <= Slots
    BY <1>1, <1>7, <1>8, <2>1, BoundAssumption
  <2>3. QED
    BY <2>2 DEF SlotsRespected
<1>10. ProbedIsStarted'
  <2>1. probed \subseteq Task
    BY DEF TypeOK
  <2>2. QED
    BY <1>1, <1>2, <1>5, <2>1 DEF ProbedIsStarted
<1>11. Promotable' = {}
  <2> SUFFICES ASSUME NEW t \in Task, child'[t] = "pending", \A d \in Needs[t] : child'[d] = "over"
               PROVE  FALSE
    BY DEF Promotable
  <2>1. t \notin ready /\ child[t] = "pending"
    BY <1>1, <1>5
  <2>2. \A d \in Needs[t] : child[d] = "over"
    BY <1>1, <1>5, NeedsAssumption
  <2>3. QED
    BY <1>3, <2>1, <2>2
<1>12. ASSUME InFlight' = {} PROVE ~SomeReady'
  <2>1. InFlight = {} /\ S = {}
    BY <1>6, <1>12
  <2>2. Cardinality(InFlight) = 0 /\ Cardinality(S) = 0
    BY <2>1, FS_EmptySet
  <2>3. Cardinality(ready) = 0
    BY <1>1, <1>7, <2>2, BoundAssumption
  <2>4. ready = {}
    BY <1>7, <2>3, FS_EmptySet
  <2>5. QED
    BY <1>2, <1>4, <1>5, <2>1, <2>4 DEF SomeReady
<1>13. ASSUME Promotable # {}, Cardinality(InFlight) < Slots PROVE InFlight' \ probed' # {}
  <2>1. ready # {}
    BY <1>13 DEF ready
  <2>2. Cardinality(ready) # 0
    BY <1>7, <2>1, FS_EmptySet
  <2>3. Cardinality(S) # 0
    BY <1>1, <1>7, <1>13, <2>2, BoundAssumption
  <2>4. S # {}
    BY <2>3, FS_EmptySet
  <2>5. S \cap probed = {}
    BY <1>2 DEF ProbedIsStarted
  <2>6. QED
    BY <1>1, <1>6, <2>4, <2>5
<1>14. QED
  BY <1>9, <1>10, <1>11, <1>12, <1>13

\* A harvest gives back the slots of what it takes.
LEMMA HarvestFrees ==
    ASSUME TypeOK, SlotsRespected, ProbedIsStarted, NEW next, Harvest(next)
    PROVE  /\ SlotsRespected' /\ ProbedIsStarted'
           /\ InFlight' = InFlight \ Harvestable
           /\ SomeReady' <=> SomeReady
           /\ Harvestable # {} => progress'
           /\ Harvestable = {} => Promotable' = Promotable
           /\ Harvestable # {} => Cardinality(InFlight') < Slots
<1>1. /\ child' = [t \in Task |-> IF t \in Harvestable THEN "over" ELSE child[t]]
      /\ probed' = probed \cup InFlight
      /\ progress' = (progress \/ Harvestable # {})
  BY DEF Harvest
<1>2. /\ Harvestable \subseteq InFlight /\ InFlight \subseteq Task
      /\ \A t \in Harvestable : child[t] = "settled"
  BY DEF Harvestable, Settled, InFlight
<1> HIDE DEF Harvestable
<1>3. InFlight' = InFlight \ Harvestable
  BY <1>1, <1>2 DEF InFlight
<1>4. SomeReady' <=> SomeReady
  BY <1>1, <1>2 DEF SomeReady
<1>5. ProbedIsStarted'
  <2>1. probed \subseteq Task
    BY DEF TypeOK
  <2>2. \A t \in InFlight : child[t] \notin {"pending", "ready"}
    BY DEF InFlight
  <2>3. QED
    BY <1>1, <1>2, <2>1, <2>2 DEF ProbedIsStarted
<1>6. /\ Cardinality(InFlight) \in Nat /\ IsFiniteSet(InFlight)
      /\ Cardinality(InFlight') \in Nat /\ Cardinality(InFlight') <= Cardinality(InFlight)
      /\ Cardinality(InFlight') = Cardinality(InFlight) => InFlight' = InFlight
  BY <1>2, <1>3, InFlightIsFinite, FS_Subset
<1>7. Cardinality(InFlight) <= Slots /\ Slots \in Nat
  BY BoundAssumption DEF SlotsRespected
<1>8. SlotsRespected'
  BY <1>6, <1>7 DEF SlotsRespected
<1>9. Harvestable # {} => Cardinality(InFlight') < Slots
  BY <1>2, <1>3, <1>6, <1>7
<1>10. Harvestable = {} => Promotable' = Promotable
  BY <1>1, NeedsAssumption DEF Promotable, TypeOK
<1>11. Harvestable # {} => progress'
  BY <1>1
<1>12. QED
  BY <1>3, <1>4, <1>5, <1>8, <1>9, <1>10, <1>11

LEMMA IdleInit == Init => IdleInv
<1> SUFFICES ASSUME Init PROVE IdleInv
  OBVIOUS
<1>1. InFlight = {} /\ probed = {} /\ pc = "start"
  BY DEF Init, InFlight
<1>2. SlotsRespected
  BY <1>1, FS_EmptySet, BoundAssumption DEF SlotsRespected
<1>3. QED
  BY <1>1, <1>2 DEF IdleInv, ProbedIsStarted, RoundsStartAll

\* A round starts what it can, and knows when it made progress.
LEMMA RoundIdle ==
    ASSUME TypeOK, IdleInv, Round
    PROVE  IdleInv'
<1>1. SlotsRespected /\ ProbedIsStarted /\ RoundsStartAll
  BY DEF IdleInv
<1>2. CASE pc = "start" /\ StartReady("harvest")
  <2>1. pump' = pump /\ pc' = "harvest"
    BY <1>2 DEF StartReady
  <2>2. SlotsRespected' /\ ProbedIsStarted' /\ Promotable' = {} /\ (InFlight' = {} => ~SomeReady')
    BY <1>1, <1>2, StartsWhatItCan
  <2>3. QED
    BY <2>1, <2>2 DEF IdleInv, RoundsStartAll
<1>3. CASE pc = "harvest" /\ Harvest("restart")
  <2>1. pump' = pump /\ pc' = "restart"
    BY <1>3 DEF Harvest
  <2>2. /\ SlotsRespected' /\ ProbedIsStarted'
        /\ InFlight' = InFlight \ Harvestable
        /\ SomeReady' <=> SomeReady
        /\ Harvestable # {} => progress'
        /\ Harvestable = {} => Promotable' = Promotable
        /\ Harvestable # {} => Cardinality(InFlight') < Slots
    BY <1>1, <1>3, HarvestFrees
  <2>3. ~pump => Promotable = {} /\ (InFlight = {} => ~SomeReady)
    BY <1>1, <1>3 DEF RoundsStartAll
  <2>4. RoundsStartAll'
    BY <2>1, <2>2, <2>3 DEF RoundsStartAll
  <2>5. QED
    BY <2>2, <2>4 DEF IdleInv
<1>4. CASE pc = "restart" /\ Promotable # {} /\ StartReady("reharvest")
  <2>1. pump' = pump /\ pc' = "reharvest"
    BY <1>4 DEF StartReady
  <2>2. /\ SlotsRespected' /\ ProbedIsStarted'
        /\ Promotable # {} /\ Cardinality(InFlight) < Slots => InFlight' \ probed' # {}
    BY <1>1, <1>4, StartsWhatItCan
  <2>3. QED
    BY <1>1, <1>4, <2>1, <2>2 DEF IdleInv, RoundsStartAll
<1>5. CASE /\ pc = "restart" /\ Promotable = {} /\ pc' = "judge"
           /\ UNCHANGED <<pump, rounds, budget, streak, progress, child, probed, awaited,
                          waited, spent, seen>>
  <2>1. InFlight' = InFlight /\ SomeReady' = SomeReady /\ RunFinished' = RunFinished
    BY <1>5 DEF InFlight, SomeReady, RunFinished
  <2>2. SlotsRespected' /\ ProbedIsStarted'
    BY <1>1, <1>5, <2>1 DEF SlotsRespected, ProbedIsStarted
  <2>3. InFlight = {} => RunFinished \/ SomeReady
    BY <1>5, NothingLeft
  <2>4. ~pump /\ InFlight = {} /\ SomeReady => progress
    BY <1>1, <1>5 DEF RoundsStartAll
  <2>5. QED
    BY <1>5, <2>1, <2>2, <2>3, <2>4 DEF IdleInv, RoundsStartAll
<1>6. CASE pc = "reharvest" /\ Harvest("judge")
  <2>1. pump' = pump /\ pc' = "judge"
    BY <1>6 DEF Harvest
  <2>2. SlotsRespected' /\ ProbedIsStarted' /\ InFlight' = InFlight \ Harvestable
    BY <1>1, <1>6, HarvestFrees
  <2>3. Harvestable \subseteq probed
    BY DEF Harvestable
  <2>4. QED
    BY <1>1, <1>6, <2>1, <2>2, <2>3 DEF IdleInv, RoundsStartAll
<1>7. QED
  BY <1>2, <1>3, <1>4, <1>5, <1>6 DEF Round

\* The call returns with nothing in flight only from a round that started
\* everything, or whose surplus its round limit cuts off.
LEMMA LoopIdle ==
    ASSUME TypeOK, IdleInv, Judge \/ TimePasses \/ WaitEnds
    PROVE  IdleInv'
<1>1. SlotsRespected /\ ProbedIsStarted /\ RoundsStartAll
  BY DEF IdleInv
<1>2. UNCHANGED <<pump, child>>
  BY DEF Judge, TimePasses, WaitEnds
<1>3. InFlight' = InFlight /\ SomeReady' = SomeReady /\ RunFinished' = RunFinished
  BY <1>2 DEF InFlight, SomeReady, RunFinished
<1>4. SlotsRespected'
  BY <1>1, <1>3 DEF SlotsRespected
<1>5. ProbedIsStarted'
  <2>1. probed' \subseteq probed \cup InFlight
    BY DEF Judge, TimePasses, WaitEnds
  <2>2. \A t \in InFlight : child[t] \notin {"pending", "ready"}
    BY DEF InFlight
  <2>3. QED
    BY <1>1, <1>2, <2>1, <2>2 DEF ProbedIsStarted
<1>6. CASE Judge
  <2>1. \/ pc' = "start"
        \/ pc' = "wait" /\ ~progress /\ ~Quiescent
        \/ /\ pc' = "done" /\ rounds' = rounds
           /\ RunFinished \/ ~progress \/ LastRound
    BY <1>6 DEF Judge, Return, NextRound, Quiescent
  <2>2. ~pump /\ InFlight = {} => RunFinished \/ (progress /\ SomeReady)
    BY <1>1, <1>6 DEF Judge, RoundsStartAll
  <2>3. RoundsStartAll'
    BY <1>2, <1>3, <2>1, <2>2 DEF RoundsStartAll, Quiescent, LastRound
  <2>4. QED
    BY <1>4, <1>5, <2>3 DEF IdleInv
<1>7. CASE TimePasses \/ WaitEnds
  <2>1. pc = "wait" /\ pc' \in {"wait", "done", "start"}
    BY <1>7 DEF TimePasses, WaitEnds, AfterWait, Return, NextRound
  <2>2. RoundsStartAll'
    BY <1>1, <1>2, <1>3, <2>1 DEF RoundsStartAll
  <2>3. QED
    BY <1>4, <1>5, <2>2 DEF IdleInv
<1>8. QED
  BY <1>6, <1>7

\* A child that settles stays in flight, and the timer only takes from there.
LEMMA AroundIdle ==
    ASSUME TypeOK, IdleInv, AutoTick \/ \E t \in Task : ChildSettles(t)
    PROVE  IdleInv'
<1>1. SlotsRespected /\ ProbedIsStarted /\ RoundsStartAll
  BY DEF IdleInv
<1>2. CASE AutoTick
  <2>1. pump' /\ InFlight' \subseteq InFlight /\ InFlight \subseteq Task
    BY <1>2 DEF AutoTick, callVars, InFlight, Harvestable, Settled
  <2>2. SlotsRespected'
    <3>1. Cardinality(InFlight') <= Cardinality(InFlight)
      BY <2>1, InFlightIsFinite, FS_Subset
    <3>2. Cardinality(InFlight) \in Nat /\ Cardinality(InFlight') \in Nat
      BY <2>1, InFlightIsFinite
    <3>3. QED
      BY <1>1, <3>1, <3>2, BoundAssumption DEF SlotsRespected
  <2>3. ProbedIsStarted'
    <3>1. probed' = probed \cup InFlight /\ probed' \subseteq Task
      BY <1>2, <2>1 DEF AutoTick, TypeOK
    <3>2. \A t \in Task : child[t] \notin {"pending", "ready"} => child'[t] \notin {"pending", "ready"}
      BY <1>2 DEF AutoTick
    <3>3. \A t \in InFlight : child[t] \notin {"pending", "ready"}
      BY DEF InFlight
    <3>4. QED
      BY <1>1, <3>1, <3>2, <3>3 DEF ProbedIsStarted
  <2>4. QED
    BY <2>1, <2>2, <2>3 DEF IdleInv, RoundsStartAll
<1>3. CASE \E t \in Task : ChildSettles(t)
  <2>1. PICK t \in Task : ChildSettles(t)
    BY <1>3
  <2>2. /\ child[t] = "running" /\ child' = [child EXCEPT ![t] = "settled"]
        /\ UNCHANGED <<pump, pc, probed, progress, rounds>>
    BY <2>1 DEF ChildSettles, callVars
  <2>3. /\ \A u \in Task \ {t} : child'[u] = child[u]
        /\ child'[t] = "settled" /\ child[t] = "running"
    BY <2>2 DEF TypeOK
  <2>4. InFlight' = InFlight /\ InFlight # {}
    BY <2>3 DEF InFlight
  <2>5. Promotable' = Promotable
    BY <2>3, NeedsAssumption DEF Promotable
  <2>6. SlotsRespected' /\ ProbedIsStarted'
    BY <1>1, <2>2, <2>3, <2>4 DEF SlotsRespected, ProbedIsStarted, TypeOK
  <2>7. RoundsStartAll'
    BY <1>1, <2>2, <2>4, <2>5 DEF RoundsStartAll
  <2>8. QED
    BY <2>6, <2>7 DEF IdleInv
<1>4. QED
  BY <1>2, <1>3

LEMMA IdleInvariant == Spec => []IdleInv
<1>1. TypeOK /\ IdleInv /\ [Next]_vars => IdleInv'
  <2> SUFFICES ASSUME TypeOK, IdleInv, [Next]_vars PROVE IdleInv'
    OBVIOUS
  <2>1. CASE Call
    BY <2>1, RoundIdle, LoopIdle DEF Call
  <2>2. CASE AutoTick \/ \E t \in Task : ChildSettles(t)
    BY <2>2, AroundIdle
  <2>3. CASE UNCHANGED vars
    BY <2>3 DEF vars, callVars, IdleInv, SlotsRespected, ProbedIsStarted, RoundsStartAll,
       InFlight, Promotable, SomeReady, RunFinished, LastRound
  <2>4. QED
    BY <2>1, <2>2, <2>3 DEF Next
<1>2. TickInv => TypeOK
  BY DEF TickInv
<1>3. QED
  BY IdleInit, TickInvariant, <1>1, <1>2, PTL DEF Spec

\* QuiescentMeansIdle: a call that leaves nothing in flight has finished the run,
\* or its last round ended with a ready task that had lacked a slot.
THEOREM NothingIsAbandoned == Spec => []QuiescentMeansIdle
<1>1. IdleInv => QuiescentMeansIdle
  BY DEF IdleInv, RoundsStartAll, QuiescentMeansIdle, SomeReady
<1>2. QED
  BY IdleInvariant, <1>1, PTL
=============================================================================
