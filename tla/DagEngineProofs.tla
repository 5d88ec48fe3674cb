--------------------------- MODULE DagEngineProofs ---------------------------
(***************************************************************************)
(* The reconcile engine, proved for every graph, any number of overlapping  *)
(* ticks and timers, and every limit.                                       *)
(*                                                                          *)
(* The argument goes round once.  A live attempt is in one pair of hands:   *)
(* a pass that is to settle it, or an entry of the in-flight map.  So what  *)
(* a pass settles is live, and each of its transactions is one that the     *)
(* ledger allows; the ledger's invariants then hold here, among them that a *)
(* paused run has its intent and a finished one no live attempt; so a pass  *)
(* in its dispatch loop, which holds the thread, claims only in a run that  *)
(* is alive, and what it claims nobody else had.                            *)
(***************************************************************************)
EXTENDS DagEngine, DagLedgerProofs, FiniteSetTheorems

-----------------------------------------------------------------------------
(* The inductive invariant *)

Current == {x \in Attempt : Live(x[1], x[2])}

\* The attempt that a pass has taken and not yet given up.
Hand(p) == IF pass[p].pc \in InHand THEN pass[p].cur ELSE NoAttempt

AttemptsBounded == \A t \in Task : Len(att[t]) <= MaxOrdinal

\* A pass inside a synchronous section has the thread, and a host that boots
\* remembers nothing.
Synchronous == {"approvals", "dispatch", "parking", "harvest"}

ThreadDiscipline ==
    /\ \A p \in Pass : pass[p].pc \in Synchronous => thread = p
    /\ thread = "boot" =>
          /\ pass = [p \in Pass |-> IdlePass]
          /\ flight = <<>> /\ slots = {} /\ meta = <<>>
          /\ holder = [k \in Key |-> NoAttempt]

\* Only ticks dispatch; a pass awaits the executor of its attempt's kind; and
\* what it is about to commit is a result.
WorkOf(p) ==
    /\ pass[p].pc \in {"dispatch", "starting", "merging", "parking", "dispatched"} => p \in TickPass
    /\ pass[p].pc = "starting" => Kind[pass[p].cur[1]] = "agent"
    /\ pass[p].pc = "merging" => Kind[pass[p].cur[1]] = "merge"
    /\ pass[p].pc = "parking" => Kind[pass[p].cur[1]] = "approval"
    /\ pass[p].pc = "committing" => pass[p].result # "none"

PassWork == \A p \in Pass : WorkOf(p)

\* What is held is live, by one holder only.
HeldIsCurrent ==
    /\ \A p \in Pass : pass[p].pc \in InHand => pass[p].cur \in Current
    /\ \A i \in DOMAIN flight : flight[i].id \in Current

HeldOnce ==
    /\ \A p, q \in Pass : Hand(p) # NoAttempt /\ Hand(p) = Hand(q) => p = q
    /\ \A i, j \in DOMAIN flight : flight[i].id = flight[j].id => i = j
    /\ \A p \in Pass : \A i \in DOMAIN flight : Hand(p) # flight[i].id

\* And while the host is up, what is live is held.
CurrentIsHeld ==
    thread # "boot" =>
        \A x \in Current : \/ \E p \in Pass : Hand(p) = x
                           \/ \E i \in DOMAIN flight : flight[i].id = x

Ownership == HeldIsCurrent /\ HeldOnce /\ CurrentIsHeld

\* A pass that may still claim is in a run that is alive and not paused.
AdmissionOf(p) ==
    /\ pass[p].pc = "approvals" => run \notin RunTerminal
    /\ pass[p].pc \in {"dispatch", "parking"} => run \notin RunTerminal \cup {"paused"}

AdmissionIsOpen == \A p \in Pass : AdmissionOf(p)

\* After a stop, a child that nobody aborted is left to a tick's closing sweep.
SweepIsDue ==
    intent = "stop" =>
        \/ \A i \in DOMAIN flight : flight[i].result # "pending" \/ flight[i].cause # "none"
        \/ \E p \in TickPass : pass[p].pc # "idle"

EngineInv ==
    /\ EngineTypeOK
    /\ RunningHasItsAttempt
    /\ IntentMatchesRun
    /\ AttemptsBounded
    /\ ThreadDiscipline
    /\ PassWork
    /\ Ownership
    /\ AdmissionIsOpen
    /\ DrainedRunIsIdle
    /\ SlotsAccounted
    /\ KeyIsExclusive
    /\ SweepIsDue

-----------------------------------------------------------------------------
(* Facts about the operators *)

\* No attempt is the mark for none.
LEMMA AttemptIsSome == \A x \in Attempt : x # NoAttempt /\ x[1] \in Task /\ x[2] \in Nat /\ x = <<x[1], x[2]>>
BY DEF Attempt, NoAttempt

\* tryAcquireSlot returns a free slot.
LEMMA LowestSlotIsFree ==
    ASSUME FreeSlots # {}
    PROVE  LowestSlot \in FreeSlots
<1>1. FreeSlots \in SUBSET Nat
  BY MaxRunningAssumption DEF FreeSlots, Slot
<1>2. \E s \in FreeSlots : \A r \in FreeSlots : s <= r
  BY <1>1, MinimumOfNat
<1>3. QED
  BY <1>2 DEF LowestSlot

\* Looking an attempt up in the in-flight map finds it.
LEMMA PlaceIsFound ==
    ASSUME NEW i \in DOMAIN flight
    PROVE  /\ PlaceOf(flight[i].id) \in DOMAIN flight
           /\ flight[PlaceOf(flight[i].id)].id = flight[i].id
BY DEF PlaceOf

\* Removing the entry of an attempt leaves the others, in their order.
LEMMA WithoutOne ==
    ASSUME NEW S, flight \in Seq(S), NEW x, PlaceOf(x) \in DOMAIN flight
    PROVE  /\ Without(x) \in Seq(S)
           /\ \A i \in DOMAIN Without(x) :
                 \E j \in DOMAIN flight \ {PlaceOf(x)} : Without(x)[i] = flight[j]
           /\ \A j \in DOMAIN flight \ {PlaceOf(x)} :
                 \E i \in DOMAIN Without(x) : Without(x)[i] = flight[j]
           /\ \A i, j \in DOMAIN Without(x) : i # j =>
                 \E k, l \in DOMAIN flight :
                    k # l /\ Without(x)[i] = flight[k] /\ Without(x)[j] = flight[l]
<1> DEFINE k == PlaceOf(x)
           n == Len(flight) - 1
           w == [i \in 1 .. n |-> IF i < k THEN flight[i] ELSE flight[i + 1]]
           from(i) == IF i < k THEN i ELSE i + 1
<1>1. Without(x) = w
  BY DEF Without
<1>2. DOMAIN flight = 1 .. Len(flight) /\ Len(flight) \in Nat /\ k \in 1 .. Len(flight)
  OBVIOUS
<1>3. n \in Nat /\ DOMAIN w = 1 .. n
  BY <1>2
<1> HIDE DEF k
<1>4. \A i \in 1 .. n : from(i) \in DOMAIN flight \ {k} /\ w[i] = flight[from(i)]
  BY <1>2, <1>3
<1>5. \A i, j \in 1 .. n : i # j => from(i) # from(j)
  BY <1>2, <1>3
<1>6. \A j \in DOMAIN flight \ {k} : \E i \in 1 .. n : from(i) = j
  <2> TAKE j \in DOMAIN flight \ {k}
  <2>1. CASE j < k
    <3>1. j \in 1 .. n /\ from(j) = j
      BY <1>2, <1>3, <2>1
    <3>2. QED
      BY <3>1
  <2>2. CASE ~(j < k)
    <3>1. j - 1 \in 1 .. n /\ from(j - 1) = j
      BY <1>2, <1>3, <2>2
    <3>2. QED
      BY <3>1
  <2>3. QED
    BY <2>1, <2>2
<1>7. w \in Seq(S)
  <2>1. \A i \in 1 .. n : w[i] \in S
    BY <1>4
  <2>2. w \in [1 .. n -> S]
    BY <2>1
  <2>3. QED
    BY <1>3, <2>2
<1>8. /\ DOMAIN Without(x) = 1 .. n /\ Without(x) \in Seq(S)
      /\ \A i \in 1 .. n : from(i) \in DOMAIN flight \ {k} /\ Without(x)[i] = flight[from(i)]
  BY <1>1, <1>3, <1>4, <1>7
<1> HIDE DEF w, from, n
<1>9. \A i \in DOMAIN Without(x) : \E j \in DOMAIN flight \ {k} : Without(x)[i] = flight[j]
  BY <1>8
<1>10. \A j \in DOMAIN flight \ {k} : \E i \in DOMAIN Without(x) : Without(x)[i] = flight[j]
  BY <1>6, <1>8
<1>11. \A i, j \in DOMAIN Without(x) : i # j =>
         \E a, b \in DOMAIN flight : a # b /\ Without(x)[i] = flight[a] /\ Without(x)[j] = flight[b]
  BY <1>5, <1>8
<1>12. QED
  BY <1>8, <1>9, <1>10, <1>11 DEF k

\* Aborting marks each pending entry nobody aborted, and nothing else.
LEMMA AbortAllEntries ==
    ASSUME flight \in Seq(FlightEntry)
    PROVE  /\ AbortAll(flight) \in Seq(FlightEntry)
           /\ DOMAIN AbortAll(flight) = DOMAIN flight
           /\ \A i \in DOMAIN flight :
                 /\ AbortAll(flight)[i].id = flight[i].id
                 /\ \/ AbortAll(flight)[i].result # "pending"
                    \/ AbortAll(flight)[i].cause # "none"
<1>1. \A i \in DOMAIN flight : flight[i] \in FlightEntry
  OBVIOUS
<1>2. DOMAIN AbortAll(flight) = DOMAIN flight
  BY DEF AbortAll
<1>3. \A i \in DOMAIN flight :
        /\ AbortAll(flight)[i] \in FlightEntry
        /\ AbortAll(flight)[i].id = flight[i].id
        /\ \/ AbortAll(flight)[i].result # "pending"
           \/ AbortAll(flight)[i].cause # "none"
  BY <1>1 DEF AbortAll, FlightEntry
<1>4. AbortAll(flight) \in Seq(FlightEntry)
  <2>1. AbortAll(flight) \in [1 .. Len(flight) -> FlightEntry]
    BY <1>3 DEF AbortAll
  <2>2. QED
    BY <2>1
<1>5. QED
  BY <1>2, <1>3, <1>4

-----------------------------------------------------------------------------
(* Type correctness of the memory *)

MemoryTypeOK ==
    /\ thread \in Pass \cup {"free", "boot"}
    /\ pass \in [Pass -> PassLocals]
    /\ flight \in Seq(FlightEntry)
    /\ slots \subseteq Slot
    /\ holder \in [Key -> Attempt \cup {NoAttempt}]
    /\ meta \in [DOMAIN meta -> Slot] /\ DOMAIN meta \subseteq Attempt

LEMMA TypesTogether == EngineTypeOK <=> TypeOK /\ MemoryTypeOK
BY DEF EngineTypeOK, MemoryTypeOK

\* Taking and giving back a slot and a key keeps the admission tables typed.
LEMMA AcquireType ==
    ASSUME MemoryTypeOK, NEW x \in Attempt, FreeSlots # {}, Acquire(x)
    PROVE  /\ slots' \subseteq Slot
           /\ holder' \in [Key -> Attempt \cup {NoAttempt}]
           /\ meta' \in [DOMAIN meta' -> Slot] /\ DOMAIN meta' \subseteq Attempt
<1>1. LowestSlot \in Slot
  BY LowestSlotIsFree DEF FreeSlots
<1>2. slots' \subseteq Slot /\ holder' \in [Key -> Attempt \cup {NoAttempt}]
  BY <1>1 DEF Acquire, MemoryTypeOK
<1>3. meta' \in [DOMAIN meta \cup {x} -> Slot] /\ DOMAIN meta' = DOMAIN meta \cup {x}
  BY <1>1 DEF Acquire, MemoryTypeOK
<1>4. QED
  BY <1>2, <1>3 DEF MemoryTypeOK

LEMMA ReleaseType ==
    ASSUME MemoryTypeOK, NEW x, Release(x)
    PROVE  /\ slots' \subseteq Slot
           /\ holder' \in [Key -> Attempt \cup {NoAttempt}]
           /\ meta' \in [DOMAIN meta' -> Slot] /\ DOMAIN meta' \subseteq Attempt
BY DEF Release, MemoryTypeOK

\* A pass's locals after one of them is written.
LEMMA LocalsType ==
    ASSUME MemoryTypeOK, NEW p \in Pass, NEW v \in PassLocals, pass' = [pass EXCEPT ![p] = v]
    PROVE  pass' \in [Pass -> PassLocals]
BY DEF MemoryTypeOK

\* What buildQueue, harvestSettled's snapshot and an abort sweep return.
LEMMA SnapshotType ==
    ASSUME MemoryTypeOK
    PROVE  FlightIds \in Seq(Attempt)
<1>1. \A i \in DOMAIN flight : flight[i].id \in Attempt
  <2>1. \A i \in DOMAIN flight : flight[i] \in FlightEntry
    BY DEF MemoryTypeOK
  <2>2. QED
    BY <2>1 DEF FlightEntry
<1>2. FlightIds \in [1 .. Len(flight) -> Attempt]
  BY <1>1 DEF FlightIds, MemoryTypeOK
<1>3. QED
  BY <1>2 DEF MemoryTypeOK

LEMMA SweptType ==
    ASSUME MemoryTypeOK, NEW onStop
    PROVE  Swept(flight, onStop) \in Seq(FlightEntry)
BY AbortAllEntries DEF Swept, MemoryTypeOK

\* harvestSettled takes an entry of the map that has settled, out of the map.
LEMMA HarvestPicks ==
    ASSUME MemoryTypeOK, HeldOnce, NEW p \in Pass, HarvestNext(p)
    PROVE  \E k \in DOMAIN flight :
              /\ flight[k] \in FlightEntry
              /\ flight[k].result # "pending"
              /\ PlaceOf(flight[k].id) = k
              /\ pass' \in [Pass -> PassLocals]
              /\ pass'[p].pc = "committing" /\ pass'[p].cur = flight[k].id
              /\ pass'[p].result = Mapped(flight[k])
              /\ \A q \in Pass \ {p} : pass'[q] = pass[q]
              /\ flight' = Without(flight[k].id)
<1> DEFINE snap == pass[p].snap
           settled == {i \in DOMAIN snap : SettledId(snap[i])}
           i == CHOOSE j \in settled : \A k \in settled : j <= k
           x == snap[i]
<1>1. snap \in Seq(Attempt) /\ pass[p] \in PassLocals
  BY DEF MemoryTypeOK, PassLocals
<1>2. settled \in SUBSET Nat /\ settled # {}
  <2>1. DOMAIN snap \subseteq Nat
    BY <1>1
  <2>2. settled # {}
    BY DEF HarvestNext
  <2>3. QED
    BY <2>1, <2>2
<1>3. i \in settled
  <2>1. \E j \in settled : \A k \in settled : j <= k
    BY <1>2, MinimumOfNat
  <2> HIDE DEF settled
  <2>2. QED
    BY <2>1
<1>4. /\ pass' = [pass EXCEPT ![p].pc = "committing", ![p].cur = x,
                              ![p].result = Mapped(EntryOf(x)),
                              ![p].snap = SubSeq(@, i + 1, Len(@))]
      /\ flight' = Without(x)
  BY DEF HarvestNext
<1> HIDE DEF i
<1>5. i \in DOMAIN snap /\ x \in Attempt /\ SettledId(x)
  BY <1>1, <1>3
<1>6. SubSeq(snap, i + 1, Len(snap)) \in Seq(Attempt)
  BY <1>1, <1>5
<1>7. PICK k \in DOMAIN flight : flight[k].id = x /\ flight[k].result # "pending"
  BY <1>5 DEF SettledId
<1>8. PlaceOf(x) = k
  BY <1>7, PlaceIsFound DEF HeldOnce
<1>9. flight[k] \in FlightEntry
  BY <1>7 DEF MemoryTypeOK
<1>10. Mapped(flight[k]) \in FailureType \cup {"completed", "aborted", "none"}
  BY <1>7, <1>9 DEF FlightEntry, Mapped, FailureType
<1>11. EntryOf(x) = flight[k]
  BY <1>8 DEF EntryOf
<1> DEFINE v == [pass[p] EXCEPT !.pc = "committing", !.cur = x, !.result = Mapped(flight[k]),
                               !.snap = SubSeq(snap, i + 1, Len(snap))]
<1>12. v \in PassLocals
  BY <1>1, <1>5, <1>6, <1>10 DEF PassLocals, PC
<1>13. pass' = [pass EXCEPT ![p] = v]
  BY <1>4, <1>11
<1>14. v.pc = "committing" /\ v.cur = x /\ v.result = Mapped(flight[k])
  BY <1>1 DEF PassLocals
<1> HIDE DEF v, x
<1>15. /\ pass'[p] = v
       /\ \A q \in Pass \ {p} : pass'[q] = pass[q]
       /\ pass' \in [Pass -> PassLocals]
  BY <1>12, <1>13 DEF MemoryTypeOK
<1>16. QED
  BY <1>4, <1>7, <1>8, <1>9, <1>14, <1>15

\* A claim makes an attempt within the bound.
LEMMA ClaimedAttempt ==
    ASSUME TypeOK, NEW t \in Task, Claim(t)
    PROVE  <<t, Len(att[t]) + 1>> \in Attempt
<1>1. Len(att[t]) \in Nat /\ Len(att[t]) < MaxOrdinal
  BY DEF TypeOK, Claim
<1>2. QED
  BY <1>1, MaxOrdinalAssumption DEF Attempt

LEMMA PassTypeStep ==
    ASSUME TypeOK, MemoryTypeOK, HeldIsCurrent, HeldOnce, NEW p \in Pass,
           StartPass(p) \/ PassStep(p)
    PROVE  MemoryTypeOK'
<1> USE DEF MemoryTypeOK
<1>1. pass[p] \in PassLocals
  OBVIOUS
<1>2. ASSUME pass' \in [Pass -> PassLocals], UNCHANGED <<flight, slots, holder, meta>>,
             thread' \in {p, "free"}
      PROVE  MemoryTypeOK'
  BY <1>2
<1>3. ASSUME pass' \in [Pass -> PassLocals], UNCHANGED flight,
             thread' \in {p, "free"}, Release(pass[p].cur)
      PROVE  MemoryTypeOK'
  BY <1>3, ReleaseType
<1>4. ASSUME BackToDispatch(p)
      PROVE  pass' \in [Pass -> PassLocals] /\ thread' = p
  BY <1>1, <1>4 DEF BackToDispatch, Keep, PassLocals, PC
<1>5. \A state : QueueOf(state) \subseteq Task
  BY DEF QueueOf
<1>6. ASSUME NEW wave \in {1, 2}, EnterHarvest(p, wave) PROVE pass' \in [Pass -> PassLocals]
  <2>1. [pass[p] EXCEPT !.pc = "harvest", !.wave = wave, !.snap = FlightIds] \in PassLocals
    BY <1>1, SnapshotType DEF PassLocals, PC
  <2>2. QED
    BY <1>6, <2>1 DEF EnterHarvest
<1>7. ASSUME EnterDispatch(p) PROVE pass' \in [Pass -> PassLocals]
  <2>1. [pass[p] EXCEPT !.pc = "dispatch", !.queue = QueueOf(task')] \in PassLocals
    BY <1>1, <1>5 DEF PassLocals, PC
  <2>2. QED
    BY <1>7, <2>1 DEF EnterDispatch
<1>8. ASSUME NEW pc \in PC, Goto(p, pc) PROVE pass' \in [Pass -> PassLocals]
  <2>1. [pass[p] EXCEPT !.pc = pc] \in PassLocals
    BY <1>1 DEF PassLocals
  <2>2. QED
    BY <1>8, <2>1 DEF Goto
<1>9. CASE StartPass(p)
  <2>1. flight' \in Seq(FlightEntry)
    BY <1>9, SweptType DEF StartPass
  <2>2. QED
    BY <1>8, <1>9, <2>1 DEF StartPass, Keep, PC
<1>10. CASE PassReconcileApproval(p) \/ AskApproval(p) \/ PassPropagate(p)
  BY <1>10 DEF PassReconcileApproval, AskApproval, PassPropagate, Keep
<1>11. CASE TickPromote(p)
  BY <1>2, <1>6, <1>7, <1>11 DEF TickPromote, Keep
<1>12. CASE AutoHarvest(p)
  BY <1>2, <1>6, <1>12 DEF AutoHarvest, Keep
<1>13. ASSUME NEW t \in Task, ClaimNext(p, t) PROVE MemoryTypeOK'
  <2>1. <<t, Len(att[t]) + 1>> \in Attempt
    BY <1>13, ClaimedAttempt DEF ClaimNext
  <2>2. pass' \in [Pass -> PassLocals]
    BY <1>1, <1>13, <2>1, KindAssumption DEF ClaimNext, PassLocals, PC, KindName
  <2>3. thread' \in {p, "free"}
    BY <1>13 DEF ClaimNext, Keep, Yield
  <2>4. QED
    BY <1>13, <2>1, <2>2, <2>3, AcquireType DEF ClaimNext
<1>14. ASSUME NEW t \in Task, SkipNext(p, t) PROVE MemoryTypeOK'
  BY <1>1, <1>2, <1>14 DEF SkipNext, Keep, PassLocals
<1>15. CASE EndDispatch(p)
  BY <1>1, <1>2, <1>15 DEF EndDispatch, Yield, PassLocals, PC
<1>16. CASE HarvestNext(p)
  <2>1. PICK k \in DOMAIN flight :
          /\ PlaceOf(flight[k].id) = k
          /\ pass' \in [Pass -> PassLocals]
          /\ flight' = Without(flight[k].id)
    BY <1>16, HarvestPicks
  <2>2. flight' \in Seq(FlightEntry)
    BY <2>1, WithoutOne
  <2>3. QED
    BY <1>16, <2>1, <2>2 DEF HarvestNext, Yield
<1>17. CASE BeginHarvest(p)
  <2>1. pass[p].wave \in {1, 2}
    BY <1>1 DEF PassLocals
  <2>2. QED
    BY <1>2, <1>6, <1>17, <2>1 DEF BeginHarvest, Keep
<1>18. CASE EndHarvest(p)
  <2> DEFINE next == IF pass[p].wave = 1 THEN "harvested" ELSE "conclude"
  <2>1. <<>> \in Seq(Attempt) /\ next \in PC
    BY DEF PC
  <2>2. [pass[p] EXCEPT !.snap = <<>>, !.pc = next] \in PassLocals
    BY <1>1, <2>1 DEF PassLocals
  <2>3. QED
    BY <1>2, <1>18, <2>2 DEF EndHarvest, Yield
<1>19. CASE PromoteAgain(p)
  <2>1. [pass[p] EXCEPT !.pc = "dispatch", !.queue = QueueOf(task'), !.wave = 2] \in PassLocals
    BY <1>1, <1>5 DEF PassLocals, PC
  <2>2. QED
    BY <1>2, <1>8, <1>19, <2>1 DEF PromoteAgain, Keep, PC
<1>20. ASSUME NEW cause \in {"none", "timer"}, StartOk(p, cause) PROVE MemoryTypeOK'
  <2>1. pass[p].cur \in Attempt
    BY <1>20 DEF StartOk, At, HeldIsCurrent, Current, InHand
  <2>2. flight' \in Seq(FlightEntry)
    BY <1>20, <2>1 DEF StartOk, Entry, FlightEntry
  <2>3. QED
    BY <1>4, <1>20, <2>2 DEF StartOk
<1>21. ASSUME NEW failure \in StartFailures, StartFails(p, failure) PROVE MemoryTypeOK'
  BY <1>3, <1>4, <1>21 DEF StartFails
<1>22. ASSUME NEW result \in MergeResults, MergeEnds(p, result) PROVE MemoryTypeOK'
  BY <1>3, <1>4, <1>22 DEF MergeEnds
<1>23. CASE ResolveApproval(p)
  BY <1>3, <1>4, <1>23 DEF ResolveApproval
<1>24. CASE HarvestCommit(p)
  BY <1>1, <1>3, <1>24 DEF HarvestCommit, Keep, PassLocals, PC
<1>25. CASE Conclude(p)
  <2>1. flight' \in Seq(FlightEntry)
    BY <1>25, SweptType DEF Conclude
  <2>2. pass' \in [Pass -> PassLocals]
    BY <1>25 DEF Conclude, IdlePass, PassLocals, PC
  <2>3. QED
    BY <1>25, <2>1, <2>2 DEF Conclude, Yield
<1>26. QED
  BY <1>9, <1>10, <1>11, <1>12, <1>13, <1>14, <1>15, <1>16, <1>17, <1>18, <1>19, <1>20, <1>21,
     <1>22, <1>23, <1>24, <1>25 DEF PassStep

-----------------------------------------------------------------------------
(* Every step of the engine is a transaction of the ledger, or none *)

\* What a transaction that settles attempt x does to the attempts.
Ends(x) ==
    /\ \E v \in AttemptState \ NonTerminal : att' = [att EXCEPT ![x[1]][x[2]] = v]
    /\ UNCHANGED <<run, intent>>

LEMMA CommitEnds ==
    ASSUME NEW t, NEW n, NEW result \in FailureType \cup {"completed", "aborted"},
           Commit(t, n, result)
    PROVE  Ends(<<t, n>>)
<1>1. ASSUME NEW bill \in BOOLEAN, CommitRetry(t, n, bill) PROVE Ends(<<t, n>>)
  BY <1>1 DEF CommitRetry, Ends, AttemptState, NonTerminal
<1>2. ASSUME NEW target \in TaskTerminal, CommitTerminal(t, n, target) PROVE Ends(<<t, n>>)
  BY <1>2 DEF CommitTerminal, Ends, AttemptState, NonTerminal, TaskTerminal
<1>3. QED
  BY <1>1, <1>2 DEF Commit, TaskTerminal

\* The end of a pass's care for its attempt: the attempt is settled as the
\* ledger allows, and its slot and key go back.
GivesUp(p) ==
    /\ AttemptTx
    /\ Ends(pass[p].cur)
    /\ Release(pass[p].cur)
    /\ UNCHANGED flight

\* An attempt in hand may be settled by the transactions of its kind.
LEMMA InHandIsLive ==
    ASSUME HeldIsCurrent, NEW p \in Pass, pass[p].pc \in InHand
    PROVE  /\ pass[p].cur \in Current
           /\ pass[p].cur[1] \in Task
           /\ pass[p].cur[2] \in DOMAIN att[pass[p].cur[1]]
           /\ Live(pass[p].cur[1], pass[p].cur[2])
           /\ pass[p].cur = <<pass[p].cur[1], pass[p].cur[2]>>
<1>1. pass[p].cur \in Current
  BY DEF HeldIsCurrent
<1>2. QED
  BY <1>1, AttemptIsSome DEF Current, Live

LEMMA SettlingSteps ==
    ASSUME MemoryTypeOK, HeldIsCurrent, PassWork, NEW p \in Pass,
           \/ \E failure \in StartFailures : StartFails(p, failure)
           \/ \E result \in MergeResults : MergeEnds(p, result)
           \/ ResolveApproval(p)
           \/ HarvestCommit(p)
    PROVE  pass[p].pc \in InHand /\ GivesUp(p)
<1> DEFINE x == pass[p].cur
           t == x[1]
           n == x[2]
<1>1. pass[p].pc \in InHand
  BY DEF StartFails, MergeEnds, ResolveApproval, HarvestCommit, At, InHand
<1>2. t \in Task /\ n \in {k \in DOMAIN att[t] : Live(t, k)} /\ x = <<t, n>> /\ Live(t, n)
  BY <1>1, InHandIsLive
<1> HIDE DEF x, t, n
<1>3. ASSUME NEW result \in FailureType \cup {"completed", "aborted"}, Commit(t, n, result)
      PROVE  AttemptTx /\ Ends(x)
  BY <1>2, <1>3, CommitEnds DEF AttemptTx
<1>4. CASE \E failure \in StartFailures : StartFails(p, failure)
  BY <1>1, <1>3, <1>4, StartFailuresAssumption DEF StartFails, GivesUp, FailureType, x, t, n
<1>5. CASE \E result \in MergeResults : MergeEnds(p, result)
  <2>1. PICK result \in MergeResults : MergeEnds(p, result)
    BY <1>5
  <2>2. Kind[t] = "merge"
    BY <2>1 DEF MergeEnds, At, PassWork, WorkOf, x, t
  <2>3. Release(x) /\ UNCHANGED flight
    BY <2>1 DEF MergeEnds, x
  <2>4. CASE result = "conflicted"
    <3>1. Park(t, n, "merge_conflicted")
      BY <2>1, <2>4 DEF MergeEnds, x, t, n
    <3>2. AttemptTx
      BY <1>2, <2>2, <3>1 DEF AttemptTx
    <3>3. Ends(x)
      BY <1>2, <3>1 DEF Park, Ends, AttemptState, NonTerminal
    <3>4. QED
      BY <1>1, <2>3, <3>2, <3>3 DEF GivesUp, x
  <2>5. CASE result = "queued"
    <3>1. CommitRetry(t, n, FALSE)
      BY <2>1, <2>5 DEF MergeEnds, x, t, n
    <3>2. AttemptTx
      BY <1>2, <2>2, <3>1 DEF AttemptTx
    <3>3. Ends(x)
      BY <1>2, <3>1 DEF CommitRetry, Ends, AttemptState, NonTerminal
    <3>4. QED
      BY <1>1, <2>3, <3>2, <3>3 DEF GivesUp, x
  <2>6. CASE result = "threw"
    <3>1. CommitTerminal(t, n, "failed")
      BY <2>1, <2>6 DEF MergeEnds, x, t, n
    <3>2. AttemptTx
      BY <1>2, <2>2, <3>1 DEF AttemptTx
    <3>3. Ends(x)
      BY <1>2, <3>1 DEF CommitTerminal, Ends, AttemptState, NonTerminal
    <3>4. QED
      BY <1>1, <2>3, <3>2, <3>3 DEF GivesUp, x
  <2>7. CASE result \in {"completed", "transient", "permanent"}
    <3>1. Commit(t, n, result)
      BY <2>1, <2>7 DEF MergeEnds, x, t, n
    <3>2. QED
      BY <1>1, <1>3, <2>3, <2>7, <3>1 DEF GivesUp, FailureType, x
  <2>8. QED
    BY <2>4, <2>5, <2>6, <2>7, MergeResultsAssumption
<1>6. CASE ResolveApproval(p)
  <2>1. Kind[t] = "approval"
    BY <1>6 DEF ResolveApproval, At, PassWork, WorkOf, x, t
  <2>2. Release(x) /\ UNCHANGED flight
    BY <1>6 DEF ResolveApproval, x
  <2>3. CASE appr[t] = "pending"
    <3>1. Park(t, n, "approval_pending")
      BY <1>6, <2>3 DEF ResolveApproval, x, t, n
    <3>2. AttemptTx
      BY <1>2, <2>1, <2>3, <3>1 DEF AttemptTx
    <3>3. Ends(x)
      BY <1>2, <3>1 DEF Park, Ends, AttemptState, NonTerminal
    <3>4. QED
      BY <1>1, <2>2, <3>2, <3>3 DEF GivesUp, x
  <2>4. CASE appr[t] = "approved"
    <3>1. Commit(t, n, "completed")
      BY <1>6, <2>4 DEF ResolveApproval, Commit, FailureType, x, t, n
    <3>2. QED
      BY <1>1, <1>3, <2>2, <3>1 DEF GivesUp, x
  <2>5. CASE appr[t] = "rejected"
    <3>1. CommitTerminal(t, n, "failed")
      BY <1>6, <2>5 DEF ResolveApproval, x, t, n
    <3>2. AttemptTx
      BY <1>2, <2>1, <3>1 DEF AttemptTx
    <3>3. Ends(x)
      BY <1>2, <3>1 DEF CommitTerminal, Ends, AttemptState, NonTerminal
    <3>4. QED
      BY <1>1, <2>2, <3>2, <3>3 DEF GivesUp, x
  <2>6. QED
    BY <1>6, <2>3, <2>4, <2>5 DEF ResolveApproval, x, t
<1>7. CASE HarvestCommit(p)
  <2>1. pass[p].result \in FailureType \cup {"completed", "aborted"}
    <3>1. pass[p].result \in FailureType \cup {"completed", "aborted", "none"}
      BY DEF MemoryTypeOK, PassLocals
    <3>2. QED
      BY <1>7, <3>1 DEF HarvestCommit, At, PassWork, WorkOf
  <2>2. Commit(t, n, pass[p].result) /\ Release(x) /\ UNCHANGED flight
    BY <1>2, <1>7 DEF HarvestCommit, x, t, n
  <2>3. QED
    BY <1>1, <1>3, <2>1, <2>2 DEF GivesUp, x
<1>8. QED
  BY <1>4, <1>5, <1>6, <1>7

\* The transactions the engine issues once its host is up or boots.
EngineTx ==
    \/ PassTx
    \/ AttemptTx
    \/ ControlTx
    \/ RecoveryTx
    \/ \E t \in Task : BackoffElapses(t)
    \/ UNCHANGED ledger

\* Whatever the engine does is one transaction of the ledger, or none: all of
\* what it settles it owns.
LEMMA PassIsLedgerStep ==
    ASSUME MemoryTypeOK, HeldIsCurrent, PassWork, NEW p \in Pass, StartPass(p) \/ PassStep(p)
    PROVE  PassTx \/ AttemptTx \/ UNCHANGED ledger
<1>1. CASE StartPass(p)
  BY <1>1 DEF StartPass
<1>2. CASE PassReconcileApproval(p)
  BY <1>2 DEF PassReconcileApproval, PassTx, Decided
<1>3. CASE TickPromote(p) \/ PromoteAgain(p)
  BY <1>3 DEF TickPromote, PromoteAgain, MaybePromote, PassTx
<1>4. CASE AutoHarvest(p) \/ EndDispatch(p) \/ BeginHarvest(p) \/ HarvestNext(p) \/ EndHarvest(p)
  BY <1>4 DEF AutoHarvest, EndDispatch, BeginHarvest, HarvestNext, EndHarvest
<1>5. ASSUME NEW t \in Task, ClaimNext(p, t) \/ SkipNext(p, t) PROVE PassTx \/ AttemptTx \/ UNCHANGED ledger
  BY <1>5 DEF ClaimNext, SkipNext, PassTx
<1>6. ASSUME NEW cause, StartOk(p, cause) PROVE PassTx \/ AttemptTx \/ UNCHANGED ledger
  <2>1. pass[p].pc \in InHand /\ Kind[pass[p].cur[1]] = "agent"
    BY <1>6 DEF StartOk, At, InHand, PassWork, WorkOf
  <2>2. RecordDispatch(pass[p].cur[1], pass[p].cur[2])
    BY <1>6 DEF StartOk
  <2>3. AttemptTx
    BY <2>1, <2>2, InHandIsLive DEF AttemptTx
  <2>4. QED
    BY <2>3
<1>7. CASE \/ \E failure \in StartFailures : StartFails(p, failure)
           \/ \E result \in MergeResults : MergeEnds(p, result)
           \/ ResolveApproval(p)
           \/ HarvestCommit(p)
  BY <1>7, SettlingSteps DEF GivesUp
<1>8. CASE AskApproval(p)
  <2>1. pass[p].pc \in InHand /\ Kind[pass[p].cur[1]] = "approval"
    BY <1>8 DEF AskApproval, At, InHand, PassWork, WorkOf
  <2>2. pass[p].cur[1] \in Task
    BY <2>1, InHandIsLive
  <2>3. QED
    BY <1>8, <2>1, <2>2 DEF AskApproval, PassTx
<1>9. CASE PassPropagate(p)
  BY <1>9 DEF PassPropagate, PassTx
<1>10. CASE Conclude(p)
  BY <1>10 DEF Conclude, PassTx
<1>11. QED
  BY <1>1, <1>2, <1>3, <1>4, <1>5, <1>6, <1>7, <1>8, <1>9, <1>10 DEF PassStep

LEMMA EngineIsLedgerStep ==
    ASSUME EngineInv, [EngineNext]_vars
    PROVE  EngineTx /\ [LedgerNext]_ledger
<1> MemoryTypeOK /\ HeldIsCurrent /\ PassWork
  BY TypesTogether DEF EngineInv, Ownership
<1>1. ASSUME NEW p \in Pass, StartPass(p) \/ PassStep(p) PROVE PassTx \/ AttemptTx \/ UNCHANGED ledger
  BY <1>1, PassIsLedgerStep
<1>2. ASSUME NEW i \in DOMAIN flight, ChildSettles(i) \/ TimerFires(i) PROVE UNCHANGED ledger
  BY <1>2 DEF ChildSettles, TimerFires
<1>3. ASSUME NEW t \in Task, TimePasses(t) PROVE BackoffElapses(t)
  BY <1>3 DEF TimePasses
<1>4. Control => ControlTx
  BY DEF Control, ControlStop, ControlOther, ControlTx
<1>5. Approve => ControlTx
  BY DecisionsAssumption DEF Approve, ControlTx
<1>6. Crash \/ BootDone => UNCHANGED ledger
  BY DEF Crash, BootDone
<1>7. BootReconcile => RecoveryTx
  BY DEF BootReconcile
<1>8. QED
  BY <1>1, <1>2, <1>3, <1>4, <1>5, <1>6, <1>7 DEF EngineNext, EngineTx, LedgerNext, vars

-----------------------------------------------------------------------------
(* What the ledger's invariants give the engine *)

LEMMA LedgerFactsStep ==
    ASSUME EngineInv, [EngineNext]_vars
    PROVE  TypeOK' /\ RunningHasItsAttempt' /\ IntentMatchesRun' /\ AttemptsBounded'
<1>1. IInv /\ IntentMatchesRun /\ TypeOK /\ [LedgerNext]_ledger
  BY EngineIsLedgerStep DEF EngineInv, EngineTypeOK, IInv
<1>2. TypeOK' /\ RunningHasItsAttempt' /\ IntentMatchesRun'
  BY <1>1, TypeStep, RunningStep, IntentStep
<1>3. AttemptsBounded'
  <2> SUFFICES ASSUME NEW u \in Task PROVE Len(att'[u]) <= MaxOrdinal
    BY DEF AttemptsBounded
  <2>1. att[u] \in Seq(AttemptState) /\ att'[u] \in Seq(AttemptState)
    BY <1>1, <1>2 DEF TypeOK
  <2>2. Len(att[u]) <= MaxOrdinal
    BY DEF EngineInv, AttemptsBounded
  <2>3. CASE \E t \in Task : Claim(t)
    BY <1>1, <2>1, <2>2, <2>3, MaxOrdinalAssumption DEF Claim, TypeOK
  <2>4. CASE AttemptTx \/ ControlTx \/ RecoveryTx
    <3>1. DOMAIN att'[u] = DOMAIN att[u]
      BY <1>1, <2>4, AttemptsStay
    <3>2. Len(att'[u]) = Len(att[u])
      BY <2>1, <3>1
    <3>3. QED
      BY <2>2, <3>2
  <2>5. CASE att' = att
    BY <2>2, <2>5
  <2>6. PassTx => att' = att \/ \E t \in Task : Claim(t)
    BY DEF PassTx, PromoteReady, Finalize, DrainToPaused, ReconcileApproval, Propagate,
       RequestApproval
  <2>7. ParkBroken \/ (\E t \in Task : BackoffElapses(t)) \/ UNCHANGED ledger => att' = att
    BY DEF ParkBroken, BackoffElapses, ledger
  <2>8. QED
    BY <1>1, <2>3, <2>4, <2>5, <2>6, <2>7 DEF LedgerNext
<1>4. QED
  BY <1>2, <1>3

\* The live attempts after a claim, a settlement, a dispatch record, and a
\* transaction that touches no attempt.
LEMMA CurrentClaimed ==
    ASSUME TypeOK, NEW t \in Task, Claim(t)
    PROVE  /\ <<t, Len(att[t]) + 1>> \in Attempt \ Current
           /\ Current' = Current \cup {<<t, Len(att[t]) + 1>>}
<1> DEFINE n == Len(att[t]) + 1
           x == <<t, n>>
<1>1. /\ att[t] \in Seq(AttemptState)
      /\ att'[t] = Append(att[t], "claimed")
      /\ \A u \in Task \ {t} : att'[u] = att[u]
  BY DEF Claim, TypeOK
<1>2. x \in Attempt
  BY ClaimedAttempt
<1>3. \A k \in Nat : Live(t, k)' <=> Live(t, k) \/ k = n
  BY <1>1 DEF Live, NonTerminal
<1>4. ~Live(t, n)
  BY <1>1 DEF Live
<1>5. \A u \in Task \ {t} : \A k : Live(u, k)' <=> Live(u, k)
  BY <1>1 DEF Live
<1>6. \A y \in Attempt : Live(y[1], y[2])' <=> Live(y[1], y[2]) \/ y = x
  <2> TAKE y \in Attempt
  <2>1. y[1] \in Task /\ y[2] \in Nat /\ y = <<y[1], y[2]>>
    BY AttemptIsSome
  <2> HIDE DEF n
  <2>2. CASE y[1] = t
    BY <1>3, <2>1, <2>2
  <2>3. CASE y[1] # t
    BY <1>5, <2>1, <2>3
  <2>4. QED
    BY <2>2, <2>3
<1>7. Current' = Current \cup {x}
  BY <1>2, <1>6 DEF Current
<1>8. x \notin Current
  BY <1>4 DEF Current
<1>9. QED
  BY <1>2, <1>7, <1>8

LEMMA CurrentEnded ==
    ASSUME TypeOK, NEW x \in Current, Ends(x)
    PROVE  Current' = Current \ {x}
<1>1. x \in Attempt /\ x[1] \in Task /\ x[2] \in DOMAIN att[x[1]] /\ x = <<x[1], x[2]>>
  BY AttemptIsSome DEF Current, Live
<1>2. PICK v \in AttemptState \ NonTerminal : att' = [att EXCEPT ![x[1]][x[2]] = v]
  BY DEF Ends
<1>3. /\ att'[x[1]] = [att[x[1]] EXCEPT ![x[2]] = v]
      /\ \A u \in Task \ {x[1]} : att'[u] = att[u]
      /\ att[x[1]] \in Seq(AttemptState)
  BY <1>1, <1>2 DEF TypeOK
<1>4. \A y \in Attempt : Live(y[1], y[2])' <=> Live(y[1], y[2]) /\ y # x
  <2> TAKE y \in Attempt
  <2>1. y[1] \in Task /\ y = <<y[1], y[2]>>
    BY AttemptIsSome
  <2>2. CASE y[1] # x[1]
    BY <1>3, <2>1, <2>2 DEF Live
  <2>3. CASE y[1] = x[1]
    BY <1>1, <1>2, <1>3, <2>1, <2>3 DEF Live
  <2>4. QED
    BY <2>2, <2>3
<1>5. QED
  BY <1>4 DEF Current

LEMMA CurrentRecorded ==
    ASSUME TypeOK, NEW t \in Task, NEW n, RecordDispatch(t, n)
    PROVE  Current' = Current
<1>1. n \in DOMAIN att[t] /\ att[t][n] \in NonTerminal
  BY DEF RecordDispatch, Live
<1>2. /\ att'[t] = [att[t] EXCEPT ![n] = "dispatched"]
      /\ \A u \in Task \ {t} : att'[u] = att[u]
  BY DEF RecordDispatch, TypeOK
<1>3. \A u \in Task : \A k : Live(u, k)' <=> Live(u, k)
  BY <1>1, <1>2 DEF Live, NonTerminal
<1>4. QED
  BY <1>3, AttemptIsSome DEF Current

LEMMA CurrentKept ==
    ASSUME att' = att
    PROVE  Current' = Current
BY DEF Current, Live

-----------------------------------------------------------------------------
(* Who holds what: attempts, slots and keys *)

Accounts == Ownership /\ SlotsAccounted /\ KeyIsExclusive

\* The passes of S hold after the step what they held before it.
HandsKept(S) ==
    \A q \in S : /\ pass'[q].pc \in InHand <=> pass[q].pc \in InHand
                 /\ pass[q].pc \in InHand => pass'[q].cur = pass[q].cur

IdsKept ==
    /\ DOMAIN flight' = DOMAIN flight
    /\ \A i \in DOMAIN flight : flight'[i].id = flight[i].id

LEMMA HandAfter ==
    ASSUME NEW S, HandsKept(S)
    PROVE  \A q \in S : Hand(q)' = Hand(q)
BY DEF HandsKept, Hand

\* The account of slots and keys, said of the live attempts.
LEMMA AccountsOfCurrent ==
    ASSUME thread # "boot"
    PROVE  /\ SlotsAccounted <=> /\ DOMAIN meta = Current
                                 /\ slots = {meta[x] : x \in DOMAIN meta}
                                 /\ \A x, y \in DOMAIN meta : meta[x] = meta[y] => x = y
           /\ KeyIsExclusive <=> \A x \in Attempt : KeyOf[x[1]] # NoKey =>
                                    (x \in Current <=> holder[KeyOf[x[1]]] = x)
BY DEF SlotsAccounted, KeyIsExclusive, Current

\* A step that takes nothing and gives nothing back.
LEMMA NothingTaken ==
    ASSUME Accounts, Current' = Current, HandsKept(Pass), IdsKept,
           UNCHANGED <<slots, holder, meta>>, thread' # "boot" => thread # "boot"
    PROVE  Accounts'
<1>1. \A q \in Pass : Hand(q)' = Hand(q)
  BY HandAfter
<1>2. HeldIsCurrent'
  BY DEF Accounts, Ownership, HeldIsCurrent, HandsKept, IdsKept
<1>3. HeldOnce'
  BY <1>1 DEF Accounts, Ownership, HeldOnce, IdsKept
<1>4. CurrentIsHeld'
  BY <1>1 DEF Accounts, Ownership, CurrentIsHeld, IdsKept
<1>5. SlotsAccounted' /\ KeyIsExclusive'
  <2>1. CASE thread' = "boot"
    BY <2>1 DEF SlotsAccounted, KeyIsExclusive
  <2>2. CASE thread' # "boot"
    <3>1. thread # "boot"
      BY <2>2
    <3>2. \A x \in Attempt : Live(x[1], x[2])' <=> Live(x[1], x[2])
      BY DEF Current
    <3>3. SlotsAccounted'
      BY <3>1, <3>2 DEF Accounts, SlotsAccounted
    <3>4. KeyIsExclusive'
      BY <3>1, <3>2 DEF Accounts, KeyIsExclusive
    <3>5. QED
      BY <3>3, <3>4
  <2>3. QED
    BY <2>1, <2>2
<1>6. QED
  BY <1>2, <1>3, <1>4, <1>5 DEF Accounts, Ownership

\* A claim puts a new attempt into the hands of the pass, with a slot and a key
\* that nobody held.
LEMMA ClaimTakes ==
    ASSUME TypeOK, MemoryTypeOK, Accounts, thread # "boot", NEW p \in Pass, NEW t \in Task,
           ClaimNext(p, t)
    PROVE  Accounts'
<1> DEFINE x == <<t, Len(att[t]) + 1>>
<1>1. x \in Attempt \ Current /\ Current' = Current \cup {x} /\ x[1] = t
  BY CurrentClaimed DEF ClaimNext
<1>2. /\ pass'[p].pc \in {"starting", "merging", "parking"} /\ pass'[p].cur = x
      /\ \A q \in Pass \ {p} : pass'[q] = pass[q]
      /\ pass[p].pc = "dispatch" /\ flight' = flight
  <2>1. pass[p] \in PassLocals /\ pass \in [Pass -> PassLocals] /\ Kind[t] \in KindName
    BY KindAssumption DEF MemoryTypeOK
  <2>2. QED
    BY <2>1 DEF ClaimNext, At, PassLocals, KindName
<1>3. /\ FreeSlots # {} /\ ~KeyTaken(t) /\ Acquire(x)
  BY DEF ClaimNext
<1> HIDE DEF x
<1>4. Hand(p) = NoAttempt /\ Hand(p)' = x /\ \A q \in Pass \ {p} : Hand(q)' = Hand(q)
  BY <1>2 DEF Hand, InHand
<1>5. HeldIsCurrent'
  BY <1>1, <1>2 DEF Accounts, Ownership, HeldIsCurrent
<1>6. \A q \in Pass : Hand(q) # NoAttempt => Hand(q) \in Current
  BY DEF Accounts, Ownership, HeldIsCurrent, Hand
<1>7. HeldOnce'
  <2>1. \A q \in Pass : Hand(q) # x
    BY <1>1, <1>6, AttemptIsSome
  <2>2. \A i \in DOMAIN flight : flight[i].id # x
    BY <1>1 DEF Accounts, Ownership, HeldIsCurrent
  <2>3. QED
    BY <1>2, <1>4, <2>1, <2>2 DEF Accounts, Ownership, HeldOnce
<1>8. CurrentIsHeld'
  <2> SUFFICES ASSUME NEW y \in Current'
               PROVE  \/ \E q \in Pass : Hand(q)' = y
                      \/ \E i \in DOMAIN flight' : flight'[i].id = y
    BY DEF CurrentIsHeld
  <2>1. CASE y = x
    BY <1>4, <2>1
  <2>2. CASE y \in Current
    <3>1. y # NoAttempt
      BY <2>2, AttemptIsSome DEF Current
    <3>2. \/ \E q \in Pass : Hand(q) = y
          \/ \E i \in DOMAIN flight : flight[i].id = y
      BY <2>2 DEF Accounts, Ownership, CurrentIsHeld
    <3>3. QED
      BY <1>2, <1>4, <3>1, <3>2
  <2>3. QED
    BY <1>1, <2>1, <2>2
<1>9. LowestSlot \in Slot \ slots
  BY <1>3, LowestSlotIsFree DEF FreeSlots
<1>10. /\ DOMAIN meta = Current
       /\ slots = {meta[y] : y \in DOMAIN meta}
       /\ \A y, z \in DOMAIN meta : meta[y] = meta[z] => y = z
       /\ \A y \in Attempt : KeyOf[y[1]] # NoKey => (y \in Current <=> holder[KeyOf[y[1]]] = y)
  BY AccountsOfCurrent DEF Accounts
<1>11. /\ DOMAIN meta' = Current \cup {x} /\ meta'[x] = LowestSlot
       /\ \A y \in Current : meta'[y] = meta[y]
       /\ slots' = slots \cup {LowestSlot}
  BY <1>1, <1>3, <1>10 DEF Acquire
<1>12. /\ slots' = {meta'[y] : y \in DOMAIN meta'}
       /\ \A y, z \in DOMAIN meta' : meta'[y] = meta'[z] => y = z
  BY <1>1, <1>9, <1>10, <1>11
<1>13. \A y \in Attempt : KeyOf[y[1]] # NoKey => (y \in Current' <=> holder'[KeyOf[y[1]]] = y)
  <2> SUFFICES ASSUME NEW y \in Attempt, KeyOf[y[1]] # NoKey
               PROVE  y \in Current' <=> holder'[KeyOf[y[1]]] = y
    OBVIOUS
  <2>1. y[1] \in Task /\ KeyOf[y[1]] \in Key
    BY AttemptIsSome DEF Key
  <2>2. CASE KeyOf[t] = NoKey
    BY <1>1, <1>3, <1>10, <2>2 DEF Acquire
  <2>3. CASE KeyOf[t] # NoKey /\ KeyOf[y[1]] # KeyOf[t]
    BY <1>1, <1>3, <1>10, <2>1, <2>3 DEF Acquire, MemoryTypeOK
  <2>4. CASE KeyOf[t] # NoKey /\ KeyOf[y[1]] = KeyOf[t]
    <3>1. holder[KeyOf[t]] = NoAttempt
      BY <1>3, <2>4 DEF KeyTaken
    <3>2. holder'[KeyOf[t]] = x
      BY <1>1, <1>3, <2>1, <2>4 DEF Acquire, MemoryTypeOK
    <3>3. y \notin Current
      BY <1>10, <2>4, <3>1, AttemptIsSome
    <3>4. QED
      BY <1>1, <2>4, <3>2, <3>3
  <2>5. QED
    BY <2>2, <2>3, <2>4
<1>14. SlotsAccounted' /\ KeyIsExclusive'
  BY <1>1, <1>11, <1>12, <1>13 DEF SlotsAccounted, KeyIsExclusive, Current
<1>15. QED
  BY <1>5, <1>7, <1>8, <1>14 DEF Accounts, Ownership

\* Registering the child hands the attempt from the pass to the in-flight map.
LEMMA StartRegisters ==
    ASSUME TypeOK, MemoryTypeOK, Accounts, thread # "boot", NEW p \in Pass,
           NEW cause \in {"none", "timer"}, StartOk(p, cause)
    PROVE  Accounts'
<1> DEFINE x == pass[p].cur
           n == Len(flight)
<1>1. pass[p].pc = "starting" /\ x \in Current /\ x[1] \in Task
  BY InHandIsLive DEF StartOk, At, Accounts, Ownership, InHand
<1>2. Current' = Current
  BY <1>1, CurrentRecorded DEF StartOk
<1>3. /\ pass'[p].pc = "dispatch" /\ \A q \in Pass \ {p} : pass'[q] = pass[q]
      /\ flight' = Append(flight, Entry(x, cause))
      /\ UNCHANGED <<slots, holder, meta>>
  <2>1. pass[p] \in PassLocals /\ pass \in [Pass -> PassLocals]
    BY DEF MemoryTypeOK
  <2>2. QED
    BY <2>1 DEF StartOk, BackToDispatch, PassLocals
<1>4. /\ n \in Nat /\ DOMAIN flight = 1 .. n /\ DOMAIN flight' = 1 .. n + 1
      /\ flight'[n + 1].id = x
      /\ \A i \in 1 .. n : flight'[i] = flight[i]
  BY <1>3 DEF Entry, MemoryTypeOK
<1> HIDE DEF n
<1>5. Hand(p) = x /\ Hand(p)' = NoAttempt /\ \A q \in Pass \ {p} : Hand(q)' = Hand(q)
  BY <1>1, <1>3 DEF Hand, InHand
<1> HIDE DEF x
<1>6. x # NoAttempt
  BY <1>1, AttemptIsSome DEF Current
<1>7. HeldIsCurrent'
  BY <1>1, <1>2, <1>3, <1>4 DEF Accounts, Ownership, HeldIsCurrent, InHand
<1>8. /\ \A q, r \in Pass : Hand(q) # NoAttempt /\ Hand(q) = Hand(r) => q = r
      /\ \A i, j \in DOMAIN flight : flight[i].id = flight[j].id => i = j
      /\ \A q \in Pass : \A i \in DOMAIN flight : Hand(q) # flight[i].id
  BY DEF Accounts, Ownership, HeldOnce
<1>9. HeldOnce'
  <2>1. \A q, r \in Pass : Hand(q)' # NoAttempt /\ Hand(q)' = Hand(r)' => q = r
    BY <1>5, <1>8
  <2>2. \A i, j \in DOMAIN flight' : flight'[i].id = flight'[j].id => i = j
    BY <1>4, <1>5, <1>8
  <2>3. \A q \in Pass : \A i \in DOMAIN flight' : Hand(q)' # flight'[i].id
    <3> TAKE q \in Pass
    <3> TAKE i \in DOMAIN flight'
    <3>1. Hand(q)' # x
      BY <1>5, <1>6, <1>8
    <3>2. i \in 1 .. n => Hand(q)' # flight[i].id
      <4>1. CASE q = p
        <5>1. \A j \in DOMAIN flight : flight[j].id # NoAttempt
          BY AttemptIsSome DEF Accounts, Ownership, HeldIsCurrent, Current
        <5>2. QED
          BY <1>4, <1>5, <4>1, <5>1
      <4>2. CASE q # p
        BY <1>4, <1>5, <1>8, <4>2
      <4>3. QED
        BY <4>1, <4>2
    <3>3. QED
      BY <1>4, <3>1, <3>2
  <2>4. QED
    BY <2>1, <2>2, <2>3 DEF HeldOnce
<1>10. CurrentIsHeld'
  <2> SUFFICES ASSUME NEW y \in Current
               PROVE  \/ \E q \in Pass : Hand(q)' = y
                      \/ \E i \in DOMAIN flight' : flight'[i].id = y
    BY <1>2 DEF CurrentIsHeld
  <2>1. \/ \E q \in Pass : Hand(q) = y
        \/ \E i \in DOMAIN flight : flight[i].id = y
    BY DEF Accounts, Ownership, CurrentIsHeld
  <2>2. n + 1 \in DOMAIN flight' /\ DOMAIN flight \subseteq DOMAIN flight'
    BY <1>4
  <2>3. QED
    BY <1>4, <1>5, <2>1, <2>2
<1>11. SlotsAccounted' /\ KeyIsExclusive'
  BY <1>2, <1>3 DEF Accounts, SlotsAccounted, KeyIsExclusive, Current
<1>12. QED
  BY <1>7, <1>9, <1>10, <1>11 DEF Accounts, Ownership

\* Harvesting takes the attempt out of the map into the hands of the pass, so
\* another harvest that runs during the await finds nothing to settle twice.
LEMMA HarvestTakes ==
    ASSUME MemoryTypeOK, Accounts, thread # "boot", NEW p \in Pass, HarvestNext(p)
    PROVE  Accounts'
<1>1. PICK k \in DOMAIN flight :
        /\ PlaceOf(flight[k].id) = k
        /\ pass'[p].pc = "committing" /\ pass'[p].cur = flight[k].id
        /\ \A q \in Pass \ {p} : pass'[q] = pass[q]
        /\ flight' = Without(flight[k].id)
  BY HarvestPicks DEF Accounts, Ownership
<1> DEFINE x == flight[k].id
<1>2. /\ pass[p].pc = "harvest" /\ att' = att /\ UNCHANGED <<slots, holder, meta>>
  BY DEF HarvestNext, At, ledger
<1>3. Current' = Current
  BY <1>2, CurrentKept
<1>4. x \in Current /\ x # NoAttempt
  BY AttemptIsSome DEF Accounts, Ownership, HeldIsCurrent, Current
<1>5. Hand(p) = NoAttempt /\ Hand(p)' = x /\ \A q \in Pass \ {p} : Hand(q)' = Hand(q)
  BY <1>1, <1>2 DEF Hand, InHand
<1>6. /\ \A i \in DOMAIN flight' : \E j \in DOMAIN flight \ {k} : flight'[i] = flight[j]
      /\ \A j \in DOMAIN flight \ {k} : \E i \in DOMAIN flight' : flight'[i] = flight[j]
      /\ \A i, j \in DOMAIN flight' : i # j =>
            \E l, m \in DOMAIN flight : l # m /\ flight'[i] = flight[l] /\ flight'[j] = flight[m]
  BY <1>1, WithoutOne DEF MemoryTypeOK
<1>7. /\ \A q, r \in Pass : Hand(q) # NoAttempt /\ Hand(q) = Hand(r) => q = r
      /\ \A i, j \in DOMAIN flight : flight[i].id = flight[j].id => i = j
      /\ \A q \in Pass : \A i \in DOMAIN flight : Hand(q) # flight[i].id
      /\ \A i \in DOMAIN flight : flight[i].id \in Current
  BY DEF Accounts, Ownership, HeldOnce, HeldIsCurrent
<1>8. HeldIsCurrent'
  <2>1. \A q \in Pass : pass'[q].pc \in InHand => pass'[q].cur \in Current
    BY <1>1, <1>4 DEF Accounts, Ownership, HeldIsCurrent
  <2>2. \A i \in DOMAIN flight' : flight'[i].id \in Current
    BY <1>6, <1>7
  <2>3. QED
    BY <1>3, <2>1, <2>2 DEF HeldIsCurrent
<1> HIDE DEF x
<1>9. HeldOnce'
  <2>1. \A q, r \in Pass : Hand(q)' # NoAttempt /\ Hand(q)' = Hand(r)' => q = r
    BY <1>5, <1>7 DEF x
  <2>2. \A i, j \in DOMAIN flight' : flight'[i].id = flight'[j].id => i = j
    BY <1>6, <1>7
  <2>3. \A q \in Pass : \A i \in DOMAIN flight' : Hand(q)' # flight'[i].id
    BY <1>5, <1>6, <1>7 DEF x
  <2>4. QED
    BY <2>1, <2>2, <2>3 DEF HeldOnce
<1>10. CurrentIsHeld'
  <2> SUFFICES ASSUME NEW y \in Current
               PROVE  \/ \E q \in Pass : Hand(q)' = y
                      \/ \E i \in DOMAIN flight' : flight'[i].id = y
    BY <1>3 DEF CurrentIsHeld
  <2>1. \/ \E q \in Pass : Hand(q) = y
        \/ \E i \in DOMAIN flight : flight[i].id = y
    BY DEF Accounts, Ownership, CurrentIsHeld
  <2>2. y # NoAttempt
    BY AttemptIsSome DEF Current
  <2>3. CASE \E q \in Pass : Hand(q) = y
    BY <1>5, <2>2, <2>3
  <2>4. CASE \E i \in DOMAIN flight : flight[i].id = y
    BY <1>5, <1>6, <2>4 DEF x
  <2>5. QED
    BY <2>1, <2>3, <2>4
<1>11. thread' # "boot"
  BY DEF HarvestNext, Yield
<1>12. SlotsAccounted' /\ KeyIsExclusive'
  BY <1>2, <1>3 DEF Accounts, SlotsAccounted, KeyIsExclusive, Current
<1>13. QED
  BY <1>8, <1>9, <1>10, <1>12 DEF Accounts, Ownership

\* Settling ends the attempt and returns exactly its slot and its key.
LEMMA SettlingReturns ==
    ASSUME TypeOK, MemoryTypeOK, Accounts, thread # "boot", NEW p \in Pass,
           pass[p].pc \in InHand, GivesUp(p),
           pass'[p].pc \notin InHand, \A q \in Pass \ {p} : pass'[q] = pass[q]
    PROVE  Accounts'
<1> DEFINE x == pass[p].cur
<1>1. x \in Current /\ x # NoAttempt /\ x \in Attempt
  BY AttemptIsSome DEF Accounts, Ownership, HeldIsCurrent, Current
<1>2. Current' = Current \ {x}
  BY <1>1, CurrentEnded DEF GivesUp
<1>3. Hand(p) = x /\ Hand(p)' = NoAttempt /\ \A q \in Pass \ {p} : Hand(q)' = Hand(q)
  BY DEF Hand
<1>4. Release(x) /\ flight' = flight
  BY DEF GivesUp
<1> HIDE DEF x
<1>5. /\ \A q, r \in Pass : Hand(q) # NoAttempt /\ Hand(q) = Hand(r) => q = r
      /\ \A i, j \in DOMAIN flight : flight[i].id = flight[j].id => i = j
      /\ \A q \in Pass : \A i \in DOMAIN flight : Hand(q) # flight[i].id
      /\ \A i \in DOMAIN flight : flight[i].id \in Current
      /\ \A q \in Pass : pass[q].pc \in InHand => Hand(q) = pass[q].cur /\ pass[q].cur \in Current
  BY DEF Accounts, Ownership, HeldOnce, HeldIsCurrent, Hand
<1>6. HeldIsCurrent'
  <2>1. \A q \in Pass : pass'[q].pc \in InHand => pass'[q].cur \in Current \ {x}
    <3> SUFFICES ASSUME NEW q \in Pass, pass'[q].pc \in InHand
                 PROVE  pass'[q].cur \in Current \ {x}
      OBVIOUS
    <3>1. q # p /\ pass'[q] = pass[q]
      OBVIOUS
    <3>2. Hand(q) # x
      BY <1>1, <1>3, <1>5, <3>1
    <3>3. QED
      BY <1>5, <3>1, <3>2
  <2>2. \A i \in DOMAIN flight : flight[i].id \in Current \ {x}
    BY <1>3, <1>5
  <2>3. QED
    BY <1>2, <1>4, <2>1, <2>2 DEF HeldIsCurrent
<1>7. HeldOnce'
  <2>1. \A i \in DOMAIN flight : flight[i].id # NoAttempt
    BY <1>5, AttemptIsSome DEF Current
  <2>2. QED
    BY <1>3, <1>4, <1>5, <2>1 DEF HeldOnce
<1>8. CurrentIsHeld'
  BY <1>2, <1>3, <1>4 DEF Accounts, Ownership, CurrentIsHeld
<1>9. /\ DOMAIN meta = Current
      /\ slots = {meta[y] : y \in DOMAIN meta}
      /\ \A y, z \in DOMAIN meta : meta[y] = meta[z] => y = z
      /\ \A y \in Attempt : KeyOf[y[1]] # NoKey => (y \in Current <=> holder[KeyOf[y[1]]] = y)
  BY AccountsOfCurrent DEF Accounts
<1>10. /\ DOMAIN meta' = Current \ {x}
       /\ \A y \in Current \ {x} : meta'[y] = meta[y]
       /\ slots' = slots \ {meta[x]}
  BY <1>4, <1>9 DEF Release
<1>11. /\ slots' = {meta'[y] : y \in DOMAIN meta'}
       /\ \A y, z \in DOMAIN meta' : meta'[y] = meta'[z] => y = z
  BY <1>1, <1>9, <1>10
<1>12. \A y \in Attempt : KeyOf[y[1]] # NoKey => (y \in Current' <=> holder'[KeyOf[y[1]]] = y)
  <2> SUFFICES ASSUME NEW y \in Attempt, KeyOf[y[1]] # NoKey
               PROVE  y \in Current' <=> holder'[KeyOf[y[1]]] = y
    OBVIOUS
  <2>1. KeyOf[y[1]] \in Key /\ y # NoAttempt
    BY AttemptIsSome DEF Key
  <2>2. holder'[KeyOf[y[1]]] =
          IF holder[KeyOf[y[1]]] = x THEN NoAttempt ELSE holder[KeyOf[y[1]]]
    BY <1>4, <2>1 DEF Release
  <2>3. y \in Current <=> holder[KeyOf[y[1]]] = y
    BY <1>9
  <2>4. QED
    BY <1>1, <1>2, <2>1, <2>2, <2>3
<1>13. SlotsAccounted' /\ KeyIsExclusive'
  BY <1>2, <1>10, <1>11, <1>12 DEF SlotsAccounted, KeyIsExclusive, Current
<1>14. QED
  BY <1>6, <1>7, <1>8, <1>13 DEF Accounts, Ownership

\* A step of a pass that takes no attempt and gives none up.
Neutral ==
    /\ att' = att /\ UNCHANGED <<slots, holder, meta>>
    /\ HandsKept(Pass) /\ IdsKept

\* The steps of a pass, by what they do to the attempt in its hands.
LEMMA PassStepKinds ==
    ASSUME MemoryTypeOK, HeldIsCurrent, PassWork, NEW p \in Pass, StartPass(p) \/ PassStep(p)
    PROVE  \/ Neutral
           \/ \E t \in Task : ClaimNext(p, t)
           \/ \E cause \in {"none", "timer"} : StartOk(p, cause)
           \/ HarvestNext(p)
           \/ /\ pass[p].pc \in InHand /\ GivesUp(p)
              /\ pass'[p].pc \notin InHand /\ \A q \in Pass \ {p} : pass'[q] = pass[q]
<1> USE DEF InHand
<1>1. pass \in [Pass -> PassLocals] /\ pass[p] \in PassLocals
  BY DEF MemoryTypeOK
<1>2. ASSUME att' = att, UNCHANGED <<slots, holder, meta>>, IdsKept,
             pass[p].pc \notin InHand, pass'[p].pc \notin InHand,
             \A q \in Pass \ {p} : pass'[q] = pass[q]
      PROVE  Neutral
  BY <1>2 DEF Neutral, HandsKept
<1>3. UNCHANGED flight => IdsKept
  BY DEF IdsKept
<1>4. \A onStop : flight' = Swept(flight, onStop) => IdsKept
  BY AbortAllEntries DEF MemoryTypeOK, IdsKept, Swept
<1>5. PromoteReady => att' = att
  BY DEF PromoteReady
<1>6. CASE StartPass(p)
  BY <1>1, <1>2, <1>4, <1>6 DEF StartPass, Goto, PassLocals, ledger
<1>7. CASE PassReconcileApproval(p) \/ AskApproval(p) \/ PassPropagate(p)
  BY <1>3, <1>7 DEF PassReconcileApproval, AskApproval, PassPropagate, ReconcileApproval,
     RequestApproval, Propagate, Neutral, HandsKept
<1>8. CASE TickPromote(p)
  BY <1>1, <1>2, <1>3, <1>5, <1>8 DEF TickPromote, At, MaybePromote, EnterDispatch, EnterHarvest,
     PassLocals, ledger
<1>9. CASE PromoteAgain(p)
  BY <1>1, <1>2, <1>3, <1>5, <1>9 DEF PromoteAgain, At, MaybePromote, Goto, PassLocals, ledger
<1>10. CASE AutoHarvest(p) \/ BeginHarvest(p)
  BY <1>1, <1>2, <1>3, <1>10 DEF AutoHarvest, BeginHarvest, At, EnterHarvest, PassLocals, ledger
<1>11. ASSUME NEW t \in Task, SkipNext(p, t) PROVE Neutral
  BY <1>1, <1>2, <1>3, <1>11 DEF SkipNext, At, PassLocals, ledger
<1>12. CASE EndDispatch(p)
  BY <1>1, <1>2, <1>3, <1>12 DEF EndDispatch, At, PassLocals, ledger
<1>13. CASE EndHarvest(p)
  BY <1>1, <1>2, <1>3, <1>13 DEF EndHarvest, At, PassLocals, ledger
<1>14. CASE Conclude(p)
  <2>1. IdsKept
    BY <1>3, <1>4, <1>14 DEF Conclude
  <2>2. att' = att
    BY <1>14 DEF Conclude, Finalize, DrainToPaused, ledger
  <2>3. pass'[p].pc \notin InHand /\ \A q \in Pass \ {p} : pass'[q] = pass[q]
    BY <1>1, <1>14 DEF Conclude, IdlePass
  <2>4. QED
    BY <1>2, <1>14, <2>1, <2>2, <2>3 DEF Conclude, At
<1>15. BackToDispatch(p) => pass'[p].pc \notin InHand /\ \A q \in Pass \ {p} : pass'[q] = pass[q]
  BY <1>1 DEF BackToDispatch, PassLocals
<1>16. CASE \/ \E failure \in StartFailures : StartFails(p, failure)
            \/ \E result \in MergeResults : MergeEnds(p, result)
            \/ ResolveApproval(p)
            \/ HarvestCommit(p)
  <2>1. ASSUME NEW failure, StartFails(p, failure) PROVE BackToDispatch(p)
    BY <2>1 DEF StartFails
  <2>2. ASSUME NEW result, MergeEnds(p, result) PROVE BackToDispatch(p)
    BY <2>2 DEF MergeEnds
  <2>3. ResolveApproval(p) => BackToDispatch(p)
    BY DEF ResolveApproval
  <2>4. HarvestCommit(p) => pass'[p].pc \notin InHand /\ \A q \in Pass \ {p} : pass'[q] = pass[q]
    BY <1>1 DEF HarvestCommit, PassLocals
  <2>5. pass'[p].pc \notin InHand /\ \A q \in Pass \ {p} : pass'[q] = pass[q]
    BY <1>15, <1>16, <2>1, <2>2, <2>3, <2>4
  <2>6. pass[p].pc \in InHand /\ GivesUp(p)
    BY <1>16, SettlingSteps
  <2>7. QED
    BY <2>5, <2>6
<1>17. QED
  BY <1>6, <1>7, <1>8, <1>9, <1>10, <1>11, <1>12, <1>13, <1>14, <1>16 DEF PassStep

\* The thread is at the pass that moves, or free, so the host is not booting.
LEMMA HostIsUp ==
    ASSUME NEW p \in Pass, StartPass(p) \/ PassStep(p)
    PROVE  thread \in {p, "free"} /\ thread # "boot"
<1>1. thread \in {p, "free"}
  <2>1. StartPass(p) => thread = "free"
    BY DEF StartPass, Macrotask
  <2>2. \A pc : At(p, pc) => thread \in {p, "free"}
    BY DEF At
  <2>3. PassStep(p) => \E pc : At(p, pc)
    BY DEF PassStep, PassReconcileApproval, TickPromote, AutoHarvest, ClaimNext, SkipNext,
       EndDispatch, StartOk, StartFails, MergeEnds, AskApproval, ResolveApproval, BeginHarvest,
       HarvestNext, HarvestCommit, EndHarvest, PromoteAgain, PassPropagate, Conclude
  <2>4. QED
    BY <2>1, <2>2, <2>3
<1>2. QED
  BY <1>1, PassAssumption

LEMMA AccountsStep ==
    ASSUME EngineInv, [EngineNext]_vars
    PROVE  Accounts'
<1>1. TypeOK /\ MemoryTypeOK /\ Accounts /\ HeldIsCurrent /\ PassWork
  BY TypesTogether DEF EngineInv, Accounts, Ownership
<1>2. ASSUME att' = att, HandsKept(Pass), IdsKept, UNCHANGED <<slots, holder, meta>>,
             thread' # "boot" => thread # "boot"
      PROVE  Accounts'
  BY <1>1, <1>2, CurrentKept, NothingTaken
<1>3. ASSUME NEW p \in Pass, StartPass(p) \/ PassStep(p) PROVE Accounts'
  <2>1. thread # "boot"
    BY <1>3, HostIsUp
  <2>2. CASE Neutral
    BY <1>2, <2>1, <2>2 DEF Neutral
  <2>3. CASE \E t \in Task : ClaimNext(p, t)
    BY <1>1, <2>1, <2>3, ClaimTakes
  <2>4. CASE \E cause \in {"none", "timer"} : StartOk(p, cause)
    BY <1>1, <2>1, <2>4, StartRegisters
  <2>5. CASE HarvestNext(p)
    BY <1>1, <2>1, <2>5, HarvestTakes
  <2>6. CASE /\ pass[p].pc \in InHand /\ GivesUp(p)
             /\ pass'[p].pc \notin InHand /\ \A q \in Pass \ {p} : pass'[q] = pass[q]
    BY <1>1, <2>1, <2>6, SettlingReturns
  <2>7. QED
    BY <1>1, <1>3, <2>2, <2>3, <2>4, <2>5, <2>6, PassStepKinds
<1>4. pass' = pass => HandsKept(Pass)
  BY DEF HandsKept
<1>5. flight' = flight => IdsKept
  BY DEF IdsKept
<1>6. ASSUME NEW i \in DOMAIN flight, ChildSettles(i) \/ TimerFires(i) PROVE Accounts'
  <2>1. IdsKept
    <3>1. \/ \E r : flight' = [flight EXCEPT ![i].result = r]
          \/ flight' = [flight EXCEPT ![i].cause = "timer"]
      BY <1>6 DEF ChildSettles, TimerFires
    <3>2. flight \in [1 .. Len(flight) -> FlightEntry] /\ flight[i] \in FlightEntry
      BY <1>1 DEF MemoryTypeOK
    <3>3. \A r : [flight[i] EXCEPT !.result = r].id = flight[i].id
      BY <3>2 DEF FlightEntry
    <3>4. [flight[i] EXCEPT !.cause = "timer"].id = flight[i].id
      BY <3>2 DEF FlightEntry
    <3>5. QED
      BY <3>1, <3>2, <3>3, <3>4 DEF IdsKept
  <2>2. att' = att /\ pass' = pass /\ thread' = thread /\ UNCHANGED <<slots, holder, meta>>
    BY <1>6 DEF ChildSettles, TimerFires, ledger
  <2>3. QED
    BY <1>2, <1>4, <2>1, <2>2
<1>7. ASSUME NEW t \in Task, TimePasses(t) PROVE Accounts'
  BY <1>2, <1>4, <1>5, <1>7 DEF TimePasses, BackoffElapses, memory
<1>8. CASE Control
  <2>1. att' = att
    BY <1>8 DEF Control, ControlStop, ControlOther, Stop, Pause, Resume, RetryTask, CancelTask
  <2>2. IdsKept
    <3>1. ControlStop => flight' = AbortAll(flight)
      BY DEF ControlStop
    <3>2. ControlOther => flight' = flight
      BY DEF ControlOther
    <3>3. QED
      BY <1>1, <1>5, <1>8, <3>1, <3>2, AbortAllEntries DEF Control, MemoryTypeOK, IdsKept
  <2>3. QED
    BY <1>2, <1>4, <1>8, <2>1, <2>2 DEF Control
<1>9. CASE Approve
  BY <1>2, <1>4, <1>5, <1>9 DEF Approve, Decide, memory
<1>10. ASSUME thread' = "boot", \A p \in Pass : pass'[p] = IdlePass, flight' = <<>>
       PROVE  Accounts'
  <2>1. \A p \in Pass : pass'[p].pc \notin InHand /\ Hand(p)' = NoAttempt
    BY <1>10 DEF IdlePass, InHand, Hand
  <2>2. DOMAIN flight' = {}
    BY <1>10
  <2>3. QED
    BY <1>10, <2>1, <2>2 DEF Accounts, Ownership, HeldIsCurrent, HeldOnce, CurrentIsHeld,
       SlotsAccounted, KeyIsExclusive
<1>11. CASE Crash
  BY <1>10, <1>11 DEF Crash
<1>12. CASE BootReconcile
  <2>1. pass = [p \in Pass |-> IdlePass] /\ flight = <<>>
    BY <1>12 DEF BootReconcile, EngineInv, ThreadDiscipline
  <2>2. QED
    BY <1>10, <1>12, <2>1 DEF BootReconcile, memory
<1>13. CASE BootDone
  <2>1. /\ pass = [p \in Pass |-> IdlePass] /\ flight = <<>> /\ slots = {} /\ meta = <<>>
        /\ holder = [k \in Key |-> NoAttempt]
        /\ att' = att /\ UNCHANGED <<pass, flight, slots, holder, meta>>
    BY <1>13 DEF BootDone, EngineInv, ThreadDiscipline, ledger
  <2>2. \A t \in Task : ~HasNonTerminalAttempt(t)
    BY <1>13 DEF BootDone, EngineInv, DrainedRunIsIdle
  <2>3. Current = {} /\ Current' = {}
    <3>1. \A x \in Attempt : ~Live(x[1], x[2])
      BY <2>2, AttemptIsSome DEF HasNonTerminalAttempt, Live
    <3>2. QED
      BY <2>1, <3>1, CurrentKept DEF Current
  <2>4. \A p \in Pass : pass'[p].pc \notin InHand /\ Hand(p)' = NoAttempt
    BY <2>1 DEF IdlePass, InHand, Hand
  <2>5. DOMAIN flight' = {} /\ DOMAIN meta' = {}
    BY <2>1
  <2>6. Ownership'
    BY <2>3, <2>4, <2>5 DEF Ownership, HeldIsCurrent, HeldOnce, CurrentIsHeld
  <2>7. \A x \in Attempt : ~Live(x[1], x[2])'
    BY <2>3 DEF Current
  <2>8. SlotsAccounted'
    BY <2>1, <2>5, <2>7 DEF SlotsAccounted
  <2>9. KeyIsExclusive'
    <3>1. \A x \in Attempt : KeyOf[x[1]] # NoKey => holder'[KeyOf[x[1]]] = NoAttempt
      BY <2>1, AttemptIsSome DEF Key
    <3>2. QED
      BY <2>7, <3>1, AttemptIsSome DEF KeyIsExclusive
  <2>10. QED
    BY <2>6, <2>8, <2>9 DEF Accounts
<1>14. CASE UNCHANGED vars
  BY <1>2, <1>4, <1>5, <1>14 DEF vars, ledger, memory
<1>15. QED
  BY <1>3, <1>6, <1>7, <1>8, <1>9, <1>11, <1>12, <1>13, <1>14 DEF EngineNext

-----------------------------------------------------------------------------
(* The rest of the invariant *)

\* A child that settles, and a timer that fires, keep the in-flight map typed.
LEMMA MemoryStep ==
    ASSUME EngineInv, [EngineNext]_vars
    PROVE  MemoryTypeOK'
<1>1. TypeOK /\ MemoryTypeOK /\ HeldIsCurrent /\ HeldOnce
  BY TypesTogether DEF EngineInv, Ownership
<1>2. ASSUME NEW p \in Pass, StartPass(p) \/ PassStep(p) PROVE MemoryTypeOK'
  BY <1>1, <1>2, PassTypeStep
<1>3. ASSUME UNCHANGED <<pass, slots, holder, meta>>, flight' \in Seq(FlightEntry),
             thread' \in Pass \cup {"free", "boot"}
      PROVE  MemoryTypeOK'
  BY <1>1, <1>3 DEF MemoryTypeOK
<1>4. ASSUME NEW i \in DOMAIN flight, ChildSettles(i) \/ TimerFires(i) PROVE MemoryTypeOK'
  <2>1. flight \in Seq(FlightEntry) /\ flight[i] \in FlightEntry
    BY <1>1 DEF MemoryTypeOK
  <2>2. \E e \in FlightEntry : flight' = [flight EXCEPT ![i] = e]
    <3>1. CASE ChildSettles(i)
      <4>1. PICK r \in ChildResults \cup {"aborted"} : flight' = [flight EXCEPT ![i].result = r]
        BY <3>1 DEF ChildSettles
      <4>2. [flight[i] EXCEPT !.result = r] \in FlightEntry
        BY <2>1, ChildResultsAssumption DEF FlightEntry
      <4>3. QED
        BY <4>1, <4>2
    <3>2. CASE TimerFires(i)
      <4>1. [flight[i] EXCEPT !.cause = "timer"] \in FlightEntry
        BY <2>1 DEF FlightEntry
      <4>2. QED
        BY <3>2, <4>1 DEF TimerFires
    <3>3. QED
      BY <1>4, <3>1, <3>2
  <2>3. flight' \in Seq(FlightEntry)
    BY <2>1, <2>2
  <2>4. QED
    BY <1>1, <1>3, <1>4, <2>3 DEF ChildSettles, TimerFires, MemoryTypeOK
<1>5. UNCHANGED memory => MemoryTypeOK'
  BY <1>1 DEF memory, MemoryTypeOK
<1>6. CASE Control
  <2>1. ControlStop => flight' = AbortAll(flight)
    BY DEF ControlStop
  <2>2. ControlOther => flight' = flight
    BY DEF ControlOther
  <2>3. flight' \in Seq(FlightEntry)
    BY <1>1, <1>6, <2>1, <2>2, AbortAllEntries DEF Control, MemoryTypeOK
  <2>4. QED
    BY <1>1, <1>3, <1>6, <2>3 DEF Control, MemoryTypeOK
<1>7. CASE Crash
  <2>1. IdlePass \in PassLocals
    BY DEF IdlePass, PassLocals, PC
  <2>2. /\ thread' = "boot" /\ pass' \in [Pass -> PassLocals] /\ flight' \in Seq(FlightEntry)
        /\ slots' = {} /\ holder' \in [Key -> Attempt \cup {NoAttempt}]
    BY <1>7, <2>1 DEF Crash
  <2>3. meta' = <<>> /\ DOMAIN meta' = {}
    BY <1>7 DEF Crash
  <2>4. meta' \in [DOMAIN meta' -> Slot]
    BY <2>3
  <2>5. QED
    BY <2>2, <2>3, <2>4 DEF MemoryTypeOK
<1>8. CASE BootDone
  BY <1>1, <1>3, <1>8 DEF BootDone, MemoryTypeOK
<1>9. (\E t \in Task : TimePasses(t)) \/ Approve \/ BootReconcile => UNCHANGED memory
  BY DEF TimePasses, Approve, BootReconcile
<1>10. QED
  BY <1>2, <1>4, <1>5, <1>6, <1>7, <1>8, <1>9 DEF EngineNext, vars

\* A run with an attempt in hand is neither finished nor paused.
LEMMA InHandKeepsRunAlive ==
    ASSUME HeldIsCurrent, DrainedRunIsIdle, NEW p \in Pass, pass[p].pc \in InHand
    PROVE  run \notin RunTerminal \cup {"paused"}
BY InHandIsLive DEF DrainedRunIsIdle, HasNonTerminalAttempt

\* Where a pass is after its step: in a synchronous section only with the
\* thread, on work of its own kind, and past the gate of admission only in a
\* run that is alive.
LEMMA PassMoves ==
    ASSUME TypeOK, MemoryTypeOK, HeldIsCurrent, HeldOnce, PassWork, AdmissionIsOpen,
           DrainedRunIsIdle, IntentMatchesRun,
           NEW p \in Pass, StartPass(p) \/ PassStep(p)
    PROVE  /\ \A q \in Pass \ {p} : pass'[q] = pass[q]
           /\ thread' \in {p, "free"}
           /\ pass'[p].pc \in Synchronous => thread' = p
           /\ WorkOf(p)'
           /\ AdmissionOf(p)'
<1> DEFINE Others == \A q \in Pass \ {p} : pass'[q] = pass[q]
           Holds == thread' \in {p, "free"} /\ (pass'[p].pc \in Synchronous => thread' = p)
           Goal == Others /\ Holds /\ WorkOf(p)' /\ AdmissionOf(p)'
<1>1. pass \in [Pass -> PassLocals] /\ pass[p] \in PassLocals
  BY DEF MemoryTypeOK
<1>2. WorkOf(p) /\ AdmissionOf(p)
  BY DEF PassWork, AdmissionIsOpen
<1>3. ASSUME Others, pass'[p].pc \in {"idle", "harvest", "harvested", "conclude"},
             thread' \in {p, "free"}, pass'[p].pc = "harvest" => thread' = p
      PROVE  Goal
  BY <1>3 DEF WorkOf, AdmissionOf, Synchronous
<1>4. ASSUME Others, pass'[p].pc = "dispatch", thread' = p, p \in TickPass,
             run' \notin RunTerminal \cup {"paused"}
      PROVE  Goal
  BY <1>4 DEF WorkOf, AdmissionOf, Synchronous
<1>5. ASSUME pass' = pass, run' = run, thread' = p PROVE Goal
  BY <1>2, <1>5 DEF WorkOf, AdmissionOf
<1>6. ASSUME NEW wave, EnterHarvest(p, wave) PROVE pass'[p].pc = "harvest" /\ Others
  BY <1>1, <1>6 DEF EnterHarvest, PassLocals
<1>7. EnterDispatch(p) => pass'[p].pc = "dispatch" /\ Others
  BY <1>1 DEF EnterDispatch, PassLocals
<1>8. \A pc : Goto(p, pc) => pass'[p].pc = pc /\ Others
  BY <1>1 DEF Goto, PassLocals
<1>9. BackToDispatch(p) => pass'[p].pc = "dispatch" /\ Others /\ thread' = p
  BY <1>1 DEF BackToDispatch, Keep, PassLocals
<1>10. MaybePromote => run' = run
  BY DEF MaybePromote, PromoteReady, ledger
<1>11. ~AdmissionClosed => run # "paused"
  BY DEF AdmissionClosed, IntentMatchesRun
<1>12. CASE StartPass(p)
  <2>1. Others /\ pass'[p].pc = "approvals" /\ thread' = p /\ run' \notin RunTerminal
    BY <1>8, <1>12 DEF StartPass, Keep, ledger
  <2>2. QED
    BY <2>1 DEF WorkOf, AdmissionOf, Synchronous
<1>13. CASE PassReconcileApproval(p) \/ AskApproval(p) \/ PassPropagate(p)
  BY <1>5, <1>13 DEF PassReconcileApproval, AskApproval, PassPropagate, ReconcileApproval,
     RequestApproval, Propagate, Keep
<1>14. CASE TickPromote(p)
  <2>1. pass[p].pc = "approvals" /\ p \in TickPass /\ thread' = p /\ run' = run
    BY <1>10, <1>14 DEF TickPromote, At, Keep
  <2>2. run \notin RunTerminal
    BY <1>2, <2>1 DEF AdmissionOf
  <2>3. CASE ~AdmissionClosed /\ EnterDispatch(p)
    BY <1>4, <1>7, <1>11, <2>1, <2>2, <2>3
  <2>4. CASE EnterHarvest(p, 1)
    BY <1>3, <1>6, <2>1, <2>4
  <2>5. QED
    BY <1>14, <2>3, <2>4 DEF TickPromote
<1>15. CASE AutoHarvest(p) \/ BeginHarvest(p)
  BY <1>3, <1>6, <1>15 DEF AutoHarvest, BeginHarvest, Keep
<1>16. ASSUME NEW t \in Task, ClaimNext(p, t) PROVE Goal
  <2>1. Kind[t] \in KindName
    BY KindAssumption
  <2>2. /\ pass[p].pc = "dispatch" /\ run' = run /\ Others
        /\ pass'[p].pc = CASE Kind[t] = "agent" -> "starting"
                           [] Kind[t] = "merge" -> "merging"
                           [] Kind[t] = "approval" -> "parking"
        /\ pass'[p].cur[1] = t
    BY <1>1, <1>16 DEF ClaimNext, At, Claim, PassLocals
  <2>3. thread' = IF Kind[t] = "approval" THEN p ELSE "free"
    BY <1>16 DEF ClaimNext, Keep, Yield
  <2>4. p \in TickPass /\ run \notin RunTerminal \cup {"paused"}
    BY <1>2, <2>2 DEF WorkOf, AdmissionOf
  <2>5. /\ pass'[p].pc \in {"starting", "merging", "parking"}
        /\ pass'[p].pc = "starting" => Kind[t] = "agent"
        /\ pass'[p].pc = "merging" => Kind[t] = "merge"
        /\ pass'[p].pc = "parking" => Kind[t] = "approval"
    BY <2>1, <2>2 DEF KindName
  <2>6. QED
    BY <2>2, <2>3, <2>4, <2>5 DEF WorkOf, AdmissionOf, Synchronous
<1>17. ASSUME NEW t \in Task, SkipNext(p, t) PROVE Goal
  <2>1. pass[p].pc = "dispatch" /\ thread' = p /\ run' = run
    BY <1>17 DEF SkipNext, At, Keep, ledger
  <2>2. pass'[p].pc = "dispatch" /\ Others
    BY <1>1, <1>17, <2>1 DEF SkipNext, PassLocals
  <2>3. QED
    BY <1>2, <1>4, <2>1, <2>2 DEF WorkOf, AdmissionOf
<1>18. CASE EndDispatch(p)
  <2>1. pass'[p].pc = "dispatched" /\ Others /\ thread' = "free" /\ p \in TickPass
    BY <1>1, <1>2, <1>18 DEF EndDispatch, At, Yield, PassLocals, WorkOf
  <2>2. QED
    BY <2>1 DEF WorkOf, AdmissionOf, Synchronous
<1>19. ASSUME BackToDispatch(p), run' = run, pass[p].pc \in {"starting", "merging", "parking"}
       PROVE  Goal
  <2>1. run \notin RunTerminal \cup {"paused"}
    BY <1>19, InHandKeepsRunAlive DEF InHand
  <2>2. QED
    BY <1>2, <1>4, <1>9, <1>19, <2>1 DEF WorkOf
<1>20. ASSUME NEW cause, StartOk(p, cause) PROVE Goal
  BY <1>19, <1>20 DEF StartOk, At, RecordDispatch
<1>21. CASE \/ \E failure \in StartFailures : StartFails(p, failure)
            \/ \E result \in MergeResults : MergeEnds(p, result)
            \/ ResolveApproval(p)
  <2>1. run' = run
    BY <1>21, SettlingSteps DEF GivesUp, Ends
  <2>2. ASSUME NEW failure, StartFails(p, failure)
        PROVE  BackToDispatch(p) /\ pass[p].pc = "starting"
    BY <2>2 DEF StartFails, At
  <2>3. ASSUME NEW result, MergeEnds(p, result)
        PROVE  BackToDispatch(p) /\ pass[p].pc = "merging"
    BY <2>3 DEF MergeEnds, At
  <2>4. ResolveApproval(p) => BackToDispatch(p) /\ pass[p].pc = "parking"
    BY DEF ResolveApproval, At
  <2>5. BackToDispatch(p) /\ pass[p].pc \in {"starting", "merging", "parking"}
    BY <1>21, <2>2, <2>3, <2>4
  <2>6. QED
    BY <1>19, <2>1, <2>5
<1>22. CASE HarvestNext(p)
  <2>1. PICK k \in DOMAIN flight :
          /\ flight[k] \in FlightEntry
          /\ pass'[p].pc = "committing"
          /\ pass'[p].result = Mapped(flight[k])
          /\ Others
    BY <1>22, HarvestPicks
  <2>2. Mapped(flight[k]) # "none"
    BY <2>1 DEF Mapped, FlightEntry
  <2>3. thread' = "free"
    BY <1>22 DEF HarvestNext, Yield
  <2>4. QED
    BY <2>1, <2>2, <2>3 DEF WorkOf, AdmissionOf, Synchronous
<1>23. CASE HarvestCommit(p)
  BY <1>1, <1>3, <1>23 DEF HarvestCommit, Keep, PassLocals
<1>24. CASE EndHarvest(p)
  BY <1>1, <1>3, <1>24 DEF EndHarvest, Yield, PassLocals
<1>25. CASE PromoteAgain(p)
  <2>1. run' = run /\ thread' = p
    BY <1>10, <1>25 DEF PromoteAgain, Keep
  <2>2. CASE /\ p \in TickPass /\ ~AdmissionClosed /\ run \notin RunTerminal
             /\ pass' = [pass EXCEPT ![p].pc = "dispatch", ![p].queue = QueueOf(task'),
                                     ![p].wave = 2]
    <3>1. pass'[p].pc = "dispatch" /\ Others
      BY <1>1, <2>2 DEF PassLocals
    <3>2. QED
      BY <1>4, <1>11, <2>1, <2>2, <3>1
  <2>3. CASE Goto(p, "conclude")
    BY <1>3, <1>8, <2>1, <2>3
  <2>4. QED
    BY <1>25, <2>2, <2>3 DEF PromoteAgain
<1>26. CASE Conclude(p)
  <2>1. pass'[p].pc = "idle" /\ Others /\ thread' = "free"
    BY <1>1, <1>26 DEF Conclude, Yield, IdlePass
  <2>2. QED
    BY <1>3, <2>1
<1>27. QED
  BY <1>12, <1>13, <1>14, <1>15, <1>16, <1>17, <1>18, <1>20, <1>21, <1>22, <1>23, <1>24, <1>25,
     <1>26 DEF PassStep

\* Another pass is at an await, so nothing it relies on is taken from it; and
\* tools and timers come when every pass is.
LEMMA DisciplineStep ==
    ASSUME EngineInv, [EngineNext]_vars
    PROVE  ThreadDiscipline' /\ PassWork' /\ AdmissionIsOpen'
<1> DEFINE Goal == ThreadDiscipline' /\ PassWork' /\ AdmissionIsOpen'
<1>1. /\ TypeOK /\ MemoryTypeOK /\ HeldIsCurrent /\ HeldOnce /\ PassWork /\ AdmissionIsOpen
      /\ DrainedRunIsIdle /\ IntentMatchesRun /\ ThreadDiscipline
  BY TypesTogether DEF EngineInv, Ownership
<1>2. ASSUME NEW p \in Pass, StartPass(p) \/ PassStep(p) PROVE Goal
  <2>1. thread \in {p, "free"}
    BY <1>2, HostIsUp
  <2>2. /\ \A q \in Pass \ {p} : pass'[q] = pass[q]
        /\ thread' \in {p, "free"}
        /\ pass'[p].pc \in Synchronous => thread' = p
        /\ WorkOf(p)' /\ AdmissionOf(p)'
    BY <1>1, <1>2, PassMoves
  <2>3. \A q \in Pass \ {p} : pass'[q].pc \notin Synchronous
    BY <1>1, <2>1, <2>2, PassAssumption DEF ThreadDiscipline
  <2>4. ThreadDiscipline'
    BY <2>2, <2>3, PassAssumption DEF ThreadDiscipline
  <2>5. \A q \in Pass \ {p} : WorkOf(q)' /\ AdmissionOf(q)'
    BY <1>1, <2>2, <2>3 DEF PassWork, WorkOf, AdmissionOf, Synchronous
  <2>6. QED
    BY <2>2, <2>4, <2>5 DEF PassWork, AdmissionIsOpen
<1>3. ASSUME \A p \in Pass : pass'[p] = pass[p] /\ pass[p].pc \notin Synchronous, thread' = "free"
      PROVE  Goal
  <2>1. ThreadDiscipline'
    BY <1>3 DEF ThreadDiscipline
  <2>2. PassWork'
    BY <1>1, <1>3 DEF PassWork, WorkOf
  <2>3. AdmissionIsOpen'
    BY <1>3 DEF AdmissionIsOpen, AdmissionOf, Synchronous
  <2>4. QED
    BY <2>1, <2>2, <2>3
<1>4. thread = "free" => \A p \in Pass : pass[p].pc \notin Synchronous
  BY <1>1, PassAssumption DEF ThreadDiscipline
<1>5. ASSUME UNCHANGED memory, run' = run PROVE Goal
  <2>1. ThreadDiscipline'
    BY <1>1, <1>5 DEF ThreadDiscipline, memory
  <2>2. PassWork'
    BY <1>1, <1>5 DEF PassWork, WorkOf, memory
  <2>3. AdmissionIsOpen'
    BY <1>1, <1>5 DEF AdmissionIsOpen, AdmissionOf, memory
  <2>4. QED
    BY <2>1, <2>2, <2>3
<1>6. ASSUME NEW i \in DOMAIN flight, ChildSettles(i) \/ TimerFires(i) PROVE Goal
  BY <1>3, <1>4, <1>6 DEF ChildSettles, TimerFires, Macrotask
<1>7. CASE Control
  BY <1>3, <1>4, <1>7 DEF Control, Macrotask
<1>8. CASE (\E t \in Task : TimePasses(t)) \/ Approve
  BY <1>5, <1>8 DEF TimePasses, BackoffElapses, Approve, Decide
<1>9. \A p \in Pass : pass = [q \in Pass |-> IdlePass] => pass[p].pc = "idle"
  BY DEF IdlePass
<1>10. CASE Crash
  <2>1. ThreadDiscipline'
    BY <1>10 DEF Crash, ThreadDiscipline, IdlePass, Synchronous
  <2>2. PassWork'
    BY <1>10 DEF Crash, PassWork, WorkOf, IdlePass
  <2>3. AdmissionIsOpen'
    BY <1>10 DEF Crash, AdmissionIsOpen, AdmissionOf, IdlePass
  <2>4. QED
    BY <2>1, <2>2, <2>3
<1>11. CASE BootReconcile
  <2>1. run' = run /\ UNCHANGED memory
    BY <1>11 DEF BootReconcile, RecoveryTx, RecoverNeverDispatched, RecoverOrphaned
  <2>2. QED
    BY <1>5, <2>1
<1>12. CASE BootDone
  BY <1>1, <1>3, <1>9, <1>12 DEF BootDone, ThreadDiscipline, Synchronous
<1>13. CASE UNCHANGED vars
  BY <1>5, <1>13 DEF vars, ledger
<1>14. QED
  BY <1>2, <1>6, <1>7, <1>8, <1>10, <1>11, <1>12, <1>13 DEF EngineNext

\* Only a claim makes an attempt, and it is past the gate of admission.
LEMMA ClaimsAreAdmitted ==
    ASSUME EngineInv, [EngineNext]_vars, NEW t \in Task
    PROVE  \/ DOMAIN att'[t] = DOMAIN att[t]
           \/ run \notin RunTerminal \cup {"paused"} /\ run' = run
<1>1. TypeOK /\ MemoryTypeOK /\ HeldIsCurrent /\ PassWork /\ AdmissionIsOpen
  BY TypesTogether DEF EngineInv, Ownership
<1>2. ASSUME NEW p \in Pass, StartPass(p) \/ PassStep(p)
      PROVE  \/ DOMAIN att'[t] = DOMAIN att[t]
             \/ run \notin RunTerminal \cup {"paused"} /\ run' = run
  <2>1. ASSUME NEW u \in Task, ClaimNext(p, u)
        PROVE  run \notin RunTerminal \cup {"paused"} /\ run' = run
    BY <1>1, <2>1 DEF ClaimNext, At, Claim, AdmissionIsOpen, AdmissionOf
  <2>2. ASSUME NEW cause, StartOk(p, cause) PROVE DOMAIN att'[t] = DOMAIN att[t]
    BY <1>1, <2>2 DEF StartOk, RecordDispatch, TypeOK
  <2>3. GivesUp(p) => DOMAIN att'[t] = DOMAIN att[t]
    BY <1>1, AttemptsStay DEF GivesUp
  <2>4. Neutral \/ HarvestNext(p) => att' = att
    BY DEF Neutral, HarvestNext, ledger
  <2>5. QED
    BY <1>1, <1>2, <2>1, <2>2, <2>3, <2>4, PassStepKinds
<1>3. ASSUME ~\E p \in Pass : StartPass(p) \/ PassStep(p)
      PROVE  ControlTx \/ RecoveryTx \/ att' = att
  <2>1. Control => ControlTx
    BY DEF Control, ControlStop, ControlOther, ControlTx
  <2>2. BootReconcile => RecoveryTx
    BY DEF BootReconcile
  <2>3. (\E i \in DOMAIN flight : ChildSettles(i) \/ TimerFires(i)) => att' = att
    BY DEF ChildSettles, TimerFires, ledger
  <2>4. (\E u \in Task : TimePasses(u)) \/ Approve \/ Crash \/ BootDone \/ UNCHANGED vars
        => att' = att
    BY DEF TimePasses, BackoffElapses, Approve, Decide, Crash, BootDone, vars, ledger
  <2>5. QED
    BY <1>3, <2>1, <2>2, <2>3, <2>4 DEF EngineNext
<1>4. ControlTx \/ RecoveryTx => DOMAIN att'[t] = DOMAIN att[t]
  BY <1>1, AttemptsStay
<1>5. QED
  BY <1>2, <1>3, <1>4

\* A run is parked or finished only at rest: then none of its attempts is live.
LEMMA RestComesFirst ==
    ASSUME IInv, EngineTx, run' \in RunTerminal \cup {"paused"}, run' # run
    PROVE  \A t \in Task : ~HasNonTerminalAttempt(t)
<1>1. CASE PassTx
  <2>1. Finalize \/ DrainToPaused
    BY <1>1 DEF PassTx, PromoteReady, ReconcileApproval, Claim, Propagate, RequestApproval
  <2>2. QED
    BY <2>1, FinalizeNeedsRest DEF DrainToPaused, CanDrain
<1>2. CASE AttemptTx \/ ControlTx \/ RecoveryTx
  <2>1. run' = "paused"
    BY <1>2, NoVerdict
  <2>2. ~AttemptTx
    <3> SUFFICES ASSUME AttemptTx PROVE run' = run
      OBVIOUS
    <3>1. \A t, n, bill : CommitRetry(t, n, bill) => run' = run
      BY DEF CommitRetry
    <3>2. \A t, n, target : CommitTerminal(t, n, target) => run' = run
      BY DEF CommitTerminal
    <3>3. \A t, n, result : Commit(t, n, result) => run' = run
      BY <3>1, <3>2 DEF Commit
    <3>4. \A t, n, code : RecordDispatch(t, n) \/ Park(t, n, code) => run' = run
      BY DEF RecordDispatch, Park
    <3>5. QED
      BY <3>1, <3>2, <3>3, <3>4 DEF AttemptTx
  <2>3. ~ControlTx
    BY <2>1 DEF ControlTx, Pause, Resume, Stop, RetryTask, CancelTask, Decide
  <2>4. ~RecoveryTx
    BY DEF RecoveryTx, RecoverNeverDispatched, RecoverOrphaned
  <2>5. QED
    BY <1>2, <2>2, <2>3, <2>4
<1>3. QED
  BY <1>1, <1>2 DEF EngineTx, BackoffElapses, ledger

\* Every attempt of a run that drains or ends is over by then, and none is born
\* after.
LEMMA DrainedStep ==
    ASSUME EngineInv, [EngineNext]_vars
    PROVE  DrainedRunIsIdle'
<1>1. IInv /\ DrainedRunIsIdle /\ EngineTx /\ [LedgerNext]_ledger
  BY EngineIsLedgerStep DEF EngineInv, EngineTypeOK, IInv
<1> SUFFICES ASSUME run' \in RunTerminal \cup {"paused"}, NEW t \in Task
             PROVE  ~HasNonTerminalAttempt(t)'
  BY DEF DrainedRunIsIdle
<1>2. ~HasNonTerminalAttempt(t)
  BY <1>1, RestComesFirst DEF DrainedRunIsIdle
<1>3. DOMAIN att'[t] = DOMAIN att[t]
  BY ClaimsAreAdmitted
<1>4. QED
  BY <1>1, <1>2, <1>3, LiveWasLive DEF HasNonTerminalAttempt, Live

Told(entry) == entry.result # "pending" \/ entry.cause # "none"

\* Only a tick registers a child, and until it ends the closing sweep is due;
\* another pass only removes entries, or marks them.
LEMMA PassAndSweep ==
    ASSUME MemoryTypeOK, HeldOnce, PassWork, NEW p \in Pass, StartPass(p) \/ PassStep(p)
    PROVE  \/ p \in TickPass /\ pass'[p].pc # "idle"
           \/ p \in TickPass /\ flight' = Swept(flight, intent)
           \/ p \notin TickPass /\ ((\A i \in DOMAIN flight : Told(flight[i])) =>
                                    \A i \in DOMAIN flight' : Told(flight'[i]))
<1> DEFINE Goal == \/ p \in TickPass /\ pass'[p].pc # "idle"
                   \/ p \in TickPass /\ flight' = Swept(flight, intent)
                   \/ p \notin TickPass /\ ((\A i \in DOMAIN flight : Told(flight[i])) =>
                                            \A i \in DOMAIN flight' : Told(flight'[i]))
<1>1. pass \in [Pass -> PassLocals] /\ pass[p] \in PassLocals /\ flight \in Seq(FlightEntry)
  BY DEF MemoryTypeOK
<1>2. ASSUME flight' = flight, pass'[p].pc # "idle" PROVE Goal
  BY <1>2
<1>3. ASSUME NEW pc, Goto(p, pc) PROVE pass'[p].pc = pc
  BY <1>1, <1>3 DEF Goto, PassLocals
<1>4. ASSUME NEW wave, EnterHarvest(p, wave) PROVE pass'[p].pc = "harvest"
  BY <1>1, <1>4 DEF EnterHarvest, PassLocals
<1>5. EnterDispatch(p) => pass'[p].pc = "dispatch"
  BY <1>1 DEF EnterDispatch, PassLocals
<1>6. BackToDispatch(p) => pass'[p].pc = "dispatch"
  BY <1>1 DEF BackToDispatch, PassLocals
<1>7. CASE StartPass(p)
  <2>1. pass'[p].pc = "approvals" /\ flight' = Swept(flight, intent)
    BY <1>3, <1>7 DEF StartPass
  <2>2. (\A i \in DOMAIN flight : Told(flight[i])) => \A i \in DOMAIN flight' : Told(flight'[i])
    BY <1>1, <2>1, AbortAllEntries DEF Swept, Told
  <2>3. QED
    BY <2>1, <2>2
<1>8. CASE PassReconcileApproval(p) \/ AskApproval(p) \/ PassPropagate(p)
  BY <1>2, <1>8 DEF PassReconcileApproval, AskApproval, PassPropagate, At
<1>9. CASE TickPromote(p) \/ AutoHarvest(p) \/ BeginHarvest(p)
  BY <1>2, <1>4, <1>5, <1>9 DEF TickPromote, AutoHarvest, BeginHarvest
<1>10. CASE PromoteAgain(p)
  BY <1>1, <1>2, <1>3, <1>10 DEF PromoteAgain, PassLocals
<1>11. ASSUME NEW t \in Task, ClaimNext(p, t) \/ SkipNext(p, t) PROVE p \in TickPass
  BY <1>11 DEF ClaimNext, SkipNext, At, PassWork, WorkOf
<1>12. ASSUME NEW t \in Task, ClaimNext(p, t) \/ SkipNext(p, t) PROVE Goal
  <2>1. Kind[t] \in KindName
    BY KindAssumption
  <2>2. pass'[p].pc # "idle"
    <3>1. CASE ClaimNext(p, t)
      BY <1>1, <2>1, <3>1 DEF ClaimNext, KindName, PassLocals
    <3>2. CASE SkipNext(p, t)
      BY <1>1, <3>2 DEF SkipNext, At, PassLocals
    <3>3. QED
      BY <1>12, <3>1, <3>2
  <2>3. QED
    BY <1>11, <1>12, <2>2
<1>13. CASE EndDispatch(p) \/ EndHarvest(p)
  BY <1>1, <1>2, <1>13 DEF EndDispatch, EndHarvest, PassLocals
<1>14. ASSUME NEW cause, StartOk(p, cause) PROVE Goal
  BY <1>6, <1>14 DEF StartOk, At, PassWork, WorkOf
<1>15. ASSUME NEW failure, StartFails(p, failure) PROVE Goal
  BY <1>2, <1>6, <1>15 DEF StartFails
<1>16. ASSUME NEW result, MergeEnds(p, result) PROVE Goal
  BY <1>2, <1>6, <1>16 DEF MergeEnds
<1>17. CASE ResolveApproval(p)
  BY <1>2, <1>6, <1>17 DEF ResolveApproval
<1>18. CASE HarvestNext(p)
  <2>1. PICK k \in DOMAIN flight :
          /\ PlaceOf(flight[k].id) = k
          /\ pass'[p].pc = "committing"
          /\ flight' = Without(flight[k].id)
    BY <1>18, HarvestPicks
  <2>2. \A i \in DOMAIN flight' : \E j \in DOMAIN flight : flight'[i] = flight[j]
    BY <1>1, <2>1, WithoutOne
  <2>3. QED
    BY <2>1, <2>2
<1>19. CASE HarvestCommit(p)
  BY <1>1, <1>2, <1>19 DEF HarvestCommit, PassLocals
<1>20. CASE Conclude(p)
  BY <1>20 DEF Conclude
<1>21. QED
  BY <1>7, <1>8, <1>9, <1>10, <1>12, <1>13, <1>14, <1>15, <1>16, <1>17, <1>18, <1>19, <1>20
     DEF PassStep

\* No pass writes the control intent.
LEMMA PassKeepsIntent == PassTx \/ AttemptTx \/ UNCHANGED ledger => intent' = intent
<1>1. PassTx => intent' = intent
  BY DEF PassTx, PromoteReady, Finalize, DrainToPaused, ReconcileApproval, Claim, Propagate,
     RequestApproval
<1>2. AttemptTx => intent' = intent
  <2>1. \A t, n, bill : CommitRetry(t, n, bill) => intent' = intent
    BY DEF CommitRetry
  <2>2. \A t, n, target : CommitTerminal(t, n, target) => intent' = intent
    BY DEF CommitTerminal
  <2>3. \A t, n, result : Commit(t, n, result) => intent' = intent
    BY <2>1, <2>2 DEF Commit
  <2>4. \A t, n, code : RecordDispatch(t, n) \/ Park(t, n, code) => intent' = intent
    BY DEF RecordDispatch, Park
  <2>5. QED
    BY <2>1, <2>2, <2>3, <2>4 DEF AttemptTx
<1>3. QED
  BY <1>1, <1>2 DEF ledger

\* A stop that has landed is enforced, or a tick under way still owes its sweep.
LEMMA SweepStep ==
    ASSUME EngineInv, [EngineNext]_vars
    PROVE  SweepIsDue'
<1>1. /\ TypeOK /\ MemoryTypeOK /\ HeldIsCurrent /\ HeldOnce /\ PassWork /\ AdmissionIsOpen
      /\ DrainedRunIsIdle /\ IntentMatchesRun /\ ThreadDiscipline /\ SweepIsDue
      /\ flight \in Seq(FlightEntry)
  BY TypesTogether DEF EngineInv, Ownership, MemoryTypeOK
<1> DEFINE AllTold == \A i \in DOMAIN flight : Told(flight[i])
           Due == \E p \in TickPass : pass[p].pc # "idle"
<1>2. SweepIsDue <=> (intent = "stop" => AllTold \/ Due)
  BY DEF SweepIsDue, Told
<1>3. SweepIsDue' <=> (intent' = "stop" => AllTold' \/ Due')
  BY DEF SweepIsDue, Told
<1>4. AbortAll(flight) = flight' \/ DOMAIN flight' = {} => AllTold'
  BY <1>1, AbortAllEntries DEF Told
<1>5. flight' = flight /\ pass' = pass => (AllTold \/ Due => AllTold' \/ Due')
  OBVIOUS
<1> HIDE DEF AllTold
<1>6. ASSUME NEW p \in Pass, StartPass(p) \/ PassStep(p) PROVE SweepIsDue'
  <2>1. intent' = intent
    BY <1>1, <1>6, PassIsLedgerStep, PassKeepsIntent
  <2>2. \A q \in Pass \ {p} : pass'[q] = pass[q]
    BY <1>1, <1>6, PassMoves
  <2>3. CASE p \in TickPass /\ pass'[p].pc # "idle"
    BY <1>3, <2>3
  <2>4. CASE p \in TickPass /\ flight' = Swept(flight, intent)
    BY <1>3, <1>4, <2>1, <2>4 DEF Swept
  <2>5. CASE p \notin TickPass /\ (AllTold => AllTold')
    <3>1. Due => Due'
      BY <2>2, <2>5 DEF Pass
    <3>2. QED
      BY <1>1, <1>2, <1>3, <2>1, <2>5, <3>1
  <2>6. QED
    BY <1>1, <1>6, <2>3, <2>4, <2>5, PassAndSweep DEF AllTold
<1>7. ASSUME NEW i \in DOMAIN flight, ChildSettles(i) \/ TimerFires(i) PROVE SweepIsDue'
  <2>1. flight[i] \in FlightEntry
    BY <1>1
  <2>2. \E e : flight' = [flight EXCEPT ![i] = e] /\ (Told(flight[i]) => Told(e))
    <3>1. CASE ChildSettles(i)
      <4>1. PICK r \in ChildResults \cup {"aborted"} : flight' = [flight EXCEPT ![i].result = r]
        BY <3>1 DEF ChildSettles
      <4>2. Told([flight[i] EXCEPT !.result = r])
        BY <2>1, <4>1, ChildResultsAssumption DEF FlightEntry, Told
      <4>3. QED
        BY <4>1, <4>2
    <3>2. CASE TimerFires(i)
      <4>1. Told([flight[i] EXCEPT !.cause = "timer"])
        BY <2>1 DEF FlightEntry, Told
      <4>2. QED
        BY <3>2, <4>1 DEF TimerFires
    <3>3. QED
      BY <1>7, <3>1, <3>2
  <2>3. AllTold => AllTold'
    BY <1>1, <2>2 DEF AllTold
  <2>4. intent' = intent /\ pass' = pass
    BY <1>7 DEF ChildSettles, TimerFires, ledger
  <2>5. QED
    BY <1>1, <1>2, <1>3, <2>3, <2>4
<1>8. CASE Control
  <2>1. CASE ControlStop
    BY <1>3, <1>4, <2>1 DEF ControlStop
  <2>2. CASE ControlOther
    <3>1. intent' = "stop" => intent = "stop"
      BY <2>2 DEF ControlOther, Pause, Resume, RetryTask, CancelTask
    <3>2. flight' = flight /\ pass' = pass
      BY <1>8, <2>2 DEF Control, ControlOther
    <3>3. QED
      BY <1>1, <1>2, <1>3, <1>5, <3>1, <3>2
  <2>3. QED
    BY <1>8, <2>1, <2>2 DEF Control
<1>9. CASE Crash
  BY <1>3, <1>4, <1>9 DEF Crash
<1>10. ASSUME intent' = intent, flight' = flight, pass' = pass PROVE SweepIsDue'
  BY <1>1, <1>2, <1>3, <1>5, <1>10
<1>11. CASE (\E t \in Task : TimePasses(t)) \/ Approve \/ BootDone \/ UNCHANGED vars
  BY <1>10, <1>11 DEF TimePasses, BackoffElapses, Approve, Decide, BootDone, vars, ledger, memory
<1>12. CASE BootReconcile
  BY <1>10, <1>12 DEF BootReconcile, RecoveryTx, RecoverNeverDispatched, RecoverOrphaned, memory
<1>13. QED
  BY <1>6, <1>7, <1>8, <1>9, <1>11, <1>12 DEF EngineNext

-----------------------------------------------------------------------------
(* The invariant holds, and what follows from it *)

LEMMA InitHolds == EngineInit => EngineInv
<1> SUFFICES ASSUME EngineInit PROVE EngineInv
  OBVIOUS
<1>1. LedgerInit /\ thread = "free" /\ flight = <<>> /\ slots = {} /\ meta = <<>>
  BY DEF EngineInit
<1>2. \A p \in Pass : pass[p] = IdlePass /\ pass[p].pc = "idle" /\ Hand(p) = NoAttempt
  BY DEF EngineInit, IdlePass, Hand, InHand
<1>3. TypeOK
  BY <1>1 DEF LedgerInit, TypeOK, RunState, Intent, TaskState, ApprovalState, Content
<1>4. MemoryTypeOK
  <2>1. IdlePass \in PassLocals
    BY DEF IdlePass, PassLocals, PC
  <2>2. pass \in [Pass -> PassLocals] /\ holder \in [Key -> Attempt \cup {NoAttempt}]
    BY <2>1 DEF EngineInit
  <2>3. DOMAIN meta = {} /\ meta \in [DOMAIN meta -> Slot]
    BY <1>1
  <2>4. QED
    BY <1>1, <2>2, <2>3 DEF MemoryTypeOK
<1>5. \A t \in Task : ~HasNonTerminalAttempt(t) /\ Len(att[t]) = 0
  BY <1>1 DEF LedgerInit, HasNonTerminalAttempt, Live
<1>6. RunningHasItsAttempt /\ IntentMatchesRun /\ AttemptsBounded /\ DrainedRunIsIdle
  BY <1>1, <1>5, MaxOrdinalAssumption
     DEF LedgerInit, RunningHasItsAttempt, HasNonTerminalAttempt, IntentMatchesRun,
         AttemptsBounded, DrainedRunIsIdle
<1>7. ThreadDiscipline /\ PassWork /\ AdmissionIsOpen
  BY <1>1, <1>2 DEF ThreadDiscipline, Synchronous, PassWork, WorkOf, AdmissionIsOpen, AdmissionOf
<1>8. \A x \in Attempt : ~Live(x[1], x[2])
  BY <1>5, AttemptIsSome DEF HasNonTerminalAttempt, Live
<1>9. Current = {} /\ DOMAIN flight = {} /\ DOMAIN meta = {}
  BY <1>1, <1>8 DEF Current
<1>10. Ownership
  BY <1>2, <1>9 DEF Ownership, HeldIsCurrent, HeldOnce, CurrentIsHeld, InHand
<1>11. SlotsAccounted
  BY <1>1, <1>8, <1>9 DEF SlotsAccounted
<1>12. KeyIsExclusive
  <2>1. \A x \in Attempt : KeyOf[x[1]] # NoKey => holder[KeyOf[x[1]]] = NoAttempt
    BY AttemptIsSome DEF EngineInit, Key
  <2>2. QED
    BY <1>8, <2>1, AttemptIsSome DEF KeyIsExclusive
<1>13. SweepIsDue
  BY <1>9 DEF SweepIsDue
<1>14. QED
  BY <1>3, <1>4, <1>6, <1>7, <1>10, <1>11, <1>12, <1>13, TypesTogether DEF EngineInv

LEMMA InvStep == EngineInv /\ [EngineNext]_vars => EngineInv'
<1> SUFFICES ASSUME EngineInv, [EngineNext]_vars PROVE EngineInv'
  OBVIOUS
<1>1. TypeOK' /\ RunningHasItsAttempt' /\ IntentMatchesRun' /\ AttemptsBounded'
  BY LedgerFactsStep
<1>2. EngineTypeOK'
  BY <1>1, MemoryStep DEF EngineTypeOK, MemoryTypeOK
<1>3. ThreadDiscipline' /\ PassWork' /\ AdmissionIsOpen'
  BY DisciplineStep
<1>4. Ownership' /\ SlotsAccounted' /\ KeyIsExclusive'
  BY AccountsStep DEF Accounts
<1>5. DrainedRunIsIdle' /\ SweepIsDue'
  BY DrainedStep, SweepStep
<1>6. QED
  BY <1>1, <1>2, <1>3, <1>4, <1>5 DEF EngineInv

LEMMA EngineInductive == EngineSpec => []EngineInv
<1>1. QED
  BY InitHolds, InvStep, PTL DEF EngineSpec

\* The rows, the locals of the passes, the in-flight map and the admission
\* tables keep their types.
THEOREM EngineTypeCorrect == EngineSpec => []EngineTypeOK
<1>1. EngineInv => EngineTypeOK
  BY DEF EngineInv
<1>2. QED
  BY <1>1, EngineInductive, PTL

\* OneOwner: while the host is up, each live attempt has exactly one owner in
\* memory and an attempt that is over has none, whatever passes, timers, tools
\* and crashes interleave.
THEOREM OwnersAreUnique == EngineSpec => []OneOwner
<1>1. ASSUME EngineInv PROVE OneOwner
  <2> SUFFICES ASSUME thread # "boot", NEW t \in Task, NEW n \in 1 .. MaxOrdinal
               PROVE  Cardinality(Owners(<<t, n>>)) = IF Live(t, n) THEN 1 ELSE 0
    BY DEF OneOwner
  <2> DEFINE x == <<t, n>>
  <2>1. x \in Attempt /\ x # NoAttempt /\ (x \in Current <=> Live(t, n))
    BY AttemptIsSome DEF Attempt, Current
  <2> HIDE DEF x
  <2>2. HeldIsCurrent /\ HeldOnce /\ CurrentIsHeld
    BY <1>1 DEF EngineInv, Ownership
  <2>3. Owners(x) = {p \in Pass : Hand(p) = x} \cup {i \in DOMAIN flight : flight[i].id = x}
    BY <2>1 DEF Owners, Hand
  <2>4. CASE x \in Current
    <3>1. \/ \E p \in Pass : Hand(p) = x
          \/ \E i \in DOMAIN flight : flight[i].id = x
      BY <2>2, <2>4 DEF CurrentIsHeld
    <3>2. \E o : Owners(x) = {o}
      <4>1. ASSUME NEW p \in Pass, Hand(p) = x PROVE Owners(x) = {p}
        BY <2>1, <2>2, <2>3, <4>1 DEF HeldOnce
      <4>2. ASSUME NEW i \in DOMAIN flight, flight[i].id = x PROVE Owners(x) = {i}
        BY <2>1, <2>2, <2>3, <4>2 DEF HeldOnce
      <4>3. QED
        BY <3>1, <4>1, <4>2
    <3>3. Cardinality(Owners(x)) = 1
      BY <3>2, FS_Singleton
    <3>4. QED
      BY <2>1, <2>4, <3>3 DEF x
  <2>5. CASE x \notin Current
    <3>1. Owners(x) = {}
      BY <2>2, <2>5 DEF Owners, HeldIsCurrent
    <3>2. Cardinality(Owners(x)) = 0
      BY <3>1, FS_EmptySet
    <3>3. QED
      BY <2>1, <2>5, <3>2 DEF x
  <2>6. QED
    BY <2>4, <2>5
<1>2. QED
  BY <1>1, EngineInductive, PTL

\* SlotsAccounted: the admission slots are those of the live attempts, one
\* each, at every early exit of a dispatch loop.
THEOREM SlotsAreAccounted == EngineSpec => []SlotsAccounted
<1>1. EngineInv => SlotsAccounted
  BY DEF EngineInv
<1>2. QED
  BY <1>1, EngineInductive, PTL

\* KeyIsExclusive: the holder of a session key is the live attempt that
\* declares it, so two attempts that declare the same key are never both live.
THEOREM KeysAreExclusive == EngineSpec => []KeyIsExclusive
<1>1. EngineInv => KeyIsExclusive
  BY DEF EngineInv
<1>2. QED
  BY <1>1, EngineInductive, PTL

\* DrainedRunIsIdle: a paused or finished run has no live attempt, though a
\* pass may have been suspended in its dispatch loop when it came to rest.
THEOREM RestIsKept == EngineSpec => []DrainedRunIsIdle
<1>1. EngineInv => DrainedRunIsIdle
  BY DEF EngineInv
<1>2. QED
  BY <1>1, EngineInductive, PTL

\* NoStragglerOutlivesStop: with a stop landed and no pass under way, every
\* child that still runs has been told to stop.
THEOREM StopReachesEveryChild == EngineSpec => []NoStragglerOutlivesStop
<1>1. EngineInv => NoStragglerOutlivesStop
  BY DEF EngineInv, SweepIsDue, NoStragglerOutlivesStop, Pass
<1>2. QED
  BY <1>1, EngineInductive, PTL

\* ClaimsNeedALiveRun: no step gives a task of a finished run an attempt.
THEOREM NoClaimAfterTheEnd == EngineSpec => ClaimsNeedALiveRun
<1>1. ASSUME EngineInv, [EngineNext]_vars
      PROVE  \A t \in Task : NewAttempt(t) => run \notin RunTerminal
  <2> TAKE t \in Task
  <2>1. att[t] \in Seq(AttemptState) /\ att'[t] \in Seq(AttemptState)
    BY <1>1, LedgerFactsStep DEF EngineInv, EngineTypeOK, TypeOK
  <2>2. DOMAIN att'[t] = DOMAIN att[t] => ~NewAttempt(t)
    BY <2>1 DEF NewAttempt
  <2>3. QED
    BY <1>1, <2>2, ClaimsAreAdmitted
<1>2. QED
  BY <1>1, EngineInductive, PTL DEF EngineSpec, ClaimsNeedALiveRun

\* The engine implements the ledger's specification: each of its steps is one
\* transaction of the store, or none, for it settles only what it owns.
THEOREM EngineImplementsLedger == EngineSpec => LedgerSpec
<1>1. EngineInit => LedgerInit
  BY DEF EngineInit
<1>2. EngineInv /\ [EngineNext]_vars => [LedgerNext]_ledger
  BY EngineIsLedgerStep
<1>3. QED
  BY <1>1, <1>2, EngineInductive, PTL DEF EngineSpec, LedgerSpec

\* So what is proved of the ledger holds of the running engine: it keeps the
\* promise of the plan, and its finished work stays finished.
THEOREM EngineKeepsPromise == EngineSpec => PromiseKept /\ AbsorbingStates
BY EngineImplementsLedger, LedgerKeepsPromise, VerdictsAreFinal, PTL
==============================================================================
