------------------------ MODULE AgentDispatchProofs -------------------------
(***************************************************************************)
(* The agent executor, proved for every set of tasks, of slugs and of       *)
(* worktree services, and for every bound.                                  *)
(*                                                                          *)
(* A task has at most one in-flight entry, and none while a dispatch of it  *)
(* has not started its child; the entry works in a worktree some attempt of *)
(* the same task made.  So two children share a checkout only if they are   *)
(* one.  The row of the attempt names that worktree from the turn on in     *)
(* which the child was registered, so a success is committed with it.       *)
(***************************************************************************)
EXTENDS AgentDispatch, TLAPS

AttemptRow ==
    [state : {"running", "succeeded", "failed", "cancelled", "orphaned"},
     session : BOOLEAN, wt : Nat]

\* An entry is the last attempt of a running task, at work in a worktree made
\* by that task.
EntriesAreRunning ==
    \A e \in flight :
        /\ task[e.task] = "running" /\ e.ordinal = Last(e.task)
        /\ e.wt \in DOMAIN wts /\ wts[e.wt].task = e.task
        /\ e.end \in EndingOf(e.task) \cup {"none"}

OneEntryEach == \A d, e \in flight : d.task = e.task => d = e

DispatchesAreRunning ==
    \A t \in Task :
        /\ pc[t] # "idle" => task[t] = "running"
        /\ task[t] = "running" => Last(t) > 0
        /\ pc[t] \in {"probe", "create", "start"} => Entry(t) = {}
        /\ pc[t] = "start" => cwd[t] \in DOMAIN wts /\ wts[cwd[t]].task = t
        /\ pc[t] = "record" => \A e \in Entry(t) : e.end = "none" /\ e.wt = cwd[t]

WorktreesHaveMakers ==
    \A k \in DOMAIN wts : wts[k].task \in Task /\ wts[k].ordinal \in Attempts(wts[k].task)

Recorded(k) == IF service.names THEN k ELSE None

EntriesAreRecorded ==
    \A e \in flight :
        pc[e.task] = "idle" => att[e.task][e.ordinal].wt = Recorded(e.wt)

SuccessIsLast ==
    \A t \in Task :
        /\ \A n \in Attempts(t) : att[t][n].state = "succeeded" =>
              task[t] = "succeeded" /\ n = Last(t)
        /\ task[t] = "succeeded" =>
              /\ Last(t) > 0
              /\ att[t][Last(t)].state = "succeeded"
              /\ att[t][Last(t)].wt = Recorded(worked[t])

DispatchInv ==
    /\ TypeOK
    /\ EntriesAreRunning /\ OneEntryEach /\ DispatchesAreRunning
    /\ WorktreesHaveMakers /\ EntriesAreRecorded /\ SuccessIsLast
    /\ OwnCheckoutIsNoObstacle /\ SuccessCarriesItsReceipt

-----------------------------------------------------------------------------

\* What the rows of the attempts are after the last one of a task is rewritten.
LEMMA LastAttemptChanges ==
    ASSUME att \in [Task -> Seq(AttemptRow)],
           NEW t \in Task, Last(t) \in Attempts(t), NEW r \in AttemptRow,
           att' = [att EXCEPT ![t][Last(t)] = r]
    PROVE  /\ att' \in [Task -> Seq(AttemptRow)]
           /\ \A u \in Task : Len(att'[u]) = Len(att[u])
           /\ att'[t][Last(t)] = r
           /\ \A u \in Task : \A m \in Attempts(u) :
                 u # t \/ m # Last(t) => att'[u][m] = att[u][m]
<1>1. /\ att[t] \in Seq(AttemptRow) /\ Len(att[t]) \in Nat /\ DOMAIN att[t] = 1 .. Len(att[t])
      /\ Last(t) \in 1 .. Len(att[t])
  BY DEF Last, Attempts
<1>2. PICK n \in 1 .. Len(att[t]) : n = Last(t)
  BY <1>1
<1>3. /\ [att[t] EXCEPT ![n] = r] \in Seq(AttemptRow)
      /\ Len([att[t] EXCEPT ![n] = r]) = Len(att[t])
  BY <1>1
<1>4. att' = [att EXCEPT ![t] = [att[t] EXCEPT ![n] = r]]
  BY <1>2
<1>5. att' \in [Task -> Seq(AttemptRow)]
  BY <1>3, <1>4
<1>6. \A u \in Task : att'[u] = IF u = t THEN [att[t] EXCEPT ![n] = r] ELSE att[u]
  BY <1>4
<1>7. \A u \in Task : Len(att'[u]) = Len(att[u])
  BY <1>3, <1>6
<1>8. QED
  BY <1>1, <1>2, <1>5, <1>6, <1>7 DEF Attempts

WorktreeRow ==
    [slug : {Slug[t] : t \in Task}, task : Task, ordinal : Nat, active : BOOLEAN]

\* Worktrees are named by their positions.
LEMMA WorktreeNumbers ==
    ASSUME TypeOK
    PROVE  /\ wts \in Seq(WorktreeRow)
           /\ Len(wts) \in Nat /\ DOMAIN wts = 1 .. Len(wts) /\ DOMAIN wts \subseteq Nat
           /\ \A k \in DOMAIN wts : wts[k] \in WorktreeRow
<1>1. wts \in Seq(WorktreeRow)
  BY DEF TypeOK, WorktreeRow
<1>2. QED
  BY <1>1

\* Nothing is dispatched at first.
LEMMA DispatchInit == Init => DispatchInv
<1> SUFFICES ASSUME Init PROVE DispatchInv
  OBVIOUS
<1>1. TypeOK
  BY BoundAssumption DEF Init, TypeOK, TaskState, Completed, None
<1>2. /\ EntriesAreRunning /\ OneEntryEach /\ DispatchesAreRunning
      /\ WorktreesHaveMakers /\ EntriesAreRecorded /\ SuccessIsLast
  BY DEF Init, EntriesAreRunning, OneEntryEach, DispatchesAreRunning,
         WorktreesHaveMakers, EntriesAreRecorded, SuccessIsLast, Attempts, Last, None
<1>3. OwnCheckoutIsNoObstacle /\ SuccessCarriesItsReceipt
  BY DEF Init, OwnCheckoutIsNoObstacle, SuccessCarriesItsReceipt
<1>4. QED
  BY <1>1, <1>2, <1>3 DEF DispatchInv

\* A round claims a task: it had no entry, for it was not running.
LEMMA ClaimKeeps ==
    ASSUME DispatchInv, NEW t \in Task, Claim(t)
    PROVE  DispatchInv'
<1> DEFINE row == [state |-> "running", session |-> FALSE, wt |-> None]
<1>1. /\ task[t] = "waiting"
      /\ task' = [task EXCEPT ![t] = "running"]
      /\ att' = [att EXCEPT ![t] = Append(@, row)]
      /\ pc' = [pc EXCEPT ![t] = IF service.find THEN "probe" ELSE "create"]
      /\ UNCHANGED <<service, wts, out, stopped, cwd, flight, crashes, worked>>
  BY DEF Claim, disk
<1>2. TypeOK /\ att \in [Task -> Seq(AttemptRow)]
  BY DEF DispatchInv, TypeOK, AttemptRow
<1>3. row \in AttemptRow
  BY DEF AttemptRow, None
<1> HIDE DEF row
<1>4. Len(att[t]) \in Nat /\ Append(att[t], row) \in Seq(AttemptRow)
      /\ Len(Append(att[t], row)) = Len(att[t]) + 1
      /\ \A n \in 1 .. Len(att[t]) : Append(att[t], row)[n] = att[t][n]
      /\ Append(att[t], row)[Len(att[t]) + 1] = row
  BY <1>2, <1>3
<1>5. /\ att' \in [Task -> Seq(AttemptRow)]
      /\ Last(t)' = Last(t) + 1 /\ Last(t) \in Nat /\ att'[t][Last(t) + 1] = row
      /\ Attempts(t)' = Attempts(t) \cup {Last(t) + 1}
      /\ \A n \in Attempts(t) : att'[t][n] = att[t][n]
      /\ \A u \in Task : u # t =>
            att'[u] = att[u] /\ Last(u)' = Last(u) /\ Attempts(u)' = Attempts(u)
  BY <1>1, <1>2, <1>4 DEF Last, Attempts
<1>6. /\ \A u \in Task : task'[u] = IF u = t THEN "running" ELSE task[u]
      /\ \A u \in Task : u # t => pc'[u] = pc[u]
      /\ pc'[t] \in {"probe", "create"} /\ (pc'[t] = "create" => ~service.find)
  BY <1>1, <1>2 DEF TypeOK
<1>7. Entry(t) = {} /\ \A u : Entry(u)' = Entry(u)
  BY <1>1 DEF DispatchInv, EntriesAreRunning, Entry
<1>8. \A e \in flight : e.task # t /\ e.task \in Task
  BY <1>2, <1>7 DEF Entry, TypeOK
<1>9. TypeOK'
  BY <1>1, <1>2, <1>5 DEF TypeOK, AttemptRow, TaskState
<1>10. EntriesAreRunning' /\ OneEntryEach'
  BY <1>1, <1>5, <1>6, <1>8 DEF DispatchInv, EntriesAreRunning, OneEntryEach
<1>11. DispatchesAreRunning'
  BY <1>1, <1>5, <1>6, <1>7 DEF DispatchInv, DispatchesAreRunning
<1>12. WorktreesHaveMakers'
  BY <1>1, <1>5 DEF DispatchInv, WorktreesHaveMakers
<1>13. EntriesAreRecorded'
  BY <1>1, <1>5, <1>6, <1>8 DEF DispatchInv, EntriesAreRecorded, Recorded
<1>14. SuccessIsLast'
  <2>1. row.state # "succeeded"
    BY DEF row
  <2>2. SuccessIsLast
    BY DEF DispatchInv
  <2>3. task'[t] = "running" /\ \A n \in Attempts(t)' : att'[t][n].state # "succeeded"
    BY <1>1, <1>5, <1>6, <2>1, <2>2 DEF SuccessIsLast
  <2>4. \A u \in Task : u # t =>
          /\ task'[u] = task[u] /\ att'[u] = att[u] /\ worked'[u] = worked[u]
          /\ Attempts(u)' = Attempts(u) /\ Last(u)' = Last(u)
    BY <1>1, <1>5, <1>6
  <2>5. \A k : Recorded(k)' = Recorded(k)
    BY <1>1 DEF Recorded
  <2>6. QED
    BY <2>2, <2>3, <2>4, <2>5 DEF SuccessIsLast
<1>15. OwnCheckoutIsNoObstacle'
  BY <1>1, <1>6 DEF DispatchInv, OwnCheckoutIsNoObstacle, ActiveFor
<1>16. SuccessCarriesItsReceipt'
  BY <1>1, <1>5, <1>6 DEF DispatchInv, SuccessCarriesItsReceipt
<1>17. QED
  BY <1>9, <1>10, <1>11, <1>12, <1>13, <1>14, <1>15, <1>16 DEF DispatchInv

\* The reuse probe, whether it finds an own worktree or goes on to create.
LEMMA ProbeKeeps ==
    ASSUME DispatchInv, NEW t \in Task, Probe(t)
    PROVE  DispatchInv'
<1>1. /\ pc[t] = "probe"
      /\ UNCHANGED <<service, wts, task, att, out, stopped, flight, crashes, worked>>
  BY DEF Probe, rows, disk
<1>2. TypeOK
  BY DEF DispatchInv
<1>3. \/ /\ \E k \in ActiveFor(t) : Owns(t, k) /\ cwd' = [cwd EXCEPT ![t] = k]
         /\ pc' = [pc EXCEPT ![t] = "start"]
      \/ /\ \A k \in ActiveFor(t) : ~Owns(t, k)
         /\ pc' = [pc EXCEPT ![t] = "create"] /\ cwd' = cwd
  BY DEF Probe
<1>4. \A u : Entry(u)' = Entry(u) /\ Last(u)' = Last(u) /\ Attempts(u)' = Attempts(u)
  BY <1>1 DEF Entry, Last, Attempts
<1>5. \A u \in Task : u # t => pc'[u] = pc[u] /\ cwd'[u] = cwd[u]
  BY <1>2, <1>3 DEF TypeOK
<1>6. Entry(t) = {} /\ task[t] = "running"
  BY <1>1 DEF DispatchInv, DispatchesAreRunning
<1>7. /\ pc'[t] \in {"start", "create"}
      /\ pc'[t] = "start" => cwd'[t] \in DOMAIN wts /\ wts[cwd'[t]].task = t
      /\ pc'[t] = "create" => \A k \in ActiveFor(t) : ~Owns(t, k)
  BY <1>2, <1>3 DEF TypeOK, Owns, InHistory, ActiveFor
<1>8. TypeOK'
  <2>1. DOMAIN wts \subseteq Nat
    BY <1>2, WorktreeNumbers
  <2>2. cwd' \in [Task -> Nat] /\ pc' \in [Task -> {"idle", "probe", "create", "start", "record"}]
    BY <1>2, <1>3, <2>1 DEF TypeOK, ActiveFor
  <2>3. QED
    BY <1>1, <1>2, <2>2 DEF TypeOK
<1>9. EntriesAreRunning' /\ OneEntryEach' /\ WorktreesHaveMakers'
  BY <1>1, <1>4 DEF DispatchInv, EntriesAreRunning, OneEntryEach, WorktreesHaveMakers
<1>10. DispatchesAreRunning'
  BY <1>1, <1>4, <1>5, <1>6, <1>7 DEF DispatchInv, DispatchesAreRunning
<1>11. EntriesAreRecorded'
  <2>1. \A e \in flight : e.task # t /\ e.task \in Task
    BY <1>2, <1>6 DEF Entry, TypeOK
  <2>2. QED
    BY <1>1, <1>5, <2>1 DEF DispatchInv, EntriesAreRecorded, Recorded
<1>12. SuccessIsLast' /\ SuccessCarriesItsReceipt'
  BY <1>1, <1>4 DEF DispatchInv, SuccessIsLast, SuccessCarriesItsReceipt, Recorded
<1>13. OwnCheckoutIsNoObstacle'
  <2>1. \A k \in ActiveFor(t) : wts[k].task = t => InHistory(t, k)
    BY DEF DispatchInv, WorktreesHaveMakers, InHistory, ActiveFor
  <2>2. pc'[t] = "create" /\ service.correlates => \A k \in ActiveFor(t) : wts[k].task # t
    BY <1>7, <2>1 DEF Owns
  <2>3. QED
    BY <1>1, <1>5, <2>2 DEF DispatchInv, OwnCheckoutIsNoObstacle, ActiveFor
<1>14. QED
  BY <1>8, <1>9, <1>10, <1>11, <1>12, <1>13 DEF DispatchInv

\* The service makes a worktree for the claimed attempt.
LEMMA CreateKeeps ==
    ASSUME DispatchInv, NEW t \in Task, Create(t)
    PROVE  DispatchInv'
<1> DEFINE wt == [slug |-> Slug[t], task |-> t, ordinal |-> Last(t), active |-> TRUE]
<1>1. /\ pc[t] = "create" /\ wts' = Append(wts, wt)
      /\ cwd' = [cwd EXCEPT ![t] = Len(wts) + 1] /\ pc' = [pc EXCEPT ![t] = "start"]
      /\ UNCHANGED <<service, task, att, out, stopped, flight, crashes, worked>>
  BY DEF Create, rows
<1>2. TypeOK
  BY DEF DispatchInv
<1>3. Last(t) \in Nat
  BY <1>2 DEF TypeOK, Last
<1>4. wt \in WorktreeRow /\ wt.task = t /\ wt.ordinal = Last(t)
  BY <1>3 DEF WorktreeRow
<1> HIDE DEF wt
<1>5. /\ wts' \in Seq(WorktreeRow) /\ DOMAIN wts' = DOMAIN wts \cup {Len(wts) + 1}
      /\ Len(wts) + 1 \in Nat
      /\ wts'[Len(wts) + 1] = wt
      /\ \A k \in DOMAIN wts : wts'[k] = wts[k]
  BY <1>1, <1>2, <1>4, WorktreeNumbers
<1>6. \A u : Entry(u)' = Entry(u) /\ Last(u)' = Last(u) /\ Attempts(u)' = Attempts(u)
  BY <1>1 DEF Entry, Last, Attempts
<1>7. /\ \A u \in Task : u # t => pc'[u] = pc[u] /\ cwd'[u] = cwd[u]
      /\ pc'[t] = "start" /\ cwd'[t] = Len(wts) + 1
  BY <1>1, <1>2 DEF TypeOK
<1>8. Entry(t) = {} /\ task[t] = "running" /\ Last(t) \in Attempts(t)
  BY <1>1, <1>3 DEF DispatchInv, DispatchesAreRunning, Attempts, Last
<1>9. \A e \in flight : e.task # t /\ e.task \in Task
  BY <1>2, <1>8 DEF Entry, TypeOK
<1>10. TypeOK'
  BY <1>1, <1>2, <1>5 DEF TypeOK, WorktreeRow
<1>11. EntriesAreRunning' /\ OneEntryEach'
  BY <1>1, <1>5, <1>6 DEF DispatchInv, EntriesAreRunning, OneEntryEach
<1>12. DispatchesAreRunning'
  BY <1>1, <1>4, <1>5, <1>6, <1>7, <1>8 DEF DispatchInv, DispatchesAreRunning
<1>13. WorktreesHaveMakers'
  BY <1>4, <1>5, <1>6, <1>8 DEF DispatchInv, WorktreesHaveMakers
<1>14. EntriesAreRecorded'
  BY <1>1, <1>7, <1>9 DEF DispatchInv, EntriesAreRecorded, Recorded
<1>15. SuccessIsLast' /\ SuccessCarriesItsReceipt'
  BY <1>1, <1>6 DEF DispatchInv, SuccessIsLast, SuccessCarriesItsReceipt, Recorded
<1>16. OwnCheckoutIsNoObstacle'
  BY <1>1, <1>4, <1>5, <1>7 DEF DispatchInv, OwnCheckoutIsNoObstacle, ActiveFor
<1>17. QED
  BY <1>10, <1>11, <1>12, <1>13, <1>14, <1>15, <1>16 DEF DispatchInv

\* The child is registered, with the worktree the dispatch resolved.
LEMMA StartKeeps ==
    ASSUME DispatchInv, NEW t \in Task, Start(t)
    PROVE  DispatchInv'
<1> DEFINE new == [task |-> t, ordinal |-> Last(t), wt |-> cwd[t], end |-> "none",
                   abort |-> "none"]
<1>1. /\ pc[t] = "start" /\ flight' = flight \cup {new}
      /\ pc' = [pc EXCEPT ![t] = "record"]
      /\ UNCHANGED <<service, task, att, out, stopped, wts, cwd, crashes, worked>>
  BY DEF Start, rows, disk
<1>2. TypeOK
  BY DEF DispatchInv
<1>3. /\ new.task = t /\ new.ordinal = Last(t) /\ new.wt = cwd[t] /\ new.end = "none"
      /\ new \in [task : Task, ordinal : Nat, wt : Nat, end : Ending \cup {"none"},
                  abort : {"none", "timer", "control"}]
  BY <1>2 DEF TypeOK, Last
<1> HIDE DEF new
<1>4. /\ Entry(t) = {} /\ task[t] = "running"
      /\ cwd[t] \in DOMAIN wts /\ wts[cwd[t]].task = t
  BY <1>1 DEF DispatchInv, DispatchesAreRunning
<1>5. \A e \in flight : e.task # t /\ e.task \in Task
  BY <1>2, <1>4 DEF Entry, TypeOK
<1>6. /\ \A u : Last(u)' = Last(u) /\ Attempts(u)' = Attempts(u)
      /\ \A u \in Task : u # t => Entry(u)' = Entry(u)
      /\ Entry(t)' = {new}
  BY <1>1, <1>3, <1>5 DEF Entry, Last, Attempts
<1>7. pc'[t] = "record" /\ \A u \in Task : u # t => pc'[u] = pc[u]
  BY <1>1, <1>2 DEF TypeOK
<1>8. TypeOK'
  BY <1>1, <1>2, <1>3 DEF TypeOK
<1>9. EntriesAreRunning'
  BY <1>1, <1>3, <1>4, <1>6 DEF DispatchInv, EntriesAreRunning, EndingOf
<1>10. OneEntryEach'
  BY <1>1, <1>3, <1>5 DEF DispatchInv, OneEntryEach
<1>11. DispatchesAreRunning'
  BY <1>1, <1>3, <1>4, <1>6, <1>7 DEF DispatchInv, DispatchesAreRunning
<1>12. EntriesAreRecorded'
  BY <1>1, <1>3, <1>5, <1>7 DEF DispatchInv, EntriesAreRecorded, Recorded
<1>13. WorktreesHaveMakers' /\ SuccessIsLast' /\ SuccessCarriesItsReceipt'
  BY <1>1, <1>6
     DEF DispatchInv, WorktreesHaveMakers, SuccessIsLast, SuccessCarriesItsReceipt, Recorded
<1>14. OwnCheckoutIsNoObstacle'
  BY <1>1, <1>7 DEF DispatchInv, OwnCheckoutIsNoObstacle, ActiveFor
<1>15. QED
  BY <1>8, <1>9, <1>10, <1>11, <1>12, <1>13, <1>14 DEF DispatchInv

\* The attempt's row gets its child and the worktree it works in.
LEMMA RecordKeeps ==
    ASSUME DispatchInv, NEW t \in Task, Record(t)
    PROVE  DispatchInv'
<1> DEFINE row == [att[t][Last(t)] EXCEPT !.session = TRUE, !.wt = WorktreeId(t)]
<1>1. /\ pc[t] = "record"
      /\ att' = [att EXCEPT ![t][Last(t)] = row]
      /\ pc' = [pc EXCEPT ![t] = "idle"] /\ cwd' = [cwd EXCEPT ![t] = None]
      /\ UNCHANGED <<service, task, out, stopped, wts, flight, crashes, worked>>
  BY DEF Record, disk
<1>2. TypeOK /\ att \in [Task -> Seq(AttemptRow)]
  BY DEF DispatchInv, TypeOK, AttemptRow
<1>3. task[t] = "running" /\ Last(t) \in Attempts(t) /\ att[t][Last(t)] \in AttemptRow
  BY <1>1, <1>2 DEF DispatchInv, DispatchesAreRunning, Attempts, Last
<1>4. WorktreeId(t) \in Nat /\ WorktreeId(t) = Recorded(cwd[t])
  BY <1>2 DEF TypeOK, WorktreeId, Recorded, None
<1>5. row \in AttemptRow /\ row.wt = Recorded(cwd[t]) /\ row.state = att[t][Last(t)].state
  BY <1>3, <1>4 DEF AttemptRow
<1> HIDE DEF row
<1>6. /\ att' \in [Task -> Seq(AttemptRow)]
      /\ \A u \in Task : Last(u)' = Last(u) /\ Attempts(u)' = Attempts(u)
      /\ att'[t][Last(t)] = row
      /\ \A u \in Task : \A m \in Attempts(u) :
            u # t \/ m # Last(t) => att'[u][m] = att[u][m]
  <2>1. att \in [Task -> Seq(AttemptRow)] /\ Last(t) \in Attempts(t) /\ row \in AttemptRow
        /\ att' = [att EXCEPT ![t][Last(t)] = row]
    BY <1>1, <1>2, <1>3, <1>5
  <2>2. /\ att' \in [Task -> Seq(AttemptRow)]
        /\ \A u \in Task : Len(att'[u]) = Len(att[u])
        /\ att'[t][Last(t)] = row
        /\ \A u \in Task : \A m \in Attempts(u) :
              u # t \/ m # Last(t) => att'[u][m] = att[u][m]
    BY <2>1, LastAttemptChanges, Zenon
  <2>3. QED
    BY <2>2 DEF Last, Attempts
<1>7. /\ \A u \in Task : u # t => pc'[u] = pc[u] /\ cwd'[u] = cwd[u]
      /\ pc'[t] = "idle"
  BY <1>1, <1>2 DEF TypeOK
<1>8. \A u : Entry(u)' = Entry(u)
  BY <1>1 DEF Entry
<1>9. \A e \in flight : e.task \in Task /\ e.ordinal = Last(e.task) /\ Last(e.task) \in Attempts(e.task)
  BY <1>2 DEF DispatchInv, EntriesAreRunning, DispatchesAreRunning, Attempts, Last, TypeOK
<1>10. TypeOK'
  BY <1>1, <1>2, <1>6 DEF TypeOK, AttemptRow, None
<1>11. EntriesAreRunning' /\ OneEntryEach'
  BY <1>1, <1>6, <1>9 DEF DispatchInv, EntriesAreRunning, OneEntryEach
<1>12. DispatchesAreRunning'
  BY <1>1, <1>6, <1>7, <1>8 DEF DispatchInv, DispatchesAreRunning
<1>13. WorktreesHaveMakers'
  BY <1>1, <1>6 DEF DispatchInv, WorktreesHaveMakers
<1>14. EntriesAreRecorded'
  <2> SUFFICES ASSUME NEW e \in flight, pc'[e.task] = "idle"
               PROVE  att'[e.task][e.ordinal].wt = Recorded(e.wt)
    BY <1>1 DEF EntriesAreRecorded, Recorded
  <2>1. CASE e.task = t
    BY <1>1, <1>5, <1>6, <1>9, <2>1 DEF DispatchInv, DispatchesAreRunning, Entry
  <2>2. CASE e.task # t
    BY <1>6, <1>7, <1>9, <2>2 DEF DispatchInv, EntriesAreRecorded
  <2>3. QED
    BY <2>1, <2>2
<1>15. SuccessIsLast'
  <2>1. SuccessIsLast /\ \A n \in Attempts(t) : att'[t][n].state = att[t][n].state
    BY <1>5, <1>6 DEF DispatchInv
  <2>2. ASSUME NEW u \in Task, NEW n \in Attempts(u)
        PROVE  att'[u][n].state = "succeeded" => task[u] = "succeeded" /\ n = Last(u)
    BY <1>6, <2>1 DEF SuccessIsLast
  <2>3. ASSUME NEW u \in Task, task[u] = "succeeded"
        PROVE  /\ Last(u) > 0 /\ att'[u][Last(u)].state = "succeeded"
               /\ att'[u][Last(u)].wt = Recorded(worked[u])
    <3>1. u # t /\ Last(u) > 0 /\ Last(u) \in Nat /\ Last(u) \in Attempts(u)
      BY <1>2, <1>3, <2>1, <2>3 DEF SuccessIsLast, Attempts, Last
    <3>2. QED
      BY <1>6, <2>1, <2>3, <3>1 DEF SuccessIsLast
  <2>4. QED
    BY <1>1, <1>6, <2>2, <2>3 DEF SuccessIsLast, Recorded
<1>16. SuccessCarriesItsReceipt'
  BY <1>1, <1>6 DEF DispatchInv, SuccessCarriesItsReceipt
<1>17. OwnCheckoutIsNoObstacle'
  BY <1>1, <1>7 DEF DispatchInv, OwnCheckoutIsNoObstacle, ActiveFor
<1>18. QED
  BY <1>10, <1>11, <1>12, <1>13, <1>14, <1>15, <1>16, <1>17 DEF DispatchInv

\* What the rows of the attempts are after the last one of a task has ended.
LEMMA LastAttemptEnds ==
    ASSUME att \in [Task -> Seq(AttemptRow)],
           NEW t \in Task, Last(t) \in Attempts(t),
           NEW s \in {"succeeded", "failed", "cancelled"},
           att' = [att EXCEPT ![t][Last(t)].state = s]
    PROVE  /\ att' \in [Task -> Seq(AttemptRow)]
           /\ \A u \in Task : Len(att'[u]) = Len(att[u])
           /\ att'[t][Last(t)].state = s
           /\ att'[t][Last(t)].wt = att[t][Last(t)].wt
           /\ \A u \in Task : \A m \in Attempts(u) :
                 u # t \/ m # Last(t) => att'[u][m] = att[u][m]
<1> DEFINE row == [att[t][Last(t)] EXCEPT !.state = s]
<1>1. att[t][Last(t)] \in AttemptRow
  BY DEF Attempts
<1>2. row \in AttemptRow /\ row.state = s /\ row.wt = att[t][Last(t)].wt
  BY <1>1 DEF AttemptRow
<1>3. att' = [att EXCEPT ![t][Last(t)] = row]
  OBVIOUS
<1> HIDE DEF row
<1>4. /\ att' \in [Task -> Seq(AttemptRow)]
      /\ \A u \in Task : Len(att'[u]) = Len(att[u])
      /\ att'[t][Last(t)] = row
      /\ \A u \in Task : \A m \in Attempts(u) :
            u # t \/ m # Last(t) => att'[u][m] = att[u][m]
  BY <1>2, <1>3, LastAttemptChanges, Zenon
<1>5. QED
  BY <1>2, <1>4

\* The last attempt of a running task ends, its task settles, and no entry of
\* the task is left: what a failed dispatch and a harvest have in common.
LEMMA AttemptEndKeeps ==
    ASSUME DispatchInv, NEW t \in Task, task[t] = "running",
           NEW s \in {"succeeded", "failed", "cancelled"},
           NEW ts \in TaskState \ {"running"}, s = "succeeded" <=> ts = "succeeded",
           task' = [task EXCEPT ![t] = ts],
           att' = [att EXCEPT ![t][Last(t)].state = s],
           pc' = [pc EXCEPT ![t] = "idle"],
           cwd' \in [Task -> Nat], \A u \in Task \ {t} : cwd'[u] = cwd[u],
           flight' = flight \ Entry(t),
           UNCHANGED <<service, wts, stopped, crashes>>,
           out' \in [Task -> [by : Nat, says : Completed]],
           \A u \in Task \ {t} : out'[u] = out[u],
           worked' \in [Task -> Nat], \A u \in Task \ {t} : worked'[u] = worked[u],
           s = "succeeded" =>
               /\ att[t][Last(t)].wt = Recorded(worked'[t])
               /\ t \in Verifies => out'[t] = [by |-> Last(t), says |-> "expected"]
    PROVE  DispatchInv'
<1>1. TypeOK /\ att \in [Task -> Seq(AttemptRow)]
  BY DEF DispatchInv, TypeOK, AttemptRow
<1>2. Last(t) \in Attempts(t) /\ Last(t) > 0
  BY <1>1 DEF DispatchInv, DispatchesAreRunning, Attempts, Last
<1>3. /\ att' \in [Task -> Seq(AttemptRow)]
      /\ \A u \in Task : Len(att'[u]) = Len(att[u])
      /\ att'[t][Last(t)].state = s
      /\ att'[t][Last(t)].wt = att[t][Last(t)].wt
      /\ \A u \in Task : \A m \in Attempts(u) :
            u # t \/ m # Last(t) => att'[u][m] = att[u][m]
  BY <1>1, <1>2, LastAttemptEnds, Zenon
<1>5. \A u \in Task : Last(u)' = Last(u) /\ Attempts(u)' = Attempts(u)
  BY <1>3 DEF Last, Attempts
<1>6. /\ task'[t] = ts /\ \A u \in Task : u # t => task'[u] = task[u]
      /\ pc'[t] = "idle" /\ \A u \in Task : u # t => pc'[u] = pc[u]
  BY <1>1 DEF TypeOK
<1>7. /\ \A e \in flight' : e \in flight /\ e.task # t /\ e.task \in Task
      /\ \A u \in Task : u # t => Entry(u)' = Entry(u)
  BY <1>1 DEF Entry, TypeOK
<1>8. \A e \in flight' : e.ordinal = Last(e.task) /\ Last(e.task) \in Attempts(e.task)
  BY <1>1, <1>7 DEF DispatchInv, EntriesAreRunning, DispatchesAreRunning, Attempts, Last, TypeOK
<1>9. TypeOK'
  BY <1>1, <1>3, <1>5 DEF TypeOK, AttemptRow, TaskState
<1>10. EntriesAreRunning' /\ OneEntryEach'
  BY <1>5, <1>6, <1>7 DEF DispatchInv, EntriesAreRunning, OneEntryEach
<1>11. DispatchesAreRunning'
  <2>1. DispatchesAreRunning
    BY DEF DispatchInv
  <2>2. task'[t] # "running"
    BY <1>6
  <2>3. \A u \in Task : u # t =>
          /\ task'[u] = task[u] /\ pc'[u] = pc[u] /\ cwd'[u] = cwd[u]
          /\ Last(u)' = Last(u) /\ Entry(u)' = Entry(u)
    BY <1>5, <1>6, <1>7
  <2>4. QED
    BY <1>6, <2>1, <2>2, <2>3 DEF DispatchesAreRunning
<1>12. WorktreesHaveMakers'
  BY <1>5 DEF DispatchInv, WorktreesHaveMakers
<1>13. EntriesAreRecorded'
  BY <1>3, <1>5, <1>6, <1>7, <1>8 DEF DispatchInv, EntriesAreRecorded, Recorded
<1>14. SuccessIsLast'
  <2>1. SuccessIsLast
    BY DEF DispatchInv
  <2>2. ASSUME NEW u \in Task, NEW n \in Attempts(u), att'[u][n].state = "succeeded"
        PROVE  task'[u] = "succeeded" /\ n = Last(u)
    <3>1. CASE u = t /\ n = Last(t)
      BY <1>3, <1>5, <1>6, <2>2, <3>1
    <3>2. CASE u # t \/ n # Last(t)
      BY <1>3, <1>5, <1>6, <2>1, <2>2, <3>2 DEF SuccessIsLast
    <3>3. QED
      BY <3>1, <3>2
  <2>3. ASSUME NEW u \in Task, task'[u] = "succeeded"
        PROVE  /\ Last(u) > 0 /\ att'[u][Last(u)].state = "succeeded"
               /\ att'[u][Last(u)].wt = Recorded(worked'[u])
    <3>1. CASE u = t
      BY <1>2, <1>3, <1>5, <1>6, <2>3, <3>1
    <3>2. CASE u # t
      <4>1. Last(u) > 0 /\ Last(u) \in Nat /\ Last(u) \in Attempts(u)
        BY <1>1, <1>6, <2>1, <2>3, <3>2 DEF SuccessIsLast, Attempts, Last
      <4>2. QED
        BY <1>3, <1>5, <1>6, <2>1, <2>3, <3>2, <4>1 DEF SuccessIsLast
    <3>3. QED
      BY <3>1, <3>2
  <2>4. QED
    BY <1>5, <2>2, <2>3 DEF SuccessIsLast, Recorded
<1>15. SuccessCarriesItsReceipt'
  <2>1. task'[t] = "succeeded" /\ t \in Verifies => out'[t] = [by |-> Last(t), says |-> "expected"]
    <3>1. task'[t] = "succeeded" => s = "succeeded"
      BY <1>6
    <3>2. QED
      BY <3>1
  <2>2. \A u \in Task : u # t =>
          task'[u] = task[u] /\ out'[u] = out[u] /\ Last(u)' = Last(u)
    BY <1>3, <1>5, <1>6
  <2>3. Last(t)' = Last(t) /\ SuccessCarriesItsReceipt
    BY <1>5 DEF DispatchInv
  <2>4. QED
    BY <2>1, <2>2, <2>3 DEF SuccessCarriesItsReceipt
<1>16. OwnCheckoutIsNoObstacle'
  BY <1>6 DEF DispatchInv, OwnCheckoutIsNoObstacle, ActiveFor
<1>17. QED
  BY <1>9, <1>10, <1>11, <1>12, <1>13, <1>14, <1>15, <1>16 DEF DispatchInv

\* An attempt that never takes off has no entry.
LEMMA DispatchFailsKeeps ==
    ASSUME DispatchInv, NEW t \in Task, DispatchFails(t)
    PROVE  DispatchInv'
<1>1. pc[t] \in {"probe", "create", "start"} /\ TypeOK
  BY DEF DispatchFails, DispatchInv
<1>2. task[t] = "running" /\ Entry(t) = {}
  BY <1>1 DEF DispatchInv, DispatchesAreRunning
<1>3. PICK ts \in {"waiting", "failed"} : task' = [task EXCEPT ![t] = ts]
  BY DEF DispatchFails, CommitFailure
<1>4. /\ att' = [att EXCEPT ![t][Last(t)].state = "failed"]
      /\ pc' = [pc EXCEPT ![t] = "idle"] /\ cwd' = [cwd EXCEPT ![t] = None]
      /\ UNCHANGED <<service, wts, out, stopped, flight, crashes, worked>>
  BY DEF DispatchFails, CommitFailure, disk
<1>5. /\ cwd' \in [Task -> Nat] /\ \A u \in Task \ {t} : cwd'[u] = cwd[u]
      /\ out' \in [Task -> [by : Nat, says : Completed]] /\ worked' \in [Task -> Nat]
  BY <1>1, <1>4 DEF TypeOK, None
<1>6. flight' = flight \ Entry(t)
  BY <1>2, <1>4
<1>7. ts \in TaskState \ {"running"} /\ ~("failed" = "succeeded") /\ ts # "succeeded"
  BY DEF TaskState
<1>8. QED
  BY <1>2, <1>3, <1>4, <1>5, <1>6, <1>7, AttemptEndKeeps

\* An attempt is settled with the worktree its child worked in and, where the
\* task verifies, with the receipt of that child.
LEMMA HarvestKeeps ==
    ASSUME DispatchInv, NEW e \in flight, Harvest(e)
    PROVE  DispatchInv'
<1> DEFINE t == e.task
<1>1. TypeOK /\ e.end # "none" /\ flight' = flight \ {e}
      /\ UNCHANGED <<service, wts, pc, cwd, crashes>>
  BY DEF DispatchInv, Harvest, disk
<1>2. /\ t \in Task /\ task[t] = "running" /\ e.ordinal = Last(t)
      /\ e.wt \in Nat /\ e.end \in Ending
  BY <1>1 DEF DispatchInv, EntriesAreRunning, TypeOK
<1>3. Entry(t) = {e}
  BY DEF DispatchInv, OneEntryEach, Entry
<1>4. pc[t] = "idle"
  <2>1. DispatchesAreRunning
    BY DEF DispatchInv
  <2>2. pc[t] \notin {"probe", "create", "start"}
    BY <1>2, <1>3, <2>1 DEF DispatchesAreRunning
  <2>3. pc[t] # "record"
    BY <1>1, <1>2, <1>3, <2>1 DEF DispatchesAreRunning
  <2>4. pc[t] \in {"idle", "probe", "create", "start", "record"}
    BY <1>1, <1>2 DEF TypeOK
  <2>5. QED
    BY <2>2, <2>3, <2>4
<1>5. /\ pc' = [pc EXCEPT ![t] = "idle"] /\ flight' = flight \ Entry(t)
      /\ cwd' \in [Task -> Nat] /\ \A u \in Task \ {t} : cwd'[u] = cwd[u]
  BY <1>1, <1>2, <1>3, <1>4 DEF TypeOK
<1>6. /\ out \in [Task -> [by : Nat, says : Completed]] /\ worked \in [Task -> Nat]
      /\ Last(t) \in Nat
  BY <1>1, <1>2 DEF TypeOK, Last
<1>7. CASE Effective(e) = "none"
  <2>1. /\ att' = [att EXCEPT ![t][Last(t)].state = "succeeded"]
        /\ task' = [task EXCEPT ![t] = "succeeded"]
        /\ out' = IF t \in Declares
                  THEN [out EXCEPT ![t] = [by |-> Last(t), says |-> e.end]] ELSE out
        /\ worked' = [worked EXCEPT ![t] = e.wt]
        /\ stopped' = stopped
    BY <1>2, <1>7 DEF Harvest
  <2>2. GatePasses(e) /\ Mapped(e) = "none"
    BY <1>7 DEF Effective
  <2>3. e.end \in {"unexpected", "expected"} \/ (e.end = "unfit" /\ t \notin Declares)
    BY <1>1, <1>2, <2>2 DEF Mapped, Ending
  <2>4. t \in Verifies => e.end = "expected"
    BY <2>2 DEF GatePasses
  <2>5. e.end \in {"unexpected", "expected"} => t \in Declares
    BY <1>1 DEF DispatchInv, EntriesAreRunning, EndingOf
  <2>6. /\ out' \in [Task -> [by : Nat, says : Completed]]
        /\ \A u \in Task \ {t} : out'[u] = out[u]
        /\ t \in Verifies => out'[t] = [by |-> Last(t), says |-> "expected"]
    <3>1. e.end \in Completed
      BY <2>3 DEF Completed
    <3>2. QED
      BY <1>2, <1>6, <2>1, <2>4, <2>5, <3>1
  <2>7. /\ worked' \in [Task -> Nat] /\ worked'[t] = e.wt
        /\ \A u \in Task \ {t} : worked'[u] = worked[u]
    BY <1>2, <1>6, <2>1
  <2>8. att[t][Last(t)].wt = Recorded(worked'[t])
    BY <1>2, <1>4, <2>7 DEF DispatchInv, EntriesAreRecorded
  <2>9. "succeeded" \in TaskState \ {"running"}
    BY DEF TaskState
  <2>10. QED
    BY <1>1, <1>2, <1>5, <2>1, <2>6, <2>7, <2>8, <2>9, AttemptEndKeeps
<1>8. CASE Effective(e) = "aborted"
  <2>1. /\ att' = [att EXCEPT ![t][Last(t)].state = "cancelled"]
        /\ task' = [task EXCEPT ![t] = "cancelled"]
        /\ UNCHANGED <<out, stopped, worked>>
    BY <1>2, <1>8 DEF Harvest
  <2>2. "cancelled" \in TaskState \ {"running"}
    BY DEF TaskState
  <2>3. QED
    BY <1>1, <1>2, <1>5, <1>6, <2>1, <2>2, AttemptEndKeeps
<1>9. CASE Effective(e) \notin {"none", "aborted"}
  <2>1. CommitFailure(t)
    BY <1>9 DEF Harvest
  <2>2. PICK ts \in {"waiting", "failed"} : task' = [task EXCEPT ![t] = ts]
    BY <2>1 DEF CommitFailure
  <2>3. /\ att' = [att EXCEPT ![t][Last(t)].state = "failed"]
        /\ UNCHANGED <<out, stopped, worked>>
    BY <2>1 DEF CommitFailure
  <2>4. ts \in TaskState \ {"running"} /\ ts # "succeeded"
    BY DEF TaskState
  <2>5. QED
    BY <1>1, <1>2, <1>5, <1>6, <2>2, <2>3, <2>4, AttemptEndKeeps
<1>10. QED
  BY <1>7, <1>8, <1>9

\* Entries end, are aborted or go, and tasks that wait are cancelled: no entry
\* changes its attempt or its worktree, and none ends while it is recorded.
LEMMA EntriesChangeKeeps ==
    ASSUME DispatchInv,
           UNCHANGED <<service, att, out, wts, pc, cwd, crashes, worked>>,
           stopped' \subseteq Task,
           flight' \subseteq [task : Task, ordinal : Nat, wt : Nat, end : Ending \cup {"none"},
                              abort : {"none", "timer", "control"}],
           \A f \in flight' : \E e \in flight :
               /\ f.task = e.task /\ f.ordinal = e.ordinal /\ f.wt = e.wt
               /\ f.end \in EndingOf(e.task) \cup {"none"}
               /\ pc[e.task] = "record" => f.end = e.end,
           \A d, f \in flight' : d.task = f.task => d = f,
           task' \in [Task -> TaskState],
           \A u \in Task : task'[u] = task[u] \/ (task[u] = "waiting" /\ task'[u] = "cancelled")
    PROVE  DispatchInv'
<1>1. TypeOK
  BY DEF DispatchInv
<1>2. TypeOK'
  BY <1>1 DEF TypeOK
<1>3. \A u : Last(u)' = Last(u) /\ Attempts(u)' = Attempts(u)
  BY DEF Last, Attempts
<1>4. \A e \in flight : e.task \in Task
  BY <1>1 DEF TypeOK
<1>5. \A u \in Task : (task'[u] = "running" <=> task[u] = "running")
                      /\ (task'[u] = "succeeded" <=> task[u] = "succeeded")
  OBVIOUS
<1>6. EntriesAreRunning'
  <2> SUFFICES ASSUME NEW f \in flight'
               PROVE  /\ task'[f.task] = "running" /\ f.ordinal = Last(f.task)
                      /\ f.wt \in DOMAIN wts /\ wts[f.wt].task = f.task
                      /\ f.end \in EndingOf(f.task) \cup {"none"}
    BY <1>3 DEF EntriesAreRunning, EndingOf
  <2>1. PICK e \in flight : /\ f.task = e.task /\ f.ordinal = e.ordinal /\ f.wt = e.wt
                            /\ f.end \in EndingOf(e.task) \cup {"none"}
    OBVIOUS
  <2>2. QED
    BY <1>4, <1>5, <2>1 DEF DispatchInv, EntriesAreRunning
<1>7. OneEntryEach'
  BY DEF OneEntryEach
<1>8. DispatchesAreRunning'
  <2> SUFFICES ASSUME NEW t \in Task
               PROVE  /\ pc[t] # "idle" => task'[t] = "running"
                      /\ task'[t] = "running" => Last(t) > 0
                      /\ pc[t] \in {"probe", "create", "start"} => Entry(t)' = {}
                      /\ pc[t] = "start" => cwd[t] \in DOMAIN wts /\ wts[cwd[t]].task = t
                      /\ pc[t] = "record" => \A e \in Entry(t)' : e.end = "none" /\ e.wt = cwd[t]
    BY <1>3 DEF DispatchesAreRunning
  <2>1. DispatchesAreRunning
    BY DEF DispatchInv
  <2>2. \A f \in Entry(t)' : \E e \in Entry(t) :
           f.wt = e.wt /\ (pc[t] = "record" => f.end = e.end)
    BY DEF Entry
  <2>3. QED
    BY <1>5, <2>1, <2>2 DEF DispatchesAreRunning
<1>9. WorktreesHaveMakers' /\ OwnCheckoutIsNoObstacle'
  BY <1>3 DEF DispatchInv, WorktreesHaveMakers, OwnCheckoutIsNoObstacle, ActiveFor
<1>10. EntriesAreRecorded'
  BY DEF DispatchInv, EntriesAreRecorded, Recorded
<1>11. SuccessIsLast' /\ SuccessCarriesItsReceipt'
  BY <1>3, <1>5 DEF DispatchInv, SuccessIsLast, SuccessCarriesItsReceipt, Recorded
<1>12. QED
  BY <1>2, <1>6, <1>7, <1>8, <1>9, <1>10, <1>11 DEF DispatchInv

\* A child ends after its registration is recorded.
LEMMA ChildEndsKeeps ==
    ASSUME DispatchInv, NEW e \in flight, ChildEnds(e)
    PROVE  DispatchInv'
<1>1. PICK how \in EndingOf(e.task) : flight' = (flight \ {e}) \cup {[e EXCEPT !.end = how]}
  BY DEF ChildEnds, Update
<1>2. /\ UNCHANGED <<service, task, att, out, stopped, wts, pc, cwd, crashes, worked>>
      /\ pc[e.task] # "record"
  BY DEF ChildEnds, rows, disk
<1>3. TypeOK /\ OneEntryEach /\ EntriesAreRunning
  BY DEF DispatchInv
<1>4. e \in [task : Task, ordinal : Nat, wt : Nat, end : Ending \cup {"none"},
             abort : {"none", "timer", "control"}]
  BY <1>3 DEF TypeOK
<1>5. how \in Ending
  BY DEF EndingOf, Ending
<1>6. PICK f : f = [e EXCEPT !.end = how]
  OBVIOUS
<1>7. /\ f.task = e.task /\ f.ordinal = e.ordinal /\ f.wt = e.wt /\ f.end = how
      /\ f \in [task : Task, ordinal : Nat, wt : Nat, end : Ending \cup {"none"},
                abort : {"none", "timer", "control"}]
  BY <1>4, <1>5, <1>6
<1>8. flight' \subseteq [task : Task, ordinal : Nat, wt : Nat, end : Ending \cup {"none"},
                         abort : {"none", "timer", "control"}]
  BY <1>1, <1>3, <1>6, <1>7 DEF TypeOK
<1>9. \A d, g \in flight' : d.task = g.task => d = g
  BY <1>1, <1>3, <1>6, <1>7 DEF OneEntryEach
<1>10. \A g \in flight' : \E d \in flight :
          /\ g.task = d.task /\ g.ordinal = d.ordinal /\ g.wt = d.wt
          /\ g.end \in EndingOf(d.task) \cup {"none"}
          /\ pc[d.task] = "record" => g.end = d.end
  BY <1>1, <1>2, <1>3, <1>6, <1>7 DEF EntriesAreRunning
<1>11. QED
  BY <1>2, <1>3, <1>8, <1>9, <1>10, EntriesChangeKeeps DEF TypeOK

\* An abort only flags an entry.
LEMMA AbortFlags ==
    ASSUME DispatchInv, NEW e \in flight, NEW source \in {"timer", "control"},
           flight' = (flight \ {e}) \cup {AbortedBy(e, source)}
    PROVE  /\ flight' \subseteq [task : Task, ordinal : Nat, wt : Nat,
                                 end : Ending \cup {"none"},
                                 abort : {"none", "timer", "control"}]
           /\ \A g \in flight' : \E d \in flight :
                 /\ g.task = d.task /\ g.ordinal = d.ordinal /\ g.wt = d.wt
                 /\ g.end \in EndingOf(d.task) \cup {"none"}
                 /\ pc[d.task] = "record" => g.end = d.end
           /\ \A d, g \in flight' : d.task = g.task => d = g
<1>1. TypeOK /\ OneEntryEach /\ EntriesAreRunning
  BY DEF DispatchInv
<1>2. e \in [task : Task, ordinal : Nat, wt : Nat, end : Ending \cup {"none"},
             abort : {"none", "timer", "control"}]
  BY <1>1 DEF TypeOK
<1>3. PICK f : f = AbortedBy(e, source)
  OBVIOUS
<1>4. /\ f.task = e.task /\ f.ordinal = e.ordinal /\ f.wt = e.wt /\ f.end = e.end
      /\ f \in [task : Task, ordinal : Nat, wt : Nat, end : Ending \cup {"none"},
                abort : {"none", "timer", "control"}]
  BY <1>2, <1>3 DEF AbortedBy
<1>5. flight' \subseteq [task : Task, ordinal : Nat, wt : Nat, end : Ending \cup {"none"},
                         abort : {"none", "timer", "control"}]
  BY <1>1, <1>3, <1>4 DEF TypeOK
<1>6. \A d, g \in flight' : d.task = g.task => d = g
  BY <1>1, <1>3, <1>4 DEF OneEntryEach
<1>7. \A g \in flight' : \E d \in flight :
          /\ g.task = d.task /\ g.ordinal = d.ordinal /\ g.wt = d.wt
          /\ g.end \in EndingOf(d.task) \cup {"none"}
          /\ pc[d.task] = "record" => g.end = d.end
  BY <1>1, <1>3, <1>4 DEF EntriesAreRunning
<1>8. QED
  BY <1>5, <1>6, <1>7

\* The timer flags its entry.
LEMMA TimerKeeps ==
    ASSUME DispatchInv, NEW e \in flight, Timer(e)
    PROVE  DispatchInv'
<1>1. /\ flight' = (flight \ {e}) \cup {AbortedBy(e, "timer")}
      /\ UNCHANGED <<service, task, att, out, stopped, wts, pc, cwd, crashes, worked>>
  BY DEF Timer, Update, rows, disk
<1>2. TypeOK
  BY DEF DispatchInv
<1>3. QED
  BY <1>1, <1>2, AbortFlags, EntriesChangeKeeps DEF TypeOK

\* Stop, and the sweep of a stopping run: the one entry of the task is flagged.
LEMMA StopKeeps ==
    ASSUME DispatchInv, NEW t \in Task, Stop(t) \/ Sweep(t)
    PROVE  DispatchInv'
<1>1. /\ AbortAll(t)
      /\ UNCHANGED <<service, att, out, wts, pc, cwd, crashes, worked>>
      /\ stopped' \subseteq stopped \cup {t}
      /\ task' \in {task, [task EXCEPT ![t] = IF @ = "waiting" THEN "cancelled" ELSE @]}
  BY DEF Stop, Sweep, disk, rows
<1>2. TypeOK
  BY DEF DispatchInv
<1>3. /\ task' \in [Task -> TaskState]
      /\ \A u \in Task : task'[u] = task[u] \/ (task[u] = "waiting" /\ task'[u] = "cancelled")
  BY <1>1, <1>2 DEF TypeOK, TaskState
<1>4. stopped' \subseteq Task
  BY <1>1, <1>2 DEF TypeOK
<1>5. CASE Entry(t) = {}
  <2>1. flight' = flight
    BY <1>1, <1>5 DEF AbortAll
  <2>2. \A f \in flight' : \E e \in flight :
           /\ f.task = e.task /\ f.ordinal = e.ordinal /\ f.wt = e.wt
           /\ f.end \in EndingOf(e.task) \cup {"none"}
           /\ pc[e.task] = "record" => f.end = e.end
    BY <2>1 DEF DispatchInv, EntriesAreRunning
  <2>3. \A d, f \in flight' : d.task = f.task => d = f
    BY <2>1 DEF DispatchInv, OneEntryEach
  <2>4. QED
    BY <1>1, <1>2, <1>3, <1>4, <2>1, <2>2, <2>3, EntriesChangeKeeps DEF TypeOK
<1>6. CASE Entry(t) # {}
  <2>1. PICK e \in flight : Entry(t) = {e}
    BY <1>6 DEF Entry, DispatchInv, OneEntryEach
  <2>2. flight' = (flight \ {e}) \cup {AbortedBy(e, "control")}
    BY <1>1, <2>1 DEF AbortAll
  <2>3. QED
    BY <1>1, <1>2, <1>3, <1>4, <2>2, AbortFlags, EntriesChangeKeeps
<1>7. QED
  BY <1>5, <1>6

\* A failed task waits again.
LEMMA RetryTaskKeeps ==
    ASSUME DispatchInv, NEW t \in Task, RetryTask(t)
    PROVE  DispatchInv'
<1>1. /\ task[t] = "failed" /\ task' = [task EXCEPT ![t] = "waiting"]
      /\ UNCHANGED <<service, att, out, stopped, wts, pc, cwd, flight, crashes, worked>>
  BY DEF RetryTask, disk
<1>2. TypeOK
  BY DEF DispatchInv
<1>3. /\ \A u \in Task : (task'[u] = "running" <=> task[u] = "running")
                         /\ (task'[u] = "succeeded" <=> task[u] = "succeeded")
  BY <1>1, <1>2 DEF TypeOK
<1>4. \A u : Last(u)' = Last(u) /\ Attempts(u)' = Attempts(u) /\ Entry(u)' = Entry(u)
  BY <1>1 DEF Last, Attempts, Entry
<1>5. TypeOK'
  BY <1>1, <1>2 DEF TypeOK, TaskState
<1>6. EntriesAreRunning' /\ OneEntryEach'
  BY <1>1, <1>2, <1>3, <1>4 DEF DispatchInv, EntriesAreRunning, OneEntryEach, EndingOf, TypeOK
<1>7. DispatchesAreRunning'
  BY <1>1, <1>3, <1>4 DEF DispatchInv, DispatchesAreRunning
<1>8. WorktreesHaveMakers' /\ EntriesAreRecorded' /\ OwnCheckoutIsNoObstacle'
  BY <1>1, <1>4 DEF DispatchInv, WorktreesHaveMakers, EntriesAreRecorded, Recorded,
                    OwnCheckoutIsNoObstacle, ActiveFor
<1>9. SuccessIsLast' /\ SuccessCarriesItsReceipt'
  BY <1>1, <1>3, <1>4 DEF DispatchInv, SuccessIsLast, SuccessCarriesItsReceipt, Recorded
<1>10. QED
  BY <1>5, <1>6, <1>7, <1>8, <1>9 DEF DispatchInv

\* A collected worktree keeps its place, its maker and its slug.
LEMMA CollectKeeps ==
    ASSUME DispatchInv, NEW k \in DOMAIN wts, Collect(k)
    PROVE  DispatchInv'
<1>1. /\ wts' = [wts EXCEPT ![k].active = FALSE]
      /\ UNCHANGED <<service, task, att, out, stopped, pc, cwd, flight, crashes, worked>>
  BY DEF Collect, rows
<1>2. TypeOK
  BY DEF DispatchInv
<1>3. PICK r : r = [wts[k] EXCEPT !.active = FALSE]
  OBVIOUS
<1>4. r \in WorktreeRow /\ r.task = wts[k].task /\ r.ordinal = wts[k].ordinal /\ ~r.active
  BY <1>2, <1>3, WorktreeNumbers DEF WorktreeRow
<1>5. wts' = [wts EXCEPT ![k] = r]
  BY <1>1, <1>3
<1>6. /\ wts' \in Seq(WorktreeRow) /\ DOMAIN wts' = DOMAIN wts
      /\ \A j \in DOMAIN wts : wts'[j] = IF j = k THEN r ELSE wts[j]
  BY <1>2, <1>4, <1>5, WorktreeNumbers
<1>7. /\ \A j \in DOMAIN wts : wts'[j].task = wts[j].task /\ wts'[j].ordinal = wts[j].ordinal
      /\ \A t : ActiveFor(t)' \subseteq ActiveFor(t)
  BY <1>4, <1>6 DEF ActiveFor
<1>8. \A u : Last(u)' = Last(u) /\ Attempts(u)' = Attempts(u) /\ Entry(u)' = Entry(u)
  BY <1>1 DEF Last, Attempts, Entry
<1>9. TypeOK'
  BY <1>1, <1>2, <1>6 DEF TypeOK, WorktreeRow
<1>10. EntriesAreRunning' /\ OneEntryEach'
  BY <1>1, <1>6, <1>7, <1>8 DEF DispatchInv, EntriesAreRunning, OneEntryEach
<1>11. DispatchesAreRunning'
  BY <1>1, <1>6, <1>7, <1>8 DEF DispatchInv, DispatchesAreRunning
<1>12. WorktreesHaveMakers' /\ EntriesAreRecorded'
  BY <1>1, <1>6, <1>7, <1>8 DEF DispatchInv, WorktreesHaveMakers, EntriesAreRecorded, Recorded
<1>13. SuccessIsLast' /\ SuccessCarriesItsReceipt'
  BY <1>1, <1>8 DEF DispatchInv, SuccessIsLast, SuccessCarriesItsReceipt, Recorded
<1>14. OwnCheckoutIsNoObstacle'
  <2>1. \A t : \A j \in ActiveFor(t) : j \in DOMAIN wts
    BY DEF ActiveFor
  <2>2. QED
    BY <1>1, <1>7, <2>1 DEF DispatchInv, OwnCheckoutIsNoObstacle
<1>15. QED
  BY <1>9, <1>10, <1>11, <1>12, <1>13, <1>14 DEF DispatchInv

\* The process ends: no entry and no dispatch is left, and the next process
\* settles what was running.
LEMMA CrashKeeps ==
    ASSUME DispatchInv, Crash
    PROVE  DispatchInv'
<1> DEFINE state(t) == IF att[t][Last(t)].session THEN "orphaned" ELSE "failed"
           settled(t) == [att[t] EXCEPT ![Last(t)].state = state(t)]
<1>1. /\ crashes < MaxCrashes /\ crashes' = crashes + 1 /\ flight' = {}
      /\ pc' = [t \in Task |-> "idle"] /\ cwd' = [t \in Task |-> None]
      /\ att' = [t \in Task |-> IF task[t] # "running" THEN att[t] ELSE settled(t)]
      /\ task' = [t \in Task |-> IF task[t] # "running" THEN task[t] ELSE
                    IF att[t][Last(t)].session THEN "failed" ELSE "waiting"]
      /\ UNCHANGED <<service, wts, out, stopped, worked>>
  BY DEF Crash, disk
<1>2. TypeOK /\ att \in [Task -> Seq(AttemptRow)]
  BY DEF DispatchInv, TypeOK, AttemptRow
<1>3. ASSUME NEW t \in Task, task[t] = "running"
      PROVE  /\ settled(t) \in Seq(AttemptRow) /\ Len(settled(t)) = Len(att[t])
             /\ \A n \in 1 .. Len(att[t]) : n # Last(t) => settled(t)[n] = att[t][n]
             /\ settled(t)[Last(t)].state # "succeeded"
  <2>1. /\ att[t] \in Seq(AttemptRow) /\ Len(att[t]) \in Nat
        /\ DOMAIN att[t] = 1 .. Len(att[t]) /\ Last(t) \in 1 .. Len(att[t])
    BY <1>2, <1>3 DEF DispatchInv, DispatchesAreRunning, Last
  <2>2. PICK r : r = [att[t][Last(t)] EXCEPT !.state = state(t)]
    OBVIOUS
  <2>3. r \in AttemptRow /\ r.state # "succeeded"
    <3>1. att[t][Last(t)] \in AttemptRow /\ state(t) \in {"orphaned", "failed"}
      BY <2>1
    <3>2. QED
      BY <2>2, <3>1 DEF AttemptRow
  <2>4. settled(t) = [att[t] EXCEPT ![Last(t)] = r]
    BY <2>2
  <2>5. QED
    BY <2>1, <2>3, <2>4
<1> HIDE DEF settled
<1>4. /\ att' \in [Task -> Seq(AttemptRow)]
      /\ \A u \in Task : Len(att'[u]) = Len(att[u])
  BY <1>1, <1>2, <1>3
<1>5. \A u \in Task : Last(u)' = Last(u) /\ Attempts(u)' = Attempts(u)
  BY <1>4 DEF Last, Attempts
<1>6. \A u \in Task : /\ task'[u] # "running"
                      /\ task'[u] = "succeeded" <=> task[u] = "succeeded"
                      /\ task[u] # "running" => att'[u] = att[u]
                      /\ pc'[u] = "idle"
  BY <1>1
<1>7. TypeOK'
  <2>1. task' \in [Task -> TaskState]
    BY <1>1, <1>2 DEF TypeOK, TaskState
  <2>2. crashes' \in 0 .. MaxCrashes
    BY <1>1, <1>2, BoundAssumption DEF TypeOK
  <2>3. /\ pc' \in [Task -> {"idle", "probe", "create", "start", "record"}]
        /\ cwd' \in [Task -> Nat]
    BY <1>1 DEF None
  <2>4. QED
    BY <1>1, <1>2, <1>4, <2>1, <2>2, <2>3 DEF TypeOK, AttemptRow
<1>8. EntriesAreRunning' /\ OneEntryEach' /\ EntriesAreRecorded'
  BY <1>1 DEF EntriesAreRunning, OneEntryEach, EntriesAreRecorded
<1>9. DispatchesAreRunning'
  BY <1>6 DEF DispatchesAreRunning
<1>10. WorktreesHaveMakers'
  BY <1>1, <1>5 DEF DispatchInv, WorktreesHaveMakers
<1>11. SuccessIsLast'
  <2>1. SuccessIsLast
    BY DEF DispatchInv
  <2>2. ASSUME NEW u \in Task, NEW n \in Attempts(u), att'[u][n].state = "succeeded"
        PROVE  task'[u] = "succeeded" /\ n = Last(u)
    <3>1. CASE task[u] = "running"
      <4>1. att'[u] = settled(u)
        BY <1>1, <3>1
      <4>2. n # Last(u) /\ att'[u][n] = att[u][n]
        BY <1>3, <2>2, <3>1, <4>1 DEF Attempts
      <4>3. QED
        BY <2>1, <2>2, <3>1, <4>2 DEF SuccessIsLast
    <3>2. CASE task[u] # "running"
      BY <1>6, <2>1, <2>2, <3>2 DEF SuccessIsLast
    <3>3. QED
      BY <3>1, <3>2
  <2>3. \A k : Recorded(k)' = Recorded(k)
    BY <1>1 DEF Recorded
  <2>4. ASSUME NEW u \in Task, task'[u] = "succeeded"
        PROVE  /\ Last(u) > 0 /\ att'[u][Last(u)].state = "succeeded"
               /\ att'[u][Last(u)].wt = Recorded(worked[u])
    BY <1>6, <2>1, <2>4 DEF SuccessIsLast
  <2>5. QED
    BY <1>1, <1>5, <2>2, <2>3, <2>4 DEF SuccessIsLast
<1>12. SuccessCarriesItsReceipt'
  BY <1>1, <1>5, <1>6 DEF DispatchInv, SuccessCarriesItsReceipt
<1>13. OwnCheckoutIsNoObstacle'
  BY <1>6 DEF OwnCheckoutIsNoObstacle
<1>14. QED
  BY <1>7, <1>8, <1>9, <1>10, <1>11, <1>12, <1>13 DEF DispatchInv

-----------------------------------------------------------------------------

\* The invariant of the agent executor, across claims, dispatches, timers,
\* stops, retries, collections and crashes.
THEOREM DispatchInvariant == Spec => []DispatchInv
<1>1. DispatchInv /\ [Next]_vars => DispatchInv'
  <2> SUFFICES ASSUME DispatchInv, [Next]_vars PROVE DispatchInv'
    OBVIOUS
  <2>1. ASSUME NEW t \in Task, Claim(t) \/ Dispatch(t) \/ Stop(t) \/ Sweep(t) \/ RetryTask(t)
        PROVE  DispatchInv'
    BY <2>1, ClaimKeeps, DispatchFailsKeeps, ProbeKeeps, CreateKeeps, StartKeeps, RecordKeeps,
       StopKeeps, RetryTaskKeeps DEF Dispatch
  <2>2. ASSUME NEW e \in flight, ChildEnds(e) \/ Timer(e) \/ Harvest(e)
        PROVE  DispatchInv'
    BY <2>2, ChildEndsKeeps, TimerKeeps, HarvestKeeps
  <2>3. ASSUME NEW k \in DOMAIN wts, Collect(k)
        PROVE  DispatchInv'
    BY <2>3, CollectKeeps
  <2>4. CASE Crash
    BY <2>4, CrashKeeps
  <2>5. CASE UNCHANGED vars
    BY <2>5 DEF vars, rows, disk, DispatchInv, TypeOK, EntriesAreRunning, OneEntryEach,
       DispatchesAreRunning, WorktreesHaveMakers, EntriesAreRecorded, SuccessIsLast,
       OwnCheckoutIsNoObstacle, SuccessCarriesItsReceipt, Recorded, Attempts, Last, Entry,
       ActiveFor, EndingOf
  <2>6. QED
    BY <2>1, <2>2, <2>3, <2>4, <2>5 DEF Next
<1>2. QED
  BY DispatchInit, <1>1, PTL DEF Spec

\* resolveWorktreeCwd keeps two children out of one checkout, for any number of
\* tasks that share slugs and any service.
THEOREM OneChildPerCheckout == Spec => []CheckoutIsExclusive
<1>1. DispatchInv => CheckoutIsExclusive
  BY DEF DispatchInv, EntriesAreRunning, OneEntryEach, CheckoutIsExclusive, Live
<1>2. QED
  BY DispatchInvariant, <1>1, PTL

\* The ownership gate takes every attempt's worktree for the task's own.
THEOREM OwnCheckoutIsReused == Spec => []OwnCheckoutIsNoObstacle
<1>1. DispatchInv => OwnCheckoutIsNoObstacle
  BY DEF DispatchInv
<1>2. QED
  BY DispatchInvariant, <1>1, PTL

\* The verify gate and the commit: a success has the receipt of its own attempt.
THEOREM ReceiptOfTheSuccess == Spec => []SuccessCarriesItsReceipt
<1>1. DispatchInv => SuccessCarriesItsReceipt
  BY DEF DispatchInv
<1>2. QED
  BY DispatchInvariant, <1>1, PTL

\* What a merge would integrate is where the accepted work was done.
THEOREM MergeSourceIsRight == Spec => []MergeSourceIsTheWork
<1>1. DispatchInv => MergeSourceIsTheWork
  <2> SUFFICES ASSUME DispatchInv, NEW t \in Task, task[t] = "succeeded"
               PROVE  MergeSource(t) = Recorded(worked[t])
    BY DEF MergeSourceIsTheWork, Recorded
  <2> DEFINE done == {n \in Attempts(t) : att[t][n].state = "succeeded"}
  <2>1. Last(t) \in Nat /\ Last(t) > 0
    BY DEF DispatchInv, SuccessIsLast, TypeOK, Last
  <2>2. Last(t) \in Attempts(t)
    BY <2>1 DEF Attempts, Last
  <2>3. done = {Last(t)}
    BY <2>2 DEF DispatchInv, SuccessIsLast
  <2>4. (CHOOSE n \in done : \A m \in done : m <= n) = Last(t)
    BY <2>1, <2>3
  <2>5. MergeSource(t) = att[t][Last(t)].wt
    BY <2>3, <2>4 DEF MergeSource
  <2>6. QED
    BY <2>5 DEF DispatchInv, SuccessIsLast
<1>2. QED
  BY DispatchInvariant, <1>1, PTL

\* Type correctness of the agent executor's state.
THEOREM DispatchTypes == Spec => []TypeOK
<1>1. DispatchInv => TypeOK
  BY DEF DispatchInv
<1>2. QED
  BY DispatchInvariant, <1>1, PTL
-----------------------------------------------------------------------------
(* Nobody's attempt *)

\* A running task is being dispatched or has a child in flight; one whose child
\* is to be recorded has it in flight already.
RunningIsAnswered ==
    /\ \A t \in Task : task[t] = "running" => pc[t] # "idle" \/ Entry(t) # {}
    /\ \A t \in Task : pc[t] = "record" => Entry(t) # {}

\* An entry that is rewritten stays with its task.
LEMMA UpdateKeepsEntries ==
    ASSUME NEW e \in flight, NEW f, f.task = e.task, Update(e, f), NEW t, Entry(t) # {}
    PROVE  Entry(t)' # {}
<1>1. PICK d \in flight : d.task = t
  BY DEF Entry
<1>2. CASE d = e
  <2>1. f \in flight' /\ f.task = t
    BY <1>1, <1>2 DEF Update
  <2>2. QED
    BY <2>1 DEF Entry
<1>3. CASE d # e
  <2>1. d \in flight'
    BY <1>3 DEF Update
  <2>2. QED
    BY <1>1, <2>1 DEF Entry
<1>4. QED
  BY <1>2, <1>3

\* So do those that a stop aborts.
LEMMA AbortKeepsEntries ==
    ASSUME TypeOK, NEW u \in Task, AbortAll(u), NEW t, Entry(t) # {}
    PROVE  Entry(t)' # {}
<1>1. PICK d \in flight : d.task = t
  BY DEF Entry
<1>2. CASE t = u
  <2>1. AbortedBy(d, "control") \in flight' /\ AbortedBy(d, "control").task = t
    <3>1. d \in Entry(u)
      BY <1>1, <1>2 DEF Entry
    <3>2. d.task = t /\ [d EXCEPT !.abort = "control"].task = t
      BY <1>1 DEF TypeOK
    <3>3. QED
      BY <3>1, <3>2 DEF AbortAll, AbortedBy
  <2>2. QED
    BY <2>1 DEF Entry
<1>3. CASE t # u
  <2>1. d \in flight'
    BY <1>1, <1>3 DEF AbortAll, Entry
  <2>2. QED
    BY <1>1, <2>1 DEF Entry
<1>4. QED
  BY <1>2, <1>3

\* The steps that only rewrite an entry, or a task that has none.
LEMMA EntriesStay ==
    ASSUME DispatchInv, RunningIsAnswered,
           \A t \in Task : pc'[t] = pc[t] /\ (task'[t] = "running" => task[t] = "running"),
           \A t \in Task : Entry(t) # {} => Entry(t)' # {}
    PROVE  RunningIsAnswered'
BY DEF RunningIsAnswered

\* A dispatch goes on, starts its child or gives the task up.
LEMMA DispatchAnswers ==
    ASSUME DispatchInv, RunningIsAnswered, NEW t \in Task, Claim(t) \/ Dispatch(t)
    PROVE  RunningIsAnswered'
<1>1. TypeOK
  BY DEF DispatchInv
<1>2. CASE Claim(t)
  <2>1. /\ pc'[t] \in {"probe", "create"} /\ flight' = flight
        /\ \A u \in Task \ {t} : pc'[u] = pc[u] /\ task'[u] = task[u]
    BY <1>1, <1>2 DEF Claim, TypeOK
  <2>2. \A u : Entry(u)' = Entry(u)
    BY <2>1 DEF Entry
  <2>3. QED
    BY <2>1, <2>2 DEF RunningIsAnswered
<1>3. CASE DispatchFails(t)
  <2>1. /\ task'[t] # "running" /\ pc'[t] = "idle" /\ flight' = flight
        /\ \A u \in Task \ {t} : pc'[u] = pc[u] /\ task'[u] = task[u]
    BY <1>1, <1>3 DEF DispatchFails, CommitFailure, TypeOK
  <2>2. \A u : Entry(u)' = Entry(u)
    BY <2>1 DEF Entry
  <2>3. QED
    BY <2>1, <2>2 DEF RunningIsAnswered
<1>4. CASE Probe(t) \/ Create(t)
  <2>1. /\ pc'[t] \in {"create", "start"} /\ flight' = flight /\ task' = task
        /\ \A u \in Task \ {t} : pc'[u] = pc[u]
    BY <1>1, <1>4 DEF Probe, Create, TypeOK, rows
  <2>2. \A u : Entry(u)' = Entry(u)
    BY <2>1 DEF Entry
  <2>3. QED
    BY <2>1, <2>2 DEF RunningIsAnswered
<1>5. CASE Start(t)
  <2>1. /\ pc'[t] = "record" /\ task' = task /\ flight \subseteq flight'
        /\ \A u \in Task \ {t} : pc'[u] = pc[u]
    BY <1>1, <1>5 DEF Start, TypeOK, rows
  <2>2. PICK e \in flight' : e.task = t
    <3> DEFINE new == [task |-> t, ordinal |-> Last(t), wt |-> cwd[t], end |-> "none",
                       abort |-> "none"]
    <3>1. new \in flight' /\ new.task = t
      BY <1>5 DEF Start
    <3>2. QED
      BY <3>1
  <2>3. Entry(t)' # {} /\ \A u : Entry(u) # {} => Entry(u)' # {}
    BY <2>1, <2>2 DEF Entry
  <2>4. QED
    BY <2>1, <2>3 DEF RunningIsAnswered
<1>6. CASE Record(t)
  <2>1. /\ pc[t] = "record" /\ pc'[t] = "idle" /\ task' = task /\ flight' = flight
        /\ \A u \in Task \ {t} : pc'[u] = pc[u]
    BY <1>1, <1>6 DEF Record, TypeOK
  <2>2. \A u : Entry(u)' = Entry(u)
    BY <2>1 DEF Entry
  <2>3. QED
    BY <2>1, <2>2 DEF RunningIsAnswered
<1>7. QED
  BY <1>2, <1>3, <1>4, <1>5, <1>6 DEF Dispatch

\* A harvest takes the entry of a task that stops running in the same step.
LEMMA HarvestAnswers ==
    ASSUME DispatchInv, RunningIsAnswered, NEW e \in flight, Harvest(e)
    PROVE  RunningIsAnswered'
<1>1. TypeOK /\ e.task \in Task
  BY DEF DispatchInv, TypeOK
<1>2. /\ flight' = flight \ {e} /\ pc' = pc /\ e.end # "none"
      /\ task'[e.task] # "running"
      /\ \A u \in Task \ {e.task} : task'[u] = task[u]
  BY <1>1 DEF Harvest, CommitFailure, TypeOK
<1>3. \A u \in Task \ {e.task} : Entry(u)' = Entry(u)
  BY <1>2 DEF Entry
<1>4. pc[e.task] # "record"
  BY <1>1, <1>2 DEF DispatchInv, DispatchesAreRunning, Entry
<1>5. QED
  BY <1>1, <1>2, <1>3, <1>4 DEF RunningIsAnswered

\* What AttemptsEnd's fairness acts on is always there: a running task has a
\* dispatch under way or a child in flight, after every crash, refusal, stop
\* and timeout; no step leaves it running with nobody to settle it.
THEOREM NoTaskIsForgotten ==
    Spec => [](\A t \in Task : task[t] = "running" => pc[t] # "idle" \/ Entry(t) # {})
<1>1. Init => RunningIsAnswered
  BY DEF Init, RunningIsAnswered
<1>2. DispatchInv /\ RunningIsAnswered /\ [Next]_vars => RunningIsAnswered'
  <2> SUFFICES ASSUME DispatchInv, RunningIsAnswered, [Next]_vars PROVE RunningIsAnswered'
    OBVIOUS
  <2>t. TypeOK
    BY DEF DispatchInv
  <2>1. ASSUME NEW t \in Task, Claim(t) \/ Dispatch(t) PROVE RunningIsAnswered'
    BY <2>1, DispatchAnswers
  <2>2. ASSUME NEW t \in Task, Stop(t) \/ Sweep(t) PROVE RunningIsAnswered'
    <3>1. /\ AbortAll(t) /\ pc' = pc
          /\ \A u \in Task : task'[u] = "running" => task[u] = "running"
      BY <2>t, <2>2 DEF Stop, Sweep, TypeOK, rows
    <3>2. \A u \in Task : Entry(u) # {} => Entry(u)' # {}
      BY <2>t, <3>1, AbortKeepsEntries
    <3>3. QED
      BY <3>1, <3>2, EntriesStay
  <2>3. ASSUME NEW t \in Task, RetryTask(t) PROVE RunningIsAnswered'
    <3>1. pc' = pc /\ flight' = flight /\ \A u \in Task : task'[u] = "running" => task[u] = "running"
      BY <2>t, <2>3 DEF RetryTask, TypeOK
    <3>2. QED
      BY <3>1, EntriesStay DEF Entry
  <2>4. ASSUME NEW e \in flight, ChildEnds(e) \/ Timer(e) PROVE RunningIsAnswered'
    <3>1. PICK f : f.task = e.task /\ Update(e, f) /\ UNCHANGED <<task, pc>>
      <4>1. /\ e.task = [e EXCEPT !.abort = "timer"].task
            /\ \A how : e.task = [e EXCEPT !.end = how].task
        BY <2>t DEF TypeOK
      <4>2. CASE ChildEnds(e)
        BY <4>1, <4>2 DEF ChildEnds, rows
      <4>3. CASE Timer(e)
        BY <4>1, <4>3 DEF Timer, AbortedBy, rows
      <4>4. QED
        BY <2>4, <4>2, <4>3
    <3>2. \A u \in Task : Entry(u) # {} => Entry(u)' # {}
      BY <3>1, UpdateKeepsEntries
    <3>3. QED
      BY <3>1, <3>2, EntriesStay
  <2>5. ASSUME NEW e \in flight, Harvest(e) PROVE RunningIsAnswered'
    BY <2>5, HarvestAnswers
  <2>6. CASE (\E k \in DOMAIN wts : Collect(k)) \/ UNCHANGED vars
    <3>1. UNCHANGED <<task, pc, flight>>
      BY <2>6 DEF Collect, vars, rows
    <3>2. QED
      BY <3>1, EntriesStay DEF Entry
  <2>7. CASE Crash
    <3>1. \A t \in Task : pc'[t] = "idle" /\ task'[t] # "running"
      BY <2>7 DEF Crash
    <3>2. QED
      BY <3>1 DEF RunningIsAnswered
  <2>8. QED
    BY <2>1, <2>2, <2>3, <2>4, <2>5, <2>6, <2>7 DEF Next
<1>3. RunningIsAnswered =>
        \A t \in Task : task[t] = "running" => pc[t] # "idle" \/ Entry(t) # {}
  BY DEF RunningIsAnswered
<1>4. QED
  BY <1>1, <1>2, <1>3, DispatchInvariant, PTL DEF Spec
=============================================================================
