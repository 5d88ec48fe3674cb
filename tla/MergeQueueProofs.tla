------------------------- MODULE MergeQueueProofs --------------------------
(***************************************************************************)
(* A merge that succeeds has integrated its sources, proved for any number  *)
(* of merges, sources, repositories and branches, any crashes and whatever  *)
(* the queue answers.                                                       *)
(*                                                                          *)
(* A source that was enqueued is on the branch or has a job; a job leaves   *)
(* the queue only onto the branch, whoever drains it; and a drain that      *)
(* answers with nothing worse than no_changes has left no job of its        *)
(* repository.  So nothing worse in any repository means all is integrated. *)
(***************************************************************************)
EXTENDS MergeQueue, TLAPS

Key(m, i) == <<SourcesOf[m][i], BranchOf[m]>>

\* No two merges take the same worktree to the same branch.
OneMergePerSource ==
    \A m, n \in Merge : \A i \in DOMAIN SourcesOf[m] : \A j \in DOMAIN SourcesOf[n] :
        Key(m, i) = Key(n, j) => m = n

QueueTypes ==
    /\ task \in [Merge -> {"ready", "running", "retry_wait", "blocked", "succeeded", "failed"}]
    /\ pc \in [Merge -> {"idle", "enqueue", "drain", "read"}]
    /\ toEnqueue \in [Merge -> Seq(Worktree)]
    /\ toDrain \in [Merge -> SUBSET Repo]
    /\ worst \in [Merge -> SUBSET Outcome]
    /\ job \in [Worktree \X Branch -> {"none", "queued", "conflicted"}]

\* A suspended executor is that of a running task.
SuspendedIsRunning == \A m \in Merge : pc[m] # "idle" => task[m] = "running"

\* What is still to be enqueued is of the merge's sources, and the other
\* sources are on the branch or queued for it.
EnqueuedIsKnown ==
    \A m \in Merge : pc[m] = "enqueue" =>
        /\ \A j \in DOMAIN toEnqueue[m] :
              \E i \in DOMAIN SourcesOf[m] : toEnqueue[m][j] = SourcesOf[m][i]
        /\ \A i \in DOMAIN SourcesOf[m] :
              \/ Key(m, i) \in integrated \/ job[Key(m, i)] # "none"
              \/ \E j \in DOMAIN toEnqueue[m] : toEnqueue[m][j] = SourcesOf[m][i]

\* On the branch, and with no job but another merge's of the same source.
Done(k) == k \in integrated /\ (OneMergePerSource => job[k] = "none")

Good == {"succeeded", "no_changes"}

DrainedIsDone ==
    \A m \in Merge : pc[m] \in {"drain", "read"} =>
        \A i \in DOMAIN SourcesOf[m] :
            /\ Key(m, i) \in integrated \/ job[Key(m, i)] # "none"
            /\ worst[m] \subseteq Good /\ RepoOf[SourcesOf[m][i]] \notin toDrain[m] =>
                  Done(Key(m, i))

SucceededIsDone ==
    \A m \in Merge : task[m] = "succeeded" => \A i \in DOMAIN SourcesOf[m] : Done(Key(m, i))

MergeInv ==
    /\ QueueTypes /\ SuspendedIsRunning
    /\ EnqueuedIsKnown /\ DrainedIsDone /\ SucceededIsDone

-----------------------------------------------------------------------------

\* The sources of a merge name jobs.
LEMMA SourcesAreKeys ==
    ASSUME NEW m \in Merge
    PROVE  /\ SourcesOf[m] \in Seq(Worktree)
           /\ \A i \in DOMAIN SourcesOf[m] :
                 SourcesOf[m][i] \in Worktree /\ Key(m, i) \in Worktree \X Branch
<1>1. SourcesOf[m] \in Seq(Worktree)
  BY SourcesAssumption
<1>2. \A i \in DOMAIN SourcesOf[m] : SourcesOf[m][i] \in Worktree
  BY <1>1
<1>3. QED
  BY <1>1, <1>2 DEF Key, Branch

\* Nothing is claimed at first.
LEMMA MergeInit == Init => MergeInv
<1> SUFFICES ASSUME Init PROVE MergeInv
  OBVIOUS
<1>1. QueueTypes
  BY DEF Init, QueueTypes
<1>2. SuspendedIsRunning /\ EnqueuedIsKnown /\ DrainedIsDone /\ SucceededIsDone
  BY DEF Init, SuspendedIsRunning, EnqueuedIsKnown, DrainedIsDone, SucceededIsDone
<1>3. QED
  BY <1>1, <1>2 DEF MergeInv

\* What a drain does to the queue, whatever it answers.
LEMMA DrainEffect ==
    ASSUME QueueTypes, NEW m \in Merge, NEW r \in Repo, NEW outcome \in Outcome,
           NEW done \in SUBSET JobsIn(r, m), DrainWorks(m, r, outcome, done)
    PROVE  /\ job' \in [Worktree \X Branch -> {"none", "queued", "conflicted"}]
           /\ integrated \subseteq integrated'
           /\ \A k \in Worktree \X Branch : job[k] = "none" => job'[k] = "none"
           /\ \A k \in Worktree \X Branch :
                 job[k] # "none" => job'[k] # "none" \/ k \in integrated'
           /\ outcome \in Good =>
                 \A k \in JobsIn(r, m) : k \in integrated' /\ job'[k] = "none"
<1>1. integrated' = integrated \cup done
  BY DEF DrainWorks
<1>2. PICK hit : /\ hit \in JobsIn(r, m) \/ hit = <<>>
                 /\ job' = [k \in DOMAIN job |->
                              IF k \in done THEN "none"
                              ELSE IF k = hit THEN "conflicted" ELSE job[k]]
  BY DEF DrainWorks
<1>3. DOMAIN job = Worktree \X Branch
  BY DEF QueueTypes
<1>4. \A k \in Worktree \X Branch : job'[k] = IF k \in done THEN "none"
                                    ELSE IF k = hit THEN "conflicted" ELSE job[k]
  BY <1>2, <1>3
<1>5. \A k \in Worktree \X Branch : k = hit => job[k] # "none"
  <2>1. \A k \in Worktree \X Branch : k # <<>>
    OBVIOUS
  <2>2. QED
    BY <1>2, <2>1 DEF JobsIn
<1>6. outcome \in Good => done = JobsIn(r, m)
  BY DEF DrainWorks, Good
<1>7. JobsIn(r, m) \subseteq Worktree \X Branch
  BY DEF JobsIn, Branch
<1>8. job' \in [Worktree \X Branch -> {"none", "queued", "conflicted"}]
  BY <1>2, <1>3, <1>4 DEF QueueTypes
<1>9. QED
  BY <1>1, <1>4, <1>5, <1>6, <1>7, <1>8

\* An attempt that is over: its merge is not running, and has succeeded only if
\* its sources are done.
LEMMA AttemptOver ==
    ASSUME MergeInv, NEW m \in Merge, pc[m] # "idle",
           NEW s \in {"retry_wait", "blocked", "failed", "succeeded"},
           task' = [task EXCEPT ![m] = s], pc' = [pc EXCEPT ![m] = "idle"],
           s = "succeeded" => \A i \in DOMAIN SourcesOf[m] : Done(Key(m, i)),
           UNCHANGED <<toEnqueue, toDrain, worst, queue>>
    PROVE  MergeInv'
<1>1. QueueTypes
  BY DEF MergeInv
<1>2. /\ task'[m] = s /\ pc'[m] = "idle"
      /\ \A n \in Merge : n # m => task'[n] = task[n] /\ pc'[n] = pc[n]
  BY <1>1 DEF QueueTypes
<1>3. QueueTypes'
  BY <1>1 DEF QueueTypes, queue
<1>4. SuspendedIsRunning' /\ EnqueuedIsKnown' /\ DrainedIsDone'
  BY <1>2 DEF MergeInv, SuspendedIsRunning, EnqueuedIsKnown, DrainedIsDone, Done, queue
<1>5. SucceededIsDone'
  BY <1>2 DEF MergeInv, SucceededIsDone, Done, queue
<1>6. QED
  BY <1>3, <1>4, <1>5 DEF MergeInv
\* A claim starts with every source still to enqueue.
LEMMA ClaimKeeps ==
    ASSUME MergeInv, NEW m \in Merge, Claim(m)
    PROVE  MergeInv'
<1>1. /\ task[m] \in {"ready", "retry_wait"} /\ task' = [task EXCEPT ![m] = "running"]
      /\ pc' = [pc EXCEPT ![m] = "enqueue"]
      /\ toEnqueue' = [toEnqueue EXCEPT ![m] = SourcesOf[m]]
      /\ worst' = [worst EXCEPT ![m] = {}]
      /\ UNCHANGED <<toDrain, job, integrated>>
  BY DEF Claim, queue
<1>2. QueueTypes
  BY DEF MergeInv
<1>3. /\ task'[m] = "running" /\ pc'[m] = "enqueue" /\ toEnqueue'[m] = SourcesOf[m]
      /\ \A n \in Merge : n # m =>
            /\ task'[n] = task[n] /\ pc'[n] = pc[n] /\ toEnqueue'[n] = toEnqueue[n]
            /\ worst'[n] = worst[n]
  BY <1>1, <1>2 DEF QueueTypes
<1>4. QueueTypes'
  BY <1>1, <1>2, SourcesAreKeys DEF QueueTypes
<1>5. SuspendedIsRunning'
  BY <1>3 DEF MergeInv, SuspendedIsRunning
<1>6. EnqueuedIsKnown'
  BY <1>1, <1>3 DEF MergeInv, EnqueuedIsKnown
<1>7. DrainedIsDone'
  BY <1>1, <1>3 DEF MergeInv, DrainedIsDone, Done
<1>8. SucceededIsDone'
  BY <1>1, <1>3 DEF MergeInv, SucceededIsDone, Done
<1>9. QED
  BY <1>4, <1>5, <1>6, <1>7, <1>8 DEF MergeInv

\* The enqueued source has a job, and no merge but this one had it.
LEMMA EnqueueNextKeeps ==
    ASSUME MergeInv, NEW m \in Merge, EnqueueNext(m)
    PROVE  MergeInv'
<1> DEFINE rest == toEnqueue[m]
<1>1. /\ pc[m] = "enqueue" /\ rest # <<>>
      /\ job' = [job EXCEPT ![<<Head(rest), BranchOf[m]>>] =
                    IF @ = "none" THEN "queued" ELSE @]
      /\ toEnqueue' = [toEnqueue EXCEPT ![m] = Tail(rest)]
      /\ UNCHANGED <<task, pc, toDrain, worst, integrated>>
  BY DEF EnqueueNext, rows
<1>2. QueueTypes /\ rest \in Seq(Worktree)
  BY DEF MergeInv, QueueTypes
<1>3. /\ Len(rest) \in Nat /\ Len(rest) > 0 /\ DOMAIN rest = 1 .. Len(rest)
      /\ Head(rest) = rest[1] /\ 1 \in DOMAIN rest
      /\ Tail(rest) \in Seq(Worktree) /\ DOMAIN Tail(rest) = 1 .. Len(rest) - 1
      /\ \A j \in 1 .. Len(rest) - 1 : Tail(rest)[j] = rest[j + 1]
  BY <1>1, <1>2
<1>4. /\ toEnqueue'[m] = Tail(rest)
      /\ \A n \in Merge : n # m => toEnqueue'[n] = toEnqueue[n]
  BY <1>1, <1>2 DEF QueueTypes
<1>5. PICK h \in DOMAIN SourcesOf[m] : SourcesOf[m][h] = Head(rest)
  BY <1>1, <1>3 DEF MergeInv, EnqueuedIsKnown
<1>6. Key(m, h) = <<Head(rest), BranchOf[m]>> /\ Key(m, h) \in Worktree \X Branch
  BY <1>5, SourcesAreKeys DEF Key
<1>7. /\ \A k \in Worktree \X Branch : k # Key(m, h) => job'[k] = job[k]
      /\ \A k \in Worktree \X Branch : job[k] # "none" => job'[k] # "none"
      /\ job'[Key(m, h)] # "none"
      /\ job' \in [Worktree \X Branch -> {"none", "queued", "conflicted"}]
  BY <1>1, <1>2, <1>6 DEF QueueTypes
<1>8. QueueTypes'
  BY <1>1, <1>2, <1>3, <1>4, <1>7 DEF QueueTypes
<1>9. SuspendedIsRunning'
  BY <1>1 DEF MergeInv, SuspendedIsRunning
<1> DEFINE OfSource(n) == \A j \in DOMAIN toEnqueue'[n] :
                            \E i \in DOMAIN SourcesOf[n] : toEnqueue'[n][j] = SourcesOf[n][i]
           Found(n) == \A i \in DOMAIN SourcesOf[n] :
                            \/ Key(n, i) \in integrated \/ job'[Key(n, i)] # "none"
                            \/ \E j \in DOMAIN toEnqueue'[n] : toEnqueue'[n][j] = SourcesOf[n][i]
<1>10. EnqueuedIsKnown'
  <2> SUFFICES ASSUME NEW n \in Merge, pc[n] = "enqueue"
               PROVE  OfSource(n) /\ Found(n)
    BY <1>1 DEF EnqueuedIsKnown, Key
  <2>1. EnqueuedIsKnown
    BY DEF MergeInv
  <2>2. CASE n # m
    <3>1. /\ \A j \in DOMAIN toEnqueue[n] :
                \E i \in DOMAIN SourcesOf[n] : toEnqueue[n][j] = SourcesOf[n][i]
          /\ \A i \in DOMAIN SourcesOf[n] :
                \/ Key(n, i) \in integrated \/ job[Key(n, i)] # "none"
                \/ \E j \in DOMAIN toEnqueue[n] : toEnqueue[n][j] = SourcesOf[n][i]
      BY <2>1 DEF EnqueuedIsKnown
    <3>2. \A i \in DOMAIN SourcesOf[n] : job[Key(n, i)] # "none" => job'[Key(n, i)] # "none"
      BY <1>7, SourcesAreKeys
    <3>3. toEnqueue'[n] = toEnqueue[n]
      BY <1>4, <2>2
    <3>4. OfSource(n)
      BY <3>1, <3>3
    <3>5. Found(n)
      BY <3>1, <3>2, <3>3
    <3> HIDE DEF OfSource, Found
    <3>6. QED
      BY <3>4, <3>5
  <2>3. CASE n = m
    <3>1. \A j \in DOMAIN Tail(rest) : j + 1 \in DOMAIN rest /\ Tail(rest)[j] = rest[j + 1]
      BY <1>3
    <3>2. ASSUME NEW i \in DOMAIN SourcesOf[m], NEW j \in DOMAIN rest, rest[j] = SourcesOf[m][i]
          PROVE  \/ job'[Key(m, i)] # "none"
                 \/ \E l \in DOMAIN Tail(rest) : Tail(rest)[l] = SourcesOf[m][i]
      <4>1. CASE j = 1
        <5>1. Key(m, i) = Key(m, h)
          BY <1>3, <1>5, <3>2, <4>1 DEF Key
        <5>2. QED
          BY <1>7, <5>1
      <4>2. CASE j # 1
        <5>1. j - 1 \in 1 .. Len(rest) - 1 /\ (j - 1) + 1 = j
          BY <1>3, <4>2
        <5>2. QED
          BY <1>3, <3>2, <5>1
      <4>3. QED
        BY <4>1, <4>2
    <3>3. \A i \in DOMAIN SourcesOf[m] :
             \/ Key(m, i) \in integrated \/ job'[Key(m, i)] # "none"
             \/ \E j \in DOMAIN Tail(rest) : Tail(rest)[j] = SourcesOf[m][i]
      BY <1>1, <1>7, <2>1, <3>2, SourcesAreKeys DEF EnqueuedIsKnown
    <3>4. \A j \in DOMAIN Tail(rest) :
             \E i \in DOMAIN SourcesOf[m] : Tail(rest)[j] = SourcesOf[m][i]
      BY <1>1, <2>1, <3>1 DEF EnqueuedIsKnown
    <3>5. toEnqueue'[n] = Tail(rest)
      BY <1>4, <2>3
    <3> HIDE DEF rest
    <3>6. OfSource(n)
      BY <2>3, <3>4, <3>5
    <3>7. Found(n)
      BY <2>3, <3>3, <3>5
    <3>8. QED
      BY <3>6, <3>7
  <2>4. QED
    BY <2>2, <2>3
<1>11. ASSUME NEW n \in Merge, n # m, NEW i \in DOMAIN SourcesOf[n], Done(Key(n, i))
       PROVE  Done(Key(n, i))'
  <2>1. OneMergePerSource => Key(n, i) # Key(m, h)
    BY <1>11 DEF OneMergePerSource
  <2>2. OneMergePerSource => job'[Key(n, i)] = job[Key(n, i)]
    BY <1>7, <2>1, SourcesAreKeys
  <2>3. QED
    BY <1>1, <1>11, <2>2 DEF Done, Key, OneMergePerSource
<1>12. DrainedIsDone'
  <2>1. DrainedIsDone
    BY DEF MergeInv
  <2>2. ASSUME NEW n \in Merge, pc[n] \in {"drain", "read"}, NEW i \in DOMAIN SourcesOf[n]
        PROVE  /\ Key(n, i) \in integrated \/ job'[Key(n, i)] # "none"
               /\ worst[n] \subseteq Good /\ RepoOf[SourcesOf[n][i]] \notin toDrain[n] =>
                     Done(Key(n, i))'
    BY <1>1, <1>7, <1>11, <2>1, <2>2, SourcesAreKeys DEF DrainedIsDone
  <2>3. QED
    BY <1>1, <2>2 DEF DrainedIsDone, Key, Good
<1>13. SucceededIsDone'
  <2>1. ASSUME NEW n \in Merge, task[n] = "succeeded", NEW i \in DOMAIN SourcesOf[n]
        PROVE  Done(Key(n, i))'
    <3>1. n # m
      BY <1>1, <2>1 DEF MergeInv, SuspendedIsRunning
    <3>2. QED
      BY <1>11, <2>1, <3>1 DEF MergeInv, SucceededIsDone
  <2>2. QED
    BY <1>1, <2>1 DEF SucceededIsDone, Key
<1>14. QED
  BY <1>8, <1>9, <1>10, <1>12, <1>13 DEF MergeInv

\* With all sources enqueued, every repository of theirs is to be drained.
LEMMA StartDrainingKeeps ==
    ASSUME MergeInv, NEW m \in Merge, StartDraining(m)
    PROVE  MergeInv'
<1>1. /\ pc[m] = "enqueue" /\ toEnqueue[m] = <<>>
      /\ toDrain' = [toDrain EXCEPT ![m] = ReposOf(m)] /\ pc' = [pc EXCEPT ![m] = "drain"]
      /\ UNCHANGED <<task, toEnqueue, worst, job, integrated>>
  BY DEF StartDraining, rows, queue
<1>2. QueueTypes
  BY DEF MergeInv
<1>3. /\ pc'[m] = "drain" /\ toDrain'[m] = ReposOf(m)
      /\ \A n \in Merge : n # m => pc'[n] = pc[n] /\ toDrain'[n] = toDrain[n]
  BY <1>1, <1>2 DEF QueueTypes
<1>4. ReposOf(m) \in SUBSET Repo
  BY SourcesAreKeys DEF ReposOf, Repo
<1>5. QueueTypes'
  BY <1>1, <1>2, <1>4 DEF QueueTypes
<1>6. SuspendedIsRunning' /\ EnqueuedIsKnown'
  BY <1>1, <1>3 DEF MergeInv, SuspendedIsRunning, EnqueuedIsKnown
<1>7. DrainedIsDone'
  <2>1. \A i \in DOMAIN SourcesOf[m] :
           /\ Key(m, i) \in integrated \/ job[Key(m, i)] # "none"
           /\ RepoOf[SourcesOf[m][i]] \in ReposOf(m)
    BY <1>1 DEF MergeInv, EnqueuedIsKnown, ReposOf
  <2>2. QED
    BY <1>1, <1>3, <2>1 DEF MergeInv, DrainedIsDone, Done
<1>8. SucceededIsDone'
  BY <1>1 DEF MergeInv, SucceededIsDone, Done
<1>9. QED
  BY <1>5, <1>6, <1>7, <1>8 DEF MergeInv

\* A drain takes nothing from anybody: what it removes from the queue is on the
\* branch.
LEMMA DrainNextKeeps ==
    ASSUME MergeInv, NEW m \in Merge, DrainNext(m)
    PROVE  MergeInv'
<1>1. PICK r \in toDrain[m], outcome \in Outcome : \E done \in SUBSET JobsIn(r, m) :
          /\ DrainWorks(m, r, outcome, done)
          /\ toDrain' = [toDrain EXCEPT ![m] = @ \ {r}]
          /\ worst' = [worst EXCEPT ![m] = @ \cup {outcome}]
  BY DEF DrainNext
<1>2. /\ pc[m] = "drain" /\ pc' = [pc EXCEPT ![m] = "read"]
      /\ UNCHANGED <<task, toEnqueue>>
  BY DEF DrainNext, rows
<1>3. QueueTypes /\ r \in Repo
  BY DEF MergeInv, QueueTypes
<1>4. /\ job' \in [Worktree \X Branch -> {"none", "queued", "conflicted"}]
      /\ integrated \subseteq integrated'
      /\ \A k \in Worktree \X Branch : job[k] = "none" => job'[k] = "none"
      /\ \A k \in Worktree \X Branch : job[k] # "none" => job'[k] # "none" \/ k \in integrated'
      /\ outcome \in Good => \A k \in JobsIn(r, m) : k \in integrated' /\ job'[k] = "none"
  BY <1>1, <1>3, DrainEffect
<1>5. /\ pc'[m] = "read" /\ toDrain'[m] = toDrain[m] \ {r}
      /\ worst'[m] = worst[m] \cup {outcome}
      /\ \A n \in Merge : n # m =>
            pc'[n] = pc[n] /\ toDrain'[n] = toDrain[n] /\ worst'[n] = worst[n]
  BY <1>1, <1>2, <1>3 DEF QueueTypes
<1>6. QueueTypes'
  BY <1>1, <1>2, <1>3, <1>4 DEF QueueTypes
<1>7. SuspendedIsRunning'
  BY <1>2, <1>5 DEF MergeInv, SuspendedIsRunning
<1>8. EnqueuedIsKnown'
  BY <1>2, <1>4, <1>5, SourcesAreKeys DEF MergeInv, EnqueuedIsKnown
<1>9. \A k \in Worktree \X Branch : Done(k) => Done(k)'
  BY <1>4 DEF Done, OneMergePerSource
<1>10. DrainedIsDone'
  <2>1. DrainedIsDone
    BY DEF MergeInv
  <2>2. ASSUME NEW n \in Merge, pc'[n] \in {"drain", "read"}, NEW i \in DOMAIN SourcesOf[n]
        PROVE  /\ Key(n, i) \in integrated' \/ job'[Key(n, i)] # "none"
               /\ worst'[n] \subseteq Good /\ RepoOf[SourcesOf[n][i]] \notin toDrain'[n] =>
                     Done(Key(n, i))'
    <3>1. Key(n, i) \in Worktree \X Branch /\ SourcesOf[n][i] \in Worktree
      BY SourcesAreKeys
    <3>2. pc[n] \in {"drain", "read"}
      BY <1>2, <1>5, <2>2
    <3>3. Key(n, i) \in integrated \/ job[Key(n, i)] # "none"
      BY <2>1, <3>2 DEF DrainedIsDone
    <3>4. Key(n, i) \in integrated' \/ job'[Key(n, i)] # "none"
      BY <1>4, <3>1, <3>3
    <3>5. CASE n # m \/ RepoOf[SourcesOf[n][i]] # r
      <4>1. worst'[n] \subseteq Good /\ RepoOf[SourcesOf[n][i]] \notin toDrain'[n] =>
               worst[n] \subseteq Good /\ RepoOf[SourcesOf[n][i]] \notin toDrain[n]
        BY <1>5, <3>5
      <4>2. QED
        BY <1>9, <2>1, <3>1, <3>2, <3>4, <4>1 DEF DrainedIsDone
    <3>6. CASE n = m /\ RepoOf[SourcesOf[n][i]] = r /\ worst'[n] \subseteq Good
      <4>1. outcome \in Good
        BY <1>5, <3>6
      <4>2. CASE job[Key(m, i)] = "none"
        BY <1>4, <3>1, <3>3, <3>6, <4>2 DEF Done, Key
      <4>3. CASE job[Key(m, i)] # "none"
        <5>1. Key(m, i) \in JobsIn(r, m)
          BY <3>1, <3>6, <4>3 DEF JobsIn, Key
        <5>2. QED
          BY <1>4, <3>6, <4>1, <5>1 DEF Done, Key
      <4>4. QED
        BY <3>4, <3>6, <4>2, <4>3
    <3>7. QED
      BY <3>4, <3>5, <3>6
  <2>3. QED
    BY <2>2 DEF DrainedIsDone, Key, Good
<1>11. SucceededIsDone'
  <2>1. \A n \in Merge : task[n] = "succeeded" => \A i \in DOMAIN SourcesOf[n] : Done(Key(n, i))'
    BY <1>9, SourcesAreKeys DEF MergeInv, SucceededIsDone
  <2>2. QED
    BY <1>2, <2>1 DEF SucceededIsDone, Key
<1>12. QED
  BY <1>6, <1>7, <1>8, <1>10, <1>11 DEF MergeInv

\* The outcome of an attempt: it succeeds only when no repository answered with
\* anything worse than no_changes.
LEMMA SettleKeeps ==
    ASSUME MergeInv, NEW m \in Merge, Settle(m)
    PROVE  MergeInv'
<1>1. /\ pc[m] = "read" /\ toDrain[m] = {}
      /\ UNCHANGED <<toEnqueue, toDrain, worst, queue>>
  BY DEF Settle
<1>2. worst[m] \in SUBSET Outcome
  BY DEF MergeInv, QueueTypes
<1>3. MapOutcome(m) = "done" => worst[m] \subseteq Good
  BY <1>2 DEF MapOutcome, Good, Outcome
<1>4. MapOutcome(m) = "done" => \A i \in DOMAIN SourcesOf[m] : Done(Key(m, i))
  BY <1>1, <1>3 DEF MergeInv, DrainedIsDone
<1>5. PICK s \in {"retry_wait", "blocked", "failed", "succeeded"} :
          /\ task' = [task EXCEPT ![m] = s] /\ pc' = [pc EXCEPT ![m] = "idle"]
          /\ s = "succeeded" => MapOutcome(m) = "done"
  <2>1. CASE ParkConflict(m)
    BY <2>1 DEF ParkConflict
  <2>2. CASE \E failure \in {"transient", "queued_ahead", "permanent"} : Fail(m, failure)
    BY <2>2 DEF Fail
  <2>3. CASE MapOutcome(m) = "done" /\ Succeed(m)
    BY <2>3 DEF Succeed
  <2>4. QED
    BY <2>1, <2>2, <2>3 DEF Settle
<1>6. QED
  BY <1>1, <1>4, <1>5, AttemptOver

\* An attempt that fails before its drains.
LEMMA RefusedKeeps ==
    ASSUME MergeInv, NEW m \in Merge, QueueGone(m) \/ EnqueueRefused(m)
    PROVE  MergeInv'
<1>1. /\ pc[m] = "enqueue" /\ UNCHANGED <<toEnqueue, toDrain, worst, queue>>
  BY DEF QueueGone, EnqueueRefused
<1>2. PICK s \in {"retry_wait", "failed"} :
          task' = [task EXCEPT ![m] = s] /\ pc' = [pc EXCEPT ![m] = "idle"]
  BY DEF QueueGone, EnqueueRefused, Fail
<1>3. s \in {"retry_wait", "blocked", "failed", "succeeded"} /\ s # "succeeded" /\ pc[m] # "idle"
  BY <1>1
<1>4. QED
  BY <1>1, <1>2, <1>3, AttemptOver

\* The steps that leave the queue's jobs as they are, or queue a conflicted one.
LEMMA AroundKeeps ==
    ASSUME MergeInv,
           \/ \E m \in Merge : DrainAnother(m) \/ RetryTask(m)
           \/ \E k \in Worktree \X Branch : Resolve(k)
           \/ CrashAndRecover
           \/ UNCHANGED vars
    PROVE  MergeInv'
<1>1. QueueTypes /\ SuspendedIsRunning /\ EnqueuedIsKnown /\ DrainedIsDone /\ SucceededIsDone
  BY DEF MergeInv
<1>2. CASE \E m \in Merge : DrainAnother(m)
  <2>1. PICK m \in Merge : DrainAnother(m)
    BY <1>2
  <2>2. /\ pc[m] = "read" /\ pc' = [pc EXCEPT ![m] = "drain"]
        /\ UNCHANGED <<task, toEnqueue, toDrain, worst, job, integrated>>
    BY <2>1 DEF DrainAnother, rows, queue
  <2>3. pc'[m] = "drain" /\ \A n \in Merge : n # m => pc'[n] = pc[n]
    BY <1>1, <2>2 DEF QueueTypes
  <2>4. QueueTypes'
    BY <1>1, <2>2 DEF QueueTypes
  <2>5. SuspendedIsRunning' /\ EnqueuedIsKnown'
    BY <1>1, <2>2, <2>3 DEF SuspendedIsRunning, EnqueuedIsKnown
  <2>6. DrainedIsDone' /\ SucceededIsDone'
    BY <1>1, <2>2, <2>3 DEF DrainedIsDone, SucceededIsDone, Done
  <2>7. QED
    BY <2>4, <2>5, <2>6 DEF MergeInv
<1>3. CASE \E m \in Merge : RetryTask(m)
  <2>1. PICK m \in Merge : RetryTask(m)
    BY <1>3
  <2>2. /\ task[m] \in {"blocked", "failed"} /\ task' = [task EXCEPT ![m] = "retry_wait"]
        /\ UNCHANGED <<pc, toEnqueue, toDrain, worst, job, integrated>>
    BY <2>1 DEF RetryTask, local, queue
  <2>3. task'[m] = "retry_wait" /\ \A n \in Merge : n # m => task'[n] = task[n]
    BY <1>1, <2>2 DEF QueueTypes
  <2>4. QueueTypes'
    BY <1>1, <2>2 DEF QueueTypes
  <2>5. SuspendedIsRunning' /\ EnqueuedIsKnown'
    BY <1>1, <2>2, <2>3 DEF SuspendedIsRunning, EnqueuedIsKnown
  <2>6. DrainedIsDone' /\ SucceededIsDone'
    BY <1>1, <2>2, <2>3 DEF DrainedIsDone, SucceededIsDone, Done
  <2>7. QED
    BY <2>4, <2>5, <2>6 DEF MergeInv
<1>4. CASE \E k \in Worktree \X Branch : Resolve(k)
  <2>1. PICK k \in Worktree \X Branch : Resolve(k)
    BY <1>4
  <2>2. /\ job[k] = "conflicted" /\ job' = [job EXCEPT ![k] = "queued"]
        /\ UNCHANGED <<task, pc, toEnqueue, toDrain, worst, integrated>>
    BY <2>1 DEF Resolve, rows, local
  <2>3. \A l \in Worktree \X Branch : job'[l] = "none" <=> job[l] = "none"
    BY <1>1, <2>2 DEF QueueTypes
  <2>4. QueueTypes'
    BY <1>1, <2>2 DEF QueueTypes
  <2>5. \A n \in Merge : \A i \in DOMAIN SourcesOf[n] :
           /\ job'[Key(n, i)] = "none" <=> job[Key(n, i)] = "none"
           /\ Done(Key(n, i))' <=> Done(Key(n, i))
    BY <2>2, <2>3, SourcesAreKeys DEF Done, OneMergePerSource, Key
  <2>6. SuspendedIsRunning' /\ EnqueuedIsKnown'
    BY <1>1, <2>2, <2>5 DEF SuspendedIsRunning, EnqueuedIsKnown, Key
  <2>7. DrainedIsDone' /\ SucceededIsDone'
    BY <1>1, <2>2, <2>5 DEF DrainedIsDone, SucceededIsDone, Key, Good
  <2>8. QED
    BY <2>4, <2>6, <2>7 DEF MergeInv
<1>5. CASE CrashAndRecover
  <2>1. /\ \A m \in Merge : task'[m] = IF task[m] = "running" THEN "retry_wait" ELSE task[m]
        /\ task' \in [Merge -> {"ready", "running", "retry_wait", "blocked", "succeeded", "failed"}]
    BY <1>1, <1>5 DEF CrashAndRecover, QueueTypes
  <2>2. /\ pc' = [m \in Merge |-> "idle"] /\ toEnqueue' = [m \in Merge |-> <<>>]
        /\ toDrain' = [m \in Merge |-> {}] /\ worst' = [m \in Merge |-> {}]
        /\ UNCHANGED <<job, integrated>>
    BY <1>5 DEF CrashAndRecover, queue
  <2>3. QueueTypes'
    BY <1>1, <2>1, <2>2 DEF QueueTypes
  <2>4. SuspendedIsRunning' /\ EnqueuedIsKnown' /\ DrainedIsDone'
    BY <2>2 DEF SuspendedIsRunning, EnqueuedIsKnown, DrainedIsDone
  <2>5. SucceededIsDone'
    BY <1>1, <2>1, <2>2 DEF SucceededIsDone, Done
  <2>6. QED
    BY <2>3, <2>4, <2>5 DEF MergeInv
<1>6. CASE UNCHANGED vars
  <2>1. UNCHANGED <<task, pc, toEnqueue, toDrain, worst, job, integrated>>
    BY <1>6 DEF vars, rows, local, queue
  <2>2. QED
    BY <2>1 DEF MergeInv, QueueTypes, SuspendedIsRunning, EnqueuedIsKnown, DrainedIsDone,
       SucceededIsDone, Done
<1>7. QED
  BY <1>2, <1>3, <1>4, <1>5, <1>6

-----------------------------------------------------------------------------

\* The accounts of the sources hold, for any merges over one queue.
THEOREM MergeInvariant == Spec => []MergeInv
<1>1. MergeInv /\ [Next]_vars => MergeInv'
  <2> SUFFICES ASSUME MergeInv, [Next]_vars PROVE MergeInv'
    OBVIOUS
  <2>1. ASSUME NEW m \in Merge,
               Claim(m) \/ EnqueueNext(m) \/ StartDraining(m) \/ DrainNext(m) \/ Settle(m)
        PROVE  MergeInv'
    BY <2>1, ClaimKeeps, EnqueueNextKeeps, StartDrainingKeeps, DrainNextKeeps, SettleKeeps
  <2>2. ASSUME NEW m \in Merge, QueueGone(m) \/ EnqueueRefused(m)
        PROVE  MergeInv'
    BY <2>2, RefusedKeeps
  <2>3. CASE \/ \E m \in Merge : DrainAnother(m) \/ RetryTask(m)
             \/ \E k \in Worktree \X Branch : Resolve(k)
             \/ CrashAndRecover
             \/ UNCHANGED vars
    BY <2>3, AroundKeeps
  <2>4. QED
    BY <2>1, <2>2, <2>3 DEF Next, Attempt
<1>2. QED
  BY MergeInit, <1>1, PTL DEF Spec

\* A merge succeeds only with the work of all its sources on the branch,
\* whichever attempt, drain or other merge took it there.
THEOREM SuccessIsOnTheBranch ==
    Spec => [](\A m \in Merge : task[m] = "succeeded" =>
                  \A i \in DOMAIN SourcesOf[m] : Key(m, i) \in integrated)
<1>1. MergeInv => \A m \in Merge : task[m] = "succeeded" =>
                     \A i \in DOMAIN SourcesOf[m] : Key(m, i) \in integrated
  BY DEF MergeInv, SucceededIsDone, Done
<1>2. QED
  BY MergeInvariant, <1>1, PTL

\* Where no two merges take one worktree to one branch, a merge that succeeded
\* has left no job of its sources behind either.
THEOREM SuccessLeavesNoJob ==
    ASSUME OneMergePerSource
    PROVE  Spec => []SuccessMeansIntegrated
<1>1. MergeInv => SuccessMeansIntegrated
  BY OneMergePerSource DEF MergeInv, SucceededIsDone, Done, SuccessMeansIntegrated, Key
<1>2. QED
  BY MergeInvariant, <1>1, PTL
\* The number of crashes is a number.
LEMMA CrashesAreCounted == Spec => [](crashes \in Nat)
<1>1. Init => crashes \in Nat
  BY DEF Init
<1>2. crashes \in Nat /\ [Next]_vars => (crashes \in Nat)'
  <2> SUFFICES ASSUME crashes \in Nat, [Next]_vars PROVE crashes' = crashes \/ crashes' = crashes + 1
    OBVIOUS
  <2>1. ASSUME NEW m \in Merge, Attempt(m) \/ QueueGone(m) \/ EnqueueRefused(m) \/ RetryTask(m)
        PROVE  crashes' = crashes
    <3>1. CASE Claim(m) \/ EnqueueNext(m) \/ StartDraining(m)
      BY <3>1 DEF Claim, EnqueueNext, StartDraining
    <3>2. CASE DrainNext(m) \/ DrainAnother(m) \/ Settle(m)
      BY <3>2 DEF DrainNext, DrainAnother, Settle
    <3>3. CASE QueueGone(m) \/ EnqueueRefused(m) \/ RetryTask(m)
      BY <3>3 DEF QueueGone, EnqueueRefused, RetryTask
    <3>4. QED
      BY <2>1, <3>1, <3>2, <3>3 DEF Attempt
  <2>2. CASE (\E k \in Worktree \X Branch : Resolve(k)) \/ UNCHANGED vars
    BY <2>2 DEF Resolve, vars
  <2>3. CASE CrashAndRecover
    BY <2>3 DEF CrashAndRecover
  <2>4. QED
    BY <2>1, <2>2, <2>3 DEF Next
<1>3. QED
  BY <1>1, <1>2, PTL DEF Spec

\* An attempt that met a conflict in any repository ends parked for a human: the
\* policy does not retry it and no other answer makes it a failure.
THEOREM ConflictsArePutAside == Spec => ConflictWaitsForAHuman
<1> DEFINE Kept(m) ==
      pc[m] = "read" /\ task'[m] \in {"retry_wait", "failed"} /\ crashes' = crashes
          => "conflicted" \notin worst[m]
<1>1. MergeInv /\ crashes \in Nat /\ [Next]_vars => [\A m \in Merge : Kept(m)]_vars
  <2> SUFFICES ASSUME MergeInv, crashes \in Nat, Next,
                      NEW m \in Merge, pc[m] = "read", crashes' = crashes,
                      task'[m] \in {"retry_wait", "failed"}
               PROVE  "conflicted" \notin worst[m]
    OBVIOUS
  <2>1. task[m] = "running" /\ task'[m] # "running" /\ QueueTypes
    BY DEF MergeInv, SuspendedIsRunning, QueueTypes
  <2>2. ~CrashAndRecover
    BY DEF CrashAndRecover
  <2>3. ASSUME NEW n \in Merge,
               \/ Claim(n) \/ EnqueueNext(n) \/ StartDraining(n) \/ DrainNext(n)
               \/ DrainAnother(n) \/ RetryTask(n)
        PROVE  FALSE
    BY <2>1, <2>3
       DEF Claim, EnqueueNext, StartDraining, DrainNext, DrainAnother, RetryTask, rows, QueueTypes
  <2>4. ~\E k \in Worktree \X Branch : Resolve(k)
    BY <2>1 DEF Resolve, rows
  <2>5. ASSUME NEW n \in Merge, QueueGone(n) \/ EnqueueRefused(n) PROVE FALSE
    <3>1. pc[n] = "enqueue" /\ n # m
      BY <2>5 DEF QueueGone, EnqueueRefused
    <3>2. task'[m] = task[m]
      BY <2>1, <2>5, <3>1 DEF QueueGone, EnqueueRefused, Fail, QueueTypes
    <3>3. QED
      BY <2>1, <3>2
  <2>6. ASSUME NEW n \in Merge, Settle(n) PROVE "conflicted" \notin worst[m]
    <3>1. n = m
      BY <2>1, <2>6 DEF Settle, ParkConflict, Fail, Succeed, QueueTypes
    <3>2. ~ParkConflict(m)
      BY <2>1 DEF ParkConflict, QueueTypes
    <3>3. MapOutcome(m) # "conflicted"
      BY <2>6, <3>1, <3>2 DEF Settle
    <3>4. QED
      BY <3>3 DEF MapOutcome
  <2>7. QED
    BY <2>2, <2>3, <2>4, <2>5, <2>6 DEF Next, Attempt
<1>2. QED
  BY <1>1, MergeInvariant, CrashesAreCounted, PTL DEF Spec, ConflictWaitsForAHuman

-----------------------------------------------------------------------------
(* A queue that is only busy *)

OnlyBusy == ~mishaps.worse

\* Where nothing worse has happened than a busy queue, crashes aside, no job is
\* in conflict, no answer was a failure, and no merge has failed, is parked or
\* has been billed a retry; the verify gate may have failed the others.
Untroubled ==
    /\ \A k \in Worktree \X Branch : job[k] # "conflicted"
    /\ \A m \in Merge : worst[m] \cap {"conflicted", "failed"} = {}
    /\ \A m \in Merge : billed[m] = 0
    /\ \A m \in Merge \ Verify : task[m] \notin {"failed", "blocked"}

BusyInv ==
    /\ mishaps \in [count : Nat, worse : BOOLEAN]
    /\ billed \in [Merge -> Nat]
    /\ OnlyBusy => Untroubled

\* A mishap stays on the record.
LEMMA MishapsAreKept ==
    ASSUME mishaps \in [count : Nat, worse : BOOLEAN], NEW kind, Mishap(kind)
    PROVE  /\ mishaps' \in [count : Nat, worse : BOOLEAN]
           /\ OnlyBusy' => OnlyBusy /\ kind = "busy"
<1> DEFINE count == mishaps.count + 1
           worse == mishaps.worse \/ kind # "busy"
<1>1. mishaps' = [count |-> count, worse |-> worse]
  BY DEF Mishap
<1>2. count \in Nat /\ worse \in BOOLEAN
  OBVIOUS
<1>3. worse <=> mishaps.worse \/ kind # "busy"
  OBVIOUS
<1> HIDE DEF count, worse
<1>4. mishaps' \in [count : Nat, worse : BOOLEAN] /\ mishaps'.worse = worse
  BY <1>1, <1>2
<1>5. QED
  BY <1>3, <1>4 DEF OnlyBusy

\* What a failing attempt does to its own row: nothing but a busy queue's
\* re-poll when there is no trouble.
LEMMA FailEffect ==
    ASSUME QueueTypes, billed \in [Merge -> Nat], NEW m \in Merge, NEW failure, Fail(m, failure)
    PROVE  /\ billed' \in [Merge -> Nat]
           /\ failure = "queued_ahead" =>
                 billed' = billed /\ task' = [task EXCEPT ![m] = "retry_wait"]
<1>1. task' = [task EXCEPT ![m] = IF Retries(m, failure) THEN "retry_wait" ELSE "failed"]
  BY DEF Fail
<1>2. billed' = billed \/ billed' = [billed EXCEPT ![m] = @ + 1]
  BY DEF Fail
<1>3. ASSUME failure = "queued_ahead"
      PROVE  Retries(m, failure) /\ ~Bills(failure)
  BY <1>3 DEF Retries, Bills
<1>4. failure = "queued_ahead" => billed' = billed /\ task' = [task EXCEPT ![m] = "retry_wait"]
  BY <1>1, <1>3 DEF Fail
<1>5. billed' \in [Merge -> Nat]
  BY <1>2
<1>6. QED
  BY <1>4, <1>5

\* A drain that finds no conflict and meets none answers with a busy queue at worst.
LEMMA DrainNextStaysQuiet ==
    ASSUME MergeInv, BusyInv, NEW m \in Merge, DrainNext(m)
    PROVE  BusyInv'
<1>1. QueueTypes /\ QueueTypes'
  <2>1. MergeInv'
    BY DrainNextKeeps
  <2>2. QED
    BY <2>1 DEF MergeInv
<1>2. PICK r \in toDrain[m], outcome \in Outcome : \E done \in SUBSET JobsIn(r, m) :
        /\ DrainWorks(m, r, outcome, done)
        /\ worst' = [worst EXCEPT ![m] = @ \cup {outcome}]
  BY DEF DrainNext
<1>3. PICK done \in SUBSET JobsIn(r, m) : DrainWorks(m, r, outcome, done)
  BY <1>2
<1>4. UNCHANGED <<task, billed>>
  BY DEF DrainNext, rows
<1> DEFINE jobs == JobsIn(r, m)
           stuck == {k \in jobs : job[k] = "conflicted"}
<1>5. jobs \subseteq Worktree \X Branch
  BY DEF JobsIn, Branch
<1>6. \/ outcome \in {"succeeded", "no_changes"} /\ UNCHANGED mishaps
      \/ outcome = "conflicted" /\ stuck # {} /\ UNCHANGED mishaps
      \/ outcome = "conflicted" /\ Mishap("conflict")
      \/ outcome = "failed" /\ Mishap("fail")
      \/ outcome = "queued" /\ Mishap("busy")
  BY <1>3 DEF DrainWorks
<1>7. PICK hit \in IF outcome = "conflicted" /\ stuck = {} THEN jobs \ done ELSE {<<>>} :
        job' = [k \in DOMAIN job |->
                  IF k \in done THEN "none" ELSE IF k = hit THEN "conflicted" ELSE job[k]]
  BY <1>3 DEF DrainWorks
<1>8. mishaps' \in [count : Nat, worse : BOOLEAN]
  BY <1>6, MishapsAreKept DEF BusyInv
<1>9. ASSUME OnlyBusy' PROVE Untroubled'
  <2>1. OnlyBusy
    BY <1>6, <1>9, MishapsAreKept DEF BusyInv, OnlyBusy
  <2>2. stuck = {}
    BY <1>5, <2>1 DEF BusyInv, Untroubled
  <2>3. outcome \in {"succeeded", "no_changes", "queued"}
    <3> HIDE DEF stuck, jobs
    <3>1. QED
      BY <1>6, <1>9, <2>2, MishapsAreKept DEF BusyInv
  <2>4. hit = <<>>
    BY <1>7, <2>3
  <2>5. \A k \in Worktree \X Branch : k # <<>>
    OBVIOUS
  <2>6. \A k \in Worktree \X Branch : job'[k] # "conflicted"
    BY <1>1, <1>7, <2>1, <2>4, <2>5 DEF QueueTypes, BusyInv, Untroubled
  <2>7. \A n \in Merge : worst'[n] \cap {"conflicted", "failed"} = {}
    BY <1>1, <1>2, <2>1, <2>3 DEF QueueTypes, BusyInv, Untroubled
  <2>8. QED
    BY <1>4, <2>1, <2>6, <2>7 DEF BusyInv, Untroubled, Branch
<1>10. QED
  BY <1>4, <1>8, <1>9 DEF BusyInv

\* An attempt that ends untroubled succeeded, was told to wait its turn, or is
\* one whose gate wants a commit.
LEMMA SettleStaysQuiet ==
    ASSUME MergeInv, BusyInv, NEW m \in Merge, Settle(m)
    PROVE  BusyInv'
<1>1. QueueTypes
  BY DEF MergeInv
<1>2. UNCHANGED <<worst, job, mishaps>>
  BY DEF Settle, queue
<1>3. OnlyBusy' <=> OnlyBusy
  BY <1>2 DEF OnlyBusy
<1>4. billed' \in [Merge -> Nat]
  BY <1>1, FailEffect DEF Settle, BusyInv, ParkConflict, Succeed
<1>5. ASSUME OnlyBusy
      PROVE  billed' = billed /\ (m \notin Verify => task'[m] \notin {"failed", "blocked"})
             /\ \A n \in Merge \ {m} : task'[n] = task[n]
  <2>1. MapOutcome(m) \in {"queued", "done"}
    BY <1>5 DEF MapOutcome, BusyInv, Untroubled
  <2>2. CASE Fail(m, "queued_ahead")
    BY <1>1, <2>2, FailEffect DEF BusyInv, QueueTypes
  <2>3. CASE m \in Verify /\ Fail(m, "permanent")
    <3>1. m \in Verify /\ billed' = billed
      BY <2>3 DEF Fail, Retries
    <3>2. \A n \in Merge \ {m} : task'[n] = task[n]
      BY <1>1, <2>3 DEF Fail, QueueTypes
    <3>3. QED
      BY <3>1, <3>2
  <2>4. CASE Succeed(m)
    BY <1>1, <2>4 DEF Succeed, QueueTypes
  <2>5. QED
    BY <2>1, <2>2, <2>3, <2>4 DEF Settle
<1>6. QED
  BY <1>2, <1>3, <1>4, <1>5 DEF BusyInv, Untroubled, Branch

\* Every other step brings a mishap or touches none of this.
LEMMA OthersStayQuiet ==
    ASSUME MergeInv, BusyInv,
           \/ \E m \in Merge : Claim(m) \/ EnqueueNext(m) \/ StartDraining(m) \/ DrainAnother(m)
           \/ \E m \in Merge : QueueGone(m) \/ EnqueueRefused(m) \/ RetryTask(m)
           \/ \E k \in Worktree \X Branch : Resolve(k)
           \/ CrashAndRecover
           \/ UNCHANGED vars
    PROVE  BusyInv'
<1>1. QueueTypes
  BY DEF MergeInv
<1>2. CASE \E m \in Merge : QueueGone(m) \/ EnqueueRefused(m)
  <2>1. PICK m \in Merge : QueueGone(m) \/ EnqueueRefused(m)
    BY <1>2
  <2>2. PICK kind \in {"gone", "refuse"} : Mishap(kind)
    BY <2>1 DEF QueueGone, EnqueueRefused
  <2>3. billed' \in [Merge -> Nat]
    BY <1>1, <2>1, FailEffect DEF QueueGone, EnqueueRefused, BusyInv
  <2>4. QED
    BY <2>2, <2>3, MishapsAreKept DEF BusyInv
<1>3. CASE \/ \E m \in Merge : Claim(m) \/ RetryTask(m) \/ StartDraining(m) \/ DrainAnother(m)
           \/ UNCHANGED vars
  <2>1. /\ UNCHANGED <<job, mishaps, billed>>
        /\ \A n \in Merge : worst'[n] \in {{}, worst[n]}
        /\ \A n \in Merge : task'[n] \in {task[n], "running", "retry_wait"}
    BY <1>1, <1>3
       DEF Claim, RetryTask, StartDraining, DrainAnother, vars, rows, local, queue, QueueTypes
  <2>2. QED
    BY <2>1 DEF BusyInv, Untroubled, OnlyBusy, Branch
<1>4. CASE \/ \E m \in Merge : EnqueueNext(m)
           \/ \E k \in Worktree \X Branch : Resolve(k)
  <2>1. /\ UNCHANGED <<task, billed, worst, mishaps>>
        /\ \A k \in Worktree \X Branch : job'[k] \in {job[k], "queued"}
    BY <1>1, <1>4 DEF EnqueueNext, Resolve, rows, local, QueueTypes
  <2>2. QED
    BY <2>1 DEF BusyInv, Untroubled, OnlyBusy, Branch
<1>5. CASE CrashAndRecover
  <2>1. /\ UNCHANGED <<billed, job, mishaps>>
        /\ \A n \in Merge : worst'[n] = {} /\ task'[n] \in {task[n], "retry_wait"}
    BY <1>5 DEF CrashAndRecover, queue
  <2>2. QED
    BY <2>1 DEF BusyInv, Untroubled, OnlyBusy, Branch
<1>6. QED
  BY <1>2, <1>3, <1>4, <1>5

\* A busy queue costs a merge nothing: where nothing worse has happened, crashes
\* aside, no merge has been billed a retry, and none has failed or been parked,
\* however often the queue was busy; only a verify gate that wants a commit of
\* its own may have refused one.
THEOREM BusyIsNoFailure ==
    Spec => [](OnlyBusy =>
                 /\ \A m \in Merge : billed[m] = 0
                 /\ \A m \in Merge \ Verify : task[m] \notin {"failed", "blocked"})
<1>1. Init => BusyInv
  <2> SUFFICES ASSUME Init PROVE BusyInv
    OBVIOUS
  <2>1. mishaps \in [count : Nat, worse : BOOLEAN]
    BY DEF Init
  <2>2. QED
    BY <2>1 DEF Init, BusyInv, Untroubled
<1>2. MergeInv /\ BusyInv /\ [Next]_vars => BusyInv'
  BY DrainNextStaysQuiet, SettleStaysQuiet, OthersStayQuiet DEF Next, Attempt
<1>3. BusyInv => (OnlyBusy =>
                    /\ \A m \in Merge : billed[m] = 0
                    /\ \A m \in Merge \ Verify : task[m] \notin {"failed", "blocked"})
  BY DEF BusyInv, Untroubled
<1>4. QED
  BY <1>1, <1>2, <1>3, MergeInvariant, PTL DEF Spec
=============================================================================
