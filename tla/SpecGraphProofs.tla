-------------------------- MODULE SpecGraphProofs ---------------------------
(***************************************************************************)
(* The graph passes of the validator, proved for every set of tasks and     *)
(* every dependency graph.                                                  *)
(*                                                                          *)
(* The search: the finished tasks are closed downstream, and every set of   *)
(* them has a member that nothing in the set follows.  A task is finished   *)
(* when all its downstream tasks are, so adding it keeps both; the loop     *)
(* over the roots misses none, and when all are finished the graph has no   *)
(* cycle.  The closure: what is collected and pending lies in every closed  *)
(* set, and what is collected lacks nothing that is not pending.  The       *)
(* depth: a chain from a task is the task and a chain from one that follows *)
(* it, and prefixes of chains are chains.                                   *)
(***************************************************************************)
EXTENDS SpecGraph, SequenceTheorems, FiniteSetTheorems, TLAPS

Graph == [Task -> SUBSET (Task \cup {Unknown})]

SearchTypes ==
    /\ dependsOn \in Graph
    /\ roots \in SUBSET Task /\ stack \in Seq(Task) /\ black \in SUBSET Task
    /\ todo \in [Task -> SUBSET Task]

\* The recursion is a path of distinct unfinished tasks.
StackIsPath ==
    /\ \A i, j \in DOMAIN stack : stack[i] = stack[j] => i = j
    /\ \A i \in DOMAIN stack : stack[i] \notin black
    /\ \A i \in 1 .. Len(stack) - 1 : stack[i + 1] \in Down(stack[i])

\* What a task's loop has passed is finished or right above it; a WHITE task's
\* loop has passed nothing.
LoopsAreExact ==
    /\ \A t \in Task : todo[t] \subseteq Down(t)
    /\ \A t \in White : todo[t] = Down(t)
    /\ \A i \in DOMAIN stack : \A v \in Down(stack[i]) \ todo[stack[i]] :
          v \in black \/ (i < Len(stack) /\ v = stack[i + 1])

\* The loop over order has passed no task that is still WHITE.
NoneIsMissed == White \subseteq roots

\* S has a task that no task of S follows.
HasLast(S) == \E t \in S : Down(t) \cap S = {}

FinishedIsAcyclic ==
    /\ \A t \in black : Down(t) \subseteq black
    /\ \A S \in SUBSET black : S # {} => HasLast(S)

VerdictsFollow ==
    /\ EdgeErrors \subseteq errors
    /\ phase = "cycle" => "cycle_detected" \notin errors
    /\ phase # "cycle" /\ "cycle_detected" \notin errors => black = Task
    /\ phase \in {"depth", "accepted"} => errors = {}

\* What is collected and pending is upstream of the reader, and nothing upstream
\* is lost: it is collected, or pending, or behind something pending.
ClosureInv ==
    /\ phase # "cycle" => input[1] \in Task
    /\ seen \in SUBSET Task /\ pending \in SUBSET Task
    /\ phase = "cycle" => seen = {} /\ pending = {}
    /\ phase # "cycle" =>
          Up(input[1]) \subseteq seen \cup pending
          /\ \A u \in seen : Up(u) \subseteq seen \cup pending
    /\ \A S \in SUBSET Task :
          Up(input[1]) \subseteq S /\ (\A u \in S : Up(u) \subseteq S) =>
              seen \cup pending \subseteq S
    /\ phase \in {"cycle", "closure"} =>
          errors \cap {"input_not_reachable", "output_not_declared"} = {}
    /\ phase \in {"depth", "accepted", "rejected"} =>
          /\ pending = {}
          /\ errors \cap {"input_not_reachable", "output_not_declared"} = InputErrors

\* A depth once computed is that of the longest chain, and nothing is ranked
\* without one.
DepthInv ==
    /\ DOMAIN memo \subseteq Task
    /\ \A t \in DOMAIN memo :
          memo[t] \in Nat /\ Chain(t, memo[t]) /\ ~Chain(t, memo[t] + 1)
    /\ phase = "accepted" => DOMAIN memo = Task

SearchInv ==
    /\ SearchTypes /\ StackIsPath /\ LoopsAreExact /\ NoneIsMissed /\ FinishedIsAcyclic
    /\ VerdictsFollow /\ ReportedIsCycle

-----------------------------------------------------------------------------

\* The graph never changes.
LEMMA GraphIsFixed ==
    ASSUME dependsOn' = dependsOn
    PROVE  /\ \A t : Up(t)' = Up(t)
           /\ \A t : Down(t)' = Down(t)
           /\ EdgeErrors' = EdgeErrors
BY DEF Up, Down, EdgeErrors

\* A set that gains a finished task whose followers were all finished keeps a
\* last member.
LEMMA FinishKeepsLast ==
    ASSUME FinishedIsAcyclic, NEW w \in Task, w \notin black, Down(w) \subseteq black,
           NEW S \in SUBSET (black \cup {w}), S # {}
    PROVE  HasLast(S)
<1>1. CASE w \notin S
  BY <1>1 DEF FinishedIsAcyclic
<1>2. CASE w \in S /\ S \ {w} = {}
  <2>1. Down(w) \cap S = {}
    BY <1>2
  <2>2. QED
    BY <1>2, <2>1 DEF HasLast
<1>3. CASE w \in S /\ S \ {w} # {}
  <2>1. PICK t \in S \ {w} : Down(t) \cap (S \ {w}) = {}
    <3>1. S \ {w} \in SUBSET black
      OBVIOUS
    <3>2. QED
      BY <1>3, <3>1 DEF FinishedIsAcyclic, HasLast
  <2>2. w \notin Down(t)
    BY <2>1 DEF FinishedIsAcyclic
  <2>3. QED
    BY <2>1, <2>2 DEF HasLast
<1>4. QED
  BY <1>1, <1>2, <1>3

\* The shape of the stack after a call and after a return.
LEMMA StackShapes ==
    ASSUME stack \in Seq(Task), NEW v \in Task
    PROVE  /\ Len(stack) \in Nat /\ DOMAIN stack = 1 .. Len(stack)
           /\ \A i \in DOMAIN stack : stack[i] \in Task
           /\ Append(stack, v) \in Seq(Task)
           /\ Len(Append(stack, v)) = Len(stack) + 1
           /\ \A i \in 1 .. Len(stack) : Append(stack, v)[i] = stack[i]
           /\ Append(stack, v)[Len(stack) + 1] = v
           /\ stack # <<>> =>
                 /\ Len(stack) > 0 /\ Top = stack[Len(stack)] /\ Top \in Task
                 /\ SubSeq(stack, 1, Len(stack) - 1) \in Seq(Task)
                 /\ Len(SubSeq(stack, 1, Len(stack) - 1)) = Len(stack) - 1
                 /\ \A i \in 1 .. Len(stack) - 1 :
                       SubSeq(stack, 1, Len(stack) - 1)[i] = stack[i]
<1>1. /\ Len(stack) \in Nat /\ DOMAIN stack = 1 .. Len(stack)
      /\ \A i \in DOMAIN stack : stack[i] \in Task
  OBVIOUS
<1>2. /\ Append(stack, v) \in Seq(Task)
      /\ Len(Append(stack, v)) = Len(stack) + 1
      /\ \A i \in 1 .. Len(stack) : Append(stack, v)[i] = stack[i]
      /\ Append(stack, v)[Len(stack) + 1] = v
  BY <1>1
<1>3. ASSUME stack # <<>>
      PROVE  /\ Len(stack) > 0 /\ Top = stack[Len(stack)] /\ Top \in Task
             /\ SubSeq(stack, 1, Len(stack) - 1) \in Seq(Task)
             /\ Len(SubSeq(stack, 1, Len(stack) - 1)) = Len(stack) - 1
             /\ \A i \in 1 .. Len(stack) - 1 :
                   SubSeq(stack, 1, Len(stack) - 1)[i] = stack[i]
  <2>1. Len(stack) > 0
    BY <1>1, <1>3
  <2>2. Top = stack[Len(stack)] /\ Top \in Task
    BY <1>1, <2>1 DEF Top
  <2>3. QED
    BY <1>1, <2>1, <2>2, SubSeqProperties
<1>4. QED
  BY <1>1, <1>2, <1>3

-----------------------------------------------------------------------------
(* The search *)

\* The search starts with every task WHITE and every loop whole.
LEMMA SearchInit == Init => SearchInv
<1> SUFFICES ASSUME Init PROVE SearchInv
  OBVIOUS
<1>1. Gray = {} /\ White = Task
  BY DEF Init, Gray, White
<1>2. \A t \in Task : Down(t) \in SUBSET Task
  BY DEF Down
<1>3. SearchTypes /\ NoneIsMissed
  BY <1>1, <1>2 DEF Init, SearchTypes, NoneIsMissed, Roots, Graph
<1>4. StackIsPath
  BY DEF Init, StackIsPath
<1>5. LoopsAreExact
  BY <1>1, <1>2 DEF Init, LoopsAreExact
<1>6. FinishedIsAcyclic
  BY DEF Init, FinishedIsAcyclic
<1>7. "cycle_detected" \notin errors
  BY DEF Init, EdgeErrors
<1>8. VerdictsFollow /\ ReportedIsCycle
  BY <1>7 DEF Init, VerdictsFollow, ReportedIsCycle
<1>9. QED
  BY <1>3, <1>4, <1>5, <1>6, <1>8 DEF SearchInv

\* A step that leaves the graph and the search's stack alone.
LEMMA SearchIdle ==
    ASSUME SearchInv, UNCHANGED <<dependsOn, roots, stack, black, todo>>,
           VerdictsFollow', ReportedIsCycle'
    PROVE  SearchInv'
<1>1. Gray' = Gray /\ White' = White
  BY DEF Gray, White
<1>2. \A t : Down(t)' = Down(t)
  BY GraphIsFixed
<1>3. SearchTypes' /\ StackIsPath'
  BY <1>2 DEF SearchInv, SearchTypes, StackIsPath
<1>4. LoopsAreExact' /\ NoneIsMissed'
  BY <1>1, <1>2 DEF SearchInv, LoopsAreExact, NoneIsMissed
<1>5. FinishedIsAcyclic'
  BY <1>2 DEF SearchInv, FinishedIsAcyclic, HasLast
<1>6. QED
  BY <1>3, <1>4, <1>5 DEF SearchInv

\* The verdicts while the search goes on.
LEMMA SearchingVerdicts ==
    ASSUME SearchInv, phase = "cycle", UNCHANGED <<dependsOn, phase, errors>>
    PROVE  VerdictsFollow' /\ ReportedIsCycle'
<1>1. EdgeErrors' = EdgeErrors
  BY GraphIsFixed
<1>2. "cycle_detected" \notin errors'
  BY DEF SearchInv, VerdictsFollow
<1>3. QED
  BY <1>1, <1>2 DEF SearchInv, VerdictsFollow, ReportedIsCycle

\* The loop over order calls the search on a WHITE task.
LEMMA StartRootKeeps ==
    ASSUME SearchInv, NEW r \in Task, StartRoot(r)
    PROVE  SearchInv'
<1>1. /\ stack = <<>> /\ stack' = <<r>> /\ r \in White /\ roots' = roots \ {r}
      /\ UNCHANGED <<dependsOn, black, todo>>
  BY DEF StartRoot
<1>2. VerdictsFollow' /\ ReportedIsCycle'
  BY SearchingVerdicts DEF StartRoot
<1>3. Gray = {} /\ Gray' = {r} /\ White' = White \ {r}
  BY <1>1 DEF Gray, White
<1>4. \A t : Down(t)' = Down(t)
  BY <1>1, GraphIsFixed
<1>5. Len(stack') = 1 /\ DOMAIN stack' = {1} /\ stack'[1] = r /\ stack' \in Seq(Task)
  BY <1>1
<1>6. r \notin black /\ todo[r] = Down(r)
  BY <1>1 DEF White, SearchInv, LoopsAreExact
<1>7. SearchTypes'
  BY <1>1, <1>5 DEF SearchInv, SearchTypes
<1>8. StackIsPath'
  BY <1>1, <1>5, <1>6 DEF StackIsPath
<1>9. LoopsAreExact' /\ NoneIsMissed'
  BY <1>1, <1>3, <1>4, <1>5, <1>6 DEF SearchInv, LoopsAreExact, NoneIsMissed
<1>10. FinishedIsAcyclic'
  BY <1>1, <1>4 DEF SearchInv, FinishedIsAcyclic, HasLast
<1>11. QED
  BY <1>2, <1>7, <1>8, <1>9, <1>10 DEF SearchInv

\* The loop over order passes a task that is not WHITE.
LEMMA SkipRootKeeps ==
    ASSUME SearchInv, NEW r \in Task, SkipRoot(r)
    PROVE  SearchInv'
<1>1. /\ r \notin White /\ roots' = roots \ {r}
      /\ UNCHANGED <<dependsOn, stack, black, todo>>
  BY DEF SkipRoot
<1>2. VerdictsFollow' /\ ReportedIsCycle'
  BY SearchingVerdicts DEF SkipRoot
<1>3. White' = White
  BY <1>1 DEF Gray, White
<1>4. \A t : Down(t)' = Down(t)
  BY <1>1, GraphIsFixed
<1>5. SearchTypes' /\ StackIsPath' /\ FinishedIsAcyclic'
  BY <1>1, <1>4 DEF SearchInv, SearchTypes, StackIsPath, FinishedIsAcyclic, HasLast
<1>6. LoopsAreExact' /\ NoneIsMissed'
  BY <1>1, <1>3, <1>4 DEF SearchInv, LoopsAreExact, NoneIsMissed
<1>7. QED
  BY <1>2, <1>5, <1>6 DEF SearchInv

\* The search calls itself on a WHITE downstream task.
LEMMA DescendKeeps ==
    ASSUME SearchInv, NEW v \in Task, Descend(v)
    PROVE  SearchInv'
<1>n. PICK n \in Nat : n = Len(stack)
  BY DEF SearchInv, SearchTypes
<1>1. /\ stack # <<>> /\ v \in todo[Top] /\ v \in White
      /\ todo' = [todo EXCEPT ![Top] = @ \ {v}] /\ stack' = Append(stack, v)
      /\ UNCHANGED <<dependsOn, roots, black>>
  BY DEF Descend
<1>2. SearchTypes
  BY DEF SearchInv
<1>3. /\ n \in Nat /\ n > 0 /\ DOMAIN stack = 1 .. n /\ Top = stack[n] /\ Top \in Task
      /\ \A i \in 1 .. n : stack[i] \in Task
      /\ stack' \in Seq(Task) /\ Len(stack') = n + 1 /\ DOMAIN stack' = 1 .. n + 1
      /\ \A i \in 1 .. n : stack'[i] = stack[i]
      /\ stack'[n + 1] = v
  BY <1>n, <1>1, <1>2, StackShapes DEF SearchTypes
<1>4. VerdictsFollow' /\ ReportedIsCycle'
  BY SearchingVerdicts DEF Descend
<1>5. \A t : Down(t)' = Down(t)
  BY <1>1, GraphIsFixed
<1>6. v \notin black /\ \A i \in 1 .. n : stack[i] # v
  BY <1>1, <1>3 DEF White, Gray
<1>7. v \in Down(Top)
  BY <1>n, <1>1, <1>3 DEF SearchInv, LoopsAreExact
<1>8. White' = White \ {v}
  BY <1>1, <1>3 DEF White, Gray
<1>9. todo \in [Task -> SUBSET Task]
  BY <1>2 DEF SearchTypes
<1>10. SearchTypes'
  BY <1>1, <1>2, <1>3, <1>9 DEF SearchTypes
<1>11. StackIsPath'
  <2>1. StackIsPath
    BY DEF SearchInv
  <2>2. \A i, j \in 1 .. n + 1 : stack'[i] = stack'[j] => i = j
    BY <1>n, <1>3, <1>6, <2>1 DEF StackIsPath
  <2>3. \A i \in 1 .. n + 1 : stack'[i] \notin black
    BY <1>n, <1>3, <1>6, <2>1 DEF StackIsPath
  <2>4. \A i \in 1 .. n : stack'[i + 1] \in Down(stack'[i])
    <3> TAKE i \in 1 .. n
    <3>1. CASE i = n
      BY <1>3, <1>7, <3>1
    <3>2. CASE i # n
      <4>1. i \in 1 .. n - 1 /\ i \in 1 .. n /\ i + 1 \in 1 .. n
        BY <3>2
      <4>2. stack[i + 1] \in Down(stack[i])
        BY <1>n, <2>1, <4>1 DEF StackIsPath
      <4>3. QED
        BY <1>3, <4>1, <4>2
    <3>3. QED
      BY <3>1, <3>2
  <2>5. QED
    BY <1>n, <1>1, <1>3, <1>5, <2>2, <2>3, <2>4 DEF StackIsPath
<1>12. LoopsAreExact'
  <2>1. LoopsAreExact
    BY DEF SearchInv
  <2>2. \A t \in Task : todo'[t] = IF t = Top THEN todo[Top] \ {v} ELSE todo[t]
    BY <1>1, <1>9
  <2>3. \A t \in Task : todo'[t] \subseteq Down(t)
    BY <1>n, <2>1, <2>2 DEF LoopsAreExact
  <2>4. \A t \in White' : todo'[t] = Down(t)
    <3> TAKE t \in White'
    <3>1. t \in White /\ t \in Task /\ t # Top
      BY <1>3, <1>8 DEF White, Gray
    <3>2. QED
      BY <1>n, <2>1, <2>2, <3>1 DEF LoopsAreExact
  <2>5. ASSUME NEW i \in 1 .. n + 1, NEW u \in Down(stack'[i]) \ todo'[stack'[i]]
        PROVE  u \in black \/ (i < n + 1 /\ u = stack'[i + 1])
    <3>1. CASE i = n + 1
      <4>1. v \in White /\ v # Top /\ todo[v] = Down(v)
        BY <1>n, <1>1, <1>3, <1>6, <2>1 DEF LoopsAreExact
      <4>2. QED
        BY <1>3, <2>2, <2>5, <3>1, <4>1
    <3>2. CASE i = n
      <4>1. u \in Down(Top) /\ (u \notin todo[Top] \/ u = v)
        BY <1>3, <2>2, <2>5, <3>2
      <4>2. CASE u = v
        BY <1>3, <3>2, <4>2
      <4>3. CASE u \notin todo[Top]
        BY <1>n, <1>3, <2>1, <4>1, <4>3 DEF LoopsAreExact
      <4>4. QED
        BY <4>1, <4>2, <4>3
    <3>3. CASE i \in 1 .. n - 1
      <4>1. stack'[i] = stack[i] /\ stack[i] # Top /\ stack[i] \in Task
        BY <1>n, <1>3, <3>3 DEF SearchInv, StackIsPath
      <4>2. u \in Down(stack[i]) \ todo[stack[i]]
        BY <2>2, <2>5, <4>1
      <4>3. u \in black \/ u = stack[i + 1]
        BY <1>n, <1>3, <2>1, <3>3, <4>2 DEF LoopsAreExact
      <4>4. QED
        BY <1>3, <3>3, <4>3
    <3>4. i = n + 1 \/ i = n \/ i \in 1 .. n - 1
      OBVIOUS
    <3>5. QED
      BY <3>1, <3>2, <3>3, <3>4
  <2>6. QED
    BY <1>n, <1>1, <1>3, <1>5, <2>3, <2>4, <2>5 DEF LoopsAreExact
<1>13. FinishedIsAcyclic'
  BY <1>1, <1>5 DEF SearchInv, FinishedIsAcyclic, HasLast
<1>14. NoneIsMissed'
  BY <1>1, <1>8 DEF SearchInv, NoneIsMissed
<1>15. QED
  BY <1>4, <1>10, <1>11, <1>12, <1>13, <1>14 DEF SearchInv

\* The search passes a downstream task that is BLACK.
LEMMA SkipKeeps ==
    ASSUME SearchInv, NEW v \in Task, Skip(v)
    PROVE  SearchInv'
<1>1. /\ stack # <<>> /\ v \in todo[Top] /\ v \in black
      /\ todo' = [todo EXCEPT ![Top] = @ \ {v}]
      /\ UNCHANGED <<dependsOn, roots, stack, black>>
  BY DEF Skip
<1>2. todo \in [Task -> SUBSET Task]
  BY DEF SearchInv, SearchTypes
<1>3. Top \in Task /\ Top \notin White
  <2>1. Len(stack) \in DOMAIN stack /\ stack[Len(stack)] \in Task
    BY <1>1 DEF SearchInv, SearchTypes
  <2>2. QED
    BY <2>1 DEF Top, White, Gray
<1>4. VerdictsFollow' /\ ReportedIsCycle'
  BY SearchingVerdicts DEF Skip
<1>5. \A t : Down(t)' = Down(t)
  BY <1>1, GraphIsFixed
<1>6. White' = White
  BY <1>1 DEF White, Gray
<1>7. \A t \in Task : todo'[t] = IF t = Top THEN todo[Top] \ {v} ELSE todo[t]
  BY <1>1, <1>2
<1>8. SearchTypes'
  BY <1>1, <1>2, <1>3 DEF SearchInv, SearchTypes
<1>9. StackIsPath'
  BY <1>1, <1>5 DEF SearchInv, StackIsPath
<1>10. LoopsAreExact'
  <2>1. LoopsAreExact /\ \A j \in DOMAIN stack : stack[j] \in Task
    BY DEF SearchInv, SearchTypes
  <2>2. \A t \in Task : todo'[t] \subseteq Down(t)
    BY <1>7, <2>1 DEF LoopsAreExact
  <2>3. \A t \in White : todo'[t] = Down(t)
    BY <1>3, <1>7, <2>1 DEF LoopsAreExact, White
  <2>4. \A i \in DOMAIN stack : \A u \in Down(stack[i]) \ todo'[stack[i]] :
            u \in black \/ (i < Len(stack) /\ u = stack[i + 1])
    BY <1>1, <1>7, <2>1 DEF LoopsAreExact
  <2>5. QED
    BY <1>1, <1>5, <1>6, <2>2, <2>3, <2>4 DEF LoopsAreExact
<1>11. FinishedIsAcyclic'
  BY <1>1, <1>5 DEF SearchInv, FinishedIsAcyclic, HasLast
<1>12. NoneIsMissed'
  BY <1>1, <1>6 DEF SearchInv, NoneIsMissed
<1>13. QED
  BY <1>4, <1>8, <1>9, <1>10, <1>11, <1>12 DEF SearchInv

\* The search returns from a task: all it waited for is BLACK, so the task may be.
LEMMA FinishKeeps ==
    ASSUME SearchInv, Finish
    PROVE  SearchInv'
<1>n. PICK n \in Nat : n = Len(stack)
  BY DEF SearchInv, SearchTypes
<1>1. /\ stack # <<>> /\ todo[Top] = {}
      /\ stack' = SubSeq(stack, 1, Len(stack) - 1) /\ black' = black \cup {Top}
      /\ UNCHANGED <<dependsOn, roots, todo>>
  BY DEF Finish
<1>2. SearchTypes
  BY DEF SearchInv
<1>3. /\ n > 0 /\ DOMAIN stack = 1 .. n /\ Top = stack[n] /\ Top \in Task
      /\ \A i \in 1 .. n : stack[i] \in Task
      /\ stack' \in Seq(Task) /\ Len(stack') = n - 1 /\ DOMAIN stack' = 1 .. n - 1
      /\ \A i \in 1 .. n - 1 : stack'[i] = stack[i]
  BY <1>n, <1>1, <1>2, StackShapes DEF SearchTypes
<1>4. VerdictsFollow' /\ ReportedIsCycle'
  BY SearchingVerdicts DEF Finish
<1>5. \A t : Down(t)' = Down(t)
  BY <1>1, GraphIsFixed
<1>6. StackIsPath
  BY DEF SearchInv
<1>7. LoopsAreExact
  BY DEF SearchInv
<1>8. \A i \in 1 .. n - 1 : i \in 1 .. n /\ i # n
  OBVIOUS
<1>9. Top \notin black /\ \A i \in 1 .. n - 1 : stack[i] # Top
  BY <1>3, <1>6, <1>8 DEF StackIsPath
<1>10. Down(Top) \subseteq black
  <2>1. n \in DOMAIN stack /\ ~(n < n)
    BY <1>3
  <2>2. QED
    BY <1>n, <1>1, <1>3, <1>7, <2>1 DEF LoopsAreExact
<1>11. White' = White
  <2>1. Gray = {stack[i] : i \in 1 .. n - 1} \cup {Top}
    <3>1. 1 .. n = (1 .. n - 1) \cup {n}
      BY <1>3
    <3>2. QED
      BY <1>3, <3>1 DEF Gray
  <2>2. Gray' = {stack[i] : i \in 1 .. n - 1}
    BY <1>3 DEF Gray
  <2>3. QED
    BY <1>1, <2>1, <2>2 DEF White
<1>12. SearchTypes'
  BY <1>1, <1>2, <1>3 DEF SearchTypes
<1>13. StackIsPath'
  <2>1. \A i, j \in 1 .. n - 1 : stack'[i] = stack'[j] => i = j
    BY <1>3, <1>6, <1>8 DEF StackIsPath
  <2>2. \A i \in 1 .. n - 1 : stack'[i] \notin black'
    BY <1>1, <1>3, <1>6, <1>8, <1>9 DEF StackIsPath
  <2>3. \A i \in 1 .. (n - 1) - 1 : stack'[i + 1] \in Down(stack'[i])
    <3> TAKE i \in 1 .. (n - 1) - 1
    <3>1. i \in 1 .. n - 1 /\ i + 1 \in 1 .. n - 1
      OBVIOUS
    <3>2. stack[i + 1] \in Down(stack[i])
      BY <1>n, <1>6, <3>1 DEF StackIsPath
    <3>3. QED
      BY <1>3, <3>1, <3>2
  <2>4. QED
    BY <1>3, <1>5, <2>1, <2>2, <2>3 DEF StackIsPath
<1>14. LoopsAreExact'
  <2>1. ASSUME NEW i \in 1 .. n - 1, NEW u \in Down(stack'[i]) \ todo[stack'[i]]
        PROVE  u \in black' \/ (i < n - 1 /\ u = stack'[i + 1])
    <3>1. u \in black \/ u = stack[i + 1]
      BY <1>n, <1>3, <1>7, <1>8, <2>1 DEF LoopsAreExact
    <3>2. CASE i + 1 = n
      BY <1>1, <1>3, <3>1, <3>2
    <3>3. CASE i + 1 # n
      <4>1. i < n - 1 /\ i + 1 \in 1 .. n - 1
        BY <3>3
      <4>2. QED
        BY <1>1, <1>3, <3>1, <4>1
    <3>4. QED
      BY <3>2, <3>3
  <2>2. QED
    BY <1>1, <1>3, <1>5, <1>7, <1>11, <2>1 DEF LoopsAreExact
<1>15. FinishedIsAcyclic'
  <2>1. FinishedIsAcyclic
    BY DEF SearchInv
  <2>2. \A t \in black' : Down(t) \subseteq black'
    BY <1>1, <1>10, <2>1 DEF FinishedIsAcyclic
  <2>3. \A S \in SUBSET black' : S # {} => HasLast(S)
    BY <1>1, <1>3, <1>9, <1>10, <2>1, FinishKeepsLast
  <2>4. QED
    BY <1>5, <2>2, <2>3 DEF FinishedIsAcyclic, HasLast
<1>16. NoneIsMissed'
  BY <1>1, <1>11 DEF SearchInv, NoneIsMissed
<1>17. QED
  BY <1>4, <1>12, <1>13, <1>14, <1>15, <1>16 DEF SearchInv

\* What the back edge closes is a cycle.
LEMMA BackEdgeKeeps ==
    ASSUME SearchInv, NEW v \in Task, BackEdge(v)
    PROVE  SearchInv'
<1>n. PICK n \in Nat : n = Len(stack)
  BY DEF SearchInv, SearchTypes
<1>1. /\ phase = "cycle" /\ stack # <<>> /\ v \in todo[Top] /\ v \in Gray
      /\ found' = CycleTo(v) /\ errors' = errors \cup {"cycle_detected"}
      /\ phase' = "closure"
      /\ UNCHANGED <<dependsOn, roots, stack, black, todo>>
  BY DEF BackEdge, StartClosure
<1>2. /\ stack \in Seq(Task) /\ n > 0 /\ DOMAIN stack = 1 .. n
      /\ Top = stack[n] /\ Top \in Task
      /\ \A i \in 1 .. n : stack[i] \in Task
  BY <1>n, <1>1, StackShapes DEF SearchInv, SearchTypes
<1>3. PICK m \in 1 .. n : /\ stack[m] = v
                          /\ found' = Append(SubSeq(stack, m, n), v)
  <2>1. \E i \in DOMAIN stack : stack[i] = v
    BY <1>1 DEF Gray
  <2>2. QED
    BY <1>n, <1>1, <1>2, <2>1 DEF CycleTo
<1> DEFINE p == SubSeq(stack, m, n)
           k == n - m + 1
<1>4. /\ p \in Seq(Task) /\ Len(p) = k
      /\ \A i \in 1 .. k : p[i] = stack[m + i - 1]
  BY <1>2, SubSeqProperties
<1> HIDE DEF p
<1>5. k \in Nat /\ k >= 1
  OBVIOUS
<1>6. /\ Len(found') = k + 1
      /\ \A i \in 1 .. k : found'[i] = stack[m + i - 1]
      /\ found'[k + 1] = v
  BY <1>3, <1>4, <1>5 DEF p
<1>7. Len(found') > 1 /\ found'[1] = found'[Len(found')]
  <2>1. 1 \in 1 .. k /\ m + 1 - 1 = m
    BY <1>5
  <2>2. found'[1] = v
    BY <1>3, <1>6, <2>1
  <2>3. QED
    BY <1>5, <1>6, <2>2
<1>8. \A i \in 1 .. k : found'[i] \in dependsOn[found'[i + 1]]
  <2> TAKE i \in 1 .. k
  <2>1. \A t, u : u \in Down(t) => t \in dependsOn[u]
    BY DEF Down, Up
  <2>2. CASE i = k
    <3>1. m + i - 1 = n
      BY <2>2
    <3>2. found'[i] = Top /\ found'[i + 1] = v
      BY <1>2, <1>6, <2>2, <3>1
    <3>3. v \in Down(Top)
      BY <1>1, <1>2 DEF SearchInv, LoopsAreExact
    <3>4. QED
      BY <2>1, <3>2, <3>3
  <2>3. CASE i # k
    <3>1. i + 1 \in 1 .. k /\ m + i - 1 \in 1 .. n - 1 /\ m + (i + 1) - 1 = (m + i - 1) + 1
      BY <2>3
    <3>2. stack[(m + i - 1) + 1] \in Down(stack[m + i - 1])
      BY <1>n, <3>1 DEF SearchInv, StackIsPath
    <3>3. found'[i] = stack[m + i - 1] /\ found'[i + 1] = stack[(m + i - 1) + 1]
      BY <1>6, <3>1
    <3>4. QED
      BY <2>1, <3>2, <3>3
  <2>4. QED
    BY <2>2, <2>3
<1>9. ReportedIsCycle'
  <2>1. Len(found') - 1 = k
    BY <1>5, <1>6
  <2>2. QED
    BY <1>1, <1>7, <1>8, <2>1 DEF ReportedIsCycle
<1>10. VerdictsFollow'
  <2>1. EdgeErrors' = EdgeErrors /\ EdgeErrors \subseteq errors
    BY <1>1, GraphIsFixed DEF SearchInv, VerdictsFollow
  <2>2. QED
    BY <1>1, <2>1 DEF VerdictsFollow
<1>11. QED
  BY <1>1, <1>9, <1>10, SearchIdle

\* The loop over order ends: every task is BLACK.
LEMMA NoCycleKeeps ==
    ASSUME SearchInv, NoCycle
    PROVE  SearchInv'
<1>1. /\ stack = <<>> /\ White = {} /\ phase' = "closure"
      /\ UNCHANGED <<dependsOn, search, errors>>
  BY DEF NoCycle, StartClosure, SearchInv, NoneIsMissed
<1>2. Gray = {}
  BY <1>1 DEF Gray
<1>3. black = Task
  BY <1>1, <1>2 DEF White, SearchInv, SearchTypes
<1>4. VerdictsFollow'
  BY <1>1, <1>3, GraphIsFixed DEF SearchInv, VerdictsFollow, search
<1>5. ReportedIsCycle'
  BY <1>1 DEF SearchInv, ReportedIsCycle, search
<1>6. QED
  BY <1>1, <1>4, <1>5, SearchIdle DEF search

\* The passes after the search.
LEMMA LaterKeeps ==
    ASSUME SearchInv,
           (\E u \in Task : Collect(u) \/ Memoize(u)) \/ Judge \/ Ranked
    PROVE  SearchInv'
<1>1. UNCHANGED <<dependsOn, roots, stack, black, todo, found>>
  BY DEF Collect, Memoize, Judge, Ranked, search
<1>2. EdgeErrors' = EdgeErrors
  BY <1>1, GraphIsFixed
<1>3. VerdictsFollow' /\ ("cycle_detected" \in errors' => "cycle_detected" \in errors)
  <2>1. CASE \E u \in Task : Collect(u)
    BY <1>1, <1>2, <2>1 DEF Collect, SearchInv, VerdictsFollow
  <2>2. CASE Judge
    BY <1>1, <1>2, <2>2 DEF Judge, InputErrors, SearchInv, VerdictsFollow
  <2>3. CASE \E u \in Task : Memoize(u)
    BY <1>1, <1>2, <2>3 DEF Memoize, SearchInv, VerdictsFollow
  <2>4. CASE Ranked
    BY <1>1, <1>2, <2>4 DEF Ranked, SearchInv, VerdictsFollow
  <2>5. QED
    BY <2>1, <2>2, <2>3, <2>4
<1>4. ReportedIsCycle'
  BY <1>1, <1>3 DEF SearchInv, ReportedIsCycle
<1>5. QED
  BY <1>1, <1>3, <1>4, SearchIdle

\* The invariant of detectCycle holds on every graph: its stack is a path, its
\* loops pass only what is finished, and what is finished has no cycle.
THEOREM SearchInvariant == Spec => []SearchInv
<1>1. SearchInv /\ [Next]_vars => SearchInv'
  <2> SUFFICES ASSUME SearchInv, [Next]_vars PROVE SearchInv'
    OBVIOUS
  <2>1. CASE \E t \in Task :
               StartRoot(t) \/ SkipRoot(t) \/ Descend(t) \/ Skip(t) \/ BackEdge(t)
    BY <2>1, StartRootKeeps, SkipRootKeeps, DescendKeeps, SkipKeeps, BackEdgeKeeps
  <2>2. CASE Finish \/ NoCycle
    BY <2>2, FinishKeeps, NoCycleKeeps
  <2>3. CASE (\E u \in Task : Collect(u) \/ Memoize(u)) \/ Judge \/ Ranked
    BY <2>3, LaterKeeps
  <2>4. CASE UNCHANGED vars
    <3>1. /\ UNCHANGED <<dependsOn, roots, stack, black, todo, found, phase, errors>>
          /\ EdgeErrors' = EdgeErrors
      BY <2>4, GraphIsFixed DEF vars, search
    <3>2. VerdictsFollow' /\ ReportedIsCycle'
      BY <3>1 DEF SearchInv, VerdictsFollow, ReportedIsCycle
    <3>3. QED
      BY <3>1, <3>2, SearchIdle
  <2>5. QED
    BY <2>1, <2>2, <2>3, <2>4 DEF Next
<1>2. QED
  BY SearchInit, <1>1, PTL DEF Spec

\* detectCycle reports only paths that return to their start along
\* dependencies, on every graph.
THEOREM ReportedCycleIsReal == Spec => []ReportedIsCycle
<1>1. SearchInv => ReportedIsCycle
  BY DEF SearchInv
<1>2. QED
  BY SearchInvariant, <1>1, PTL

\* A spec that passes detectCycle and the self-dependency rule has no cycle of
\* any length, on every set of tasks.
THEOREM AcceptedSpecIsAcyclic == Spec => []AcceptedIsAcyclic
<1>1. SearchInv => AcceptedIsAcyclic
  <2> SUFFICES ASSUME SearchInv, phase \in {"depth", "accepted"},
                      NEW S \in SUBSET Task, S # {}
               PROVE  \E t \in S : \A v \in S : t \notin dependsOn[v]
    BY DEF AcceptedIsAcyclic, Acyclic
  <2>1. errors = {} /\ black = Task
    BY DEF SearchInv, VerdictsFollow
  <2>2. \A t \in Task : t \notin dependsOn[t]
    BY <2>1 DEF SearchInv, VerdictsFollow, EdgeErrors
  <2>3. PICK t \in S : Down(t) \cap S = {}
    BY <2>1 DEF SearchInv, FinishedIsAcyclic, HasLast
  <2>4. \A v \in S : t \notin dependsOn[v]
    BY <2>2, <2>3 DEF Down, Up
  <2>5. QED
    BY <2>4
<1>2. QED
  BY SearchInvariant, <1>1, PTL

-----------------------------------------------------------------------------
(* The closure *)

\* Nothing is collected before the closure is taken.
LEMMA ClosureInit == Init => ClosureInv
<1> SUFFICES ASSUME Init PROVE ClosureInv
  OBVIOUS
<1>1. errors \cap {"input_not_reachable", "output_not_declared"} = {}
  BY DEF Init, EdgeErrors
<1>2. QED
  BY <1>1 DEF Init, ClosureInv

\* A step of the search, and of the ranking, has no part in it.
LEMMA ClosureIdle ==
    ASSUME ClosureInv, UNCHANGED <<dependsOn, closure, errors>>,
           \/ phase' = phase
           \/ phase = "depth" /\ phase' = "accepted"
    PROVE  ClosureInv'
<1>1. \A t : Up(t)' = Up(t)
  BY GraphIsFixed
<1>2. InputErrors' = InputErrors
  BY DEF InputErrors, closure
<1>3. QED
  BY <1>1, <1>2 DEF ClosureInv, closure

\* The closure starts from the direct upstream tasks.
LEMMA ClosureStarts ==
    ASSUME ClosureInv, phase = "cycle", dependsOn' = dependsOn, StartClosure,
           errors' \subseteq errors \cup {"cycle_detected"}
    PROVE  ClosureInv'
<1>1. \A t : Up(t)' = Up(t)
  BY GraphIsFixed
<1>2. /\ seen' = {} /\ pending' = Up(input'[1]) /\ phase' = "closure"
      /\ input'[1] \in Task
  BY DEF StartClosure, ClosureInv
<1>3. Up(input'[1]) \in SUBSET Task
  BY DEF Up
<1>4. errors' \cap {"input_not_reachable", "output_not_declared"} = {}
  BY DEF ClosureInv
<1>5. QED
  BY <1>1, <1>2, <1>3, <1>4 DEF ClosureInv

\* Collecting a task makes its upstream tasks pending.
LEMMA CollectKeeps ==
    ASSUME ClosureInv, NEW u \in Task, Collect(u)
    PROVE  ClosureInv'
<1>1. \A t : Up(t)' = Up(t)
  BY GraphIsFixed DEF Collect
<1>2. /\ phase = "closure" /\ u \in pending
      /\ seen' = seen \cup {u} /\ pending' = (pending \cup Up(u)) \ seen'
      /\ UNCHANGED <<phase, input, errors>>
  BY DEF Collect
<1>3. seen' \cup pending' = seen \cup pending \cup Up(u)
  BY <1>2
<1>4. Up(u) \in SUBSET Task
  BY DEF Up
<1>5. seen' \in SUBSET Task /\ pending' \in SUBSET Task
  BY <1>2, <1>4 DEF ClosureInv
<1>6. Up(input[1]) \subseteq seen' \cup pending'
  BY <1>2, <1>3 DEF ClosureInv
<1>7. \A t \in seen' : Up(t) \subseteq seen' \cup pending'
  BY <1>2, <1>3 DEF ClosureInv
<1>8. ASSUME NEW S \in SUBSET Task, Up(input[1]) \subseteq S, \A t \in S : Up(t) \subseteq S
      PROVE  seen' \cup pending' \subseteq S
  <2>1. seen \cup pending \subseteq S
    BY <1>8 DEF ClosureInv
  <2>2. QED
    BY <1>2, <1>3, <1>8, <2>1
<1>9. QED
  BY <1>1, <1>2, <1>5, <1>6, <1>7, <1>8 DEF ClosureInv

\* With nothing pending what is collected is closed, and the verdict is read off it.
LEMMA JudgeKeeps ==
    ASSUME ClosureInv, Judge
    PROVE  ClosureInv'
<1>1. \A t : Up(t)' = Up(t)
  BY GraphIsFixed DEF Judge
<1>2. /\ phase = "closure" /\ pending = {} /\ errors' = errors \cup InputErrors
      /\ phase' \in {"depth", "rejected"}
      /\ UNCHANGED <<pending, seen, input>>
  BY DEF Judge, closure
<1>3. /\ errors' \cap {"input_not_reachable", "output_not_declared"} = InputErrors
      /\ InputErrors' = InputErrors
  BY <1>2 DEF InputErrors, ClosureInv
<1>4. QED
  BY <1>1, <1>2, <1>3 DEF ClosureInv

\* The input rule decides exactly, on every graph: cyclic ones and ones with
\* dangling dependencies too.
THEOREM InputVerdict == Spec => []InputVerdictIsExact
<1>1. ClosureInv /\ [Next]_vars => ClosureInv'
  <2> SUFFICES ASSUME ClosureInv, [Next]_vars PROVE ClosureInv'
    OBVIOUS
  <2>1. CASE \/ \E t \in Task :
                  StartRoot(t) \/ SkipRoot(t) \/ Descend(t) \/ Skip(t) \/ Memoize(t)
             \/ Finish \/ Ranked \/ UNCHANGED vars
    BY <2>1, ClosureIdle
       DEF StartRoot, SkipRoot, Descend, Skip, Finish, Memoize, Ranked, vars, closure
  <2>2. CASE (\E t \in Task : BackEdge(t)) \/ NoCycle
    BY <2>2, ClosureStarts DEF BackEdge, NoCycle
  <2>3. CASE (\E t \in Task : Collect(t)) \/ Judge
    BY <2>3, CollectKeeps, JudgeKeeps
  <2>4. QED
    BY <2>1, <2>2, <2>3 DEF Next
<1>2. ClosureInv => InputVerdictIsExact
  <2> SUFFICES ASSUME ClosureInv, phase \in {"depth", "accepted", "rejected"}
               PROVE  input[2] \notin seen <=> ~Upstream(input[2], input[1])
    BY DEF InputVerdictIsExact, ClosureInv, InputErrors
  <2>1. ASSUME input[2] \in seen PROVE Upstream(input[2], input[1])
    BY <2>1 DEF ClosureInv, Upstream
  <2>2. ASSUME Upstream(input[2], input[1]) PROVE input[2] \in seen
    BY <2>2 DEF ClosureInv, Upstream
  <2>3. QED
    BY <2>1, <2>2
<1>3. QED
  BY ClosureInit, <1>1, <1>2, PTL DEF Spec

-----------------------------------------------------------------------------
(* The depth *)

\* A chain from a task is the task and a chain from one that follows it.
LEMMA ChainShapes ==
    ASSUME NEW t \in Task, NEW n \in Nat
    PROVE  /\ Chain(t, 0)
           /\ \A v \in Down(t) : Chain(v, n) => Chain(t, n + 1)
           /\ Chain(t, n + 1) => \E v \in Down(t) : Chain(v, n)
<1>1. Chain(t, 0)
  <2> DEFINE c == [i \in 0 .. 0 |-> t]
  <2>1. c \in [0 .. 0 -> Task] /\ c[0] = t /\ \A i \in 1 .. 0 : c[i] \in Down(c[i - 1])
    OBVIOUS
  <2> HIDE DEF c
  <2>2. QED
    BY <2>1 DEF Chain
<1>2. ASSUME NEW v \in Down(t), Chain(v, n) PROVE Chain(t, n + 1)
  <2>1. PICK c \in [0 .. n -> Task] : c[0] = v /\ \A i \in 1 .. n : c[i] \in Down(c[i - 1])
    BY <1>2 DEF Chain
  <2> DEFINE d == [i \in 0 .. n + 1 |-> IF i = 0 THEN t ELSE c[i - 1]]
  <2>2. \A i \in 0 .. n + 1 : i # 0 => i - 1 \in 0 .. n
    OBVIOUS
  <2>3. d \in [0 .. n + 1 -> Task] /\ d[0] = t
    BY <2>2
  <2>4. \A i \in 1 .. n + 1 : d[i] \in Down(d[i - 1])
    <3> TAKE i \in 1 .. n + 1
    <3>1. i \in 0 .. n + 1 /\ i - 1 \in 0 .. n + 1 /\ d[i] = c[i - 1]
      OBVIOUS
    <3>2. CASE i = 1
      <4>1. d[i - 1] = t /\ d[i] = v
        BY <2>1, <3>1, <3>2
      <4>2. QED
        BY <4>1
    <3>3. CASE i # 1
      <4>1. i - 1 \in 1 .. n /\ d[i - 1] = c[(i - 1) - 1]
        BY <3>1, <3>3
      <4>2. QED
        BY <2>1, <3>1, <4>1
    <3>4. QED
      BY <3>2, <3>3
  <2> HIDE DEF d
  <2>5. QED
    BY <2>3, <2>4 DEF Chain
<1>3. ASSUME Chain(t, n + 1) PROVE \E v \in Down(t) : Chain(v, n)
  <2>1. PICK c \in [0 .. n + 1 -> Task] :
          c[0] = t /\ \A i \in 1 .. n + 1 : c[i] \in Down(c[i - 1])
    BY <1>3 DEF Chain
  <2> DEFINE d == [i \in 0 .. n |-> c[i + 1]]
  <2>2. d \in [0 .. n -> Task] /\ d[0] = c[1]
    OBVIOUS
  <2>3. \A i \in 1 .. n : d[i] \in Down(d[i - 1])
    <3> TAKE i \in 1 .. n
    <3>1. i + 1 \in 1 .. n + 1 /\ (i + 1) - 1 = i
      OBVIOUS
    <3>2. c[i + 1] \in Down(c[i])
      BY <2>1, <3>1
    <3>3. d[i] = c[i + 1] /\ d[i - 1] = c[i]
      OBVIOUS
    <3>4. QED
      BY <3>2, <3>3
  <2> HIDE DEF d
  <2>4. Chain(c[1], n)
    BY <2>2, <2>3 DEF Chain
  <2>5. 1 \in 1 .. n + 1 /\ 1 - 1 = 0
    OBVIOUS
  <2>6. c[1] \in Down(t)
    BY <2>1, <2>5
  <2>7. QED
    BY <2>4, <2>6
<1>4. QED
  BY <1>1, <1>2, <1>3

\* Prefixes of chains are chains.
LEMMA ChainPrefix ==
    ASSUME NEW v, NEW n \in Nat, NEW k \in 0 .. n, Chain(v, n)
    PROVE  Chain(v, k)
<1>1. PICK c \in [0 .. n -> Task] : c[0] = v /\ \A i \in 1 .. n : c[i] \in Down(c[i - 1])
  BY DEF Chain
<1> DEFINE d == [i \in 0 .. k |-> c[i]]
<1>2. d \in [0 .. k -> Task] /\ d[0] = v
  BY <1>1
<1>3. \A i \in 1 .. k : d[i] \in Down(d[i - 1])
  <2> TAKE i \in 1 .. k
  <2>1. i \in 1 .. n /\ d[i] = c[i] /\ d[i - 1] = c[i - 1]
    OBVIOUS
  <2>2. QED
    BY <1>1, <2>1
<1> HIDE DEF d
<1>4. QED
  BY <1>2, <1>3 DEF Chain

\* A task that others follow is followed by one of greatest depth.
LEMMA DeepestFollower ==
    ASSUME NEW D \in SUBSET Task, D # {}, \A v \in D : memo[v] \in Nat
    PROVE  \E v \in D : \A u \in D : memo[u] <= memo[v]
<1> DEFINE Deeper(v) == {u \in D : memo[u] > memo[v]}
           Family == {Deeper(v) : v \in D}
<1>1. PICK v \in D : \A u \in D : <<Deeper(u), Deeper(v)>> \notin StrictSubsetOrdering(Task)
  <2>1. IsWellFoundedOn(StrictSubsetOrdering(Task), SUBSET Task)
    BY FS_StrictSubsetOrderingWellFounded, FS_FiniteSubsetsOfFinite, TaskAssumption
  <2>2. Family \subseteq SUBSET Task /\ Family # {}
    OBVIOUS
  <2>3. \E A \in Family : \A B \in Family : <<B, A>> \notin StrictSubsetOrdering(Task)
    <3> HIDE DEF Family
    <3>1. QED
      BY <2>1, <2>2, WFMin
  <2>4. QED
    BY <2>3
<1>2. ASSUME NEW u \in D, ~(memo[u] <= memo[v]) PROVE FALSE
  <2>1. u \in Deeper(v) /\ u \notin Deeper(u)
    BY <1>2
  <2>2. Deeper(u) \subseteq Deeper(v)
    BY <1>2
  <2>3. Deeper(u) \subseteq Task /\ Deeper(v) \subseteq Task
    OBVIOUS
  <2> HIDE DEF Deeper
  <2>4. QED
    BY <1>1, <2>1, <2>2, <2>3 DEF StrictSubsetOrdering
<1>3. QED
  BY <1>2

\* With the depths of all that follow a task, its own is that of its longest chain.
LEMMA DepthIsRight ==
    ASSUME DepthInv, NEW t \in Task, Down(t) \subseteq DOMAIN memo
    PROVE  DepthOf(t) \in Nat /\ Chain(t, DepthOf(t)) /\ ~Chain(t, DepthOf(t) + 1)
<1>1. CASE Down(t) = {}
  <2>1. DepthOf(t) = 0
    BY <1>1 DEF DepthOf
  <2>2. Chain(t, 0) /\ (Chain(t, 0 + 1) => \E v \in Down(t) : Chain(v, 0))
    BY ChainShapes
  <2>3. QED
    BY <1>1, <2>1, <2>2
<1>2. CASE Down(t) # {}
  <2>1. \A v \in Down(t) :
          v \in Task /\ memo[v] \in Nat /\ Chain(v, memo[v]) /\ ~Chain(v, memo[v] + 1)
    BY DEF DepthInv
  <2>2. PICK w \in Down(t) : \A u \in Down(t) : memo[u] <= memo[w]
    <3>1. Down(t) \in SUBSET Task /\ \A v \in Down(t) : memo[v] \in Nat
      BY <2>1
    <3>2. QED
      BY <1>2, <3>1, DeepestFollower
  <2>3. DepthOf(t) = memo[w] + 1
    <3> DEFINE S == {memo[v] : v \in Down(t)}
    <3>1. memo[w] \in S /\ \A n \in S : n <= memo[w]
      BY <2>2
    <3>2. \A n \in S : n \in Nat
      BY <2>1
    <3>3. MaxOf(S) \in S /\ \A n \in S : n <= MaxOf(S)
      <4> HIDE DEF S
      <4>1. QED
        BY <3>1 DEF MaxOf
    <3>4. MaxOf(S) = memo[w]
      <4> HIDE DEF S
      <4>1. QED
        BY <3>1, <3>2, <3>3
    <3>5. QED
      BY <1>2, <2>1, <3>4 DEF DepthOf
  <2>4. Chain(t, DepthOf(t))
    BY <2>1, <2>3, ChainShapes
  <2>5. ASSUME Chain(t, DepthOf(t) + 1) PROVE FALSE
    <3>1. PICK u \in Down(t) : Chain(u, memo[w] + 1)
      <4>1. memo[w] + 1 \in Nat
        BY <2>1
      <4>2. QED
        BY <2>3, <2>5, <4>1, ChainShapes
    <3>2. memo[u] + 1 \in 0 .. memo[w] + 1 /\ memo[w] + 1 \in Nat
      BY <2>1, <2>2
    <3>3. Chain(u, memo[u] + 1)
      BY <3>1, <3>2, ChainPrefix
    <3>4. QED
      BY <2>1, <3>3
  <2>6. QED
    BY <2>1, <2>3, <2>4, <2>5
<1>3. QED
  BY <1>1, <1>2

\* The graph stays, and with it every chain.
LEMMA ChainsStay ==
    ASSUME dependsOn' = dependsOn, memo' = memo, DepthInv,
           phase' = "accepted" => phase = "accepted" \/ DOMAIN memo = Task
    PROVE  DepthInv'
BY GraphIsFixed DEF DepthInv, Chain

\* Memoizing one more task.
LEMMA MemoizeKeeps ==
    ASSUME DepthInv, NEW t \in Task, Memoize(t)
    PROVE  DepthInv'
<1>1. /\ phase = "depth" /\ phase' = phase /\ dependsOn' = dependsOn
      /\ memo' = [v \in DOMAIN memo \cup {t} |-> IF v = t THEN DepthOf(t) ELSE memo[v]]
      /\ Down(t) \subseteq DOMAIN memo
  BY DEF Memoize
<1>2. DOMAIN memo' = DOMAIN memo \cup {t} /\ DOMAIN memo' \subseteq Task
  BY <1>1 DEF DepthInv
<1>3. \A v \in DOMAIN memo' : memo'[v] \in Nat /\ Chain(v, memo'[v]) /\ ~Chain(v, memo'[v] + 1)
  <2> TAKE v \in DOMAIN memo'
  <2>1. CASE v = t
    <3>1. memo'[v] = DepthOf(t)
      BY <1>1, <2>1
    <3>2. QED
      BY <1>1, <2>1, <3>1, DepthIsRight
  <2>2. CASE v # t
    <3>1. v \in DOMAIN memo /\ memo'[v] = memo[v]
      BY <1>1, <2>2
    <3>2. QED
      BY <3>1 DEF DepthInv
  <2>3. QED
    BY <2>1, <2>2
<1>4. \A v, n : Chain(v, n)' <=> Chain(v, n)
  BY <1>1, GraphIsFixed DEF Chain
<1>5. QED
  BY <1>1, <1>2, <1>3, <1>4 DEF DepthInv

\* The memo holds the lengths of longest chains at every point of the recursion.
THEOREM DepthInvariant == Spec => []DepthInv
<1>1. Init => DepthInv
  <2> SUFFICES ASSUME Init PROVE DepthInv
    OBVIOUS
  <2>1. memo = <<>> /\ phase = "cycle"
    BY DEF Init
  <2>2. DOMAIN memo = {}
    BY <2>1
  <2>3. QED
    BY <2>1, <2>2 DEF DepthInv
<1>2. DepthInv /\ [Next]_vars => DepthInv'
  <2> SUFFICES ASSUME DepthInv, [Next]_vars PROVE DepthInv'
    OBVIOUS
  <2>1. CASE \/ \E t \in Task : \/ StartRoot(t) \/ SkipRoot(t) \/ Descend(t) \/ Skip(t)
                                \/ BackEdge(t) \/ Collect(t)
             \/ Finish \/ NoCycle \/ Judge \/ UNCHANGED vars
    BY <2>1, ChainsStay
       DEF StartRoot, SkipRoot, Descend, Skip, BackEdge, Collect, Finish, NoCycle, Judge, StartClosure, vars
  <2>2. CASE \E t \in Task : Memoize(t)
    BY <2>2, MemoizeKeeps
  <2>3. CASE Ranked
    BY <2>3, ChainsStay DEF Ranked
  <2>4. QED
    BY <2>1, <2>2, <2>3 DEF Next
<1>3. QED
  BY <1>1, <1>2, PTL DEF Spec

\* The depth a task is ranked by is its longest chain to a leaf, on every
\* accepted graph and in whatever order the recursion meets the tasks.
THEOREM RankIsLongestChain == Spec => []DepthIsLongestChain
<1>1. DepthInv => DepthIsLongestChain
  BY DEF DepthInv, DepthIsLongestChain
<1>2. QED
  BY DepthInvariant, <1>1, PTL

\* The memoized depth has no mark for a task it is still computing, and needs
\* none: while a task has no depth, one of them waits for no other, so on an
\* accepted graph the recursion always comes back.
THEOREM RankingNeverStalls ==
    Spec => [](phase = "depth" /\ DOMAIN memo # Task =>
                 \E t \in Task \ DOMAIN memo : Down(t) \subseteq DOMAIN memo)
<1>1. SearchInv /\ DepthInv =>
        (phase = "depth" /\ DOMAIN memo # Task =>
            \E t \in Task \ DOMAIN memo : Down(t) \subseteq DOMAIN memo)
  <2> SUFFICES ASSUME SearchInv, DepthInv, phase = "depth", DOMAIN memo # Task
               PROVE  \E t \in Task \ DOMAIN memo : Down(t) \subseteq DOMAIN memo
    OBVIOUS
  <2> DEFINE Rest == Task \ DOMAIN memo
  <2>1. black = Task
    BY DEF SearchInv, VerdictsFollow
  <2>2. Rest \in SUBSET black /\ Rest # {}
    BY <2>1 DEF DepthInv
  <2>3. PICK t \in Rest : Down(t) \cap Rest = {}
    <3> HIDE DEF Rest
    <3>1. QED
      BY <2>2 DEF SearchInv, FinishedIsAcyclic, HasLast
  <2>4. Down(t) \subseteq Task
    BY DEF Down
  <2>5. QED
    BY <2>3, <2>4
<1>2. QED
  BY <1>1, SearchInvariant, DepthInvariant, PTL
=============================================================================
