----------------------------- MODULE SpecGraph ------------------------------
(***************************************************************************)
(* What lib/spec-validate.js makes of the dependency graph of a spec, and   *)
(* lib/critical-path.js of a graph that was accepted: detectCycle's three   *)
(* colour search, upstreamClosure behind the input and gate rules, and the  *)
(* memoized depth that ranks the ready queue.                               *)
(*                                                                          *)
(* Tasks stand for distinct ids (a spec that repeats one is refused); a     *)
(* dependency may name the task itself or no task at all.  The searches     *)
(* take the arrays they walk in any order.  The document has one input,     *)
(* chosen when the closure of its reader is taken; dangling and cyclic      *)
(* dependencies do not stop that, for the errors are collected.             *)
(***************************************************************************)
EXTENDS Integers, Sequences, FiniteSets

CONSTANTS
    Task,       \* the task ids of the spec
    Unknown     \* an id that names no task

ASSUME UnknownAssumption == Unknown \notin Task

\* A spec lists its tasks.
ASSUME TaskAssumption == IsFiniteSet(Task)

VARIABLES
    dependsOn,  \* task -> the ids it depends on, as written
    phase,      \* "cycle", "closure", "depth", then "accepted" or "rejected"
    roots,      \* detectCycle: the tasks its loop over order has left
    stack,      \* detectCycle: the tasks in GRAY, as the recursion entered them
    black,      \* detectCycle: the tasks in BLACK
    todo,       \* detectCycle: task -> the downstream tasks its loop has left
    found,      \* detectCycle: the cycle it reports, <<>> for none
    pending,    \* upstreamClosure: its stack
    seen,       \* upstreamClosure: what it has collected
    input,      \* the task with the input, the producer the input names, and
                \* whether that declares the output it names; <<>> before
    errors,     \* the codes collected
    memo        \* criticalPathDepth: task -> depth, for those computed

search == <<roots, stack, black, todo, found>>
closure == <<pending, seen, input>>
vars == <<dependsOn, phase, search, closure, errors, memo>>

\* The graph the searches walk: unknown ids and self dependencies left out.
Up(t) == (dependsOn[t] \cap Task) \ {t}
Down(t) == {v \in Task : t \in Up(v)}

Gray == {stack[i] : i \in DOMAIN stack}
White == Task \ (Gray \cup black)
Top == stack[Len(stack)]

\* Dependency existence and self-reference, edge by edge.
EdgeErrors ==
    {"self_dependency" : t \in {u \in Task : u \in dependsOn[u]}}
      \cup {"unknown_dependency" : t \in {u \in Task : Unknown \in dependsOn[u]}}

\* Mutant: the search starts only from tasks that depend on nothing.
Roots_Sources == {t \in Task : Up(t) = {}}

\* order: every task of the spec.
Roots == Task

Init ==
    /\ dependsOn \in [Task -> SUBSET (Task \cup {Unknown})]
    /\ phase = "cycle"
    /\ roots = Roots /\ stack = <<>> /\ black = {} /\ found = <<>>
    /\ todo = [t \in Task |-> Down(t)]
    /\ pending = {} /\ seen = {}
    /\ input = <<>>
    /\ errors = EdgeErrors /\ memo = <<>>

-----------------------------------------------------------------------------
(* detectCycle *)

\* The loop over order calls the search on a task that is still WHITE, and
\* passes the others.
StartRoot(t) ==
    /\ phase = "cycle" /\ stack = <<>>
    /\ t \in roots \cap White
    /\ roots' = roots \ {t}
    /\ stack' = <<t>>
    /\ UNCHANGED <<dependsOn, phase, black, todo, found, closure, errors, memo>>

SkipRoot(t) ==
    /\ phase = "cycle" /\ stack = <<>>
    /\ t \in roots \ White
    /\ roots' = roots \ {t}
    /\ UNCHANGED <<dependsOn, phase, stack, black, todo, found, closure, errors, memo>>

\* Mutant: the path starts after the task the back edge leads to.
CycleTo_AfterStart(v) ==
    LET start == CHOOSE i \in DOMAIN stack : stack[i] = v
    IN  Append(SubSeq(stack, start + 1, Len(stack)), v)

\* v ... u v for a back edge u -> v.
CycleTo(v) ==
    LET start == CHOOSE i \in DOMAIN stack : stack[i] = v
    IN  Append(SubSeq(stack, start, Len(stack)), v)

\* The next downstream task v of the task on top is WHITE, BLACK or GRAY.
Descend(v) ==
    /\ phase = "cycle" /\ stack # <<>>
    /\ v \in todo[Top] \cap White
    /\ todo' = [todo EXCEPT ![Top] = @ \ {v}]
    /\ stack' = Append(stack, v)
    /\ UNCHANGED <<dependsOn, phase, roots, black, found, closure, errors, memo>>

Skip(v) ==
    /\ phase = "cycle" /\ stack # <<>>
    /\ v \in todo[Top] \cap black
    /\ todo' = [todo EXCEPT ![Top] = @ \ {v}]
    /\ UNCHANGED <<dependsOn, phase, roots, stack, black, found, closure, errors, memo>>

\* The loop over the inputs.  upstreamClosure starts from the direct upstream
\* tasks of the reader.
StartClosure ==
    /\ input' \in Task \X (Task \cup {Unknown}) \X BOOLEAN
    /\ pending' = Up(input'[1])
    /\ phase' = "closure" /\ UNCHANGED seen

BackEdge(v) ==
    /\ phase = "cycle" /\ stack # <<>>
    /\ v \in todo[Top] \cap Gray
    /\ found' = CycleTo(v)
    /\ errors' = errors \cup {"cycle_detected"}
    /\ StartClosure
    /\ UNCHANGED <<dependsOn, roots, stack, black, todo, memo>>

Finish ==
    /\ phase = "cycle" /\ stack # <<>>
    /\ todo[Top] = {}
    /\ stack' = SubSeq(stack, 1, Len(stack) - 1)
    /\ black' = black \cup {Top}
    /\ UNCHANGED <<dependsOn, phase, roots, todo, found, closure, errors, memo>>

NoCycle ==
    /\ phase = "cycle" /\ stack = <<>> /\ roots = {}
    /\ StartClosure
    /\ UNCHANGED <<dependsOn, search, errors, memo>>

-----------------------------------------------------------------------------
(* upstreamClosure, and the input rule that reads it *)

\* Mutant: only the direct upstream tasks are collected.
Collect_Direct(u) ==
    /\ phase = "closure" /\ u \in pending
    /\ seen' = seen \cup {u}
    /\ pending' = pending \ {u}
    /\ UNCHANGED <<dependsOn, phase, search, input, errors, memo>>

\* Mutant: the closure does not ask whether it has met a task before.
Collect_Again(u) ==
    /\ phase = "closure" /\ u \in pending
    /\ seen' = seen \cup {u}
    /\ pending' = (pending \ {u}) \cup Up(u)
    /\ UNCHANGED <<dependsOn, phase, search, input, errors, memo>>

Collect(u) ==
    /\ phase = "closure" /\ u \in pending
    /\ seen' = seen \cup {u}
    /\ pending' = (pending \cup Up(u)) \ seen'
    /\ UNCHANGED <<dependsOn, phase, search, input, errors, memo>>

\* An unknown producer, a name it does not declare, one that is not upstream.
InputErrors ==
    IF input[2] \in Task /\ ~input[3] THEN {"output_not_declared"}
    ELSE IF input[2] \in seen THEN {} ELSE {"input_not_reachable"}

\* validateSpec: any error refuses the spec.
Judge ==
    /\ phase = "closure" /\ pending = {}
    /\ errors' = errors \cup InputErrors
    /\ phase' = IF errors' = {} THEN "depth" ELSE "rejected"
    /\ UNCHANGED <<dependsOn, search, closure, memo>>

-----------------------------------------------------------------------------
(* criticalPathDepth of an accepted spec *)

MaxOf(S) == CHOOSE m \in S : \A n \in S : n <= m

\* Mutant: the shortest chain.
DepthOf_Shortest(t) ==
    IF Down(t) = {} THEN 0
    ELSE 1 + (CHOOSE m \in {memo[v] : v \in Down(t)} : \A v \in Down(t) : m <= memo[v])

DepthOf(t) == IF Down(t) = {} THEN 0 ELSE 1 + MaxOf({memo[v] : v \in Down(t)})

\* The recursion returns from a task once it has returned from all below it.
Memoize(t) ==
    /\ phase = "depth" /\ t \notin DOMAIN memo
    /\ Down(t) \subseteq DOMAIN memo
    /\ memo' = [v \in DOMAIN memo \cup {t} |-> IF v = t THEN DepthOf(t) ELSE memo[v]]
    /\ UNCHANGED <<dependsOn, phase, search, closure, errors>>

Ranked ==
    /\ phase = "depth" /\ DOMAIN memo = Task
    /\ phase' = "accepted"
    /\ UNCHANGED <<dependsOn, search, closure, errors, memo>>

Next ==
    \/ \E t \in Task : StartRoot(t) \/ SkipRoot(t) \/ Descend(t) \/ Skip(t) \/ BackEdge(t)
    \/ Finish \/ NoCycle
    \/ \E t \in Task : Collect(t)
    \/ Judge
    \/ \E t \in Task : Memoize(t)
    \/ Ranked

Spec == Init /\ [][Next]_vars

\* The passes run to their end in one turn of the event loop.
FairSpec == Spec /\ WF_vars(Next)

-----------------------------------------------------------------------------
(* Properties *)

\* Every set of tasks has one that no other of the set waits for.
Acyclic ==
    \A S \in SUBSET Task : S # {} =>
        \E t \in S : \A v \in S : t \notin dependsOn[v]

\* detectCycle and the self-dependency rule together: a spec that goes on to
\* be ranked and run has no cycle of any length, though the search itself never
\* looks at a self dependency.  Readiness and the depth recursion rely on it.
AcceptedIsAcyclic == phase \in {"depth", "accepted"} => Acyclic

\* detectCycle reports only real cycles, and the path it reports is one: it
\* returns to its first task along dependencies.
ReportedIsCycle ==
    "cycle_detected" \in errors =>
        /\ Len(found) > 1 /\ found[1] = found[Len(found)]
        /\ \A i \in 1 .. Len(found) - 1 : found[i] \in dependsOn[found[i + 1]]

\* p is upstream of t: in every set with t's dependencies that is closed under
\* dependency.
Upstream(p, t) ==
    \A S \in SUBSET Task : Up(t) \subseteq S /\ (\A u \in S : Up(u) \subseteq S) => p \in S

\* upstreamClosure: an input passes exactly when its producer declares what it
\* names and is a direct or transitive upstream of its reader, cycles or not; one
\* that is not upstream is called unreachable unless its name is undeclared, too.
InputVerdictIsExact ==
    phase \in {"depth", "accepted", "rejected"} =>
        LET undeclared == input[2] \in Task /\ ~input[3] IN
        /\ "output_not_declared" \in errors <=> undeclared
        /\ "input_not_reachable" \in errors <=>
              ~undeclared /\ ~Upstream(input[2], input[1])

\* A chain of n steps downstream from t.
Chain(t, n) ==
    \E c \in [0 .. n -> Task] : c[0] = t /\ \A i \in 1 .. n : c[i] \in Down(c[i - 1])

\* criticalPathDepth: the depth a task is ranked by is its longest chain to a
\* leaf, whatever order the memoized recursion meets the tasks in.
DepthIsLongestChain ==
    phase = "accepted" =>
        \A t \in Task : Chain(t, memo[t]) /\ ~Chain(t, memo[t] + 1)

\* Validation and ranking end for every graph: the closure, which is taken on
\* cyclic graphs too, comes to an end, and the depth recursion never enters a
\* task it is still computing.
PlanningEnds == <>(phase \in {"accepted", "rejected"})
=============================================================================
