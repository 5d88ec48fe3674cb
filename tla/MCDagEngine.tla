---------------------------- MODULE MCDagEngine -----------------------------
(***************************************************************************)
(* Instances of DagEngine: small graphs, each with the features one         *)
(* question needs.                                                          *)
(***************************************************************************)
EXTENDS DagEngine, TLC

CONSTANTS a, b, c, g, m, tickA, tickB, timer, key

On(u) == [up |-> u, cond |-> "succeeded", gate |-> "none"]
After(u) == [up |-> u, cond |-> "completed", gate |-> "none"]

\* Two overlapping ticks are the same but for their names.
TickSymmetry == Permutations(TickPass)

NoInputs == [t \in Task |-> {}]
NoOutputs == [t \in Task |-> {}]
RetryAll == [t \in Task |-> {}]
Once == [t \in Task |-> 1]
NoKeys == [t \in Task |-> NoKey]
SamePriority == [t \in Task |-> 0]

\* Two independent agents.
PairTask == {a, b}
PairKind == [t \in PairTask |-> "agent"]
PairDeps == [t \in PairTask |-> <<>>]
PairRank == [t \in PairTask |-> IF t = a THEN 1 ELSE 2]
FirstTwice == [t \in Task |-> IF t = a THEN 2 ELSE 1]

\* A chain: an agent, the merge of its worktree, an agent after the merge.
ChainTask == {a, m, c}
ChainKind == [t \in ChainTask |-> IF t = m THEN "merge" ELSE "agent"]
ChainDeps == [t \in ChainTask |-> CASE t = a -> <<>>
                                    [] t = m -> <<On(a)>>
                                    [] t = c -> <<On(m)>>]
ChainRank == [t \in ChainTask |-> CASE t = a -> 1 [] t = c -> 2 [] t = m -> 3]

\* A consumer that runs after its producer has ended, however it ended.
ReaderDeps == [t \in PairTask |-> IF t = b THEN <<After(a)>> ELSE <<>>]
ReaderInputs == [t \in PairTask |-> IF t = b THEN {a} ELSE {}]
ReaderProduces == [t \in PairTask |-> IF t = a THEN {"unrelated"} ELSE {}]

\* An approval between two agents, and a third agent beside them that shares
\* the first one's key.
GateTask == {a, g, b, c}
GateKind == [t \in GateTask |-> IF t = g THEN "approval" ELSE "agent"]
GateDeps == [t \in GateTask |-> CASE t = g -> <<On(a)>>
                                   [] t = b -> <<On(g)>>
                                   [] OTHER -> <<>>]
GateKeys == [t \in GateTask |-> IF t \in {a, c} THEN key ELSE NoKey]
GateRank == [t \in GateTask |-> CASE t = a -> 1 [] t = b -> 2 [] t = c -> 3 [] t = g -> 4]
GatePriority == [t \in GateTask |-> CASE t = a -> 0 [] t = g -> 1 [] OTHER -> 2]

\* Every kind of task and of transaction: an agent, the merge of its worktree,
\* which reads its output, and an approval after the merge.
MixedTask == {a, m, g}
MixedKind == [t \in MixedTask |-> CASE t = a -> "agent" [] t = m -> "merge" [] t = g -> "approval"]
MixedDeps == [t \in MixedTask |-> CASE t = a -> <<>>
                                     [] t = m -> <<On(a)>>
                                     [] t = g -> <<After(m)>>]
MixedInputs == [t \in MixedTask |-> IF t = m THEN {a} ELSE {}]
MixedProduces == [t \in MixedTask |-> IF t = a THEN {"unrelated"} ELSE {}]
\* The merge has a retry policy too; the spec validator caps an approval at one.
MixedTwice == [t \in MixedTask |-> IF t = g THEN 1 ELSE 2]
MixedRank == [t \in MixedTask |-> CASE t = a -> 1 [] t = m -> 2 [] t = g -> 3]
=============================================================================
