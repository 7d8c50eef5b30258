----------------------------- MODULE MCStageModel -----------------------------
(***************************************************************************)
(* StageModel on the flows of a fat tree with four pods: pairs of hosts in *)
(* different pods, in one pod and at one edge switch.                      *)
(***************************************************************************)
EXTENDS StageModel, SequencesExt

Tree == INSTANCE FatTree WITH K <- 4

FarPair == <<0, 4>>
PodPair == <<0, 2>>
EdgePair == <<5, 4>>
Pairs == {FarPair, PodPair, EdgePair}

TreeSplits ==
  [pair \in Pairs |-> SetToSeq(Tree!FlowSplits(Tree!HostOf(pair[1]), Tree!HostOf(pair[2])))]

TreeQueues ==
  UNION {UNION {{TreeSplits[pair][i][k] : k \in 0..5} : i \in 1..Len(TreeSplits[pair])} :
           pair \in Pairs} \ {Tree!NotUsed}

TreeStageOf ==
  [q \in TreeQueues |-> CHOOSE k \in 0..5 : Tree!StageType[k] = Tree!QueueType(q)]

TreeNoQueue == Tree!NotUsed

Line(sim, pair) == [sim |-> sim, pair |-> pair]

\* A host is not a flow's client and server: the model knows no such pair.
WindowFiles ==
  { <<>>,
    <<Line(1, FarPair), Line(2, PodPair)>>,
    <<Line(1, EdgePair), Line(2, <<3, 3>>), Line(3, FarPair), Line(4, EdgePair)>> }

===============================================================================
