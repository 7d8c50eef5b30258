---------------------------- MODULE MCFlowMonitor -----------------------------
(***************************************************************************)
(* Instances of FlowMonitor for TLC: two ECMP paths that part after the    *)
(* first hop and meet again at the last one.                               *)
(***************************************************************************)
EXTENDS FlowMonitor

CONSTANTS p1, p2, p3, f1, f2, host, aggr1, aggr2, edge

TwoPackets == {p1, p2}
ThreePackets == {p1, p2, p3}
OneFlow == {f1}
TwoFlows == {f1, f2}
SameFlow == [p \in Packets |-> f1]
LastDiffers == [p \in Packets |-> IF p = p3 THEN f2 ELSE f1]
EcmpPaths == [f \in Flows |-> {<<host, aggr1, edge>>, <<host, aggr2, edge>>}]
ShortPaths == [f \in Flows |-> {<<host, edge>>}]

===============================================================================
