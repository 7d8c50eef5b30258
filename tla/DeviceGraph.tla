------------------------------ MODULE DeviceGraph ------------------------------
(***************************************************************************)
(* What the trees of the analytical model share (auto_oop/util.h): devices *)
(* with their output queues, and flow splits.  A queue is the pair of its  *)
(* device and its local queue id.  A split is a function from the stages   *)
(* 0..5 to queues; a stage its path does not use is NotUsed (-1).          *)
(***************************************************************************)
EXTENDS Integers, Sequences

Device(type, pod, local) == [type |-> type, pod |-> pod, local |-> local]

\* A host has one queue, a switch of K ports has K.
PortsOf(d, K) == {<<d, n>> : n \in 0..(IF d.type = "host" THEN 0 ELSE K - 1)}

\* Mutant: the hosts' ports count from 1.
HostPortOne(h) == <<h, 1>>

HostPort(h) == <<h, 0>>

NotUsed == <<>>
NoneUsed == [k \in 0..5 |-> NotUsed]

\* The type of queue that the calculation of each stage serves.
StageType ==
  [k \in 0..5 |-> <<"host_up", "edge_up", "aggr_up", "core_down", "aggr_down",
                    "edge_down">>[k + 1]]

\* The queues of a split in the order of its stages.
Used(q) == IF q = NotUsed THEN <<>> ELSE <<q>>
Path(split) ==
  Used(split[0]) \o Used(split[1]) \o Used(split[2])
    \o Used(split[3]) \o Used(split[4]) \o Used(split[5])

===============================================================================
