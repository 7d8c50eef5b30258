-------------------------------- MODULE Routing -------------------------------
(***************************************************************************)
(* The all-to-all routing table of the analytical model: main.cpp creates  *)
(* one of the two trees and links it, and route() walks through all pairs  *)
(* of hosts and pushes a flow with its splits for each.                    *)
(***************************************************************************)
EXTENDS Integers, Sequences, FiniteSets, DeviceGraph

CONSTANT Trees      (* What a user may ask for: [topology, K] and, for a   *)
                    (* two-level tree, the number N of its hosts.          *)

ASSUME TreesAssumption ==
  \A t \in Trees :
    /\ t.K \in Nat \ {0} /\ t.K % 2 = 0
    /\ t.topology = "L2custom" => t.N \in Nat

L3(K) == INSTANCE FatTree
L2(K, N) == INSTANCE TreeL2Custom

VARIABLES
  tree,         (* the tree of this run                                    *)
  client,       (* the client of the pair route() looks at                 *)
  server,       (* and its server                                          *)
  flow,         (* the last flow route() pushed: id, pair, set of splits   *)
  count_flow,
  count_flow_split

vars == <<tree, client, server, flow, count_flow, count_flow_split>>

-------------------------------------------------------------------------------

\* Any other name stands for the fat tree, the "L2Custom" of the help text, too.
ThreeLevels == tree.topology # "L2custom"

Devices == IF ThreeLevels THEN L3(tree.K)!Devices ELSE L2(tree.K, tree.N)!Devices
Ports(d) == PortsOf(d, tree.K)
OutputQueues == UNION {Ports(d) : d \in Devices}

NextDevice(q) ==
  IF ThreeLevels THEN L3(tree.K)!NextDevice(q) ELSE L2(tree.K, tree.N)!NextDevice(q)

QueueType(q) ==
  IF ThreeLevels THEN L3(tree.K)!QueueType(q) ELSE L2(tree.K, tree.N)!QueueType(q)

FlowSplits(c, s) ==
  IF ThreeLevels THEN L3(tree.K)!FlowSplits(c, s) ELSE L2(tree.K, tree.N)!FlowSplits(c, s)

NumHosts == IF ThreeLevels THEN L3(tree.K)!NumHosts ELSE L2(tree.K, tree.N)!NumHosts
HostOf(id) == IF ThreeLevels THEN L3(tree.K)!HostOf(id) ELSE L2(tree.K, tree.N)!HostOf(id)

NoFlow == [flowId |-> -1, clientId |-> -1, serverId |-> -1, splits |-> {}]

Init ==
  /\ tree \in Trees
  /\ client = 0 /\ server = 0
  /\ flow = NoFlow
  /\ count_flow = 0 /\ count_flow_split = 0

\* The program ends in create() or link() unless the tree can be linked.
Linked == IF ThreeLevels THEN TRUE ELSE L2(tree.K, tree.N)!Linked

\* The next round of route()'s loops over clients and servers.
Route ==
  /\ Linked
  /\ client < NumHosts
  /\ IF client = server
     THEN UNCHANGED <<flow, count_flow, count_flow_split>>
     ELSE /\ flow' = [flowId |-> count_flow, clientId |-> client, serverId |-> server,
                      splits |-> FlowSplits(HostOf(client), HostOf(server))]
          /\ count_flow' = count_flow + 1
          /\ count_flow_split' = count_flow_split + Cardinality(flow'.splits)
  /\ IF server < NumHosts - 1
     THEN server' = server + 1 /\ UNCHANGED client
     ELSE server' = 0 /\ client' = client + 1
  /\ UNCHANGED tree

Next == Route
Spec == Init /\ [][Next]_vars

-------------------------------------------------------------------------------

(***************************************************************************)
(* The types of the variables.                                             *)
(***************************************************************************)
TypeOK ==
  /\ tree \in Trees
  /\ Linked => client \in 0..NumHosts /\ server \in 0..NumHosts - 1
  /\ \A split \in flow.splits : DOMAIN split = 0..5
  /\ \A split \in flow.splits : \A k \in 0..5 : split[k] \in OutputQueues \cup {NotUsed}
  /\ count_flow \in Nat /\ count_flow_split \in Nat

\* Reference: the devices at distance n of a device, and the walks that get
\* closer to it with every step.
Behind(targets) == {b \in Devices : \E q \in Ports(b) : NextDevice(q) \in targets}

Spheres(d) ==
  LET sphere[n \in 0..6] == IF n = 0 THEN {d} ELSE Behind(sphere[n - 1]) IN sphere

Onward(walks, targets) ==
  UNION {{Append(w, q) : q \in {p \in Ports(NextDevice(w[Len(w)])) : NextDevice(p) \in targets}} :
         w \in walks}

WalksInto(spheres, c, length) ==
  LET walks[n \in 1..length] ==
        IF n = 1 THEN {<<HostPort(c)>>} ELSE Onward(walks[n - 1], spheres[length - n])
  IN  walks[length]

ShortestWalks(c, s) ==
  LET near == {n \in 1..6 : c \in Spheres(s)[n]}
      length == CHOOSE n \in near : \A m \in near : n <= m
  IN  IF near = {} THEN {} ELSE WalksInto(Spheres(s), c, length)

(***************************************************************************)
(* The splits of a flow are the shortest walks from client to server in    *)
(* the graph of the links, all of them and no other, and each stage of a   *)
(* split holds a queue of the type that the calculation of it serves.      *)
(* A host can be reached if the hosts fill the edge switches, and in a     *)
(* tree where they do not the flows to the hosts left over have no split.  *)
(***************************************************************************)
SplitsAreShortestWalks ==
  flow # NoFlow =>
    /\ {Path(split) : split \in flow.splits}
         = ShortestWalks(HostOf(flow.clientId), HostOf(flow.serverId))
    /\ \A split \in flow.splits : \A k \in 0..5 :
         split[k] # NotUsed => QueueType(split[k]) = StageType[k]
    /\ flow.splits = {} <=>
         ~ThreeLevels /\ HostOf(flow.serverId).local >= tree.K \div 2

(***************************************************************************)
(* Every link has two directions, computed by formulas of their own: the   *)
(* way back of a flow (its acknowledgements) crosses the same devices in   *)
(* reverse, whenever both hosts can be reached.                            *)
(***************************************************************************)
ReverseFlow ==
  LET c == HostOf(flow.clientId)
      s == HostOf(flow.serverId)
      Via(split) == [i \in 1..Len(Path(split)) |-> Path(split)[i][1]]
      Back(split) == [i \in 1..Len(Path(split)) - 1 |->
                        Path(split)[Len(Path(split)) + 1 - i][1]]
  IN  flow # NoFlow /\ flow.splits # {} /\ FlowSplits(s, c) # {} =>
        {Tail(Via(split)) : split \in flow.splits}
          = {Back(split) : split \in FlowSplits(s, c)}

Half == tree.K \div 2
EdgeOf(h) == NextDevice(HostPort(h))
LinksEach == L2(tree.K, tree.N)!Links

\* How many shortest walks the shape of the tree has from host c to host s.
SplitCount(c, s) ==
  IF ThreeLevels
  THEN IF EdgeOf(c) = EdgeOf(s) THEN 1 ELSE IF c.pod = s.pod THEN Half ELSE Half * Half
  ELSE IF ~(s.local < Half) THEN 0 ELSE IF c.pod = s.pod THEN 1 ELSE Half * LinksEach

(***************************************************************************)
(* A flow is spread over as many splits as the tree has shortest walks     *)
(* between its hosts: over 1, K/2 or (K/2)^2 of them in the fat tree, and  *)
(* in the two-level tree over 1 or, for each of the K/2 links up, the      *)
(* parallel links down to the server's edge switch.  The window loop       *)
(* divides the data rate and the latency of a flow by this number.         *)
(***************************************************************************)
SplitsCounted ==
  flow # NoFlow =>
    Cardinality(flow.splits) = SplitCount(HostOf(flow.clientId), HostOf(flow.serverId))

===============================================================================
