----------------------------- MODULE TreeL2Custom -----------------------------
(***************************************************************************)
(* The two-level tree of the analytical model (auto_oop/                   *)
(* fattreeL2Custom.cpp).  Its size comes from the number of ports of a     *)
(* switch and the number of hosts, by integer divisions that need not come *)
(* out even: link() then asks for a device that is not there and the       *)
(* program ends (Linked), or devices stay without a link.                  *)
(***************************************************************************)
EXTENDS Integers, DeviceGraph

CONSTANTS
  K,          (* No_of_ports of a switch (switchRadix)                     *)
  N           (* total_no_of_host (numNodes)                               *)

-------------------------------------------------------------------------------

Half == K \div 2
NumEdges == N \div Half
NumCores == NumEdges \div 2
HostsPerEdge == N \div NumEdges

\* Parallel links of a core switch to each edge switch.
Links == K \div NumEdges

\* FattreeL2custom::create.  One group of cores; each edge switch is a pod.
Cores == {Device("core", 0, j) : j \in 0..NumCores - 1}
Edges == {Device("edge", i, 0) : i \in 0..NumEdges - 1}
Hosts == {Device("host", i, j) : i \in 0..NumEdges - 1, j \in 0..HostsPerEdge - 1}

Devices == Cores \cup Edges \cup Hosts

Ports(d) == PortsOf(d, K)

\* FattreeL2custom::link: the lower half of an edge switch's queues leads up.
QueueType(q) ==
  CASE q[1].type = "core" -> "core_down"
    [] q[1].type = "edge" -> IF q[2] < Half THEN "edge_up" ELSE "edge_down"
    [] q[1].type = "host" -> "host_up"

NextDevice(q) ==
  LET d == q[1]
      n == q[2]
      type == QueueType(q)
  IN
  CASE type = "core_down" -> Device("edge", n \div Links, d.pod)
    [] type = "edge_up"   -> Device("core", d.local, n \div Links)
    [] type = "edge_down" -> Device("host", d.pod, n % Half)
    [] type = "host_up"   -> Device("edge", d.pod, d.local \div HostsPerEdge)

\* create() gives up on a tree that needs more edge switches than a core has
\* ports; link() looks every device up with at(), which throws on a wrong index.
\* The divisor No_host_per_edge is computed with must not be 0, either.
Linked ==
  /\ NumEdges # 0 /\ K > NumEdges
  /\ \A d \in Devices : \A q \in Ports(d) : NextDevice(q) \in Devices

-------------------------------------------------------------------------------

EdgeOf(h) == NextDevice(HostPort(h))

TwoHops(c, s) ==
  {[NoneUsed EXCEPT ![0] = HostPort(c), ![5] = down] :
     down \in {q \in Ports(EdgeOf(s)) : NextDevice(q) = s}}

\* Mutant: the search for the way down stops at the first port that leads there.
FourHopsFirst(c, s) ==
  UNION {UNION {
    {[NoneUsed EXCEPT ![0] = HostPort(c), ![1] = up, ![3] = coreDown, ![5] = down] :
       down \in {q \in Ports(EdgeOf(s)) : NextDevice(q) = s}} :
     coreDown \in {q \in Ports(NextDevice(up)) : q[2] = EdgeOf(s).pod * Links}} :
   up \in {q \in Ports(EdgeOf(c)) : NextDevice(q).type = "core"}}

FourHops(c, s) ==
  UNION {UNION {
    {[NoneUsed EXCEPT ![0] = HostPort(c), ![1] = up, ![3] = coreDown, ![5] = down] :
       down \in {q \in Ports(EdgeOf(s)) : NextDevice(q) = s}} :
     coreDown \in {q \in Ports(NextDevice(up)) : NextDevice(q) = EdgeOf(s)}} :
   up \in {q \in Ports(EdgeOf(c)) : NextDevice(q).type = "core"}}

\* FattreeL2custom::route.
FlowSplits(c, s) == IF EdgeOf(c) = EdgeOf(s) THEN TwoHops(c, s) ELSE FourHops(c, s)

NumHosts == NumEdges * HostsPerEdge
HostOf(id) == Device("host", id \div HostsPerEdge, id % HostsPerEdge)

===============================================================================
