-------------------------------- MODULE FatTree -------------------------------
(***************************************************************************)
(* The three-level fat tree of the analytical model (auto_oop/             *)
(* fattreeL3.cpp): devices, the device at the other end of each queue, and *)
(* for each pair of hosts the flow splits ECMP routing makes of its flow.  *)
(* The tree grows from K alone; Routing walks through its pairs.           *)
(***************************************************************************)
EXTENDS Integers, DeviceGraph

CONSTANT K          (* No_of_ports of a switch; also the number of pods.   *)

-------------------------------------------------------------------------------

Half == K \div 2
HostsPerPod == Half * Half

\* FattreeL3::create.  A core switch belongs to a group instead of a pod.
Cores == {Device("core", i, j) : i \in 0..Half - 1, j \in 0..Half - 1}
Aggrs == {Device("aggr", i, j) : i \in 0..K - 1, j \in 0..Half - 1}
Edges == {Device("edge", i, j) : i \in 0..K - 1, j \in 0..Half - 1}
Hosts == {Device("host", i, j) : i \in 0..K - 1, j \in 0..HostsPerPod - 1}

Devices == Cores \cup Aggrs \cup Edges \cup Hosts

Ports(d) == PortsOf(d, K)

\* FattreeL3::link: the lower half of a switch's queues leads up.
Up(q) == q[2] < Half

QueueType(q) ==
  LET d == q[1] IN
  CASE d.type = "core" -> "core_down"
    [] d.type = "aggr" -> IF Up(q) THEN "aggr_up" ELSE "aggr_down"
    [] d.type = "edge" -> IF Up(q) THEN "edge_up" ELSE "edge_down"
    [] d.type = "host" -> "host_up"

\* Mutant: the cores' links down do not match the links up.
AggrBelowCrossed(core, n) == Device("aggr", n, core.local)

\* FattreeL3::link, "core to aggr": a core's group is its local id in a pod.
AggrBelow(core, n) == Device("aggr", n, core.pod)

NextDevice(q) ==
  LET d == q[1]
      n == q[2]
      type == QueueType(q)
  IN
  CASE type = "core_down" -> AggrBelow(d, n)
    [] type = "aggr_up"   -> Device("core", d.local, n)
    [] type = "aggr_down" -> Device("edge", d.pod, n % Half)
    [] type = "edge_up"   -> Device("aggr", d.pod, n)
    [] type = "edge_down" -> Device("host", d.pod, (n % Half) + d.local * Half)
    [] type = "host_up"   -> Device("edge", d.pod, d.local \div Half)

-------------------------------------------------------------------------------

EdgeOf(h) == NextDevice(HostPort(h))

To(d, target) == {q \in Ports(d) : NextDevice(q) = target}
ToType(d, type) == {q \in Ports(d) : NextDevice(q).type = type}

TwoHops(c, s) ==
  {[NoneUsed EXCEPT ![0] = HostPort(c), ![5] = down] : down \in To(EdgeOf(s), s)}

FourHops(c, s) ==
  UNION {UNION {
    {[NoneUsed EXCEPT ![0] = HostPort(c), ![1] = up, ![4] = aggrDown, ![5] = down] :
       down \in To(EdgeOf(s), s)} :
     aggrDown \in To(NextDevice(up), EdgeOf(s))} :
   up \in ToType(EdgeOf(c), "aggr")}

SixHops(c, s) ==
  UNION {UNION {UNION {UNION {
    {[k \in 0..5 |-> <<HostPort(c), up, aggrUp, coreDown, aggrDown, down>>[k + 1]] :
       down \in To(EdgeOf(s), s)} :
     aggrDown \in To(NextDevice(coreDown), EdgeOf(s))} :
    coreDown \in {q \in Ports(NextDevice(aggrUp)) : NextDevice(q).pod = s.pod}} :
   aggrUp \in ToType(NextDevice(up), "core")} :
  up \in ToType(EdgeOf(c), "aggr")}

FlowSplits(c, s) ==
  IF EdgeOf(c) = EdgeOf(s) THEN TwoHops(c, s)
  ELSE IF c.pod = s.pod THEN FourHops(c, s)
  ELSE SixHops(c, s)

-------------------------------------------------------------------------------

\* clientId and serverId number the hosts.
NumHosts == K * HostsPerPod
HostOf(id) == Device("host", id \div HostsPerPod, id % HostsPerPod)

===============================================================================
