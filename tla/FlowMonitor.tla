----------------------------- MODULE FlowMonitor ------------------------------
(***************************************************************************)
(* The packet tracking of the simulator's FlowMonitor                      *)
(* (src/src/flow-monitor/model/flow-monitor.cc), fed by one Ipv4FlowProbe  *)
(* per node, and the per-hop and per-flow logs it feeds in turn            *)
(* (flow-log-v2.cc, mimic-log-v2.cc).                                      *)
(*                                                                         *)
(* A packet crosses the output queues of its path.  The probes report it   *)
(* when it enters the network, is forwarded, is delivered or is dropped,   *)
(* whether or not the monitor is enabled: a packet sent while it is not is *)
(* tagged all the same, and reported later.                                *)
(*                                                                         *)
(* The accumulators of the logs are cumulative here.  How the simulator    *)
(* cuts them into windows is the subject of module LogWindows.             *)
(***************************************************************************)
EXTENDS Naturals, Sequences, FiniteSets, Functions

CONSTANTS
  Packets,       (* Packets, by their classifier's packet id.              *)
  Flows,
  FlowOf,        (* The flow of each packet.                               *)
  Routes,        (* The equal-cost paths of each flow: sequences of hops.  *)
                 (* A hop is a probe (node) with an output interface.      *)
  LoggedFlows,   (* All flows, or those of the first pod                   *)
                 (* (enable_first_pod).                                    *)
  TimeWarmUp,    (* m_TimeWarmUp                                           *)
  MaxDelay,      (* m_maxPerHopDelay                                       *)
  AppStart,      (* When the applications start to send.                   *)
  StartTimes,    (* When StartRightNow is scheduled,                       *)
  StopTimes,     (* and StopRightNow.                                      *)
  EndTime        (* When Simulator::Stop fires; bounds the behaviours.     *)

ASSUME FlowAssumption ==
  /\ IsFiniteSet(Packets)
  /\ FlowOf \in [Packets -> Flows]
  /\ LoggedFlows \subseteq Flows

Paths == UNION {Routes[f] : f \in Flows}
Hops == UNION {Range(path) : path \in Paths}

ASSUME PathAssumption ==
  /\ \A path \in Paths : path \in Seq(Range(path)) /\ path # <<>>
  /\ IsFiniteSet(Hops)

\* The paths of a flow are shortest ones: a hop is equally far on each of them.
ASSUME DistanceAssumption ==
  \A f \in Flows : \A a, b \in Routes[f] :
    \A i \in 1..Len(a), j \in 1..Len(b) : a[i] = b[j] => i = j

ASSUME TimesAssumption ==
  /\ TimeWarmUp \in Nat /\ MaxDelay \in Nat
  /\ AppStart \in Nat /\ EndTime \in Nat
  /\ StartTimes \subseteq Nat /\ StopTimes \subseteq Nat
  /\ StartTimes \cap StopTimes = {}

VARIABLES
  now,       (* Simulator::Now ()                                          *)
  ended,     (* Simulator::Run has returned                                *)
  net,       (* where each packet really is                                *)
  enabled,   (* m_enabled                                                  *)
  tracked,   (* m_trackedPackets                                           *)
  txPackets, (* m_flowStats, by field, of each flow                        *)
  rxPackets,
  lostPackets,
  delaySum,
  timesForwarded,
  flowLog,   (* m_flowlogv2.m_logs                                         *)
  mimicLog   (* m_mimiclogv2.m_logs                                        *)

stats == <<txPackets, rxPackets, lostPackets, delaySum, timesForwarded>>
vars == <<now, ended, net, enabled, tracked, stats, flowLog, mimicLog>>

-------------------------------------------------------------------------------

Init ==
  /\ now = 0
  /\ ended = FALSE
  /\ net = [p \in Packets |->
              [place |-> "app", path |-> <<>>, at |-> 0, sent |-> 0, since |-> 0]]
  /\ enabled = FALSE
  /\ tracked = [p \in {} |-> 0]
  /\ txPackets = [f \in Flows |-> 0] /\ rxPackets = [f \in Flows |-> 0]
  /\ lostPackets = [f \in Flows |-> 0] /\ delaySum = [f \in Flows |-> 0]
  /\ timesForwarded = [f \in Flows |-> 0]
  /\ flowLog = [k \in {} |-> 0]
  /\ mimicLog = [f \in {} |-> 0]

With(fun, key, value) ==
  [k \in DOMAIN fun \cup {key} |-> IF k = key THEN value ELSE fun[k]]

\* Mutant: the entry is not erased.
WithoutNothing(fun, keys) == fun

Without(fun, keys) == [k \in DOMAIN fun \ keys |-> fun[k]]

Hop(p) == net[p].path[net[p].at]

\* A packet in the network goes to another place, since the given time.
Move(p, place, at, since) ==
  net' = [net EXCEPT ![p] = [place |-> place, path |-> net[p].path, at |-> at,
                             sent |-> net[p].sent, since |-> since]]

\* The monitor passes a report on to the logs after the warm-up only.
Logging(f) == now >= TimeWarmUp /\ f \in LoggedFlows

\* Mutants: stages count from the first forwarding; an entry's stage is that of
\* the last but one queue; only the first arrival is counted.
ArrivalFromZero(log, f, h, stage) ==
  With(log, <<f, h>>,
       [stage |-> stage - 1, arrivals |-> 1, departures |-> 0, latency |-> 0])
ArrivalOnce(log, f, h, stage) ==
  IF <<f, h>> \in DOMAIN log THEN log
  ELSE With(log, <<f, h>>,
            [stage |-> stage, arrivals |-> 1, departures |-> 0, latency |-> 0])
ArrivalLater(log, f, h, stage) ==
  With(log, <<f, h>>,
       [stage |-> stage + 1, arrivals |-> 1, departures |-> 0, latency |-> 0])

\* FlowLogV2: CreateLog and UpdateLog for a packet that arrives at hop h.
Arrival(log, f, h, stage) ==
  LET entry == IF <<f, h>> \in DOMAIN log THEN log[<<f, h>>]
               ELSE [stage |-> stage, arrivals |-> 0, departures |-> 0, latency |-> 0]
  IN  With(log, <<f, h>>, [entry EXCEPT !.arrivals = @ + 1])

\* Mutant: a departure's latency replaces the sum.
DepartureLatest(log, f, h, latency) ==
  IF <<f, h>> \in DOMAIN log
  THEN With(log, <<f, h>>, [log[<<f, h>>] EXCEPT !.departures = @ + 1,
                                                 !.latency = latency])
  ELSE log

\* FlowLogV2::UpdateLatency for a packet that has left hop h.
Departure(log, f, h, latency) ==
  IF <<f, h>> \in DOMAIN log
  THEN With(log, <<f, h>>, [log[<<f, h>>] EXCEPT !.departures = @ + 1,
                                                 !.latency = @ + latency])
  ELSE log

\* MimicLogV2: CreateLog and UpdateLog, and UpdateLatency.
MimicTx(log, f) ==
  LET entry == IF f \in DOMAIN log THEN log[f] ELSE [tx |-> 0, rx |-> 0, latency |-> 0]
  IN  With(log, f, [entry EXCEPT !.tx = @ + 1])

MimicRx(log, f, delay) ==
  IF f \in DOMAIN log
  THEN With(log, f, [log[f] EXCEPT !.rx = @ + 1, !.latency = @ + delay])
  ELSE log

-------------------------------------------------------------------------------

ReportFirstTx(p, h) ==
  LET f == FlowOf[p] IN
  IF ~enabled THEN UNCHANGED <<tracked, stats, flowLog, mimicLog>>
  ELSE
  /\ tracked' = With(tracked, p,
       [firstSeen |-> now, lastSeen |-> now, timesForwarded |-> 0, hop |-> h])
  /\ txPackets' = [txPackets EXCEPT ![f] = @ + 1]
  /\ UNCHANGED <<rxPackets, lostPackets, delaySum, timesForwarded>>
  /\ IF Logging(f)
     THEN /\ flowLog' = Arrival(flowLog, f, h, 0)
          /\ mimicLog' = MimicTx(mimicLog, f)
     ELSE UNCHANGED <<flowLog, mimicLog>>

\* Ipv4FlowProbe::SendOutgoingLogger: the packet enters its first queue.
SendOutgoing(p, path) ==
  /\ ~ended /\ now >= AppStart
  /\ net[p].place = "app"
  /\ net' = [net EXCEPT ![p] =
       [place |-> "queue", path |-> path, at |-> 1, sent |-> now, since |-> now]]
  /\ ReportFirstTx(p, path[1])
  /\ UNCHANGED <<now, ended, enabled>>

ReportForwarding(p, h) ==
  LET f == FlowOf[p]
      t == tracked[p]
      stage == t.timesForwarded + 1
  IN
  IF ~enabled \/ p \notin DOMAIN tracked
  THEN UNCHANGED <<tracked, stats, flowLog, mimicLog>>
  ELSE
  /\ flowLog' = IF Logging(f)
                THEN Departure(Arrival(flowLog, f, h, stage), f, t.hop, now - t.lastSeen)
                ELSE flowLog
  /\ tracked' = [tracked EXCEPT ![p] =
       [firstSeen |-> t.firstSeen, lastSeen |-> now, timesForwarded |-> stage, hop |-> h]]
  /\ UNCHANGED <<stats, mimicLog>>

\* Ipv4FlowProbe::ForwardLogger: the next node puts the packet on its queue.
Forward(p) ==
  /\ ~ended
  /\ net[p].place = "queue" /\ net[p].at < Len(net[p].path)
  /\ Move(p, "queue", net[p].at + 1, now)
  /\ ReportForwarding(p, net[p].path[net[p].at + 1])
  /\ UNCHANGED <<now, ended, enabled>>

ReportLastRx(p) ==
  LET f == FlowOf[p]
      t == tracked[p]
      delay == now - t.firstSeen
  IN
  IF ~enabled \/ p \notin DOMAIN tracked
  THEN UNCHANGED <<tracked, stats, flowLog, mimicLog>>
  ELSE
  /\ IF Logging(f)
     THEN /\ flowLog' = Departure(flowLog, f, t.hop, now - t.lastSeen)
          /\ mimicLog' = MimicRx(mimicLog, f, delay)
     ELSE UNCHANGED <<flowLog, mimicLog>>
  /\ rxPackets' = [rxPackets EXCEPT ![f] = @ + 1]
  /\ delaySum' = [delaySum EXCEPT ![f] = @ + delay]
  /\ timesForwarded' = [timesForwarded EXCEPT ![f] = @ + t.timesForwarded]
  /\ UNCHANGED <<txPackets, lostPackets>>
  /\ tracked' = Without(tracked, {p})

\* Ipv4FlowProbe::ForwardUpLogger: the packet reaches its destination.
Deliver(p) ==
  /\ ~ended
  /\ net[p].place = "queue" /\ net[p].at = Len(net[p].path)
  /\ Move(p, "sink", net[p].at, now)
  /\ ReportLastRx(p)
  /\ UNCHANGED <<now, ended, enabled>>

\* Mutant: the dropped packet stays tracked.
ReportDropKept(p) ==
  IF ~enabled THEN UNCHANGED <<tracked, stats>>
  ELSE
  /\ lostPackets' = [lostPackets EXCEPT ![FlowOf[p]] = @ + 1]
  /\ UNCHANGED <<tracked, txPackets, rxPackets, delaySum, timesForwarded>>

ReportDrop(p) ==
  IF ~enabled THEN UNCHANGED <<tracked, stats>>
  ELSE
  /\ lostPackets' = [lostPackets EXCEPT ![FlowOf[p]] = @ + 1]
  /\ tracked' = Without(tracked, {p})
  /\ UNCHANGED <<txPackets, rxPackets, delaySum, timesForwarded>>

\* Ipv4FlowProbe::QueueDropLogger, QueueDiscDropLogger and DropLogger.
Drop(p) ==
  /\ ~ended
  /\ net[p].place = "queue"
  /\ Move(p, "dropped", net[p].at, net[p].since)
  /\ ReportDrop(p)
  /\ UNCHANGED <<now, ended, enabled, flowLog, mimicLog>>

-------------------------------------------------------------------------------

Overdue == {p \in DOMAIN tracked : now - tracked[p].lastSeen >= MaxDelay}

\* Mutant: overdue packets are counted and stay tracked.
CheckWithoutErase ==
  /\ lostPackets' = [f \in Flows |->
       lostPackets[f] + Cardinality({p \in Overdue : FlowOf[p] = f})]
  /\ UNCHANGED <<tracked, txPackets, rxPackets, delaySum, timesForwarded>>

CheckForLostPackets ==
  /\ lostPackets' = [f \in Flows |->
       lostPackets[f] + Cardinality({p \in Overdue : FlowOf[p] = f})]
  /\ tracked' = Without(tracked, Overdue)
  /\ UNCHANGED <<txPackets, rxPackets, delaySum, timesForwarded>>

StartRightNow ==
  /\ ~ended /\ now \in StartTimes /\ ~enabled
  /\ enabled' = TRUE
  /\ UNCHANGED <<now, ended, net, tracked, stats, flowLog, mimicLog>>

StopRightNow ==
  /\ ~ended /\ now \in StopTimes /\ enabled
  /\ enabled' = FALSE
  /\ CheckForLostPackets
  /\ UNCHANGED <<now, ended, net, flowLog, mimicLog>>

\* The clock moves once the monitor's own events of this instant have run.
Tick ==
  /\ ~ended /\ now < EndTime
  /\ now \in StartTimes => enabled
  /\ now \in StopTimes => ~enabled
  /\ now' = now + 1
  /\ UNCHANGED <<ended, net, enabled, tracked, stats, flowLog, mimicLog>>

\* Simulator::Run returns, the program calls CheckForLostPackets () and reads
\* the statistics.
Finish ==
  /\ ~ended /\ now = EndTime
  /\ ended' = TRUE
  /\ CheckForLostPackets
  /\ UNCHANGED <<now, net, enabled, flowLog, mimicLog>>

Next ==
  \/ \E p \in Packets : \E path \in Routes[FlowOf[p]] : SendOutgoing(p, path)
  \/ \E p \in Packets : Forward(p) \/ Deliver(p) \/ Drop(p)
  \/ StartRightNow
  \/ StopRightNow
  \/ Tick
  \/ Finish

Spec == Init /\ [][Next]_vars

-------------------------------------------------------------------------------

(***************************************************************************)
(* The types of the variables.                                             *)
(***************************************************************************)
TypeOK ==
  /\ now \in Nat /\ ended \in BOOLEAN /\ enabled \in BOOLEAN
  /\ net \in [Packets -> [place : {"app", "queue", "sink", "dropped"},
                          path : Paths \cup {<<>>}, at : Nat, sent : Nat, since : Nat]]
  /\ DOMAIN tracked \subseteq Packets
  /\ tracked \in [DOMAIN tracked -> [firstSeen : Nat, lastSeen : Nat,
                                     timesForwarded : Nat, hop : Hops]]
  /\ txPackets \in [Flows -> Nat] /\ rxPackets \in [Flows -> Nat]
  /\ lostPackets \in [Flows -> Nat] /\ delaySum \in [Flows -> Nat]
  /\ timesForwarded \in [Flows -> Nat]
  /\ DOMAIN flowLog \subseteq LoggedFlows \X Hops
  /\ flowLog \in [DOMAIN flowLog -> [stage : Nat, arrivals : Nat,
                                     departures : Nat, latency : Nat]]
  /\ DOMAIN mimicLog \subseteq LoggedFlows
  /\ mimicLog \in [DOMAIN mimicLog -> [tx : Nat, rx : Nat, latency : Nat]]

\* The monitor is enabled before the first packet and never stopped.
AlwaysOn == StopTimes = {} /\ \E s \in StartTimes : s < AppStart

InFlight == {p \in Packets : net[p].place = "queue"}
TrackedOf(f) == {p \in DOMAIN tracked : FlowOf[p] = f}

(***************************************************************************)
(* However the monitor is started and stopped under the packets' feet: a   *)
(* flow never received, or keeps track of, packets it did not transmit,    *)
(* and no transmitted packet is forgotten without being counted as lost.   *)
(***************************************************************************)
Accounted ==
  \A f \in Flows :
    LET known == rxPackets[f] + Cardinality(TrackedOf(f))
    IN  known <= txPackets[f] /\ txPackets[f] <= known + lostPackets[f]

(***************************************************************************)
(* If the monitor watches the whole run, every transmitted packet of a     *)
(* flow is received, lost or still tracked, and only one of these: no      *)
(* report, drop or check for overdue packets counts a packet twice.        *)
(***************************************************************************)
Conserved ==
  AlwaysOn => \A f \in Flows :
    txPackets[f] = rxPackets[f] + lostPackets[f] + Cardinality(TrackedOf(f))

(***************************************************************************)
(* m_trackedPackets is a true picture of the network: until the final      *)
(* check it holds exactly the packets in flight, each with the hop it is   *)
(* queued at, the time it came there and the hops behind it.  The latency  *)
(* of a hop is charged by this picture.                                    *)
(***************************************************************************)
TracksTheNetwork ==
  AlwaysOn =>
    /\ ~ended => DOMAIN tracked = InFlight
    /\ \A p \in DOMAIN tracked :
         /\ tracked[p].hop = Hop(p)
         /\ tracked[p].lastSeen = net[p].since
         /\ tracked[p].firstSeen = net[p].sent
         /\ tracked[p].timesForwarded = net[p].at - 1

\* The logs see the whole life of every packet of the flow.
FullyLogged(f) == AlwaysOn /\ TimeWarmUp <= AppStart /\ f \in LoggedFlows

Entry(f, h) ==
  IF <<f, h>> \in DOMAIN flowLog THEN flowLog[<<f, h>>]
  ELSE [stage |-> 0, arrivals |-> 0, departures |-> 0, latency |-> 0]

\* The sum of a function's values, counted as a set of that many units.
Total(num) == Cardinality(UNION {{x} \X (1..num[x]) : x \in DOMAIN num})

(***************************************************************************)
(* The flow log balances hop by hop: what arrived at a queue has left it,  *)
(* waits in it or was dropped there; and the latencies of the hops add up  *)
(* to the delay of the delivered packets (which is also what the mimic log *)
(* sums) and the time the other packets spent on the hops behind them.     *)
(***************************************************************************)
HopsBalance ==
  \A f \in Flows : FullyLogged(f) =>
    LET unfinished == {p \in Packets : /\ FlowOf[p] = f
                                       /\ net[p].place \in {"queue", "dropped"}}
    IN  /\ \A h \in Hops :
             Entry(f, h).arrivals = Entry(f, h).departures
               + Cardinality({p \in unfinished : Hop(p) = h})
        /\ Total([h \in Hops |-> Entry(f, h).latency])
             = delaySum[f]
               + Total([p \in unfinished |-> net[p].since - net[p].sent])
        /\ f \in DOMAIN mimicLog => mimicLog[f].latency = delaySum[f]

(***************************************************************************)
(* With a warm-up a queue's log may show more packets leaving than         *)
(* arriving, but only by packets that were sent before its end, also if    *)
(* the monitor is off while packets move on.                               *)
(***************************************************************************)
ExcessIsWarmUp ==
  \A f \in LoggedFlows :
    LET early == Cardinality({p \in Packets : /\ FlowOf[p] = f
                                              /\ net[p].place # "app"
                                              /\ net[p].sent < TimeWarmUp})
    IN  /\ \A h \in Hops : Entry(f, h).departures <= Entry(f, h).arrivals + early
        /\ f \in DOMAIN mimicLog => mimicLog[f].rx <= mimicLog[f].tx + early

(***************************************************************************)
(* The stage a flow's log records for a hop, when its first packet comes   *)
(* there, is right for every later packet, whichever path it takes: in a   *)
(* fat tree all paths of a flow pass a hop at the same distance.  A packet *)
(* may be lost on the way and another one overtake it.                     *)
(***************************************************************************)
StagesAgree ==
  AlwaysOn => \A p \in DOMAIN tracked :
    <<FlowOf[p], tracked[p].hop>> \in DOMAIN flowLog =>
      flowLog[<<FlowOf[p], tracked[p].hop>>].stage = tracked[p].timesForwarded

(***************************************************************************)
(* A monitor that watches the whole run implements PacketFates: the fate   *)
(* of a packet that is no longer tracked is what became of it in the       *)
(* network, and the statistics count the fates.                            *)
(***************************************************************************)
Fate(p) ==
  IF p \in DOMAIN tracked THEN "open"
  ELSE IF net[p].place = "app" THEN "unseen"
  ELSE IF net[p].place = "sink" THEN "received"
  ELSE "lost"

Fates == INSTANCE PacketFates WITH
  fate <- [p \in Packets |-> Fate(p)],
  count <- [f \in Flows |-> [tx |-> txPackets[f], rx |-> rxPackets[f],
                             lost |-> lostPackets[f]]]

CountsFates == Fates!FSpec

===============================================================================
