--------------------------- MODULE FlowMonitorProofs --------------------------
(***************************************************************************)
(* Theorems about the packet tracking, for every set of packets, paths and *)
(* times: the variables keep their types, and the statistics account for   *)
(* every packet, however the monitor is started and stopped (Accounted)    *)
(* and exactly if it watches the whole run (Conserved).  Such a monitor    *)
(* follows the network and implements the count of packet fates.           *)
(***************************************************************************)
EXTENDS FlowMonitor, FiniteSetTheorems, TLAPS

Tracks == [firstSeen : Nat, lastSeen : Nat, timesForwarded : Nat, hop : Hops]
FlowEntries == [stage : Nat, arrivals : Nat, departures : Nat, latency : Nat]
MimicEntries == [tx : Nat, rx : Nat, latency : Nat]
Places == [place : {"app", "queue", "sink", "dropped"},
           path : Paths \cup {<<>>}, at : Nat, sent : Nat, since : Nat]

\* Packets in flight are on their path.
NetOK ==
  /\ net \in [Packets -> Places]
  /\ \A p \in Packets : net[p].place = "queue" =>
       net[p].path \in Paths /\ net[p].at \in 1..Len(net[p].path)

\* Tracked packets have left their application and were seen in the past.
TrackedOK ==
  /\ DOMAIN tracked \subseteq Packets
  /\ tracked \in [DOMAIN tracked -> Tracks]
  /\ \A p \in DOMAIN tracked :
       /\ net[p].place # "app"
       /\ tracked[p].firstSeen <= now /\ tracked[p].lastSeen <= now

StatsOK ==
  /\ txPackets \in [Flows -> Nat] /\ rxPackets \in [Flows -> Nat]
  /\ lostPackets \in [Flows -> Nat] /\ delaySum \in [Flows -> Nat]
  /\ timesForwarded \in [Flows -> Nat]

FlowLogOK(log) ==
  DOMAIN log \subseteq LoggedFlows \X Hops /\ log \in [DOMAIN log -> FlowEntries]

MimicLogOK(log) ==
  DOMAIN log \subseteq LoggedFlows /\ log \in [DOMAIN log -> MimicEntries]

TInv ==
  /\ now \in Nat /\ ended \in BOOLEAN /\ enabled \in BOOLEAN
  /\ NetOK /\ TrackedOK /\ StatsOK
  /\ FlowLogOK(flowLog) /\ MimicLogOK(mimicLog)

-------------------------------------------------------------------------------

LEMMA WithFacts ==
  ASSUME NEW D, NEW R, NEW fun, fun \in [DOMAIN fun -> R], DOMAIN fun \subseteq D,
         NEW key, key \in D, NEW value, value \in R
  PROVE  /\ DOMAIN With(fun, key, value) = DOMAIN fun \cup {key}
         /\ DOMAIN With(fun, key, value) \subseteq D
         /\ With(fun, key, value) \in [DOMAIN With(fun, key, value) -> R]
         /\ With(fun, key, value)[key] = value
         /\ \A k \in DOMAIN fun \ {key} : With(fun, key, value)[k] = fun[k]
BY DEF With

LEMMA WithoutFacts ==
  ASSUME NEW R, NEW fun, fun \in [DOMAIN fun -> R], NEW keys
  PROVE  /\ DOMAIN Without(fun, keys) = DOMAIN fun \ keys
         /\ Without(fun, keys) \in [DOMAIN Without(fun, keys) -> R]
         /\ \A k \in DOMAIN fun \ keys : Without(fun, keys)[k] = fun[k]
BY DEF Without

LEMMA PathFacts ==
  ASSUME NEW path \in Paths
  PROVE  /\ Len(path) \in Nat /\ 1 \in 1..Len(path)
         /\ \A n \in 1..Len(path) : path[n] \in Hops
PROOF
<1>1. path \in Seq(Range(path)) /\ path # <<>>
  BY PathAssumption
<1>2. Len(path) \in Nat /\ 1 \in 1..Len(path)
  BY <1>1, SMT
<1>3. ASSUME NEW n \in 1..Len(path) PROVE path[n] \in Range(path)
  BY <1>1, <1>3, SMT
<1>q. QED BY <1>2, <1>3 DEF Hops

LEMMA FlowFacts == \A p \in Packets : FlowOf[p] \in Flows
BY FlowAssumption

LEMMA RouteFacts == \A p \in Packets : Routes[FlowOf[p]] \subseteq Paths
BY FlowFacts DEF Paths

-------------------------------------------------------------------------------
(* The logs keep their types.                                              *)

LEMMA EntryOK ==
  ASSUME NEW old, old \in FlowEntries, NEW latency, latency \in Nat
  PROVE  /\ [old EXCEPT !.arrivals = @ + 1] \in FlowEntries
         /\ [old EXCEPT !.departures = @ + 1, !.latency = @ + latency] \in FlowEntries
PROOF
<1>1. /\ old.stage \in Nat /\ old.arrivals \in Nat
      /\ old.departures \in Nat /\ old.latency \in Nat
      /\ old = [stage |-> old.stage, arrivals |-> old.arrivals,
                departures |-> old.departures, latency |-> old.latency]
  BY DEF FlowEntries
<1>2. [old EXCEPT !.arrivals = @ + 1]
        = [stage |-> old.stage, arrivals |-> old.arrivals + 1,
           departures |-> old.departures, latency |-> old.latency]
  BY <1>1
<1>3. [old EXCEPT !.departures = @ + 1, !.latency = @ + latency]
        = [stage |-> old.stage, arrivals |-> old.arrivals,
           departures |-> old.departures + 1, latency |-> old.latency + latency]
  <2>1. [old EXCEPT !.departures = @ + 1, !.latency = @ + latency]
          = [[old EXCEPT !.departures = @ + 1] EXCEPT !.latency = @ + latency]
    BY Zenon DEF FlowEntries
  <2>2. [old EXCEPT !.departures = @ + 1]
          = [stage |-> old.stage, arrivals |-> old.arrivals,
             departures |-> old.departures + 1, latency |-> old.latency]
    BY <1>1
  <2>3. [[stage |-> old.stage, arrivals |-> old.arrivals,
          departures |-> old.departures + 1, latency |-> old.latency]
            EXCEPT !.latency = @ + latency]
          = [stage |-> old.stage, arrivals |-> old.arrivals,
             departures |-> old.departures + 1, latency |-> old.latency + latency]
    OBVIOUS
  <2>q. QED BY ONLY <2>1, <2>2, <2>3, Zenon
<1>4. /\ old.arrivals + 1 \in Nat /\ old.departures + 1 \in Nat
      /\ old.latency + latency \in Nat
  BY <1>1
<1>q. QED BY <1>1, <1>2, <1>3, <1>4, Zenon DEF FlowEntries

LEMMA FlowLogWithOK ==
  ASSUME NEW log, FlowLogOK(log), NEW f, f \in LoggedFlows, NEW h, h \in Hops,
         NEW new, new \in FlowEntries
  PROVE  FlowLogOK(With(log, <<f, h>>, new))
PROOF
<1> DEFINE hop == <<f, h>>
           hops == LoggedFlows \X Hops
<1>1. hop \in hops /\ DOMAIN log \subseteq hops /\ log \in [DOMAIN log -> FlowEntries]
  BY DEF FlowLogOK
<1> HIDE DEF hop, hops
<1>2. /\ DOMAIN With(log, hop, new) \subseteq hops
      /\ With(log, hop, new) \in [DOMAIN With(log, hop, new) -> FlowEntries]
  BY <1>1, WithFacts
<1>q. QED BY <1>2 DEF FlowLogOK, hop, hops

LEMMA ArrivalOK ==
  ASSUME NEW log, FlowLogOK(log), NEW f, f \in LoggedFlows, NEW h, h \in Hops,
         NEW stage, stage \in Nat
  PROVE  FlowLogOK(Arrival(log, f, h, stage))
PROOF
<1> DEFINE old == IF <<f, h>> \in DOMAIN log THEN log[<<f, h>>]
                  ELSE [stage |-> stage, arrivals |-> 0, departures |-> 0, latency |-> 0]
<1>1. old \in FlowEntries
  BY DEF FlowLogOK, FlowEntries
<1>2. Arrival(log, f, h, stage) = With(log, <<f, h>>, [old EXCEPT !.arrivals = @ + 1])
  BY DEF Arrival
<1> HIDE DEF old
<1>3. [old EXCEPT !.arrivals = @ + 1] \in FlowEntries
  BY <1>1, EntryOK
<1>q. QED BY <1>2, <1>3, FlowLogWithOK

LEMMA DepartureOK ==
  ASSUME NEW log, FlowLogOK(log), NEW f, f \in LoggedFlows, NEW h, h \in Hops,
         NEW latency, latency \in Nat
  PROVE  FlowLogOK(Departure(log, f, h, latency))
PROOF
<1>1. CASE <<f, h>> \in DOMAIN log
  <2> DEFINE old == log[<<f, h>>]
  <2>1. old \in FlowEntries
    BY <1>1 DEF FlowLogOK
  <2>2. Departure(log, f, h, latency) = With(log, <<f, h>>,
          [old EXCEPT !.departures = @ + 1, !.latency = @ + latency])
    BY <1>1 DEF Departure
  <2> HIDE DEF old
  <2>3. [old EXCEPT !.departures = @ + 1, !.latency = @ + latency] \in FlowEntries
    BY <2>1, EntryOK
  <2>q. QED BY <2>2, <2>3, FlowLogWithOK
<1>2. CASE <<f, h>> \notin DOMAIN log
  BY <1>2 DEF Departure
<1>q. QED BY <1>1, <1>2

LEMMA MimicEntryOK ==
  ASSUME NEW old, old \in MimicEntries, NEW delay, delay \in Nat
  PROVE  /\ [old EXCEPT !.tx = @ + 1] \in MimicEntries
         /\ [old EXCEPT !.rx = @ + 1, !.latency = @ + delay] \in MimicEntries
PROOF
<1>1. /\ old.tx \in Nat /\ old.rx \in Nat /\ old.latency \in Nat
      /\ old = [tx |-> old.tx, rx |-> old.rx, latency |-> old.latency]
  BY DEF MimicEntries
<1>2. [old EXCEPT !.tx = @ + 1]
        = [tx |-> old.tx + 1, rx |-> old.rx, latency |-> old.latency]
  BY <1>1
<1>3. [old EXCEPT !.rx = @ + 1, !.latency = @ + delay]
        = [tx |-> old.tx, rx |-> old.rx + 1, latency |-> old.latency + delay]
  <2>1. [old EXCEPT !.rx = @ + 1, !.latency = @ + delay]
          = [[old EXCEPT !.rx = @ + 1] EXCEPT !.latency = @ + delay]
    BY Zenon DEF MimicEntries
  <2>2. [old EXCEPT !.rx = @ + 1]
          = [tx |-> old.tx, rx |-> old.rx + 1, latency |-> old.latency]
    BY <1>1
  <2>3. [[tx |-> old.tx, rx |-> old.rx + 1, latency |-> old.latency]
            EXCEPT !.latency = @ + delay]
          = [tx |-> old.tx, rx |-> old.rx + 1, latency |-> old.latency + delay]
    OBVIOUS
  <2>q. QED BY ONLY <2>1, <2>2, <2>3, Zenon
<1>4. old.tx + 1 \in Nat /\ old.rx + 1 \in Nat /\ old.latency + delay \in Nat
  BY <1>1
<1>q. QED BY <1>1, <1>2, <1>3, <1>4, Zenon DEF MimicEntries

LEMMA MimicLogWithOK ==
  ASSUME NEW log, MimicLogOK(log), NEW f, f \in LoggedFlows,
         NEW new, new \in MimicEntries
  PROVE  MimicLogOK(With(log, f, new))
PROOF
<1>1. DOMAIN log \subseteq LoggedFlows /\ log \in [DOMAIN log -> MimicEntries]
  BY DEF MimicLogOK
<1>2. /\ DOMAIN With(log, f, new) \subseteq LoggedFlows
      /\ With(log, f, new) \in [DOMAIN With(log, f, new) -> MimicEntries]
  BY <1>1, WithFacts
<1>q. QED BY <1>2 DEF MimicLogOK

LEMMA MimicTxOK ==
  ASSUME NEW log, MimicLogOK(log), NEW f, f \in LoggedFlows
  PROVE  MimicLogOK(MimicTx(log, f))
PROOF
<1> DEFINE old == IF f \in DOMAIN log THEN log[f] ELSE [tx |-> 0, rx |-> 0, latency |-> 0]
<1>1. old \in MimicEntries
  BY DEF MimicLogOK, MimicEntries
<1>2. MimicTx(log, f) = With(log, f, [old EXCEPT !.tx = @ + 1])
  BY DEF MimicTx
<1> HIDE DEF old
<1>3. [old EXCEPT !.tx = @ + 1] \in MimicEntries
  BY <1>1, MimicEntryOK
<1>q. QED BY <1>2, <1>3, MimicLogWithOK

LEMMA MimicRxOK ==
  ASSUME NEW log, MimicLogOK(log), NEW f, f \in LoggedFlows, NEW delay, delay \in Nat
  PROVE  MimicLogOK(MimicRx(log, f, delay))
PROOF
<1>1. CASE f \in DOMAIN log
  <2> DEFINE old == log[f]
  <2>1. old \in MimicEntries
    BY <1>1 DEF MimicLogOK
  <2>2. MimicRx(log, f, delay) =
          With(log, f, [old EXCEPT !.rx = @ + 1, !.latency = @ + delay])
    BY <1>1 DEF MimicRx
  <2> HIDE DEF old
  <2>3. [old EXCEPT !.rx = @ + 1, !.latency = @ + delay] \in MimicEntries
    BY <2>1, MimicEntryOK
  <2>q. QED BY <2>2, <2>3, MimicLogWithOK
<1>2. CASE f \notin DOMAIN log
  BY <1>2 DEF MimicRx
<1>q. QED BY <1>1, <1>2

-------------------------------------------------------------------------------
(* What each report does to the counts of a flow.                          *)

Tracked(f) == Cardinality(TrackedOf(f))

LEMMA TrackedFinite ==
  ASSUME DOMAIN tracked \subseteq Packets, NEW f
  PROVE  IsFiniteSet(TrackedOf(f)) /\ Tracked(f) \in Nat
PROOF
<1>1. TrackedOf(f) \in SUBSET Packets
  BY DEF TrackedOf
<1>2. IsFiniteSet(TrackedOf(f))
  BY <1>1, FlowAssumption, FS_Subset
<1>q. QED BY <1>2, FS_CardinalityType DEF Tracked

LEMMA TrackedAdded ==
  ASSUME DOMAIN tracked \subseteq Packets, NEW p, p \notin DOMAIN tracked,
         DOMAIN tracked' = DOMAIN tracked \cup {p}, NEW f
  PROVE  Tracked(f)' = IF f = FlowOf[p] THEN Tracked(f) + 1 ELSE Tracked(f)
PROOF
<1>1. TrackedOf(f)' = IF f = FlowOf[p] THEN TrackedOf(f) \cup {p} ELSE TrackedOf(f)
  BY DEF TrackedOf
<1>2. p \notin TrackedOf(f)
  BY DEF TrackedOf
<1>q. QED BY <1>1, <1>2, TrackedFinite, FS_AddElement DEF Tracked

LEMMA TrackedRemoved ==
  ASSUME DOMAIN tracked \subseteq Packets, NEW p, p \in DOMAIN tracked,
         DOMAIN tracked' = DOMAIN tracked \ {p}, NEW f
  PROVE  Tracked(f)' = IF f = FlowOf[p] THEN Tracked(f) - 1 ELSE Tracked(f)
PROOF
<1>1. TrackedOf(f)' = IF f = FlowOf[p] THEN TrackedOf(f) \ {p} ELSE TrackedOf(f)
  BY DEF TrackedOf
<1>2. f = FlowOf[p] => p \in TrackedOf(f)
  BY DEF TrackedOf
<1>q. QED BY <1>1, <1>2, TrackedFinite, FS_RemoveElement DEF Tracked

LEMMA TrackedSame ==
  ASSUME DOMAIN tracked' = DOMAIN tracked, NEW f
  PROVE  Tracked(f)' = Tracked(f)
BY DEF Tracked, TrackedOf

\* What a check takes from the tracked packets it adds to the lost ones.
LEMMA CheckCounts ==
  ASSUME DOMAIN tracked \subseteq Packets, lostPackets \in [Flows -> Nat],
         CheckForLostPackets, NEW f \in Flows
  PROVE  /\ lostPackets'[f] \in Nat /\ Tracked(f)' \in Nat
         /\ lostPackets'[f] >= lostPackets[f]
         /\ lostPackets'[f] + Tracked(f)' = lostPackets[f] + Tracked(f)
PROOF
<1> DEFINE lost == {p \in Overdue : FlowOf[p] = f}
<1>1. DOMAIN tracked' = DOMAIN tracked \ Overdue
  BY DEF CheckForLostPackets, Without
<1>2. TrackedOf(f)' = TrackedOf(f) \ lost
  BY <1>1 DEF TrackedOf
<1>3. TrackedOf(f) \cap lost = lost /\ lost \in SUBSET TrackedOf(f)
  BY DEF TrackedOf, Overdue
<1>4. IsFiniteSet(TrackedOf(f)) /\ Tracked(f) \in Nat
  BY TrackedFinite
<1>5. IsFiniteSet(lost) /\ Cardinality(lost) \in Nat
  BY <1>3, <1>4, FS_Subset, FS_CardinalityType
<1>6. /\ IsFiniteSet(TrackedOf(f) \ lost)
      /\ Cardinality(TrackedOf(f) \ lost) = Cardinality(TrackedOf(f)) - Cardinality(lost)
  BY <1>3, <1>4, FS_Difference
<1>7. lostPackets'[f] = lostPackets[f] + Cardinality(lost)
  BY DEF CheckForLostPackets
<1>8. Tracked(f)' = Tracked(f) - Cardinality(lost) /\ Tracked(f)' \in Nat
  BY <1>2, <1>6, FS_CardinalityType DEF Tracked
<1> HIDE DEF lost
<1>q. QED BY <1>4, <1>5, <1>7, <1>8

-------------------------------------------------------------------------------
(* Types are inductive.                                                    *)

LEMMA InitTypes == Init => TInv
PROOF
<1> SUFFICES ASSUME Init PROVE TInv
  OBVIOUS
<1>1. /\ now = 0 /\ ended = FALSE /\ enabled = FALSE
      /\ DOMAIN tracked = {} /\ DOMAIN flowLog = {} /\ DOMAIN mimicLog = {}
      /\ tracked \in [DOMAIN tracked -> Tracks]
      /\ flowLog \in [DOMAIN flowLog -> FlowEntries]
      /\ mimicLog \in [DOMAIN mimicLog -> MimicEntries]
  BY DEF Init
<1>2. NetOK
  BY DEF Init, NetOK, Places
<1>3. StatsOK
  BY DEF Init, StatsOK
<1>q. QED BY <1>1, <1>2, <1>3 DEF TInv, TrackedOK, FlowLogOK, MimicLogOK

LEMMA MoveTypes ==
  ASSUME TInv, NEW p \in Packets, net[p].place = "queue",
         NEW place, place \in {"queue", "sink", "dropped"},
         NEW at, at \in Nat, place = "queue" => at \in 1..Len(net[p].path),
         NEW since, since \in Nat, Move(p, place, at, since)
  PROVE  /\ NetOK'
         /\ \A q \in DOMAIN tracked : net'[q].place # "app"
PROOF
<1>1. net[p] \in Places /\ net[p].path \in Paths
  BY DEF TInv, NetOK
<1> DEFINE new == [place |-> place, path |-> net[p].path, at |-> at,
                   sent |-> net[p].sent, since |-> since]
<1>2. new \in Places /\ new.place = place /\ new.path = net[p].path /\ new.at = at
  BY <1>1 DEF Places
<1>3. net' = [net EXCEPT ![p] = new]
  BY DEF Move
<1> HIDE DEF new
<1>4. NetOK'
  BY <1>1, <1>2, <1>3 DEF TInv, NetOK
<1>5. ASSUME NEW q \in DOMAIN tracked PROVE net'[q].place # "app"
  BY <1>2, <1>3 DEF TInv, NetOK, TrackedOK
<1>q. QED BY <1>4, <1>5

LEMMA SendTypes ==
  ASSUME TInv, NEW p \in Packets, NEW path \in Paths, SendOutgoing(p, path)
  PROVE  TInv'
PROOF
<1> DEFINE f == FlowOf[p]
           h == path[1]
           sent == [place |-> "queue", path |-> path, at |-> 1, sent |-> now, since |-> now]
           seen == [firstSeen |-> now, lastSeen |-> now, timesForwarded |-> 0, hop |-> h]
<1>1. h \in Hops /\ f \in Flows /\ 1 \in 1..Len(path) /\ now \in Nat
  BY PathFacts, FlowFacts DEF TInv
<1>2. /\ net' = [net EXCEPT ![p] = sent] /\ net[p].place = "app"
      /\ now' = now /\ ended' = ended /\ enabled' = enabled
  BY DEF SendOutgoing
<1>3. /\ sent \in Places /\ sent.place = "queue"
      /\ sent.path = path /\ sent.at = 1
  BY <1>1 DEF Places
<1> HIDE DEF sent
<1>4. NetOK' /\ \A q \in DOMAIN tracked \cup {p} : net'[q].place # "app"
  BY <1>1, <1>2, <1>3 DEF TInv, NetOK, TrackedOK
<1>5. CASE ~enabled
  <2>1. UNCHANGED <<tracked, stats, flowLog, mimicLog>>
    BY <1>5 DEF SendOutgoing, ReportFirstTx
  <2>q. QED BY <2>1, <1>2, <1>4 DEF TInv, TrackedOK, StatsOK, stats
<1>6. CASE enabled
  <2>1. /\ tracked' = With(tracked, p, seen)
        /\ txPackets' = [txPackets EXCEPT ![f] = @ + 1]
        /\ UNCHANGED <<rxPackets, lostPackets, delaySum, timesForwarded>>
        /\ IF Logging(f)
           THEN /\ flowLog' = Arrival(flowLog, f, h, 0)
                /\ mimicLog' = MimicTx(mimicLog, f)
           ELSE UNCHANGED <<flowLog, mimicLog>>
    BY <1>6 DEF SendOutgoing, ReportFirstTx
  <2>2. seen \in Tracks /\ seen.firstSeen = now /\ seen.lastSeen = now
    BY <1>1 DEF Tracks
  <2> HIDE DEF seen
  <2>3. /\ DOMAIN tracked' = DOMAIN tracked \cup {p}
        /\ DOMAIN tracked' \subseteq Packets
        /\ tracked' \in [DOMAIN tracked' -> Tracks]
        /\ tracked'[p] = seen
        /\ \A q \in DOMAIN tracked \ {p} : tracked'[q] = tracked[q]
    <3>1. /\ DOMAIN tracked \subseteq Packets /\ tracked \in [DOMAIN tracked -> Tracks]
          /\ p \in Packets /\ seen \in Tracks /\ tracked' = With(tracked, p, seen)
      BY <2>1, <2>2 DEF TInv, TrackedOK
    <3>q. QED BY ONLY <3>1 DEF With
  <2>4. TrackedOK'
    BY <2>2, <2>3, <1>1, <1>2, <1>4 DEF TInv, TrackedOK
  <2>5. StatsOK'
    BY <2>1, <1>1 DEF TInv, StatsOK
  <2>6. FlowLogOK(flowLog') /\ MimicLogOK(mimicLog')
    BY <2>1, <1>1, ArrivalOK, MimicTxOK DEF TInv, Logging
  <2>q. QED BY <2>4, <2>5, <2>6, <1>2, <1>4 DEF TInv
<1>q. QED BY <1>5, <1>6

LEMMA ForwardTypes ==
  ASSUME TInv, NEW p \in Packets, Forward(p)
  PROVE  TInv'
PROOF
<1> DEFINE f == FlowOf[p]
           t == tracked[p]
           at == net[p].at + 1
           h == net[p].path[at]
           new == [firstSeen |-> t.firstSeen, lastSeen |-> now,
                   timesForwarded |-> t.timesForwarded + 1, hop |-> h]
<1>1. /\ net[p].place = "queue" /\ net[p].at < Len(net[p].path)
      /\ net[p].path \in Paths /\ net[p].at \in 1..Len(net[p].path)
      /\ Move(p, "queue", at, now)
      /\ now' = now /\ ended' = ended /\ enabled' = enabled /\ now \in Nat
  BY DEF Forward, TInv, NetOK
<1>2. at \in Nat /\ at \in 1..Len(net[p].path) /\ h \in Hops /\ f \in Flows
  BY <1>1, PathFacts, FlowFacts
<1>3. NetOK' /\ \A q \in DOMAIN tracked : net'[q].place # "app"
  BY <1>1, <1>2, MoveTypes
<1>4. CASE ~enabled \/ p \notin DOMAIN tracked
  <2>1. UNCHANGED <<tracked, stats, flowLog, mimicLog>>
    BY <1>4 DEF Forward, ReportForwarding
  <2>q. QED BY <2>1, <1>1, <1>3 DEF TInv, TrackedOK, StatsOK, stats
<1>5. CASE enabled /\ p \in DOMAIN tracked
  <2>1. /\ flowLog' = IF Logging(f)
                      THEN Departure(Arrival(flowLog, f, h, t.timesForwarded + 1),
                                     f, t.hop, now - t.lastSeen)
                      ELSE flowLog
        /\ tracked' = [tracked EXCEPT ![p] = new]
        /\ UNCHANGED <<stats, mimicLog>>
    BY <1>5 DEF Forward, ReportForwarding
  <2>2. /\ t.firstSeen \in Nat /\ t.timesForwarded + 1 \in Nat /\ t.hop \in Hops
        /\ now - t.lastSeen \in Nat /\ t.firstSeen <= now
    BY <1>5 DEF TInv, TrackedOK, Tracks
  <2>3. new \in Tracks /\ new.firstSeen = t.firstSeen /\ new.lastSeen = now
    BY <1>1, <1>2, <2>2 DEF Tracks
  <2> HIDE DEF new
  <2>4. TrackedOK'
    BY <1>1, <1>3, <1>5, <2>1, <2>2, <2>3 DEF TInv, TrackedOK
  <2>5. FlowLogOK(flowLog')
    BY <1>2, <2>1, <2>2, ArrivalOK, DepartureOK DEF TInv, Logging
  <2>q. QED BY <1>1, <1>3, <2>1, <2>4, <2>5 DEF TInv, StatsOK, stats
<1>q. QED BY <1>4, <1>5

LEMMA WithoutTypes ==
  ASSUME TInv, NEW keys, tracked' = Without(tracked, keys), now' = now,
         \A q \in DOMAIN tracked : net'[q].place # "app"
  PROVE  TrackedOK' /\ DOMAIN tracked' = DOMAIN tracked \ keys
BY DEF TInv, TrackedOK, Without

LEMMA DeliverTypes ==
  ASSUME TInv, NEW p \in Packets, Deliver(p)
  PROVE  TInv'
PROOF
<1> DEFINE f == FlowOf[p]
           t == tracked[p]
<1>1. /\ net[p].place = "queue" /\ net[p].at \in Nat
      /\ Move(p, "sink", net[p].at, now)
      /\ now' = now /\ ended' = ended /\ enabled' = enabled /\ now \in Nat
  BY DEF Deliver, TInv, NetOK, Places
<1>2. NetOK' /\ \A q \in DOMAIN tracked : net'[q].place # "app"
  BY <1>1, MoveTypes
<1>3. CASE ~enabled \/ p \notin DOMAIN tracked
  <2>1. UNCHANGED <<tracked, stats, flowLog, mimicLog>>
    BY <1>3 DEF Deliver, ReportLastRx
  <2>q. QED BY <2>1, <1>1, <1>2 DEF TInv, TrackedOK, StatsOK, stats
<1>4. CASE enabled /\ p \in DOMAIN tracked
  <2>1. /\ IF Logging(f)
           THEN /\ flowLog' = Departure(flowLog, f, t.hop, now - t.lastSeen)
                /\ mimicLog' = MimicRx(mimicLog, f, now - t.firstSeen)
           ELSE UNCHANGED <<flowLog, mimicLog>>
        /\ rxPackets' = [rxPackets EXCEPT ![f] = @ + 1]
        /\ delaySum' = [delaySum EXCEPT ![f] = @ + (now - t.firstSeen)]
        /\ timesForwarded' = [timesForwarded EXCEPT ![f] = @ + t.timesForwarded]
        /\ UNCHANGED <<txPackets, lostPackets>>
        /\ tracked' = Without(tracked, {p})
    BY <1>4 DEF Deliver, ReportLastRx
  <2>2. /\ t.hop \in Hops /\ t.timesForwarded \in Nat /\ f \in Flows
        /\ now - t.lastSeen \in Nat /\ now - t.firstSeen \in Nat
    BY <1>4, FlowFacts DEF TInv, TrackedOK, Tracks
  <2>3. TrackedOK'
    BY <1>1, <1>2, <2>1, WithoutTypes
  <2>4. StatsOK'
    BY <2>1, <2>2 DEF TInv, StatsOK
  <2>5. FlowLogOK(flowLog') /\ MimicLogOK(mimicLog')
    BY <2>1, <2>2, DepartureOK, MimicRxOK DEF TInv, Logging
  <2>q. QED BY <1>1, <1>2, <2>3, <2>4, <2>5 DEF TInv
<1>q. QED BY <1>3, <1>4

LEMMA DropTypes ==
  ASSUME TInv, NEW p \in Packets, Drop(p)
  PROVE  TInv'
PROOF
<1>1. /\ net[p].place = "queue" /\ net[p].at \in Nat /\ net[p].since \in Nat
      /\ Move(p, "dropped", net[p].at, net[p].since)
      /\ now' = now /\ ended' = ended /\ enabled' = enabled
      /\ UNCHANGED <<flowLog, mimicLog>> /\ FlowOf[p] \in Flows
  BY FlowFacts DEF Drop, TInv, NetOK, Places
<1>2. NetOK' /\ \A q \in DOMAIN tracked : net'[q].place # "app"
  BY <1>1, MoveTypes
<1>3. CASE ~enabled
  <2>1. UNCHANGED <<tracked, stats>>
    BY <1>3 DEF Drop, ReportDrop
  <2>q. QED BY <2>1, <1>1, <1>2 DEF TInv, TrackedOK, StatsOK, stats
<1>4. CASE enabled
  <2>1. /\ lostPackets' = [lostPackets EXCEPT ![FlowOf[p]] = @ + 1]
        /\ tracked' = Without(tracked, {p})
        /\ UNCHANGED <<txPackets, rxPackets, delaySum, timesForwarded>>
    BY <1>4 DEF Drop, ReportDrop
  <2>2. StatsOK'
    BY <1>1, <2>1 DEF TInv, StatsOK
  <2>q. QED BY <1>1, <1>2, <2>1, <2>2, WithoutTypes DEF TInv
<1>q. QED BY <1>3, <1>4

LEMMA CheckTypes ==
  ASSUME TInv, CheckForLostPackets, UNCHANGED <<now, net, flowLog, mimicLog>>,
         enabled' \in BOOLEAN, ended' \in BOOLEAN
  PROVE  TInv'
PROOF
<1>1. TrackedOK'
  BY WithoutTypes DEF TInv, TrackedOK, CheckForLostPackets
<1>2. StatsOK'
  <2>1. ASSUME NEW f \in Flows PROVE lostPackets'[f] \in Nat
    BY CheckCounts DEF TInv, TrackedOK, StatsOK
  <2>2. lostPackets' = [f \in Flows |-> lostPackets'[f]]
    BY DEF CheckForLostPackets
  <2>q. QED BY <2>1, <2>2 DEF TInv, StatsOK, CheckForLostPackets
<1>q. QED BY <1>1, <1>2 DEF TInv, NetOK

LEMMA NextTypes == TInv /\ [Next]_vars => TInv'
PROOF
<1> SUFFICES ASSUME TInv, [Next]_vars PROVE TInv'
  OBVIOUS
<1>1. ASSUME NEW p \in Packets, NEW path \in Paths, SendOutgoing(p, path) PROVE TInv'
  BY <1>1, SendTypes
<1>2. ASSUME NEW p \in Packets, Forward(p) PROVE TInv'
  BY <1>2, ForwardTypes
<1>3. ASSUME NEW p \in Packets, Deliver(p) PROVE TInv'
  BY <1>3, DeliverTypes
<1>4. ASSUME NEW p \in Packets, Drop(p) PROVE TInv'
  BY <1>4, DropTypes
<1>5. CASE StartRightNow
  BY <1>5 DEF StartRightNow, TInv, NetOK, TrackedOK, StatsOK, stats
<1>6. CASE StopRightNow
  BY <1>6, CheckTypes DEF StopRightNow, TInv
<1>7. CASE Tick
  BY <1>7 DEF Tick, TInv, NetOK, TrackedOK, Tracks, StatsOK, stats
<1>8. CASE Finish
  BY <1>8, CheckTypes DEF Finish, TInv
<1>9. CASE UNCHANGED vars
  BY <1>9 DEF vars, stats, TInv, NetOK, TrackedOK, StatsOK
<1>q. QED BY <1>1, <1>2, <1>3, <1>4, <1>5, <1>6, <1>7, <1>8, <1>9, RouteFacts DEF Next

LEMMA TypesInvariant == Spec => []TInv
BY InitTypes, NextTypes, PTL DEF Spec

(***************************************************************************)
(* The variables of the monitor keep their types: no report subtracts a    *)
(* time from an earlier one or names a hop that is not on a path.          *)
(***************************************************************************)
THEOREM TypeCorrect == Spec => []TypeOK
PROOF
<1>1. TInv => TypeOK
  BY DEF TInv, NetOK, TrackedOK, StatsOK, FlowLogOK, MimicLogOK, TypeOK,
         Places, Tracks, FlowEntries, MimicEntries
<1>q. QED BY <1>1, TypesInvariant, PTL

-------------------------------------------------------------------------------
(* Every step counts a flow's packets in one of four ways.                 *)

SameSent(f) == txPackets'[f] = txPackets[f] /\ rxPackets'[f] = rxPackets[f]

\* Packets are given up for lost, by a drop or a check, or nothing changes.
GivesUp(f) ==
  /\ SameSent(f)
  /\ lostPackets'[f] >= lostPackets[f]
  /\ lostPackets'[f] + Tracked(f)' = lostPackets[f] + Tracked(f)

Transmits(f) ==
  /\ txPackets'[f] = txPackets[f] + 1 /\ rxPackets'[f] = rxPackets[f]
  /\ lostPackets'[f] = lostPackets[f] /\ Tracked(f)' = Tracked(f) + 1

Receives(f) ==
  /\ txPackets'[f] = txPackets[f] /\ rxPackets'[f] = rxPackets[f] + 1
  /\ lostPackets'[f] = lostPackets[f] /\ Tracked(f)' = Tracked(f) - 1

\* A packet that is not tracked is dropped.
DropsUnknown(f) ==
  /\ SameSent(f)
  /\ lostPackets'[f] = lostPackets[f] + 1 /\ Tracked(f)' = Tracked(f)
  /\ \E p \in Packets : ~ended /\ enabled /\ net[p].place = "queue" /\ p \notin DOMAIN tracked

Counts(f) == GivesUp(f) \/ Transmits(f) \/ Receives(f) \/ DropsUnknown(f)

LEMMA UnchangedCounts ==
  ASSUME TInv, DOMAIN tracked' = DOMAIN tracked, UNCHANGED stats, NEW f \in Flows
  PROVE  Counts(f)
PROOF
<1>1. Tracked(f)' = Tracked(f) /\ Tracked(f) \in Nat
  BY TrackedSame, TrackedFinite DEF TInv, TrackedOK
<1>q. QED BY <1>1 DEF stats, TInv, StatsOK, Counts, GivesUp, SameSent

LEMMA StepCounts ==
  ASSUME TInv, [Next]_vars, NEW f \in Flows
  PROVE  Counts(f)
PROOF
<1>0. DOMAIN tracked \subseteq Packets /\ StatsOK /\ Tracked(f) \in Nat
  BY TrackedFinite DEF TInv, TrackedOK
<1>1. ASSUME NEW p \in Packets, NEW path \in Paths, SendOutgoing(p, path)
      PROVE  Counts(f)
  <2>1. CASE ~enabled
    BY <1>1, <2>1, UnchangedCounts DEF SendOutgoing, ReportFirstTx
  <2>2. CASE enabled
    <3>1. /\ DOMAIN tracked' = DOMAIN tracked \cup {p}
          /\ txPackets' = [txPackets EXCEPT ![FlowOf[p]] = @ + 1]
          /\ UNCHANGED <<rxPackets, lostPackets>>
      BY <1>1, <2>2 DEF SendOutgoing, ReportFirstTx, With
    <3>2. p \notin DOMAIN tracked
      BY <1>1 DEF SendOutgoing, TInv, TrackedOK
    <3>3. Tracked(f)' = IF f = FlowOf[p] THEN Tracked(f) + 1 ELSE Tracked(f)
      BY <1>0, <3>1, <3>2, TrackedAdded
    <3>q. QED BY <1>0, <3>1, <3>3 DEF StatsOK, Counts, Transmits, GivesUp, SameSent
  <2>q. QED BY <2>1, <2>2
<1>2. ASSUME NEW p \in Packets, Forward(p) PROVE Counts(f)
  <2>1. DOMAIN tracked' = DOMAIN tracked /\ UNCHANGED stats
    BY <1>2 DEF Forward, ReportForwarding
  <2>q. QED BY <2>1, UnchangedCounts
<1>3. ASSUME NEW p \in Packets, Deliver(p) PROVE Counts(f)
  <2>1. CASE ~enabled \/ p \notin DOMAIN tracked
    BY <1>3, <2>1, UnchangedCounts DEF Deliver, ReportLastRx
  <2>2. CASE enabled /\ p \in DOMAIN tracked
    <3>1. /\ DOMAIN tracked' = DOMAIN tracked \ {p}
          /\ rxPackets' = [rxPackets EXCEPT ![FlowOf[p]] = @ + 1]
          /\ UNCHANGED <<txPackets, lostPackets>>
      BY <1>3, <2>2 DEF Deliver, ReportLastRx, Without
    <3>2. Tracked(f)' = IF f = FlowOf[p] THEN Tracked(f) - 1 ELSE Tracked(f)
      BY <1>0, <2>2, <3>1, TrackedRemoved
    <3>q. QED BY <1>0, <3>1, <3>2 DEF StatsOK, Counts, Receives, GivesUp, SameSent
  <2>q. QED BY <2>1, <2>2
<1>4. ASSUME NEW p \in Packets, Drop(p) PROVE Counts(f)
  <2>1. CASE ~enabled
    BY <1>4, <2>1, UnchangedCounts DEF Drop, ReportDrop
  <2>2. CASE enabled
    <3>1. /\ DOMAIN tracked' = DOMAIN tracked \ {p}
          /\ lostPackets' = [lostPackets EXCEPT ![FlowOf[p]] = @ + 1]
          /\ UNCHANGED <<txPackets, rxPackets>>
          /\ ~ended /\ net[p].place = "queue"
      BY <1>4, <2>2 DEF Drop, ReportDrop, Without
    <3>2. CASE p \in DOMAIN tracked
      <4>1. Tracked(f)' = IF f = FlowOf[p] THEN Tracked(f) - 1 ELSE Tracked(f)
        BY <1>0, <3>1, <3>2, TrackedRemoved
      <4>q. QED BY <1>0, <3>1, <4>1 DEF StatsOK, Counts, GivesUp, SameSent
    <3>3. CASE p \notin DOMAIN tracked
      <4>1. Tracked(f)' = Tracked(f)
        BY <3>1, <3>3, TrackedSame
      <4>2. CASE f = FlowOf[p]
        BY <1>0, <2>2, <3>1, <3>3, <4>1, <4>2 DEF StatsOK, Counts, DropsUnknown, SameSent
      <4>3. CASE f # FlowOf[p]
        BY <1>0, <3>1, <4>1, <4>3 DEF StatsOK, Counts, GivesUp, SameSent
      <4>q. QED BY <4>2, <4>3
    <3>q. QED BY <3>2, <3>3
  <2>q. QED BY <2>1, <2>2
<1>5. CASE CheckForLostPackets
  <2>1. SameSent(f)
    BY <1>5 DEF CheckForLostPackets, SameSent
  <2>q. QED BY <1>0, <1>5, <2>1, CheckCounts DEF StatsOK, Counts, GivesUp
<1>6. CASE StartRightNow \/ Tick \/ UNCHANGED vars
  BY <1>6, UnchangedCounts DEF StartRightNow, Tick, vars
<1>q. QED BY <1>1, <1>2, <1>3, <1>4, <1>5, <1>6, RouteFacts
           DEF Next, StopRightNow, Finish

(***************************************************************************)
(* However the monitor is started and stopped: a flow never received, or   *)
(* keeps track of, packets it did not transmit, and no transmitted packet  *)
(* is forgotten without being counted as lost.  The counts of a flow       *)
(* change in four ways only, and each of them keeps both inequalities.     *)
(***************************************************************************)
THEOREM PacketsAccounted == Spec => []Accounted
PROOF
<1>1. Init => Accounted
  <2> SUFFICES ASSUME Init, NEW f \in Flows
               PROVE  /\ rxPackets[f] + Tracked(f) <= txPackets[f]
                      /\ txPackets[f] <= rxPackets[f] + Tracked(f) + lostPackets[f]
    BY DEF Accounted, Tracked
  <2>1. TrackedOf(f) = {}
    BY DEF Init, TrackedOf
  <2>2. Tracked(f) = 0
    BY <2>1, FS_EmptySet DEF Tracked
  <2>q. QED BY <2>2 DEF Init
<1>2. TInv /\ Accounted /\ [Next]_vars => Accounted'
  <2> SUFFICES ASSUME TInv, Accounted, [Next]_vars, NEW f \in Flows
               PROVE  /\ rxPackets'[f] + Tracked(f)' <= txPackets'[f]
                      /\ txPackets'[f] <= rxPackets'[f] + Tracked(f)' + lostPackets'[f]
    BY DEF Accounted, Tracked
  <2>1. Counts(f) /\ TInv'
    BY StepCounts, NextTypes
  <2>2. /\ rxPackets[f] + Tracked(f) <= txPackets[f]
        /\ txPackets[f] <= rxPackets[f] + Tracked(f) + lostPackets[f]
    BY DEF Accounted, Tracked
  <2>3. /\ txPackets[f] \in Nat /\ rxPackets[f] \in Nat /\ lostPackets[f] \in Nat
        /\ Tracked(f) \in Nat
    BY TrackedFinite DEF TInv, TrackedOK, StatsOK
  <2>4. /\ txPackets'[f] \in Nat /\ rxPackets'[f] \in Nat /\ lostPackets'[f] \in Nat
        /\ Tracked(f)' \in Nat
    <3>1. (DOMAIN tracked \subseteq Packets)'
      BY <2>1 DEF TInv, TrackedOK
    <3>2. Tracked(f)' \in Nat
      <4>1. IsFiniteSet(TrackedOf(f)')
        <5>1. TrackedOf(f)' \in SUBSET Packets
          BY <3>1 DEF TrackedOf
        <5>q. QED BY <5>1, FlowAssumption, FS_Subset
      <4>q. QED BY <4>1, FS_CardinalityType DEF Tracked
    <3>q. QED BY <2>1, <3>2 DEF TInv, StatsOK
  <2>q. QED BY <2>1, <2>2, <2>3, <2>4
             DEF Counts, GivesUp, Transmits, Receives, DropsUnknown, SameSent
<1>q. QED BY <1>1, <1>2, TypesInvariant, PTL DEF Spec

-------------------------------------------------------------------------------
(* A monitor that watches the whole run.                                   *)

\* Until it is enabled nothing is sent; then it tracks what is in flight.
Watch ==
  AlwaysOn =>
    /\ ~enabled => /\ \A s \in StartTimes : now <= s
                   /\ \A p \in Packets : net[p].place = "app"
    /\ ~ended => DOMAIN tracked = InFlight

LEMMA InitWatch == Init => Watch
BY TimesAssumption DEF Init, Watch, InFlight

\* While the packets are sent the monitor is enabled.
LEMMA Enabled ==
  ASSUME TInv, Watch, AlwaysOn, now >= AppStart
  PROVE  enabled
PROOF
<1>1. PICK s \in StartTimes : s < AppStart
  BY DEF AlwaysOn
<1>q. QED BY <1>1, TimesAssumption DEF Watch, TInv

LEMMA MoveInFlight ==
  ASSUME TInv, NEW p \in Packets, NEW place, NEW at, NEW since, Move(p, place, at, since)
  PROVE  InFlight' = IF place = "queue" THEN InFlight \cup {p} ELSE InFlight \ {p}
PROOF
<1>1. /\ net'[p].place = place
      /\ \A q \in Packets \ {p} : net'[q] = net[q]
  BY DEF Move, TInv, NetOK
<1>q. QED BY <1>1 DEF InFlight

LEMMA NextWatch == TInv /\ Watch /\ [Next]_vars => Watch'
PROOF
<1> SUFFICES ASSUME TInv, Watch, [Next]_vars, AlwaysOn PROVE Watch'
  BY DEF Watch, AlwaysOn
<1>0. StopTimes = {} /\ StartTimes \subseteq Nat /\ now \in Nat /\ enabled \in BOOLEAN
  BY TimesAssumption DEF AlwaysOn, TInv
<1>1. ASSUME NEW p \in Packets, NEW path \in Paths, SendOutgoing(p, path)
      PROVE  Watch'
  <2>1. enabled /\ ~ended
    BY <1>1, Enabled DEF SendOutgoing
  <2>2. DOMAIN tracked' = DOMAIN tracked \cup {p}
    BY <1>1, <2>1 DEF SendOutgoing, ReportFirstTx, With
  <2>3. InFlight' = InFlight \cup {p}
    BY <1>1 DEF SendOutgoing, InFlight, TInv, NetOK
  <2>q. QED BY <1>1, <2>1, <2>2, <2>3 DEF SendOutgoing, Watch
<1>2. ASSUME NEW p \in Packets, Forward(p) \/ Deliver(p) \/ Drop(p)
      PROVE  Watch'
  <2>1. enabled /\ ~ended /\ net[p].place = "queue" /\ enabled' = enabled /\ ended' = ended
    BY <1>2, <1>0 DEF Forward, Deliver, Drop, Watch
  <2>2. DOMAIN tracked = InFlight /\ p \in InFlight
    BY <2>1 DEF Watch, InFlight
  <2>3. CASE Forward(p)
    <3>1. DOMAIN tracked' = DOMAIN tracked
      BY <2>3 DEF Forward, ReportForwarding
    <3>2. InFlight' = InFlight \cup {p}
      BY <2>3, MoveInFlight DEF Forward
    <3>q. QED BY <2>1, <2>2, <3>1, <3>2 DEF Watch
  <2>4. CASE Deliver(p)
    <3>1. DOMAIN tracked' = DOMAIN tracked \ {p}
      BY <2>1, <2>2, <2>4 DEF Deliver, ReportLastRx, Without
    <3>2. InFlight' = InFlight \ {p}
      BY <2>4, MoveInFlight DEF Deliver
    <3>q. QED BY <2>1, <2>2, <3>1, <3>2 DEF Watch
  <2>5. CASE Drop(p)
    <3>1. DOMAIN tracked' = DOMAIN tracked \ {p}
      BY <2>1, <2>2, <2>5 DEF Drop, ReportDrop, Without
    <3>2. InFlight' = InFlight \ {p}
      BY <2>5, MoveInFlight DEF Drop
    <3>q. QED BY <2>1, <2>2, <3>1, <3>2 DEF Watch
  <2>q. QED BY <1>2, <2>3, <2>4, <2>5
<1>3. CASE StartRightNow
  BY <1>3 DEF StartRightNow, Watch, InFlight
<1>4. CASE StopRightNow
  BY <1>4, <1>0 DEF StopRightNow
<1>5. CASE Tick
  <2>1. ASSUME ~enabled, NEW s \in StartTimes PROVE now + 1 <= s
    BY <1>0, <1>5, <2>1 DEF Tick, Watch
  <2>q. QED BY <1>5, <2>1 DEF Tick, Watch, InFlight
<1>6. CASE Finish
  BY <1>6 DEF Finish, Watch
<1>7. CASE UNCHANGED vars
  BY <1>7 DEF vars, Watch, InFlight
<1>q. QED BY <1>1, <1>2, <1>3, <1>4, <1>5, <1>6, <1>7, RouteFacts DEF Next

(***************************************************************************)
(* A monitor that watches the whole run conserves packets: every           *)
(* transmitted packet of a flow is received, lost or still tracked, and    *)
(* only one of these.  Of the four ways to count, the one that loses an    *)
(* untracked packet is excluded by Watch: what is dropped was in flight,   *)
(* and all that is in flight is tracked.                                   *)
(***************************************************************************)
THEOREM PacketsConserved == Spec => []Conserved
PROOF
<1>1. Init => Conserved
  <2> SUFFICES ASSUME Init, NEW f \in Flows
               PROVE  txPackets[f] = rxPackets[f] + lostPackets[f] + Tracked(f)
    BY DEF Conserved, Tracked
  <2>1. TrackedOf(f) = {}
    BY DEF Init, TrackedOf
  <2>2. Tracked(f) = 0
    BY <2>1, FS_EmptySet DEF Tracked
  <2>q. QED BY <2>2 DEF Init
<1>2. TInv /\ Watch /\ Conserved /\ [Next]_vars => Conserved'
  <2> SUFFICES ASSUME TInv, Watch, Conserved, [Next]_vars, AlwaysOn, NEW f \in Flows
               PROVE  txPackets'[f] = rxPackets'[f] + lostPackets'[f] + Tracked(f)'
    BY DEF Conserved, Tracked, AlwaysOn
  <2>1. txPackets[f] = rxPackets[f] + lostPackets[f] + Tracked(f)
    BY DEF Conserved, Tracked
  <2>2. /\ txPackets[f] \in Nat /\ rxPackets[f] \in Nat /\ lostPackets[f] \in Nat
        /\ Tracked(f) \in Nat
    BY TrackedFinite DEF TInv, TrackedOK, StatsOK
  <2>3. ~DropsUnknown(f)
    BY DEF DropsUnknown, Watch, InFlight
  <2>4. GivesUp(f) \/ Transmits(f) \/ Receives(f)
    BY <2>3, StepCounts DEF Counts
  <2>5. CASE GivesUp(f)
    <3>1. lostPackets'[f] + Tracked(f)' = lostPackets[f] + Tracked(f)
      BY <2>5 DEF GivesUp
    <3>2. lostPackets'[f] \in Nat /\ Tracked(f)' \in Nat
      <4>1. TInv'
        BY NextTypes
      <4>2. TrackedOf(f)' \in SUBSET Packets
        BY <4>1 DEF TInv, TrackedOK, TrackedOf
      <4>3. Tracked(f)' \in Nat
        BY <4>2, FlowAssumption, FS_Subset, FS_CardinalityType DEF Tracked
      <4>q. QED BY <4>1, <4>3 DEF TInv, StatsOK
    <3>q. QED BY <2>1, <2>2, <2>5, <3>1, <3>2 DEF GivesUp, SameSent
  <2>q. QED BY <2>1, <2>2, <2>4, <2>5 DEF Transmits, Receives
<1>q. QED BY <1>1, <1>2, InitWatch, NextWatch, TypesInvariant, PTL DEF Spec

-------------------------------------------------------------------------------
(* What the monitor believes of a tracked packet is so.                    *)

TrueOf(p) ==
  /\ tracked[p].hop = Hop(p)
  /\ tracked[p].lastSeen = net[p].since
  /\ tracked[p].firstSeen = net[p].sent
  /\ tracked[p].timesForwarded = net[p].at - 1

Picture == AlwaysOn => \A p \in DOMAIN tracked : TrueOf(p)

\* A packet of which neither the record nor the place changes.
LEMMA SameTrue ==
  ASSUME NEW q, TrueOf(q), tracked'[q] = tracked[q], net'[q] = net[q]
  PROVE  TrueOf(q)'
BY DEF TrueOf, Hop

LEMMA NextPicture == TInv /\ Watch /\ Picture /\ [Next]_vars => Picture'
PROOF
<1> SUFFICES ASSUME TInv, Watch, Picture, [Next]_vars, AlwaysOn,
                    NEW q \in DOMAIN tracked'
             PROVE  TrueOf(q)'
  BY DEF Picture, AlwaysOn
<1>0. /\ StopTimes = {} /\ DOMAIN tracked \subseteq Packets
      /\ \A r \in DOMAIN tracked : TrueOf(r)
  BY DEF AlwaysOn, TInv, TrackedOK, Picture
<1>1. ASSUME NEW p \in Packets, NEW path \in Paths, SendOutgoing(p, path)
      PROVE  TrueOf(q)'
  <2> DEFINE sent == [place |-> "queue", path |-> path, at |-> 1, sent |-> now, since |-> now]
             seen == [firstSeen |-> now, lastSeen |-> now, timesForwarded |-> 0, hop |-> path[1]]
  <2>1. enabled
    BY <1>1, Enabled DEF SendOutgoing
  <2>2. tracked' = With(tracked, p, seen) /\ net' = [net EXCEPT ![p] = sent]
    BY <1>1, <2>1 DEF SendOutgoing, ReportFirstTx
  <2>3. CASE q = p
    <3>1. tracked'[q] = seen /\ net'[q] = sent
      BY <2>2, <2>3 DEF With, TInv, NetOK
    <3>q. QED BY <3>1 DEF TrueOf, Hop
  <2>4. CASE q # p
    <3>1. q \in DOMAIN tracked /\ tracked'[q] = tracked[q]
      BY <2>2, <2>4 DEF With
    <3>2. net'[q] = net[q]
      BY <1>0, <2>2, <2>4, <3>1 DEF TInv, NetOK
    <3>q. QED BY <1>0, <3>1, <3>2, SameTrue
  <2>q. QED BY <2>3, <2>4
<1>2. ASSUME NEW p \in Packets, Forward(p)
      PROVE  TrueOf(q)'
  <2> DEFINE at == net[p].at + 1
             moved == [place |-> "queue", path |-> net[p].path, at |-> at,
                       sent |-> net[p].sent, since |-> now]
             seen == [firstSeen |-> tracked[p].firstSeen, lastSeen |-> now,
                      timesForwarded |-> tracked[p].timesForwarded + 1,
                      hop |-> net[p].path[at]]
  <2>1. enabled /\ p \in DOMAIN tracked
    BY <1>2 DEF Forward, Watch, InFlight, TInv
  <2>2. tracked' = [tracked EXCEPT ![p] = seen] /\ net' = [net EXCEPT ![p] = moved]
    BY <1>2, <2>1 DEF Forward, ReportForwarding, Move
  <2>3. q \in DOMAIN tracked
    BY <2>2
  <2>4. CASE q = p
    <3>1. tracked'[q] = seen /\ net'[q] = moved
      BY <2>1, <2>2, <2>4 DEF TInv, NetOK
    <3>2. TrueOf(p) /\ net[p].at \in Nat
      BY <1>0, <2>1 DEF TInv, NetOK, Places
    <3>q. QED BY <3>1, <3>2 DEF TrueOf, Hop
  <2>5. CASE q # p
    <3>1. tracked'[q] = tracked[q] /\ net'[q] = net[q]
      BY <1>0, <2>2, <2>3, <2>5 DEF TInv, NetOK, TrackedOK
    <3>q. QED BY <1>0, <2>3, <3>1, SameTrue
  <2>q. QED BY <2>4, <2>5
<1>3. ASSUME NEW p \in Packets, Deliver(p) \/ Drop(p)
      PROVE  TrueOf(q)'
  <2>1. enabled /\ p \in DOMAIN tracked
    BY <1>3 DEF Deliver, Drop, Watch, InFlight, TInv
  <2>2. /\ tracked' = Without(tracked, {p})
        /\ \A r \in Packets \ {p} : net'[r] = net[r]
    BY <1>3, <2>1 DEF Deliver, ReportLastRx, Drop, ReportDrop, Move, TInv, NetOK
  <2>3. q \in DOMAIN tracked /\ q # p /\ tracked'[q] = tracked[q]
    BY <2>2 DEF Without
  <2>q. QED BY <1>0, <2>2, <2>3, SameTrue
<1>4. CASE Finish
  <2>1. q \in DOMAIN tracked /\ tracked'[q] = tracked[q] /\ net'[q] = net[q]
    BY <1>4 DEF Finish, CheckForLostPackets, Without
  <2>q. QED BY <1>0, <2>1, SameTrue
<1>5. CASE StartRightNow \/ StopRightNow \/ Tick \/ UNCHANGED vars
  <2>1. tracked' = tracked /\ net' = net
    BY <1>0, <1>5 DEF StartRightNow, StopRightNow, Tick, vars
  <2>q. QED BY <1>0, <2>1, SameTrue
<1>q. QED BY <1>1, <1>2, <1>3, <1>4, <1>5, RouteFacts DEF Next

LEMMA PictureInvariant == Spec => [](TInv /\ Watch /\ Picture)
PROOF
<1>1. Init => Picture
  BY DEF Init, Picture
<1>q. QED BY <1>1, NextPicture, InitWatch, NextWatch, TypesInvariant, PTL DEF Spec

(***************************************************************************)
(* A monitor that watches the whole run tracks exactly the packets in      *)
(* flight and knows of each the hop it is queued at, since when, and how   *)
(* often it was forwarded: no report comes to a packet it does not know,   *)
(* and none is charged to a hop the packet was not at.                     *)
(***************************************************************************)
THEOREM TracksNetwork == Spec => []TracksTheNetwork
PROOF
<1>1. Watch /\ Picture => TracksTheNetwork
  BY DEF Watch, Picture, TrueOf, TracksTheNetwork
<1>q. QED BY <1>1, PictureInvariant, PTL

-------------------------------------------------------------------------------
(* The fates of the packets.                                               *)

CountOf(f) == [tx |-> txPackets[f], rx |-> rxPackets[f], lost |-> lostPackets[f]]

\* A packet whose record and place stay keeps its fate.
LEMMA SameFate ==
  ASSUME NEW q, q \in DOMAIN tracked' <=> q \in DOMAIN tracked,
         net'[q].place = net[q].place
  PROVE  Fate(q)' = Fate(q)
BY DEF Fate

\* Steps that no fate and no count sees.
LEMMA Unseen ==
  ASSUME \A p \in Packets : Fate(p)' = Fate(p), UNCHANGED <<txPackets, rxPackets, lostPackets>>
  PROVE  UNCHANGED Fates!fvars
BY DEF Fates!fvars

LEMMA SendIsSee ==
  ASSUME TInv, Watch, AlwaysOn, NEW p \in Packets, NEW path \in Paths, SendOutgoing(p, path)
  PROVE  Fates!See(p)
PROOF
<1> DEFINE f == FlowOf[p]
<1>1. enabled /\ net[p].place = "app" /\ p \notin DOMAIN tracked /\ f \in Flows
  BY Enabled, FlowFacts DEF SendOutgoing, TInv, TrackedOK
<1>2. /\ DOMAIN tracked' = DOMAIN tracked \cup {p}
      /\ txPackets' = [txPackets EXCEPT ![f] = @ + 1]
      /\ UNCHANGED <<rxPackets, lostPackets>>
      /\ \A q \in Packets \ {p} : net'[q] = net[q]
  BY <1>1 DEF SendOutgoing, ReportFirstTx, With, TInv, NetOK
<1>3. Fate(p) = "unseen" /\ Fate(p)' = "open"
  BY <1>1, <1>2 DEF Fate
<1>4. \A q \in Packets \ {p} : Fate(q)' = Fate(q)
  BY <1>2, SameFate
<1>5. [q \in Packets |-> Fate(q)]' = [[q \in Packets |-> Fate(q)] EXCEPT ![p] = "open"]
  BY <1>3, <1>4
<1>6. [g \in Flows |-> CountOf(g)]'
        = [[g \in Flows |-> CountOf(g)] EXCEPT ![f].tx = @ + 1]
  <2>1. \A g \in Flows \ {f} : CountOf(g)' = CountOf(g)
    BY <1>1, <1>2 DEF CountOf, TInv, StatsOK
  <2>2. CountOf(f)' = [tx |-> txPackets[f] + 1, rx |-> rxPackets[f], lost |-> lostPackets[f]]
    BY <1>1, <1>2 DEF CountOf, TInv, StatsOK
  <2>3. CountOf(f)' = [CountOf(f) EXCEPT !.tx = @ + 1]
    BY <2>2 DEF CountOf
  <2>q. QED BY <1>1, <2>1, <2>3
<1>q. QED BY <1>3, <1>5, <1>6 DEF Fates!See, CountOf

LEMMA DeliverIsReceive ==
  ASSUME TInv, Watch, AlwaysOn, NEW p \in Packets, Deliver(p)
  PROVE  Fates!Receive(p)
PROOF
<1> DEFINE f == FlowOf[p]
<1>1. enabled /\ p \in DOMAIN tracked /\ f \in Flows
  BY FlowFacts DEF Deliver, Watch, InFlight, TInv
<1>2. /\ DOMAIN tracked' = DOMAIN tracked \ {p}
      /\ rxPackets' = [rxPackets EXCEPT ![f] = @ + 1]
      /\ UNCHANGED <<txPackets, lostPackets>>
      /\ \A q \in Packets \ {p} : net'[q] = net[q]
      /\ net'[p].place = "sink"
  BY <1>1 DEF Deliver, ReportLastRx, Without, Move, TInv, NetOK
<1>3. Fate(p) = "open" /\ Fate(p)' = "received"
  BY <1>1, <1>2 DEF Fate
<1>4. \A q \in Packets \ {p} : Fate(q)' = Fate(q)
  BY <1>2, SameFate
<1>5. [q \in Packets |-> Fate(q)]' = [[q \in Packets |-> Fate(q)] EXCEPT ![p] = "received"]
  BY <1>3, <1>4
<1>6. [g \in Flows |-> CountOf(g)]'
        = [[g \in Flows |-> CountOf(g)] EXCEPT ![f].rx = @ + 1]
  <2>1. \A g \in Flows \ {f} : CountOf(g)' = CountOf(g)
    BY <1>1, <1>2 DEF CountOf, TInv, StatsOK
  <2>2. CountOf(f)' = [tx |-> txPackets[f], rx |-> rxPackets[f] + 1, lost |-> lostPackets[f]]
    BY <1>1, <1>2 DEF CountOf, TInv, StatsOK
  <2>3. CountOf(f)' = [CountOf(f) EXCEPT !.rx = @ + 1]
    BY <2>2 DEF CountOf
  <2>q. QED BY <1>1, <2>1, <2>3
<1>q. QED BY <1>3, <1>5, <1>6 DEF Fates!Receive, CountOf

\* The cardinality of FiniteSets, as PacketFates sees it.
LEMMA SameCardinality == ASSUME NEW S PROVE Fates!Cardinality(S) = Cardinality(S)
BY DEF Cardinality, Fates!Cardinality

\* Losing the packets S.
LEMMA LosesSet ==
  ASSUME NEW S \in SUBSET Packets, S \subseteq DOMAIN tracked,
         DOMAIN tracked' = DOMAIN tracked \ S,
         \A q \in S : net'[q].place \in {"queue", "dropped"},
         \A q \in Packets \ S : net'[q].place = net[q].place,
         UNCHANGED <<txPackets, rxPackets>>,
         \A f \in Flows : lostPackets'[f] = lostPackets[f] + Cardinality({p \in S : FlowOf[p] = f})
  PROVE  Fates!Lose(S)
PROOF
<1>1. \A p \in S : Fate(p) = "open" /\ Fate(p)' = "lost"
  BY DEF Fate
<1>2. \A q \in Packets \ S : Fate(q)' = Fate(q)
  BY SameFate
<1>3. \A f \in Flows : lostPackets'[f] = lostPackets[f] + Fates!Cardinality(Fates!OfFlow(S, f))
  BY SameCardinality DEF Fates!OfFlow
<1>q. QED BY <1>1, <1>2, <1>3 DEF Fates!Lose

LEMMA DropIsLose ==
  ASSUME TInv, Watch, AlwaysOn, NEW p \in Packets, Drop(p)
  PROVE  Fates!Lose({p})
PROOF
<1>1. enabled /\ p \in DOMAIN tracked
  BY DEF Drop, Watch, InFlight, TInv
<1>2. /\ DOMAIN tracked' = DOMAIN tracked \ {p}
      /\ lostPackets' = [lostPackets EXCEPT ![FlowOf[p]] = @ + 1]
      /\ UNCHANGED <<txPackets, rxPackets>>
      /\ \A q \in Packets \ {p} : net'[q] = net[q]
      /\ net'[p].place = "dropped"
  BY <1>1 DEF Drop, ReportDrop, Without, Move, TInv, NetOK
<1>3. ASSUME NEW f \in Flows
      PROVE  lostPackets'[f] = lostPackets[f] + Cardinality({q \in {p} : FlowOf[q] = f})
  <2>1. /\ lostPackets[f] \in Nat
        /\ lostPackets'[f] = IF f = FlowOf[p] THEN lostPackets[f] + 1 ELSE lostPackets[f]
    BY <1>2 DEF TInv, StatsOK
  <2>2. CASE f = FlowOf[p]
    <3>1. {q \in {p} : FlowOf[q] = f} = {p} /\ Cardinality({p}) = 1
      BY <2>2, FS_Singleton
    <3>q. QED BY <2>1, <2>2, <3>1
  <2>3. CASE f # FlowOf[p]
    <3>1. {q \in {p} : FlowOf[q] = f} = {} /\ Cardinality({}) = 0
      BY <2>3, FS_EmptySet
    <3>q. QED BY <2>1, <2>3, <3>1
  <2>q. QED BY <2>2, <2>3
<1>q. QED BY <1>1, <1>2, <1>3, LosesSet

\* After the end a packet that is given up lies in a queue for good.
LEMMA FinishIsLose ==
  ASSUME TInv, Watch, AlwaysOn, Finish
  PROVE  \E S \in SUBSET Packets : Fates!Lose(S)
PROOF
<1>1. Overdue \in SUBSET Packets
  BY DEF Overdue, TInv, TrackedOK
<1>2. PICK S \in SUBSET Packets : S = Overdue
  BY <1>1
<1>3. S \subseteq DOMAIN tracked
  BY <1>2 DEF Overdue
<1>4. DOMAIN tracked' = DOMAIN tracked \ S /\ net' = net /\ UNCHANGED <<txPackets, rxPackets>>
  BY <1>2 DEF Finish, CheckForLostPackets, Without
<1>5. \A f \in Flows : lostPackets'[f] = lostPackets[f] + Cardinality({p \in S : FlowOf[p] = f})
  BY <1>2 DEF Finish, CheckForLostPackets
<1>6. \A q \in S : net'[q].place \in {"queue", "dropped"}
  BY <1>3, <1>4 DEF Finish, Watch, InFlight
<1>7. \A q \in Packets \ S : net'[q].place = net[q].place
  BY <1>4
<1>8. Fates!Lose(S)
  BY <1>3, <1>4, <1>5, <1>6, <1>7, LosesSet
<1>q. QED BY <1>8

LEMMA StepFates ==
  ASSUME AlwaysOn, TInv, Watch, [Next]_vars
  PROVE  [Fates!FNext]_(Fates!fvars)
PROOF
<1>0. StopTimes = {} /\ DOMAIN tracked \subseteq Packets
  BY DEF AlwaysOn, TInv, TrackedOK
<1>1. ASSUME NEW p \in Packets, NEW path \in Paths, SendOutgoing(p, path)
      PROVE  Fates!FNext
  BY <1>1, SendIsSee DEF Fates!FNext
<1>2. ASSUME NEW p \in Packets, Forward(p) PROVE UNCHANGED Fates!fvars
  <2>1. DOMAIN tracked' = DOMAIN tracked /\ UNCHANGED stats
    BY <1>2 DEF Forward, ReportForwarding
  <2>2. \A q \in Packets : net'[q].place = net[q].place
    BY <1>2 DEF Forward, Move, TInv, NetOK
  <2>q. QED BY <2>1, <2>2, SameFate, Unseen DEF stats
<1>3. ASSUME NEW p \in Packets, Deliver(p) PROVE Fates!FNext
  BY <1>3, DeliverIsReceive DEF Fates!FNext
<1>4. ASSUME NEW p \in Packets, Drop(p) PROVE Fates!FNext
  <2>1. {p} \in SUBSET Packets
    OBVIOUS
  <2>q. QED BY <1>4, <2>1, DropIsLose DEF Fates!FNext
<1>5. CASE Finish
  BY <1>5, FinishIsLose DEF Fates!FNext
<1>6. CASE StartRightNow \/ StopRightNow \/ Tick \/ UNCHANGED vars
  <2>1. tracked' = tracked /\ net' = net /\ UNCHANGED stats
    BY <1>0, <1>6 DEF StartRightNow, StopRightNow, Tick, vars
  <2>q. QED BY <2>1, SameFate, Unseen DEF stats
<1>q. QED BY <1>1, <1>2, <1>3, <1>4, <1>5, <1>6, RouteFacts DEF Next

(***************************************************************************)
(* A monitor that watches the whole run implements PacketFates: a first    *)
(* report sees a packet, a last report receives it, a drop loses it and    *)
(* the final check loses what is overdue; each packet once, and each in    *)
(* step with the counters of its flow.                                     *)
(***************************************************************************)
THEOREM ImplementsFates == ASSUME AlwaysOn PROVE Spec => CountsFates
PROOF
<1>1. Init => Fates!FInit
  <2> SUFFICES ASSUME Init PROVE Fates!FInit
    OBVIOUS
  <2>1. \A p \in Packets : Fate(p) = "unseen"
    BY DEF Init, Fate
  <2>2. \A f \in Flows : txPackets[f] = 0 /\ rxPackets[f] = 0 /\ lostPackets[f] = 0
    BY DEF Init
  <2>q. QED BY <2>1, <2>2 DEF Fates!FInit
<1>2. TInv /\ Watch /\ [Next]_vars => [Fates!FNext]_(Fates!fvars)
  BY StepFates
<1>q. QED BY <1>1, <1>2, PictureInvariant, PTL DEF Spec, CountsFates, Fates!FSpec

===============================================================================
