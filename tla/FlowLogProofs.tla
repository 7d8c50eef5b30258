---------------------------- MODULE FlowLogProofs -----------------------------
(***************************************************************************)
(* Theorems about the logs that the monitor feeds, for every finite set of *)
(* packets, all flows, paths and times: the stages of the flow log, what a *)
(* warm-up leaves in both logs, and the balance of arrivals, departures    *)
(* and latencies.                                                          *)
(***************************************************************************)
EXTENDS FlowMonitorProofs

-------------------------------------------------------------------------------
(* Sums as cardinalities.                                                  *)

Units(num) == UNION {{x} \X (1..num[x]) : x \in DOMAIN num}

LEMMA UnitsFinite ==
  ASSUME NEW S, IsFiniteSet(S), NEW num \in [S -> Nat]
  PROVE  IsFiniteSet(Units(num)) /\ Total(num) \in Nat
PROOF
<1> DEFINE part == [x \in S |-> {x} \X (1..num[x])]
           parts == {{x} \X (1..num[x]) : x \in S}
<1>1. part \in Surjection(S, parts)
  BY DEF Surjection
<1>2. IsFiniteSet(parts)
  BY <1>1, FS_Surjection
<1>3. ASSUME NEW x \in S PROVE IsFiniteSet({x} \X (1..num[x]))
  <2>1. IsFiniteSet(1..num[x])
    BY FS_Interval
  <2>q. QED BY <2>1, FS_Singleton, FS_Product
<1>4. Units(num) = UNION parts
  BY DEF Units
<1>5. IsFiniteSet(Units(num))
  BY <1>2, <1>3, <1>4, FS_UNION
<1>q. QED BY <1>5, FS_CardinalityType DEF Total, Units

\* The sum over a set with one more element.
LEMMA TotalAdd ==
  ASSUME NEW S, IsFiniteSet(S), NEW x, x \notin S,
         NEW num \in [S -> Nat], NEW new \in [S \cup {x} -> Nat],
         \A y \in S : new[y] = num[y]
  PROVE  Total(new) = Total(num) + new[x]
PROOF
<1> DEFINE part == {x} \X (1..new[x])
<1>1. IsFiniteSet(Units(num)) /\ Total(num) \in Nat
  BY UnitsFinite
<1>2. IsFiniteSet(part) /\ Cardinality(part) = new[x]
  <2>0. new[x] \in Nat
    OBVIOUS
  <2>1. IsFiniteSet(1..new[x]) /\ Cardinality(1..new[x]) = new[x]
    BY <2>0, FS_Interval
  <2>2. IsFiniteSet({x}) /\ Cardinality({x}) = 1
    BY FS_Singleton
  <2>3. /\ IsFiniteSet(part)
        /\ Cardinality(part) = Cardinality({x}) * Cardinality(1..new[x])
    BY <2>1, <2>2, FS_Product, Zenon
  <2> HIDE DEF part
  <2>q. QED BY <2>0, <2>1, <2>2, <2>3
<1>3. Units(new) = Units(num) \cup part
  BY DEF Units
<1>4. Units(num) \cap part = {}
  BY DEF Units
<1> HIDE DEF part
<1>5. Cardinality(Units(new)) = Cardinality(Units(num)) + Cardinality(part) - 0
  BY <1>1, <1>2, <1>3, <1>4, FS_Union, FS_EmptySet
<1>q. QED BY <1>1, <1>2, <1>5 DEF Total, Units

LEMMA TotalRemove ==
  ASSUME NEW S, IsFiniteSet(S), NEW x \in S,
         NEW num \in [S -> Nat], NEW new \in [S \ {x} -> Nat],
         \A y \in S \ {x} : new[y] = num[y]
  PROVE  Total(num) = Total(new) + num[x]
PROOF
<1>1. (S \ {x}) \cup {x} = S /\ x \notin S \ {x}
  OBVIOUS
<1>2. IsFiniteSet(S \ {x})
  BY FS_RemoveElement
<1>3. num \in [(S \ {x}) \cup {x} -> Nat]
  BY <1>1
<1>q. QED BY <1>1, <1>2, <1>3, TotalAdd

\* The sum after one value changed.
LEMMA TotalUpdate ==
  ASSUME NEW S, IsFiniteSet(S), NEW x \in S,
         NEW num \in [S -> Nat], NEW new \in [S -> Nat],
         \A y \in S \ {x} : new[y] = num[y]
  PROVE  Total(new) + num[x] = Total(num) + new[x]
PROOF
<1> DEFINE rest == [y \in S \ {x} |-> num[y]]
<1>1. rest \in [S \ {x} -> Nat] /\ \A y \in S \ {x} : rest[y] = num[y] /\ rest[y] = new[y]
  OBVIOUS
<1> HIDE DEF rest
<1>2. Total(num) = Total(rest) + num[x] /\ Total(new) = Total(rest) + new[x]
  BY <1>1, TotalRemove
<1>3. Total(rest) \in Nat
  BY <1>1, FS_RemoveElement, UnitsFinite
<1>q. QED BY <1>2, <1>3

LEMMA TotalZero ==
  ASSUME NEW S, NEW num \in [S -> Nat], \A x \in S : num[x] = 0
  PROVE  Total(num) = 0
PROOF
<1>1. Units(num) = {}
  BY DEF Units
<1>q. QED BY <1>1, FS_EmptySet DEF Total, Units

-------------------------------------------------------------------------------
(* What the operations of the logs do to an entry.                         *)

NoEntry == [stage |-> 0, arrivals |-> 0, departures |-> 0, latency |-> 0]
EntryOf(log, f, h) == IF <<f, h>> \in DOMAIN log THEN log[<<f, h>>] ELSE NoEntry

\* Two versions of an entry count the same.
SameEntry(new, old) ==
  /\ new.arrivals = old.arrivals /\ new.departures = old.departures
  /\ new.latency = old.latency

LEMMA EntryType ==
  ASSUME NEW log, FlowLogOK(log), NEW f, NEW h
  PROVE  /\ EntryOf(log, f, h).arrivals \in Nat
         /\ EntryOf(log, f, h).departures \in Nat
         /\ EntryOf(log, f, h).latency \in Nat
BY DEF FlowLogOK, FlowEntries, EntryOf, NoEntry

LEMMA WithEntry ==
  ASSUME NEW log, NEW f, NEW h, NEW new
  PROVE  /\ DOMAIN With(log, <<f, h>>, new) = DOMAIN log \cup {<<f, h>>}
         /\ EntryOf(With(log, <<f, h>>, new), f, h) = new
         /\ With(log, <<f, h>>, new)[<<f, h>>] = new
         /\ \A g, k : <<g, k>> # <<f, h>> =>
              EntryOf(With(log, <<f, h>>, new), g, k) = EntryOf(log, g, k)
         /\ \A x \in DOMAIN log \ {<<f, h>>} : With(log, <<f, h>>, new)[x] = log[x]
BY DEF With, EntryOf

\* An entry of four counters, with one arrival or one departure more.
LEMMA EntryChange ==
  ASSUME NEW old \in FlowEntries, NEW latency, latency \in Nat
  PROVE  /\ [old EXCEPT !.arrivals = @ + 1]
              = [stage |-> old.stage, arrivals |-> old.arrivals + 1,
                 departures |-> old.departures, latency |-> old.latency]
         /\ [old EXCEPT !.departures = @ + 1, !.latency = @ + latency]
              = [stage |-> old.stage, arrivals |-> old.arrivals,
                 departures |-> old.departures + 1, latency |-> old.latency + latency]
PROOF
<1>1. [old EXCEPT !.arrivals = @ + 1]
        = [stage |-> old.stage, arrivals |-> old.arrivals + 1,
           departures |-> old.departures, latency |-> old.latency]
  BY DEF FlowEntries
<1>2. [old EXCEPT !.departures = @ + 1, !.latency = @ + latency]
        = [[old EXCEPT !.departures = @ + 1] EXCEPT !.latency = @ + latency]
  BY Zenon DEF FlowEntries
<1>3. [old EXCEPT !.departures = @ + 1]
        = [stage |-> old.stage, arrivals |-> old.arrivals,
           departures |-> old.departures + 1, latency |-> old.latency]
  BY DEF FlowEntries
<1>4. [[stage |-> old.stage, arrivals |-> old.arrivals,
        departures |-> old.departures + 1, latency |-> old.latency]
          EXCEPT !.latency = @ + latency]
        = [stage |-> old.stage, arrivals |-> old.arrivals,
           departures |-> old.departures + 1, latency |-> old.latency + latency]
  OBVIOUS
<1>q. QED BY ONLY <1>1, <1>2, <1>3, <1>4, Zenon

\* The log new is log with an arrival at hop h, or with a departure from it.
Arrives(new, log, f, h, stage) ==
  /\ DOMAIN new = DOMAIN log \cup {<<f, h>>}
  /\ \A g, k : <<g, k>> # <<f, h>> => EntryOf(new, g, k) = EntryOf(log, g, k)
  /\ \A x \in DOMAIN log : new[x].stage = log[x].stage
  /\ <<f, h>> \notin DOMAIN log => new[<<f, h>>].stage = stage
  /\ EntryOf(new, f, h).arrivals = EntryOf(log, f, h).arrivals + 1
  /\ EntryOf(new, f, h).departures = EntryOf(log, f, h).departures
  /\ EntryOf(new, f, h).latency = EntryOf(log, f, h).latency

Departs(new, log, f, h, latency) ==
  /\ DOMAIN new = DOMAIN log
  /\ \A g, k : <<g, k>> # <<f, h>> => EntryOf(new, g, k) = EntryOf(log, g, k)
  /\ \A x \in DOMAIN log : new[x].stage = log[x].stage
  /\ EntryOf(new, f, h).arrivals = EntryOf(log, f, h).arrivals
  /\ EntryOf(new, f, h).departures
       = EntryOf(log, f, h).departures + (IF <<f, h>> \in DOMAIN log THEN 1 ELSE 0)
  /\ EntryOf(new, f, h).latency
       = EntryOf(log, f, h).latency + (IF <<f, h>> \in DOMAIN log THEN latency ELSE 0)

LEMMA ArrivalArrives ==
  ASSUME NEW log, FlowLogOK(log), NEW f, NEW h, NEW stage, stage \in Nat
  PROVE  Arrives(Arrival(log, f, h, stage), log, f, h, stage)
PROOF
<1> DEFINE old == IF <<f, h>> \in DOMAIN log THEN log[<<f, h>>]
                  ELSE [stage |-> stage, arrivals |-> 0, departures |-> 0, latency |-> 0]
           put == [stage |-> old.stage, arrivals |-> old.arrivals + 1,
                   departures |-> old.departures, latency |-> old.latency]
<1>1. old \in FlowEntries
  BY DEF FlowLogOK, FlowEntries
<1>2. SameEntry(old, EntryOf(log, f, h))
  BY DEF SameEntry, EntryOf, NoEntry
<1>3. /\ <<f, h>> \in DOMAIN log => old.stage = log[<<f, h>>].stage
      /\ <<f, h>> \notin DOMAIN log => old.stage = stage
  OBVIOUS
<1>4. Arrival(log, f, h, stage) = With(log, <<f, h>>, [old EXCEPT !.arrivals = @ + 1])
  BY DEF Arrival
<1> HIDE DEF old
<1>5. Arrival(log, f, h, stage) = With(log, <<f, h>>, put)
  BY <1>1, <1>4, EntryChange
<1>6. /\ put.stage = old.stage /\ put.arrivals = old.arrivals + 1
      /\ put.departures = old.departures /\ put.latency = old.latency
  OBVIOUS
<1> HIDE DEF put
<1> DEFINE new == Arrival(log, f, h, stage)
<1>7. /\ DOMAIN new = DOMAIN log \cup {<<f, h>>}
      /\ EntryOf(new, f, h) = put /\ new[<<f, h>>] = put
      /\ \A g, k : <<g, k>> # <<f, h>> => EntryOf(new, g, k) = EntryOf(log, g, k)
      /\ \A x \in DOMAIN log \ {<<f, h>>} : new[x] = log[x]
  BY <1>5, WithEntry
<1> HIDE DEF new
<1>8. \A x \in DOMAIN log : new[x].stage = log[x].stage
  BY <1>3, <1>6, <1>7
<1>9. /\ EntryOf(new, f, h).arrivals = EntryOf(log, f, h).arrivals + 1
      /\ EntryOf(new, f, h).departures = EntryOf(log, f, h).departures
      /\ EntryOf(new, f, h).latency = EntryOf(log, f, h).latency
  BY <1>2, <1>6, <1>7 DEF SameEntry
<1>10. Arrives(new, log, f, h, stage)
  BY <1>3, <1>6, <1>7, <1>8, <1>9 DEF Arrives
<1>q. QED BY <1>10 DEF new

LEMMA DepartureDeparts ==
  ASSUME NEW log, FlowLogOK(log), NEW f, NEW h, NEW latency, latency \in Nat
  PROVE  Departs(Departure(log, f, h, latency), log, f, h, latency)
PROOF
<1>1. CASE <<f, h>> \in DOMAIN log
  <2> DEFINE old == log[<<f, h>>]
             put == [stage |-> old.stage, arrivals |-> old.arrivals,
                     departures |-> old.departures + 1, latency |-> old.latency + latency]
  <2>1. old \in FlowEntries /\ EntryOf(log, f, h) = old
    BY <1>1 DEF FlowLogOK, EntryOf
  <2>2. Departure(log, f, h, latency) = With(log, <<f, h>>,
          [old EXCEPT !.departures = @ + 1, !.latency = @ + latency])
    BY <1>1 DEF Departure
  <2>3. DOMAIN log \cup {<<f, h>>} = DOMAIN log
    BY <1>1
  <2>4. \A x \in DOMAIN log : x = <<f, h>> => log[x].stage = old.stage
    OBVIOUS
  <2> HIDE DEF old
  <2>5. Departure(log, f, h, latency) = With(log, <<f, h>>, put)
    BY <2>1, <2>2, EntryChange
  <2>6. /\ put.stage = old.stage /\ put.arrivals = old.arrivals
        /\ put.departures = old.departures + 1 /\ put.latency = old.latency + latency
    OBVIOUS
  <2> HIDE DEF put
  <2> DEFINE new == Departure(log, f, h, latency)
  <2>7. /\ DOMAIN new = DOMAIN log \cup {<<f, h>>}
        /\ EntryOf(new, f, h) = put /\ new[<<f, h>>] = put
        /\ \A g, k : <<g, k>> # <<f, h>> => EntryOf(new, g, k) = EntryOf(log, g, k)
        /\ \A x \in DOMAIN log \ {<<f, h>>} : new[x] = log[x]
    BY <2>5, WithEntry
  <2> HIDE DEF new
  <2>8. \A x \in DOMAIN log : new[x].stage = log[x].stage
    BY <2>4, <2>6, <2>7
  <2>9. Departs(new, log, f, h, latency)
    BY <1>1, <2>1, <2>3, <2>6, <2>7, <2>8 DEF Departs
  <2>q. QED BY <2>9 DEF new
<1>2. CASE <<f, h>> \notin DOMAIN log
  <2>1. Departure(log, f, h, latency) = log
    BY <1>2 DEF Departure
  <2>2. EntryOf(log, f, h).departures \in Nat /\ EntryOf(log, f, h).latency \in Nat
    BY EntryType
  <2>q. QED BY <1>2, <2>1, <2>2 DEF Departs
<1>q. QED BY <1>1, <1>2

-------------------------------------------------------------------------------
(* The stages of the flow log.                                             *)

\* Some path of the flow comes to the hop as its stage says.
RightStage(f, h, stage) ==
  \E path \in Routes[f] : \E i \in 1..Len(path) : path[i] = h /\ stage = i - 1

Staged(log) == \A x \in DOMAIN log : RightStage(x[1], x[2], log[x].stage)

\* Packets are queued on a path of their flow, and tracked while they are.
Stages ==
  AlwaysOn =>
    /\ \A p \in Packets : net[p].place = "queue" => net[p].path \in Routes[FlowOf[p]]
    /\ DOMAIN tracked \subseteq InFlight
    /\ Staged(flowLog)

LEMMA ArrivalStaged ==
  ASSUME NEW log, FlowLogOK(log), Staged(log), NEW f, NEW h, NEW stage, stage \in Nat,
         RightStage(f, h, stage)
  PROVE  Staged(Arrival(log, f, h, stage))
PROOF
<1> DEFINE new == Arrival(log, f, h, stage)
<1>0. Arrives(new, log, f, h, stage)
  BY ArrivalArrives
<1> HIDE DEF new
<1>1. /\ DOMAIN new = DOMAIN log \cup {<<f, h>>}
      /\ \A x \in DOMAIN log : new[x].stage = log[x].stage
      /\ <<f, h>> \notin DOMAIN log => new[<<f, h>>].stage = stage
  BY <1>0 DEF Arrives
<1> SUFFICES ASSUME NEW x \in DOMAIN new PROVE RightStage(x[1], x[2], new[x].stage)
  BY DEF Staged, new
<1>2. CASE x \in DOMAIN log
  BY <1>1, <1>2 DEF Staged
<1>3. CASE x \notin DOMAIN log
  BY <1>1, <1>3
<1>q. QED BY <1>2, <1>3

LEMMA DepartureStaged ==
  ASSUME NEW log, FlowLogOK(log), Staged(log), NEW f, NEW h, NEW latency, latency \in Nat
  PROVE  Staged(Departure(log, f, h, latency))
PROOF
<1> DEFINE new == Departure(log, f, h, latency)
<1>0. Departs(new, log, f, h, latency)
  BY DepartureDeparts
<1> HIDE DEF new
<1>1. DOMAIN new = DOMAIN log /\ \A x \in DOMAIN log : new[x].stage = log[x].stage
  BY <1>0 DEF Departs
<1>q. QED BY <1>1 DEF Staged, new

LEMMA InitStages == Init => Stages
BY DEF Init, Stages, Staged, InFlight

\* A packet in flight is tracked as it is.
LEMMA FlightFacts ==
  ASSUME TInv, Watch, Picture, AlwaysOn, ~ended, NEW p \in Packets, net[p].place = "queue"
  PROVE  /\ enabled /\ p \in DOMAIN tracked
         /\ tracked[p].hop = Hop(p) /\ Hop(p) \in Hops
         /\ tracked[p].lastSeen = net[p].since /\ tracked[p].firstSeen = net[p].sent
         /\ tracked[p].timesForwarded = net[p].at - 1 /\ net[p].at \in 1..Len(net[p].path)
         /\ net[p].path \in Paths
         /\ now \in Nat /\ net[p].since \in Nat /\ net[p].sent \in Nat
         /\ net[p].since <= now /\ net[p].sent <= now
PROOF
<1>1. enabled /\ p \in DOMAIN tracked
  BY DEF Watch, InFlight, TInv
<1>2. TrueOf(p)
  BY <1>1 DEF Picture
<1>3. net[p].path \in Paths /\ net[p].at \in 1..Len(net[p].path)
  BY DEF TInv, NetOK
<1>4. Hop(p) \in Hops
  BY <1>3, PathFacts DEF Hop
<1>5. /\ now \in Nat /\ net[p].since \in Nat /\ net[p].sent \in Nat
      /\ tracked[p].lastSeen <= now /\ tracked[p].firstSeen <= now
  BY <1>1 DEF TInv, NetOK, TrackedOK, Places
<1>q. QED BY <1>1, <1>2, <1>3, <1>4, <1>5 DEF TrueOf

LEMMA NextStages == TInv /\ Watch /\ Picture /\ Stages /\ [Next]_vars => Stages'
PROOF
<1> SUFFICES ASSUME TInv, Watch, Picture, Stages, [Next]_vars, AlwaysOn
             PROVE  /\ \A p \in Packets : net'[p].place = "queue" =>
                                            net'[p].path \in Routes[FlowOf[p]]
                    /\ DOMAIN tracked' \subseteq InFlight'
                    /\ Staged(flowLog')
  BY DEF Stages, AlwaysOn
<1>0. /\ \A p \in Packets : net[p].place = "queue" => net[p].path \in Routes[FlowOf[p]]
      /\ DOMAIN tracked \subseteq InFlight /\ Staged(flowLog) /\ FlowLogOK(flowLog)
      /\ StopTimes = {}
  BY DEF Stages, TInv, AlwaysOn
<1>1. ASSUME NEW p \in Packets, NEW path \in Routes[FlowOf[p]], SendOutgoing(p, path)
      PROVE  /\ \A q \in Packets : net'[q].place = "queue" => net'[q].path \in Routes[FlowOf[q]]
             /\ DOMAIN tracked' \subseteq InFlight'
             /\ Staged(flowLog')
  <2>1. enabled /\ path \in Paths
    BY <1>1, Enabled, RouteFacts DEF SendOutgoing
  <2>2. \A q \in Packets : net'[q].place = "queue" => net'[q].path \in Routes[FlowOf[q]]
    BY <1>0, <1>1 DEF SendOutgoing, TInv, NetOK
  <2>3. DOMAIN tracked' \subseteq InFlight'
    <3>1. DOMAIN tracked' = DOMAIN tracked \cup {p}
      BY <1>1, <2>1 DEF SendOutgoing, ReportFirstTx, With
    <3>2. InFlight' = InFlight \cup {p}
      BY <1>1 DEF SendOutgoing, InFlight, TInv, NetOK
    <3>q. QED BY <1>0, <3>1, <3>2
  <2>4. RightStage(FlowOf[p], path[1], 0)
    BY <2>1, PathFacts DEF RightStage
  <2>5. flowLog' = Arrival(flowLog, FlowOf[p], path[1], 0) \/ flowLog' = flowLog
    BY <1>1, <2>1 DEF SendOutgoing, ReportFirstTx
  <2>6. Staged(flowLog')
    BY <1>0, <2>4, <2>5, ArrivalStaged
  <2>q. QED BY <2>2, <2>3, <2>6
<1>2. ASSUME NEW p \in Packets, Forward(p)
      PROVE  /\ \A q \in Packets : net'[q].place = "queue" => net'[q].path \in Routes[FlowOf[q]]
             /\ DOMAIN tracked' \subseteq InFlight'
             /\ Staged(flowLog')
  <2> DEFINE f == FlowOf[p]
             t == tracked[p]
             at == net[p].at + 1
             h == net[p].path[at]
  <2>1. /\ net[p].place = "queue" /\ ~ended /\ net[p].at < Len(net[p].path)
        /\ Move(p, "queue", at, now)
    BY <1>2 DEF Forward
  <2>2. /\ enabled /\ p \in DOMAIN tracked /\ t.timesForwarded = net[p].at - 1
        /\ t.hop = Hop(p) /\ t.lastSeen = net[p].since /\ net[p].since \in Nat
        /\ now \in Nat /\ net[p].since <= now
        /\ net[p].at \in 1..Len(net[p].path) /\ net[p].path \in Paths
    BY <2>1, FlightFacts
  <2>3. at \in 1..Len(net[p].path) /\ net[p].path \in Routes[f] /\ f \in Flows
    BY <1>0, <2>1, <2>2, PathFacts, FlowFacts
  <2>4. \A q \in Packets : net'[q].place = "queue" => net'[q].path \in Routes[FlowOf[q]]
    <3>1. net'[p].path = net[p].path /\ \A q \in Packets \ {p} : net'[q] = net[q]
      BY <2>1 DEF Move, TInv, NetOK
    <3>q. QED BY <1>0, <2>3, <3>1
  <2>5. DOMAIN tracked' \subseteq InFlight'
    <3>1. DOMAIN tracked' = DOMAIN tracked
      BY <1>2, <2>2 DEF Forward, ReportForwarding
    <3>2. InFlight' = InFlight \cup {p}
      BY <2>1, MoveInFlight
    <3>q. QED BY <1>0, <3>1, <3>2
  <2>6. t.timesForwarded + 1 \in Nat /\ RightStage(f, h, t.timesForwarded + 1)
    <3>1. PICK path, n : path = net[p].path /\ n = net[p].at
      OBVIOUS
    <3>2. n \in Nat /\ t.timesForwarded = n - 1 /\ h = path[n + 1]
      BY <2>2, <3>1
    <3>q. QED BY <2>3, <3>1, <3>2 DEF RightStage
  <2>7. now - t.lastSeen \in Nat
    BY <2>2
  <2>8. \/ flowLog' = flowLog
        \/ /\ f \in LoggedFlows
           /\ flowLog' = Departure(Arrival(flowLog, f, h, t.timesForwarded + 1),
                                   f, t.hop, now - t.lastSeen)
    BY <1>2, <2>2 DEF Forward, ReportForwarding, Logging
  <2>9. Staged(Arrival(flowLog, f, h, t.timesForwarded + 1))
    BY <1>0, <2>6, ArrivalStaged
  <2>10. h \in Hops
    BY <2>2, <2>3, PathFacts
  <2>11. f \in LoggedFlows => FlowLogOK(Arrival(flowLog, f, h, t.timesForwarded + 1))
    BY <1>0, <2>6, <2>10, ArrivalOK
  <2>12. Staged(flowLog')
    BY <1>0, <2>7, <2>8, <2>9, <2>11, DepartureStaged
  <2>q. QED BY <2>4, <2>5, <2>12
<1>3. ASSUME NEW p \in Packets, Deliver(p) \/ Drop(p)
      PROVE  /\ \A q \in Packets : net'[q].place = "queue" => net'[q].path \in Routes[FlowOf[q]]
             /\ DOMAIN tracked' \subseteq InFlight'
             /\ Staged(flowLog')
  <2> DEFINE f == FlowOf[p]
             t == tracked[p]
  <2>1. net[p].place = "queue" /\ ~ended
    BY <1>3 DEF Deliver, Drop
  <2>2. /\ enabled /\ p \in DOMAIN tracked /\ t.hop = Hop(p) /\ t.lastSeen = net[p].since
        /\ now \in Nat /\ net[p].since \in Nat /\ net[p].since <= now
    BY <2>1, FlightFacts
  <2>3. /\ net'[p].place \in {"sink", "dropped"}
        /\ \A q \in Packets \ {p} : net'[q] = net[q]
    BY <1>3 DEF Deliver, Drop, Move, TInv, NetOK
  <2>4. DOMAIN tracked' = DOMAIN tracked \ {p}
    BY <1>3, <2>2 DEF Deliver, ReportLastRx, Drop, ReportDrop, Without
  <2>5. DOMAIN tracked' \subseteq InFlight'
    BY <1>0, <2>3, <2>4 DEF InFlight
  <2>6. flowLog' = flowLog \/ flowLog' = Departure(flowLog, f, t.hop, now - t.lastSeen)
    BY <1>3, <2>2 DEF Deliver, ReportLastRx, Drop
  <2>7. now - t.lastSeen \in Nat
    BY <2>2
  <2>8. Staged(flowLog')
    BY <1>0, <2>6, <2>7, DepartureStaged
  <2>q. QED BY <1>0, <2>3, <2>5, <2>8
<1>4. CASE Finish
  BY <1>0, <1>4 DEF Finish, CheckForLostPackets, Without, InFlight
<1>5. CASE StartRightNow \/ StopRightNow \/ Tick \/ UNCHANGED vars
  BY <1>0, <1>5 DEF StartRightNow, StopRightNow, Tick, vars, InFlight
<1>q. QED BY <1>1, <1>2, <1>3, <1>4, <1>5 DEF Next

(***************************************************************************)
(* The stage that the flow log fixed for a hop, at its first arrival, is   *)
(* the stage of every packet tracked there, on whichever of its flow's     *)
(* paths it came: DistanceAssumption makes any two of them agree.          *)
(***************************************************************************)
THEOREM StagesAlwaysAgree == Spec => []StagesAgree
PROOF
<1>1. TInv /\ Watch /\ Picture /\ Stages => StagesAgree
  <2> SUFFICES ASSUME TInv, Picture, Stages, AlwaysOn, NEW p \in DOMAIN tracked,
                      <<FlowOf[p], tracked[p].hop>> \in DOMAIN flowLog
               PROVE  flowLog[<<FlowOf[p], tracked[p].hop>>].stage
                        = tracked[p].timesForwarded
    BY DEF StagesAgree
  <2> DEFINE f == FlowOf[p]
             mine == net[p].path
  <2>1. p \in Packets /\ net[p].place = "queue" /\ f \in Flows
    BY FlowFacts DEF Stages, InFlight
  <2>2. mine \in Routes[f] /\ net[p].at \in 1..Len(mine)
    BY <2>1 DEF Stages, TInv, NetOK
  <2>3. tracked[p].hop = mine[net[p].at] /\ tracked[p].timesForwarded = net[p].at - 1
    BY DEF Picture, TrueOf, Hop
  <2>4. RightStage(f, tracked[p].hop, flowLog[<<f, tracked[p].hop>>].stage)
    BY DEF Stages, Staged
  <2>5. PICK path \in Routes[f] : \E i \in 1..Len(path) :
          path[i] = tracked[p].hop /\ flowLog[<<f, tracked[p].hop>>].stage = i - 1
    BY <2>4 DEF RightStage
  <2>6. PICK i \in 1..Len(path) :
          path[i] = tracked[p].hop /\ flowLog[<<f, tracked[p].hop>>].stage = i - 1
    BY <2>5
  <2>7. i = net[p].at
    <3>1. PICK route, at : route = mine /\ at = net[p].at
      OBVIOUS
    <3>2. route \in Routes[f] /\ at \in 1..Len(route) /\ route[at] = path[i]
      BY <2>2, <2>3, <2>6, <3>1
    <3>q. QED BY <2>1, <3>1, <3>2, DistanceAssumption
  <2>q. QED BY <2>3, <2>6, <2>7
<1>q. QED BY <1>1, InitStages, NextStages, PictureInvariant, PTL DEF Spec

-------------------------------------------------------------------------------
(* What a warm-up leaves in the flow log.                                  *)

\* Packets whose arrival at the hop is logged and whose departure is to come.
Due(f, h) ==
  {p \in DOMAIN tracked : /\ FlowOf[p] = f /\ tracked[p].hop = h
                          /\ tracked[p].lastSeen >= TimeWarmUp}

\* Early packets that may have left a hop at which no arrival of theirs is logged.
SentEarly(f) ==
  {p \in Packets : FlowOf[p] = f /\ net[p].place # "app" /\ net[p].sent < TimeWarmUp}
Spent(f) ==
  {p \in SentEarly(f) : ~(p \in DOMAIN tracked /\ tracked[p].lastSeen < TimeWarmUp)}

Bound(f, h) ==
  EntryOf(flowLog, f, h).departures + Cardinality(Due(f, h))
    <= EntryOf(flowLog, f, h).arrivals + Cardinality(Spent(f))

\* A record starts when its packet is sent.
Recorded ==
  \A p \in DOMAIN tracked :
    tracked[p].firstSeen = net[p].sent /\ net[p].sent <= tracked[p].lastSeen

Excess == \A f \in LoggedFlows, h \in Hops : Bound(f, h)

LEMMA DueFinite ==
  ASSUME TInv, NEW f, NEW h
  PROVE  /\ IsFiniteSet(Due(f, h)) /\ Cardinality(Due(f, h)) \in Nat
         /\ IsFiniteSet(Spent(f)) /\ Cardinality(Spent(f)) \in Nat
PROOF
<1>1. Due(f, h) \in SUBSET Packets /\ Spent(f) \in SUBSET Packets
  BY DEF Due, Spent, SentEarly, TInv, TrackedOK
<1>q. QED BY <1>1, FlowAssumption, FS_Subset, FS_CardinalityType

\* A step that logs nothing at the hop, ends a record or sees an early packet.
LEMMA BoundKept ==
  ASSUME TInv, TInv', NEW f, NEW h, Bound(f, h),
         EntryOf(flowLog, f, h)' = EntryOf(flowLog, f, h),
         Due(f, h)' \subseteq Due(f, h), Spent(f) \subseteq Spent(f)'
  PROVE  Bound(f, h)'
PROOF
<1> DEFINE due == Due(f, h)
           due2 == Due(f, h)'
           spent == Spent(f)
           spent2 == Spent(f)'
<1>1. /\ IsFiniteSet(due) /\ Cardinality(due) \in Nat
      /\ IsFiniteSet(spent) /\ Cardinality(spent) \in Nat
  BY DueFinite
<1>2. /\ IsFiniteSet(due2) /\ Cardinality(due2) \in Nat
      /\ IsFiniteSet(spent2) /\ Cardinality(spent2) \in Nat
  <2>1. due2 \in SUBSET Packets /\ spent2 \in SUBSET Packets
    BY DEF Due, Spent, SentEarly, TInv, TrackedOK
  <2>q. QED BY <2>1, FlowAssumption, FS_Subset, FS_CardinalityType
<1>3. /\ EntryOf(flowLog, f, h).arrivals \in Nat
      /\ EntryOf(flowLog, f, h).departures \in Nat
  BY EntryType DEF TInv
<1>4. due2 \in SUBSET due /\ spent \in SUBSET spent2
  OBVIOUS
<1>5. EntryOf(flowLog, f, h).departures + Cardinality(due)
        <= EntryOf(flowLog, f, h).arrivals + Cardinality(spent)
  BY DEF Bound
<1> HIDE DEF due, due2, spent, spent2
<1>6. Cardinality(due2) <= Cardinality(due) /\ Cardinality(spent) <= Cardinality(spent2)
  BY <1>1, <1>2, <1>4, FS_Subset
<1>7. EntryOf(flowLog, f, h).departures + Cardinality(due2)
        <= EntryOf(flowLog, f, h).arrivals + Cardinality(spent2)
  BY <1>1, <1>2, <1>3, <1>5, <1>6
<1>q. QED BY <1>7 DEF due2, spent2, Bound

LEMMA NextRecorded == TInv /\ Recorded /\ [Next]_vars => Recorded'
PROOF
<1> SUFFICES ASSUME TInv, Recorded, [Next]_vars, NEW q \in DOMAIN tracked'
             PROVE  tracked'[q].firstSeen = net'[q].sent /\ net'[q].sent <= tracked'[q].lastSeen
  BY DEF Recorded
<1>0. /\ DOMAIN tracked \subseteq Packets /\ net \in [Packets -> Places]
      /\ \A p \in DOMAIN tracked :
           tracked[p].firstSeen = net[p].sent /\ net[p].sent <= tracked[p].lastSeen
  BY DEF Recorded, TInv, TrackedOK, NetOK
\* A record that stays, of a packet sent when it was.
<1>1. ASSUME q \in DOMAIN tracked, tracked'[q] = tracked[q], net'[q].sent = net[q].sent
      PROVE  tracked'[q].firstSeen = net'[q].sent /\ net'[q].sent <= tracked'[q].lastSeen
  BY <1>0, <1>1
<1>2. ASSUME NEW p \in Packets, NEW path \in Paths, SendOutgoing(p, path)
      PROVE  tracked'[q].firstSeen = net'[q].sent /\ net'[q].sent <= tracked'[q].lastSeen
  <2> DEFINE seen == [firstSeen |-> now, lastSeen |-> now, timesForwarded |-> 0, hop |-> path[1]]
  <2>1. /\ \A r \in Packets \ {p} : net'[r] = net[r]
        /\ net'[p].sent = now /\ net[p].place = "app" /\ now \in Nat
    BY <1>0, <1>2 DEF SendOutgoing, TInv
  <2>2. p \notin DOMAIN tracked
    BY <2>1 DEF TInv, TrackedOK
  <2>3. tracked' = tracked \/ tracked' = With(tracked, p, seen)
    BY <1>2 DEF SendOutgoing, ReportFirstTx
  <2>4. CASE q = p
    <3>1. tracked'[q] = seen
      BY <2>2, <2>3, <2>4 DEF With
    <3>q. QED BY <2>1, <2>4, <3>1
  <2>5. CASE q # p
    <3>1. q \in DOMAIN tracked /\ tracked'[q] = tracked[q]
      BY <2>3, <2>5 DEF With
    <3>q. QED BY <1>0, <1>1, <2>1, <2>5, <3>1
  <2>q. QED BY <2>4, <2>5
<1>3. ASSUME NEW p \in Packets, Forward(p) \/ Deliver(p) \/ Drop(p)
      PROVE  tracked'[q].firstSeen = net'[q].sent /\ net'[q].sent <= tracked'[q].lastSeen
  <2>1. \A r \in Packets : net'[r].sent = net[r].sent
    BY <1>0, <1>3 DEF Forward, Deliver, Drop, Move
  <2>2. CASE q \in DOMAIN tracked /\ tracked'[q] = tracked[q]
    BY <1>0, <1>1, <2>1, <2>2
  <2>3. CASE Forward(p) /\ enabled /\ p \in DOMAIN tracked
    <3> DEFINE seen == [firstSeen |-> tracked[p].firstSeen, lastSeen |-> now,
                        timesForwarded |-> tracked[p].timesForwarded + 1,
                        hop |-> net[p].path[net[p].at + 1]]
    <3>1. tracked' = [tracked EXCEPT ![p] = seen]
      BY <2>3 DEF Forward, ReportForwarding
    <3>2. q \in DOMAIN tracked /\ (q # p => tracked'[q] = tracked[q]) /\ (q = p => tracked'[q] = seen)
      BY <2>3, <3>1
    <3>3. tracked[p].firstSeen = net[p].sent /\ tracked[p].firstSeen <= now
      BY <1>0, <2>3 DEF TInv, TrackedOK
    <3>q. QED BY <1>0, <1>1, <2>1, <3>2, <3>3
  <2>4. CASE ~(Forward(p) /\ enabled /\ p \in DOMAIN tracked)
    BY <1>3, <2>2, <2>4 DEF Forward, ReportForwarding, Deliver, ReportLastRx, Drop,
                            ReportDrop, Without
  <2>q. QED BY <2>3, <2>4
<1>4. CASE StartRightNow \/ StopRightNow \/ Tick \/ Finish \/ UNCHANGED vars
  <2>1. net' = net /\ q \in DOMAIN tracked /\ tracked'[q] = tracked[q]
    BY <1>4 DEF StartRightNow, StopRightNow, Tick, Finish, CheckForLostPackets, Without, vars
  <2>q. QED BY <1>1, <2>1
<1>q. QED BY <1>2, <1>3, <1>4, RouteFacts DEF Next

LEMMA RecordedInvariant == Spec => [](TInv /\ Recorded)
PROOF
<1>1. Init => Recorded
  BY DEF Init, Recorded
<1>q. QED BY <1>1, NextRecorded, TypesInvariant, PTL DEF Spec

\* One element more or less.
LEMMA OneMore ==
  ASSUME NEW S, IsFiniteSet(S), NEW x
  PROVE  Cardinality(S \cup {x}) <= Cardinality(S) + 1
PROOF
<1>1. Cardinality(S) \in Nat
  BY FS_CardinalityType
<1>2. Cardinality(S \cup {x}) = IF x \in S THEN Cardinality(S) ELSE Cardinality(S) + 1
  BY FS_AddElement
<1>q. QED BY <1>1, <1>2

\* A first report: the hop has an arrival more, and a packet due.
LEMMA SendExcess ==
  ASSUME TInv, TInv', NEW p \in Packets, NEW path \in Paths, SendOutgoing(p, path),
         NEW f \in LoggedFlows, NEW h \in Hops, Bound(f, h)
  PROVE  Bound(f, h)'
PROOF
<1> DEFINE seen == [firstSeen |-> now, lastSeen |-> now, timesForwarded |-> 0, hop |-> path[1]]
<1>1. /\ \A q \in Packets \ {p} : net'[q] = net[q]
      /\ net[p].place = "app" /\ net'[p].sent = now /\ net'[p].place = "queue"
      /\ now \in Nat /\ TimeWarmUp \in Nat /\ FlowLogOK(flowLog)
      /\ DOMAIN tracked \subseteq Packets
      /\ \A q \in DOMAIN tracked : tracked[q].lastSeen \in Nat
  BY TimesAssumption DEF SendOutgoing, TInv, NetOK, TrackedOK, Tracks
<1>2. p \notin DOMAIN tracked
  BY <1>1 DEF TInv, TrackedOK
<1>3. CASE ~enabled
  <2>1. tracked' = tracked /\ flowLog' = flowLog
    BY <1>3 DEF SendOutgoing, ReportFirstTx
  <2>2. Due(f, h)' = Due(f, h) /\ Spent(f) \subseteq Spent(f)'
    BY <1>1, <2>1 DEF Due, Spent, SentEarly
  <2>q. QED BY <2>1, <2>2, BoundKept DEF EntryOf
<1>4. CASE enabled
  <2>1. tracked' = With(tracked, p, seen)
    BY <1>4 DEF SendOutgoing, ReportFirstTx
  <2>2. /\ DOMAIN tracked' = DOMAIN tracked \cup {p} /\ tracked'[p] = seen
        /\ \A q \in DOMAIN tracked : tracked'[q] = tracked[q]
    BY <1>2, <2>1 DEF With
  <2>3. CASE ~Logging(f) \/ f # FlowOf[p]
    <3>1. EntryOf(flowLog, f, h)' = EntryOf(flowLog, f, h)
      <4>1. CASE ~Logging(FlowOf[p])
        BY <1>4, <4>1 DEF SendOutgoing, ReportFirstTx, EntryOf
      <4>2. CASE f # FlowOf[p] /\ Logging(FlowOf[p])
        <5>1. flowLog' = Arrival(flowLog, FlowOf[p], path[1], 0)
          BY <1>4, <4>2 DEF SendOutgoing, ReportFirstTx
        <5>2. Arrives(flowLog', flowLog, FlowOf[p], path[1], 0)
          BY <1>1, <5>1, ArrivalArrives
        <5>3. <<f, h>> # <<FlowOf[p], path[1]>>
          BY <4>2
        <5>4. EntryOf(flowLog', f, h) = EntryOf(flowLog, f, h)
          BY <5>2, <5>3 DEF Arrives
        <5>q. QED BY <5>4 DEF EntryOf
      <4>q. QED BY <2>3, <4>1, <4>2
    <3>2. f # FlowOf[p] \/ now < TimeWarmUp
      BY <2>3, <1>1 DEF Logging
    <3>3. Due(f, h)' \subseteq Due(f, h) /\ Spent(f) \subseteq Spent(f)'
      BY <1>1, <1>2, <2>2, <3>2 DEF Due, Spent, SentEarly
    <3>q. QED BY <3>1, <3>3, BoundKept
  <2>4. CASE Logging(f) /\ f = FlowOf[p]
    <3>1. flowLog' = Arrival(flowLog, f, path[1], 0)
      BY <1>4, <2>4 DEF SendOutgoing, ReportFirstTx
    <3>2. Arrives(flowLog', flowLog, f, path[1], 0)
      BY <1>1, <3>1, ArrivalArrives
    <3>3. Spent(f) = Spent(f)'
      BY <1>1, <1>2, <2>2, <2>4 DEF Spent, SentEarly, Logging
    <3>4. CASE h # path[1]
      <4>1. EntryOf(flowLog', f, h) = EntryOf(flowLog, f, h)
        BY <3>2, <3>4 DEF Arrives
      <4>2. Due(f, h)' \subseteq Due(f, h)
        BY <1>1, <2>2, <3>4 DEF Due
      <4>q. QED BY <3>3, <4>1, <4>2, BoundKept DEF EntryOf
    <3>5. CASE h = path[1]
      <4>1. /\ EntryOf(flowLog', f, h).arrivals = EntryOf(flowLog, f, h).arrivals + 1
            /\ EntryOf(flowLog', f, h).departures = EntryOf(flowLog, f, h).departures
        BY <3>2, <3>5 DEF Arrives
      <4>2. Due(f, h)' = Due(f, h) \cup {p}
        BY <1>1, <1>2, <2>2, <2>4, <3>5 DEF Due, Logging
      <4>3. Cardinality(Due(f, h)') <= Cardinality(Due(f, h)) + 1
        BY <4>2, DueFinite, OneMore
      <4>4. Cardinality(Due(f, h)') \in Nat
        BY <4>2, DueFinite, FS_AddElement, FS_CardinalityType
      <4>5. /\ EntryOf(flowLog, f, h).arrivals \in Nat
            /\ EntryOf(flowLog, f, h).departures \in Nat
            /\ Cardinality(Due(f, h)) \in Nat /\ Cardinality(Spent(f)) \in Nat
        BY <1>1, EntryType, DueFinite
      <4>6. EntryOf(flowLog, f, h).departures + Cardinality(Due(f, h))
              <= EntryOf(flowLog, f, h).arrivals + Cardinality(Spent(f))
        BY DEF Bound
      <4>7. EntryOf(flowLog', f, h).departures + Cardinality(Due(f, h)')
              <= EntryOf(flowLog', f, h).arrivals + Cardinality(Spent(f)')
        BY <3>3, <4>1, <4>3, <4>4, <4>5, <4>6
      <4>q. QED BY <4>7 DEF Bound
    <3>q. QED BY <3>4, <3>5
  <2>q. QED BY <2>3, <2>4
<1>q. QED BY <1>3, <1>4

(***************************************************************************)
(* A later report of a tracked packet: it leaves the hop of its record and *)
(* may arrive at another.  If its record is one of the warm-up, so that    *)
(* the departure has no arrival, the packet is spent from now on.          *)
(***************************************************************************)
LEMMA LeaveExcess ==
  ASSUME TInv, TInv', NEW p \in DOMAIN tracked, NEW f \in LoggedFlows, f = FlowOf[p],
         NEW h \in Hops, Bound(f, h), NEW comes \in BOOLEAN,
         EntryOf(flowLog', f, h).arrivals
           = EntryOf(flowLog, f, h).arrivals + (IF comes THEN 1 ELSE 0),
         EntryOf(flowLog', f, h).departures
           <= EntryOf(flowLog, f, h).departures + (IF h = tracked[p].hop THEN 1 ELSE 0),
         Due(f, h)' = IF comes THEN Due(f, h) \cup {p} ELSE Due(f, h) \ {p},
         Spent(f) \subseteq Spent(f)',
         tracked[p].lastSeen < TimeWarmUp => p \in Spent(f)'
  PROVE  Bound(f, h)'
PROOF
<1> DEFINE due == Due(f, h)
           due2 == Due(f, h)'
           spent == Spent(f)
           spent2 == Spent(f)'
           a == EntryOf(flowLog, f, h).arrivals
           d == EntryOf(flowLog, f, h).departures
           a2 == EntryOf(flowLog', f, h).arrivals
           d2 == EntryOf(flowLog', f, h).departures
           late == tracked[p].lastSeen >= TimeWarmUp
<1>1. /\ IsFiniteSet(due) /\ Cardinality(due) \in Nat
      /\ IsFiniteSet(spent) /\ Cardinality(spent) \in Nat
  BY DueFinite
<1>2. /\ IsFiniteSet(due2) /\ Cardinality(due2) \in Nat
      /\ IsFiniteSet(spent2) /\ Cardinality(spent2) \in Nat
  <2>1. due2 \in SUBSET Packets /\ spent2 \in SUBSET Packets
    BY DEF Due, Spent, SentEarly, TInv, TrackedOK
  <2>q. QED BY <2>1, FlowAssumption, FS_Subset, FS_CardinalityType
<1>3. a \in Nat /\ d \in Nat /\ a2 \in Nat /\ d2 \in Nat
  BY EntryType DEF TInv
<1>4. tracked[p].lastSeen \in Nat /\ TimeWarmUp \in Nat /\ p \in Packets
  BY TimesAssumption DEF TInv, TrackedOK, Tracks
<1>5. p \in due <=> late /\ h = tracked[p].hop
  BY DEF Due
<1>6. ~late => p \notin spent /\ p \in spent2
  BY <1>4 DEF Spent
<1>7. d + Cardinality(due) <= a + Cardinality(spent)
  BY DEF Bound
<1>8. a2 = a + (IF comes THEN 1 ELSE 0) /\ d2 <= d + (IF h = tracked[p].hop THEN 1 ELSE 0)
  OBVIOUS
<1>9. due2 = IF comes THEN due \cup {p} ELSE due \ {p}
  OBVIOUS
<1>10. spent \subseteq spent2
  OBVIOUS
<1> HIDE DEF due, due2, spent, spent2, a, d, a2, d2, late
<1>11. Cardinality(due2) = IF comes THEN (IF p \in due THEN Cardinality(due)
                                          ELSE Cardinality(due) + 1)
                           ELSE (IF p \in due THEN Cardinality(due) - 1
                                 ELSE Cardinality(due))
  BY <1>1, <1>9, FS_AddElement, FS_RemoveElement
<1>12. Cardinality(spent2) >= Cardinality(spent) + (IF late THEN 0 ELSE 1)
  <2>1. CASE late
    <3>1. Cardinality(spent) <= Cardinality(spent2)
      BY <1>2, <1>10, FS_Subset
    <3>q. QED BY <1>1, <1>2, <2>1, <3>1
  <2>2. CASE ~late
    <3>1. Cardinality(spent \cup {p}) = Cardinality(spent) + 1
      BY <1>1, <1>6, <2>2, FS_AddElement
    <3>2. Cardinality(spent \cup {p}) <= Cardinality(spent2)
      <4>1. spent \cup {p} \in SUBSET spent2
        BY <1>6, <1>10, <2>2
      <4>q. QED BY <1>2, <4>1, FS_Subset
    <3>q. QED BY <1>1, <1>2, <2>2, <3>1, <3>2
  <2>q. QED BY <2>1, <2>2
<1>13. d2 + Cardinality(due2) <= a2 + Cardinality(spent2)
  <2>1. CASE comes
    BY <1>1, <1>2, <1>3, <1>5, <1>7, <1>8, <1>11, <1>12, <2>1
  <2>2. CASE ~comes
    BY <1>1, <1>2, <1>3, <1>5, <1>7, <1>8, <1>11, <1>12, <2>2
  <2>q. QED BY <2>1, <2>2
<1>q. QED BY <1>13 DEF Bound, due2, spent2, a2, d2

LEMMA ForwardExcess ==
  ASSUME TInv, TInv', Recorded, NEW p \in Packets, Forward(p),
         NEW f \in LoggedFlows, NEW h \in Hops, Bound(f, h)
  PROVE  Bound(f, h)'
PROOF
<1> DEFINE t == tracked[p]
           at == net[p].at + 1
           next == net[p].path[at]
           seen == [firstSeen |-> t.firstSeen, lastSeen |-> now,
                    timesForwarded |-> t.timesForwarded + 1, hop |-> next]
<1>1. /\ \A q \in Packets : net'[q].sent = net[q].sent /\ (net'[q].place = "app" <=> net[q].place = "app")
      /\ now \in Nat /\ TimeWarmUp \in Nat /\ FlowLogOK(flowLog)
      /\ DOMAIN tracked \subseteq Packets
      /\ net[p].path \in Paths /\ at \in 1..Len(net[p].path)
  BY TimesAssumption, PathFacts DEF Forward, Move, TInv, NetOK, TrackedOK
<1>2. CASE ~enabled \/ p \notin DOMAIN tracked
  <2>1. tracked' = tracked /\ flowLog' = flowLog
    BY <1>2 DEF Forward, ReportForwarding
  <2>2. Due(f, h)' = Due(f, h) /\ Spent(f) \subseteq Spent(f)'
    BY <1>1, <2>1 DEF Due, Spent, SentEarly
  <2>q. QED BY <2>1, <2>2, BoundKept DEF EntryOf
<1>3. CASE enabled /\ p \in DOMAIN tracked
  <2>1. /\ tracked' = [tracked EXCEPT ![p] = seen]
        /\ flowLog' = IF Logging(FlowOf[p])
                      THEN Departure(Arrival(flowLog, FlowOf[p], next, t.timesForwarded + 1),
                                     FlowOf[p], t.hop, now - t.lastSeen)
                      ELSE flowLog
    BY <1>3 DEF Forward, ReportForwarding
  <2>2. /\ DOMAIN tracked' = DOMAIN tracked /\ tracked'[p] = seen
        /\ \A q \in DOMAIN tracked \ {p} : tracked'[q] = tracked[q]
    BY <1>3, <2>1
  <2>3. /\ t.lastSeen \in Nat /\ t.lastSeen <= now /\ now - t.lastSeen \in Nat
        /\ t.timesForwarded + 1 \in Nat /\ net[p].sent <= t.lastSeen
        /\ net[p].place # "app" /\ net[p].sent \in Nat
    <3>1. now \in Nat /\ net[p].sent \in Nat
      BY <1>1 DEF TInv, NetOK, Places
    <3>2. t \in Tracks /\ net[p].place # "app" /\ t.lastSeen <= now
      BY <1>3 DEF TInv, TrackedOK
    <3>3. net[p].sent <= t.lastSeen
      BY <1>3 DEF Recorded
    <3>q. QED BY <3>1, <3>2, <3>3 DEF Tracks
  <2>4. next \in Hops
    <3>1. PICK path : path = net[p].path
      OBVIOUS
    <3>q. QED BY <1>1, <3>1, PathFacts
  <2> HIDE DEF next
  <2>5. CASE ~Logging(FlowOf[p]) \/ f # FlowOf[p]
    <3>1. EntryOf(flowLog, f, h)' = EntryOf(flowLog, f, h)
      <4>1. CASE ~Logging(FlowOf[p])
        BY <2>1, <4>1 DEF EntryOf
      <4>2. CASE f # FlowOf[p] /\ Logging(FlowOf[p])
        <5> DEFINE mid == Arrival(flowLog, FlowOf[p], next, t.timesForwarded + 1)
        <5>1. Arrives(mid, flowLog, FlowOf[p], next, t.timesForwarded + 1) /\ FlowLogOK(mid)
          BY <1>1, <2>3, <2>4, <4>2, ArrivalArrives, ArrivalOK DEF Logging
        <5>2. flowLog' = Departure(mid, FlowOf[p], t.hop, now - t.lastSeen)
          BY <2>1, <4>2
        <5> HIDE DEF mid
        <5>3. Departs(flowLog', mid, FlowOf[p], t.hop, now - t.lastSeen)
          BY <2>3, <5>1, <5>2, DepartureDeparts
        <5>4. EntryOf(mid, f, h) = EntryOf(flowLog, f, h)
          BY <4>2, <5>1 DEF Arrives
        <5>5. EntryOf(flowLog', f, h) = EntryOf(mid, f, h)
          BY <4>2, <5>3 DEF Departs
        <5>q. QED BY <5>4, <5>5 DEF EntryOf
      <4>q. QED BY <2>5, <4>1, <4>2
    <3>2. f # FlowOf[p] \/ (now < TimeWarmUp /\ t.lastSeen < TimeWarmUp)
      BY <1>1, <2>3, <2>5 DEF Logging
    <3>3. Due(f, h)' \subseteq Due(f, h)
      BY <1>1, <1>3, <2>2, <2>3, <3>2 DEF Due
    <3>4. Spent(f) \subseteq Spent(f)'
      BY <1>1, <1>3, <2>2, <2>3, <3>2 DEF Spent, SentEarly
    <3>q. QED BY <3>1, <3>3, <3>4, BoundKept
  <2>6. CASE Logging(FlowOf[p]) /\ f = FlowOf[p]
    <3> DEFINE mid == Arrival(flowLog, f, next, t.timesForwarded + 1)
               comes == h = next
    <3>1. Arrives(mid, flowLog, f, next, t.timesForwarded + 1) /\ FlowLogOK(mid)
      BY <1>1, <2>3, <2>4, ArrivalArrives, ArrivalOK
    <3>2. flowLog' = Departure(mid, f, t.hop, now - t.lastSeen)
      BY <2>1, <2>6
    <3> HIDE DEF mid
    <3>3. Departs(flowLog', mid, f, t.hop, now - t.lastSeen)
      BY <2>3, <3>1, <3>2, DepartureDeparts
    <3>4. /\ EntryOf(flowLog, f, h).arrivals \in Nat /\ EntryOf(flowLog, f, h).departures \in Nat
          /\ EntryOf(mid, f, h).arrivals \in Nat /\ EntryOf(mid, f, h).departures \in Nat
      BY <1>1, <3>1, EntryType
    <3>5. /\ EntryOf(mid, f, h).arrivals
               = EntryOf(flowLog, f, h).arrivals + (IF comes THEN 1 ELSE 0)
          /\ EntryOf(mid, f, h).departures = EntryOf(flowLog, f, h).departures
      <4>1. CASE h = next
        BY <3>1, <4>1 DEF Arrives
      <4>2. CASE h # next
        <5>1. EntryOf(mid, f, h) = EntryOf(flowLog, f, h)
          BY <3>1, <4>2 DEF Arrives
        <5>q. QED BY <3>4, <4>2, <5>1
      <4>q. QED BY <4>1, <4>2
    <3>6. /\ EntryOf(flowLog', f, h).arrivals = EntryOf(mid, f, h).arrivals
          /\ EntryOf(flowLog', f, h).departures
               <= EntryOf(mid, f, h).departures + (IF h = t.hop THEN 1 ELSE 0)
      <4>1. CASE h = t.hop
        BY <3>3, <3>4, <4>1 DEF Departs
      <4>2. CASE h # t.hop
        <5>1. EntryOf(flowLog', f, h) = EntryOf(mid, f, h)
          BY <3>3, <4>2 DEF Departs
        <5>q. QED BY <3>4, <4>2, <5>1
      <4>q. QED BY <4>1, <4>2
    <3>7. Due(f, h)' = IF comes THEN Due(f, h) \cup {p} ELSE Due(f, h) \ {p}
      BY <1>1, <1>3, <2>2, <2>3, <2>6 DEF Due, Logging
    <3>8. Spent(f) \subseteq Spent(f)'
      BY <1>1, <1>3, <2>2, <2>3, <2>6 DEF Spent, SentEarly, Logging
    <3>9. t.lastSeen < TimeWarmUp => p \in Spent(f)'
      BY <1>1, <1>3, <2>2, <2>3, <2>6 DEF Spent, SentEarly, Logging
    <3>10. comes \in BOOLEAN
      OBVIOUS
    <3> HIDE DEF comes
    <3>q. QED BY <1>3, <2>6, <3>5, <3>6, <3>7, <3>8, <3>9, <3>10, LeaveExcess
  <2>q. QED BY <2>5, <2>6
<1>q. QED BY <1>2, <1>3

LEMMA DeliverExcess ==
  ASSUME TInv, TInv', Recorded, NEW p \in Packets, Deliver(p),
         NEW f \in LoggedFlows, NEW h \in Hops, Bound(f, h)
  PROVE  Bound(f, h)'
PROOF
<1> DEFINE t == tracked[p]
<1>1. /\ \A q \in Packets : net'[q].sent = net[q].sent /\ (net'[q].place = "app" <=> net[q].place = "app")
      /\ now \in Nat /\ TimeWarmUp \in Nat /\ FlowLogOK(flowLog)
      /\ DOMAIN tracked \subseteq Packets
  BY TimesAssumption DEF Deliver, Move, TInv, NetOK, TrackedOK
<1>2. CASE ~enabled \/ p \notin DOMAIN tracked
  <2>1. tracked' = tracked /\ flowLog' = flowLog
    BY <1>2 DEF Deliver, ReportLastRx
  <2>2. Due(f, h)' = Due(f, h) /\ Spent(f) \subseteq Spent(f)'
    BY <1>1, <2>1 DEF Due, Spent, SentEarly
  <2>q. QED BY <2>1, <2>2, BoundKept DEF EntryOf
<1>3. CASE enabled /\ p \in DOMAIN tracked
  <2>1. /\ tracked' = Without(tracked, {p})
        /\ flowLog' = IF Logging(FlowOf[p])
                      THEN Departure(flowLog, FlowOf[p], t.hop, now - t.lastSeen)
                      ELSE flowLog
    BY <1>3 DEF Deliver, ReportLastRx
  <2>2. /\ DOMAIN tracked' = DOMAIN tracked \ {p}
        /\ \A q \in DOMAIN tracked \ {p} : tracked'[q] = tracked[q]
    BY <2>1 DEF Without
  <2>3. /\ t.lastSeen \in Nat /\ t.lastSeen <= now /\ now - t.lastSeen \in Nat
        /\ net[p].sent <= t.lastSeen /\ net[p].place # "app" /\ net[p].sent \in Nat
    BY <1>1, <1>3 DEF TInv, TrackedOK, Tracks, Recorded, NetOK, Places
  <2>4. Due(f, h)' = Due(f, h) \ {p} /\ Spent(f) \subseteq Spent(f)'
    BY <1>1, <2>2 DEF Due, Spent, SentEarly
  <2>5. CASE ~Logging(FlowOf[p]) \/ f # FlowOf[p]
    <3>1. EntryOf(flowLog, f, h)' = EntryOf(flowLog, f, h)
      <4>1. CASE ~Logging(FlowOf[p])
        BY <2>1, <4>1 DEF EntryOf
      <4>2. CASE f # FlowOf[p] /\ Logging(FlowOf[p])
        <5>1. flowLog' = Departure(flowLog, FlowOf[p], t.hop, now - t.lastSeen)
          BY <2>1, <4>2
        <5>2. Departs(flowLog', flowLog, FlowOf[p], t.hop, now - t.lastSeen)
          BY <1>1, <2>3, <5>1, DepartureDeparts
        <5>3. EntryOf(flowLog', f, h) = EntryOf(flowLog, f, h)
          BY <4>2, <5>2 DEF Departs
        <5>q. QED BY <5>3 DEF EntryOf
      <4>q. QED BY <2>5, <4>1, <4>2
    <3>q. QED BY <2>4, <3>1, BoundKept
  <2>6. CASE Logging(FlowOf[p]) /\ f = FlowOf[p]
    <3>1. flowLog' = Departure(flowLog, f, t.hop, now - t.lastSeen)
      BY <2>1, <2>6
    <3>2. Departs(flowLog', flowLog, f, t.hop, now - t.lastSeen)
      BY <1>1, <2>3, <3>1, DepartureDeparts
    <3>3. EntryOf(flowLog, f, h).arrivals \in Nat /\ EntryOf(flowLog, f, h).departures \in Nat
      BY <1>1, EntryType
    <3>4. /\ EntryOf(flowLog', f, h).arrivals = EntryOf(flowLog, f, h).arrivals
          /\ EntryOf(flowLog', f, h).departures
               <= EntryOf(flowLog, f, h).departures + (IF h = t.hop THEN 1 ELSE 0)
      <4>1. CASE h = t.hop
        BY <3>2, <3>3, <4>1 DEF Departs
      <4>2. CASE h # t.hop
        <5>1. EntryOf(flowLog', f, h) = EntryOf(flowLog, f, h)
          BY <3>2, <4>2 DEF Departs
        <5>q. QED BY <3>3, <4>2, <5>1
      <4>q. QED BY <4>1, <4>2
    <3>5. t.lastSeen < TimeWarmUp => p \in Spent(f)'
      BY <1>1, <1>3, <2>2, <2>3, <2>6 DEF Spent, SentEarly
    <3>6. EntryOf(flowLog', f, h).arrivals
            = EntryOf(flowLog, f, h).arrivals + (IF FALSE THEN 1 ELSE 0)
      BY <3>3, <3>4
    <3>q. QED BY <1>3, <2>4, <2>6, <3>4, <3>5, <3>6, LeaveExcess
  <2>q. QED BY <2>5, <2>6
<1>q. QED BY <1>2, <1>3

LEMMA NextExcess == TInv /\ Recorded /\ Excess /\ [Next]_vars => Excess'
PROOF
<1> SUFFICES ASSUME TInv, Recorded, [Next]_vars, NEW f \in LoggedFlows, NEW h \in Hops,
                    Bound(f, h)
             PROVE  Bound(f, h)'
  BY DEF Excess
<1>0. TInv'
  BY NextTypes
<1>1. ASSUME NEW p \in Packets, NEW path \in Paths, SendOutgoing(p, path) PROVE Bound(f, h)'
  BY <1>0, <1>1, SendExcess
<1>2. ASSUME NEW p \in Packets, Forward(p) PROVE Bound(f, h)'
  BY <1>0, <1>2, ForwardExcess
<1>3. ASSUME NEW p \in Packets, Deliver(p) PROVE Bound(f, h)'
  BY <1>0, <1>3, DeliverExcess
<1>4. ASSUME flowLog' = flowLog,
             DOMAIN tracked' \subseteq DOMAIN tracked,
             \A q \in DOMAIN tracked' : tracked'[q] = tracked[q],
             \A q \in Packets : net'[q].sent = net[q].sent
                                /\ (net'[q].place = "app" <=> net[q].place = "app")
      PROVE  Bound(f, h)'
  <2>1. DOMAIN tracked \subseteq Packets
    BY DEF TInv, TrackedOK
  <2>2. Due(f, h)' \subseteq Due(f, h) /\ Spent(f) \subseteq Spent(f)'
    BY <1>4, <2>1 DEF Due, Spent, SentEarly
  <2>q. QED BY <1>0, <1>4, <2>2, BoundKept DEF EntryOf
<1>5. ASSUME NEW p \in Packets, Drop(p) PROVE Bound(f, h)'
  <2>1. flowLog' = flowLog
    BY <1>5 DEF Drop
  <2>2. /\ DOMAIN tracked' \subseteq DOMAIN tracked
        /\ \A q \in DOMAIN tracked' : tracked'[q] = tracked[q]
    BY <1>5 DEF Drop, ReportDrop, Without
  <2>3. \A q \in Packets : net'[q].sent = net[q].sent
                           /\ (net'[q].place = "app" <=> net[q].place = "app")
    BY <1>5 DEF Drop, Move, TInv, NetOK
  <2>q. QED BY <1>4, <2>1, <2>2, <2>3
<1>6. CASE StartRightNow \/ StopRightNow \/ Tick \/ Finish \/ UNCHANGED vars
  <2>1. /\ flowLog' = flowLog /\ net' = net /\ DOMAIN tracked' \subseteq DOMAIN tracked
        /\ \A q \in DOMAIN tracked' : tracked'[q] = tracked[q]
    BY <1>6 DEF StartRightNow, StopRightNow, Tick, Finish, CheckForLostPackets, Without, vars
  <2>q. QED BY <1>4, <2>1
<1>q. QED BY <1>1, <1>2, <1>3, <1>5, <1>6, RouteFacts DEF Next

-------------------------------------------------------------------------------
(* What a warm-up leaves in the mimic log.                                 *)

MimicOf(log, f) ==
  IF f \in DOMAIN log THEN log[f] ELSE [tx |-> 0, rx |-> 0, latency |-> 0]

\* Packets whose transmission is logged and whose reception is to come, and early
\* packets that may have been received.
Late(f) == {p \in DOMAIN tracked : FlowOf[p] = f /\ tracked[p].firstSeen >= TimeWarmUp}
Gone(f) == {p \in SentEarly(f) : p \notin DOMAIN tracked}

MimicBound(f) ==
  MimicOf(mimicLog, f).rx + Cardinality(Late(f))
    <= MimicOf(mimicLog, f).tx + Cardinality(Gone(f))

MimicExcess == \A f \in LoggedFlows : MimicBound(f)

LEMMA MimicType ==
  ASSUME NEW log, MimicLogOK(log), NEW f
  PROVE  /\ MimicOf(log, f).tx \in Nat /\ MimicOf(log, f).rx \in Nat
         /\ MimicOf(log, f).latency \in Nat
BY DEF MimicLogOK, MimicEntries, MimicOf

\* The log new is log with a transmission, or a reception, of the flow.
LogsTx(new, log, f) ==
  /\ DOMAIN new = DOMAIN log \cup {f}
  /\ \A g : g # f => MimicOf(new, g) = MimicOf(log, g)
  /\ MimicOf(new, f).tx = MimicOf(log, f).tx + 1
  /\ MimicOf(new, f).rx = MimicOf(log, f).rx
  /\ MimicOf(new, f).latency = MimicOf(log, f).latency

LogsRx(new, log, f, delay) ==
  /\ DOMAIN new = DOMAIN log
  /\ \A g : g # f => MimicOf(new, g) = MimicOf(log, g)
  /\ MimicOf(new, f).tx = MimicOf(log, f).tx
  /\ MimicOf(new, f).rx = MimicOf(log, f).rx + (IF f \in DOMAIN log THEN 1 ELSE 0)
  /\ MimicOf(new, f).latency
       = MimicOf(log, f).latency + (IF f \in DOMAIN log THEN delay ELSE 0)

LEMMA MimicTxLogs ==
  ASSUME NEW log, MimicLogOK(log), NEW f
  PROVE  LogsTx(MimicTx(log, f), log, f)
PROOF
<1> DEFINE old == MimicOf(log, f)
           put == [old EXCEPT !.tx = @ + 1]
           new == MimicTx(log, f)
<1>1. new = With(log, f, put)
  BY DEF MimicTx, MimicOf
<1>2. old \in MimicEntries
  BY DEF MimicOf, MimicLogOK, MimicEntries
<1> HIDE DEF old, new
<1>3. put.tx = old.tx + 1 /\ put.rx = old.rx /\ put.latency = old.latency
  BY <1>2 DEF MimicEntries
<1> HIDE DEF put
<1>4. /\ MimicOf(new, f) = put /\ DOMAIN new = DOMAIN log \cup {f}
      /\ \A g : g # f => MimicOf(new, g) = MimicOf(log, g)
  BY <1>1 DEF With, MimicOf
<1>5. LogsTx(new, log, f)
  BY <1>3, <1>4 DEF LogsTx, old
<1>q. QED BY <1>5 DEF new

LEMMA MimicRxLogs ==
  ASSUME NEW log, MimicLogOK(log), NEW f, NEW delay, delay \in Nat
  PROVE  LogsRx(MimicRx(log, f, delay), log, f, delay)
PROOF
<1>1. CASE f \in DOMAIN log
  <2> DEFINE old == log[f]
             new == [tx |-> old.tx, rx |-> old.rx + 1, latency |-> old.latency + delay]
  <2>1. old \in MimicEntries /\ MimicOf(log, f) = old
    BY <1>1 DEF MimicLogOK, MimicOf
  <2>2. MimicRx(log, f, delay)
          = With(log, f, [old EXCEPT !.rx = @ + 1, !.latency = @ + delay])
    BY <1>1 DEF MimicRx
  <2> HIDE DEF old
  <2>3. [old EXCEPT !.rx = @ + 1, !.latency = @ + delay] = new
    <3>1. [old EXCEPT !.rx = @ + 1, !.latency = @ + delay]
            = [[old EXCEPT !.rx = @ + 1] EXCEPT !.latency = @ + delay]
      BY <2>1, Zenon DEF MimicEntries
    <3>2. [old EXCEPT !.rx = @ + 1]
            = [tx |-> old.tx, rx |-> old.rx + 1, latency |-> old.latency]
      BY <2>1 DEF MimicEntries
    <3>3. [[tx |-> old.tx, rx |-> old.rx + 1, latency |-> old.latency]
             EXCEPT !.latency = @ + delay] = new
      OBVIOUS
    <3>q. QED BY ONLY <3>1, <3>2, <3>3, Zenon
  <2>4. new.tx = old.tx /\ new.rx = old.rx + 1 /\ new.latency = old.latency + delay
    OBVIOUS
  <2> HIDE DEF new
  <2> DEFINE log2 == MimicRx(log, f, delay)
  <2>5. log2 = With(log, f, new)
    BY <2>2, <2>3
  <2> HIDE DEF log2
  <2>6. /\ MimicOf(log2, f) = new /\ DOMAIN log2 = DOMAIN log \cup {f}
        /\ \A g : g # f => MimicOf(log2, g) = MimicOf(log, g)
    BY <2>5 DEF With, MimicOf
  <2>7. DOMAIN log \cup {f} = DOMAIN log
    BY <1>1
  <2>8. LogsRx(log2, log, f, delay)
    BY <1>1, <2>1, <2>4, <2>6, <2>7 DEF LogsRx
  <2>q. QED BY <2>8 DEF log2
<1>2. CASE f \notin DOMAIN log
  <2>1. MimicRx(log, f, delay) = log
    BY <1>2 DEF MimicRx
  <2>2. MimicOf(log, f).rx \in Nat /\ MimicOf(log, f).latency \in Nat
    BY MimicType
  <2>q. QED BY <1>2, <2>1, <2>2 DEF LogsRx
<1>q. QED BY <1>1, <1>2

LEMMA LateFinite ==
  ASSUME TInv, NEW f
  PROVE  /\ IsFiniteSet(Late(f)) /\ Cardinality(Late(f)) \in Nat
         /\ IsFiniteSet(Gone(f)) /\ Cardinality(Gone(f)) \in Nat
PROOF
<1>1. Late(f) \in SUBSET Packets /\ Gone(f) \in SUBSET Packets
  BY DEF Late, Gone, SentEarly, TInv, TrackedOK
<1>q. QED BY <1>1, FlowAssumption, FS_Subset, FS_CardinalityType

\* A packet more is transmitted, or received, in the log (tx, rx: whether one is)
\* than in the network only if it is one of the warm-up.
LEMMA MimicBoundStep ==
  ASSUME TInv, TInv', NEW f, MimicBound(f), NEW p, NEW tx \in BOOLEAN, NEW rx \in BOOLEAN,
         MimicOf(mimicLog', f).tx = MimicOf(mimicLog, f).tx + (IF tx THEN 1 ELSE 0),
         MimicOf(mimicLog', f).rx <= MimicOf(mimicLog, f).rx + (IF rx THEN 1 ELSE 0),
         Late(f)' \subseteq IF tx THEN Late(f) \cup {p} ELSE Late(f),
         Gone(f) \subseteq Gone(f)',
         rx => ~tx /\ \/ p \in Late(f) \ Late(f)'
                      \/ p \in Gone(f)' \ Gone(f)
  PROVE  MimicBound(f)'
PROOF
<1> DEFINE late == Late(f)
           late2 == Late(f)'
           gone == Gone(f)
           gone2 == Gone(f)'
           t == MimicOf(mimicLog, f).tx
           r == MimicOf(mimicLog, f).rx
           t2 == MimicOf(mimicLog', f).tx
           r2 == MimicOf(mimicLog', f).rx
<1>1. /\ IsFiniteSet(late) /\ Cardinality(late) \in Nat
      /\ IsFiniteSet(gone) /\ Cardinality(gone) \in Nat
  BY LateFinite
<1>2. /\ IsFiniteSet(late2) /\ Cardinality(late2) \in Nat
      /\ IsFiniteSet(gone2) /\ Cardinality(gone2) \in Nat
  <2>1. late2 \in SUBSET Packets /\ gone2 \in SUBSET Packets
    BY DEF Late, Gone, SentEarly, TInv, TrackedOK
  <2>q. QED BY <2>1, FlowAssumption, FS_Subset, FS_CardinalityType
<1>3. t \in Nat /\ r \in Nat /\ t2 \in Nat /\ r2 \in Nat
  BY MimicType DEF TInv
<1>4. r + Cardinality(late) <= t + Cardinality(gone)
  BY DEF MimicBound
<1>5. t2 = t + (IF tx THEN 1 ELSE 0) /\ r2 <= r + (IF rx THEN 1 ELSE 0)
  OBVIOUS
<1>6. late2 \subseteq (IF tx THEN late \cup {p} ELSE late) /\ gone \subseteq gone2
  OBVIOUS
<1>7. rx => ~tx /\ (p \in late \ late2 \/ p \in gone2 \ gone)
  OBVIOUS
<1> HIDE DEF late, late2, gone, gone2, t, r, t2, r2
<1>8. Cardinality(gone) <= Cardinality(gone2)
  <2>1. gone \in SUBSET gone2
    BY <1>6
  <2>q. QED BY <1>2, <2>1, FS_Subset
<1>9. Cardinality(late2) <= Cardinality(late) + (IF tx THEN 1 ELSE 0)
  <2>1. CASE tx
    <3>1. late2 \in SUBSET (late \cup {p})
      BY <1>6, <2>1
    <3>2. IsFiniteSet(late \cup {p}) /\ Cardinality(late \cup {p}) \in Nat
      BY <1>1, FS_AddElement, FS_CardinalityType
    <3>3. Cardinality(late2) <= Cardinality(late \cup {p})
      BY <3>1, <3>2, FS_Subset
    <3>4. Cardinality(late \cup {p}) <= Cardinality(late) + 1
      BY <1>1, OneMore
    <3>q. QED BY <1>1, <1>2, <2>1, <3>2, <3>3, <3>4
  <2>2. CASE ~tx
    <3>1. late2 \in SUBSET late
      BY <1>6, <2>2
    <3>2. Cardinality(late2) <= Cardinality(late)
      BY <1>1, <3>1, FS_Subset
    <3>q. QED BY <1>1, <1>2, <2>2, <3>2
  <2>q. QED BY <2>1, <2>2
<1>10. CASE ~rx
  <2>1. r2 + Cardinality(late2) <= t2 + Cardinality(gone2)
    BY <1>1, <1>2, <1>3, <1>4, <1>5, <1>8, <1>9, <1>10
  <2>q. QED BY <2>1 DEF MimicBound, late2, gone2, t2, r2
<1>11. CASE rx /\ p \in late \ late2
  <2>1. late2 \in SUBSET (late \ {p})
    BY <1>6, <1>7, <1>11
  <2>2. IsFiniteSet(late \ {p}) /\ Cardinality(late \ {p}) = Cardinality(late) - 1
    BY <1>1, <1>11, FS_RemoveElement
  <2>3. Cardinality(late2) <= Cardinality(late \ {p})
    BY <2>1, <2>2, FS_Subset
  <2>4. r2 + Cardinality(late2) <= t2 + Cardinality(gone2)
    BY <1>1, <1>2, <1>3, <1>4, <1>5, <1>7, <1>8, <1>11, <2>2, <2>3
  <2>q. QED BY <2>4 DEF MimicBound, late2, gone2, t2, r2
<1>12. CASE rx /\ p \in gone2 \ gone
  <2>1. gone \cup {p} \in SUBSET gone2
    BY <1>6, <1>12
  <2>2. Cardinality(gone \cup {p}) = Cardinality(gone) + 1
    BY <1>1, <1>12, FS_AddElement
  <2>3. Cardinality(gone \cup {p}) <= Cardinality(gone2)
    BY <1>2, <2>1, FS_Subset
  <2>4. r2 + Cardinality(late2) <= t2 + Cardinality(gone2)
    BY <1>1, <1>2, <1>3, <1>4, <1>5, <1>7, <1>9, <1>12, <2>2, <2>3
  <2>q. QED BY <2>4 DEF MimicBound, late2, gone2, t2, r2
<1>q. QED BY <1>7, <1>10, <1>11, <1>12

LEMMA SendMimic ==
  ASSUME TInv, TInv', NEW p \in Packets, NEW path \in Paths, SendOutgoing(p, path),
         NEW f \in LoggedFlows, MimicBound(f)
  PROVE  MimicBound(f)'
PROOF
<1> DEFINE seen == [firstSeen |-> now, lastSeen |-> now, timesForwarded |-> 0, hop |-> path[1]]
           counts == enabled /\ Logging(f) /\ f = FlowOf[p]
<1>1. /\ \A q \in Packets \ {p} : net'[q] = net[q]
      /\ net[p].place = "app" /\ net'[p].sent = now /\ net'[p].place = "queue"
      /\ now \in Nat /\ TimeWarmUp \in Nat /\ MimicLogOK(mimicLog)
      /\ DOMAIN tracked \subseteq Packets /\ p \notin DOMAIN tracked
  BY TimesAssumption DEF SendOutgoing, TInv, NetOK, TrackedOK
<1>2. tracked' = IF enabled THEN With(tracked, p, seen) ELSE tracked
  BY DEF SendOutgoing, ReportFirstTx
<1>3. /\ DOMAIN tracked' = IF enabled THEN DOMAIN tracked \cup {p} ELSE DOMAIN tracked
      /\ \A q \in DOMAIN tracked : tracked'[q] = tracked[q]
      /\ enabled => tracked'[p] = seen
  BY <1>1, <1>2 DEF With
<1>4. /\ MimicOf(mimicLog', f).tx = MimicOf(mimicLog, f).tx + (IF counts THEN 1 ELSE 0)
      /\ MimicOf(mimicLog', f).rx <= MimicOf(mimicLog, f).rx + (IF FALSE THEN 1 ELSE 0)
  <2>1. mimicLog' = IF enabled /\ Logging(FlowOf[p]) THEN MimicTx(mimicLog, FlowOf[p])
                    ELSE mimicLog
    BY DEF SendOutgoing, ReportFirstTx
  <2>2. MimicOf(mimicLog, f).tx \in Nat /\ MimicOf(mimicLog, f).rx \in Nat
    BY <1>1, MimicType
  <2>3. CASE counts
    <3>1. mimicLog' = MimicTx(mimicLog, f)
      BY <2>1, <2>3
    <3>2. LogsTx(mimicLog', mimicLog, f)
      BY <1>1, <3>1, MimicTxLogs
    <3>q. QED BY <2>2, <2>3, <3>2 DEF LogsTx
  <2>4. CASE ~counts
    <3>1. MimicOf(mimicLog', f) = MimicOf(mimicLog, f)
      <4>1. CASE f # FlowOf[p]
        <5>1. LogsTx(mimicLog', mimicLog, FlowOf[p]) \/ mimicLog' = mimicLog
          BY <1>1, <2>1, MimicTxLogs
        <5>q. QED BY <4>1, <5>1 DEF LogsTx
      <4>2. CASE f = FlowOf[p]
        BY <2>1, <2>4, <4>2
      <4>q. QED BY <4>1, <4>2
    <3>q. QED BY <2>2, <2>4, <3>1
  <2>q. QED BY <2>3, <2>4
<1>5. Late(f)' \subseteq IF counts THEN Late(f) \cup {p} ELSE Late(f)
  BY <1>1, <1>3 DEF Late, Logging
<1>6. Gone(f) \subseteq Gone(f)'
  BY <1>1, <1>3 DEF Gone, SentEarly
<1>7. counts \in BOOLEAN
  OBVIOUS
<1> HIDE DEF counts
<1>q. QED BY <1>4, <1>5, <1>6, <1>7, MimicBoundStep

LEMMA DeliverMimic ==
  ASSUME TInv, TInv', Recorded, NEW p \in Packets, Deliver(p),
         NEW f \in LoggedFlows, MimicBound(f)
  PROVE  MimicBound(f)'
PROOF
<1> DEFINE known == enabled /\ p \in DOMAIN tracked
           delay == now - tracked[p].firstSeen
           counts == known /\ Logging(f) /\ f = FlowOf[p]
<1>1. /\ \A q \in Packets : net'[q].sent = net[q].sent /\ (net'[q].place = "app" <=> net[q].place = "app")
      /\ now \in Nat /\ TimeWarmUp \in Nat /\ MimicLogOK(mimicLog)
      /\ DOMAIN tracked \subseteq Packets
  BY TimesAssumption DEF Deliver, Move, TInv, NetOK, TrackedOK
<1>2. known => /\ delay \in Nat /\ net[p].place # "app"
               /\ net[p].sent = tracked[p].firstSeen /\ net[p].sent \in Nat
  BY <1>1 DEF TInv, TrackedOK, Tracks, Recorded, NetOK, Places
<1>3. tracked' = IF known THEN Without(tracked, {p}) ELSE tracked
  BY DEF Deliver, ReportLastRx
<1>4. /\ DOMAIN tracked' = IF known THEN DOMAIN tracked \ {p} ELSE DOMAIN tracked
      /\ \A q \in DOMAIN tracked' : tracked'[q] = tracked[q]
  BY <1>3 DEF Without
<1>5. /\ MimicOf(mimicLog', f).tx = MimicOf(mimicLog, f).tx + (IF FALSE THEN 1 ELSE 0)
      /\ MimicOf(mimicLog', f).rx <= MimicOf(mimicLog, f).rx + (IF counts THEN 1 ELSE 0)
  <2>1. mimicLog' = IF known /\ Logging(FlowOf[p]) THEN MimicRx(mimicLog, FlowOf[p], delay)
                    ELSE mimicLog
    BY DEF Deliver, ReportLastRx
  <2>2. MimicOf(mimicLog, f).tx \in Nat /\ MimicOf(mimicLog, f).rx \in Nat
    BY <1>1, MimicType
  <2>3. CASE counts
    <3>1. mimicLog' = MimicRx(mimicLog, f, delay) /\ delay \in Nat
      BY <1>2, <2>1, <2>3
    <3> HIDE DEF delay
    <3>2. LogsRx(mimicLog', mimicLog, f, delay)
      BY <1>1, <3>1, MimicRxLogs
    <3>q. QED BY <2>2, <2>3, <3>2 DEF LogsRx
  <2>4. CASE ~counts
    <3>1. MimicOf(mimicLog', f) = MimicOf(mimicLog, f)
      <4>1. CASE f # FlowOf[p] /\ known
        <5>1. delay \in Nat
          BY <1>2, <4>1
        <5> HIDE DEF delay
        <5>2. LogsRx(mimicLog', mimicLog, FlowOf[p], delay) \/ mimicLog' = mimicLog
          BY <1>1, <2>1, <5>1, MimicRxLogs
        <5>q. QED BY <4>1, <5>2 DEF LogsRx
      <4>2. CASE f = FlowOf[p] \/ ~known
        BY <2>1, <2>4, <4>2
      <4>q. QED BY <4>1, <4>2
    <3>q. QED BY <2>2, <2>4, <3>1
  <2>q. QED BY <2>3, <2>4
<1>6. Late(f)' \subseteq Late(f) /\ Gone(f) \subseteq Gone(f)'
  BY <1>1, <1>4 DEF Late, Gone, SentEarly
<1>7. counts => \/ p \in Late(f) \ Late(f)'
                \/ p \in Gone(f)' \ Gone(f)
  BY <1>1, <1>2, <1>4 DEF Late, Gone, SentEarly
<1>8. counts \in BOOLEAN
  OBVIOUS
<1> HIDE DEF counts
<1>9. Late(f)' \subseteq IF FALSE THEN Late(f) \cup {p} ELSE Late(f)
  BY <1>6
<1>q. QED BY <1>5, <1>6, <1>7, <1>8, <1>9, MimicBoundStep

LEMMA NextMimic == TInv /\ Recorded /\ MimicExcess /\ [Next]_vars => MimicExcess'
PROOF
<1> SUFFICES ASSUME TInv, Recorded, [Next]_vars, NEW f \in LoggedFlows, MimicBound(f)
             PROVE  MimicBound(f)'
  BY DEF MimicExcess
<1>0. TInv'
  BY NextTypes
<1>1. ASSUME NEW p \in Packets, NEW path \in Paths, SendOutgoing(p, path)
      PROVE  MimicBound(f)'
  BY <1>0, <1>1, SendMimic
<1>2. ASSUME NEW p \in Packets, Deliver(p) PROVE MimicBound(f)'
  BY <1>0, <1>2, DeliverMimic
<1>3. ASSUME mimicLog' = mimicLog,
             DOMAIN tracked' \subseteq DOMAIN tracked,
             \A q \in DOMAIN tracked' : tracked'[q].firstSeen = tracked[q].firstSeen,
             \A q \in Packets : net'[q].sent = net[q].sent
                                /\ (net'[q].place = "app" <=> net[q].place = "app")
      PROVE  MimicBound(f)'
  <2>1. Late(f)' \subseteq Late(f) /\ Gone(f) \subseteq Gone(f)'
    BY <1>3 DEF Late, Gone, SentEarly, TInv, TrackedOK
  <2>2. /\ MimicOf(mimicLog', f).tx = MimicOf(mimicLog, f).tx + (IF FALSE THEN 1 ELSE 0)
        /\ MimicOf(mimicLog', f).rx <= MimicOf(mimicLog, f).rx + (IF FALSE THEN 1 ELSE 0)
    BY <1>3, MimicType DEF TInv
  <2>3. Late(f)' \subseteq IF FALSE THEN Late(f) \cup {f} ELSE Late(f)
    BY <2>1
  <2>q. QED BY <1>0, <2>1, <2>2, <2>3, MimicBoundStep
<1>4. ASSUME NEW p \in Packets, Forward(p) \/ Drop(p) PROVE MimicBound(f)'
  <2>1. \A q \in Packets : net'[q].sent = net[q].sent
                           /\ (net'[q].place = "app" <=> net[q].place = "app")
    BY <1>4 DEF Forward, Drop, Move, TInv, NetOK
  <2>2. /\ mimicLog' = mimicLog /\ DOMAIN tracked' \subseteq DOMAIN tracked
        /\ \A q \in DOMAIN tracked' : tracked'[q].firstSeen = tracked[q].firstSeen
    BY <1>4 DEF Forward, ReportForwarding, Drop, ReportDrop, Without
  <2>q. QED BY <1>3, <2>1, <2>2
<1>5. CASE StartRightNow \/ StopRightNow \/ Tick \/ Finish \/ UNCHANGED vars
  <2>1. /\ mimicLog' = mimicLog /\ net' = net /\ DOMAIN tracked' \subseteq DOMAIN tracked
        /\ \A q \in DOMAIN tracked' : tracked'[q].firstSeen = tracked[q].firstSeen
    BY <1>5 DEF StartRightNow, StopRightNow, Tick, Finish, CheckForLostPackets, Without, vars
  <2>q. QED BY <1>3, <2>1
<1>q. QED BY <1>1, <1>2, <1>4, <1>5, RouteFacts DEF Next

(***************************************************************************)
(* However the monitor is started and stopped: a queue's log has at most   *)
(* as many departures without an arrival as packets were sent in the       *)
(* warm-up, and the mimic log as many receptions without a transmission.   *)
(***************************************************************************)
THEOREM ExcessIsOfWarmUp == Spec => []ExcessIsWarmUp
PROOF
<1>1. TInv /\ Excess /\ MimicExcess => ExcessIsWarmUp
  <2> SUFFICES ASSUME TInv, Excess, MimicExcess, NEW f \in LoggedFlows
               PROVE  LET early == Cardinality(SentEarly(f))
                      IN  /\ \A h \in Hops :
                               Entry(f, h).departures <= Entry(f, h).arrivals + early
                          /\ f \in DOMAIN mimicLog =>
                               mimicLog[f].rx <= mimicLog[f].tx + early
    BY DEF ExcessIsWarmUp, SentEarly
  <2>1. IsFiniteSet(SentEarly(f)) /\ Cardinality(SentEarly(f)) \in Nat
    <3>1. SentEarly(f) \in SUBSET Packets
      BY DEF SentEarly
    <3>q. QED BY <3>1, FlowAssumption, FS_Subset, FS_CardinalityType
  <2>2. /\ Cardinality(Spent(f)) <= Cardinality(SentEarly(f))
        /\ Cardinality(Gone(f)) <= Cardinality(SentEarly(f))
    <3>1. Spent(f) \in SUBSET SentEarly(f) /\ Gone(f) \in SUBSET SentEarly(f)
      BY DEF Spent, Gone
    <3>q. QED BY <2>1, <3>1, FS_Subset
  <2>3. ASSUME NEW h \in Hops
        PROVE  Entry(f, h).departures <= Entry(f, h).arrivals + Cardinality(SentEarly(f))
    <3>1. Bound(f, h) /\ Entry(f, h) = EntryOf(flowLog, f, h)
      BY DEF Excess, Entry, EntryOf, NoEntry
    <3>2. /\ EntryOf(flowLog, f, h).arrivals \in Nat
          /\ EntryOf(flowLog, f, h).departures \in Nat
          /\ Cardinality(Due(f, h)) \in Nat /\ Cardinality(Spent(f)) \in Nat
      BY EntryType, DueFinite DEF TInv
    <3>q. QED BY <2>1, <2>2, <3>1, <3>2 DEF Bound
  <2>4. ASSUME f \in DOMAIN mimicLog
        PROVE  mimicLog[f].rx <= mimicLog[f].tx + Cardinality(SentEarly(f))
    <3>1. MimicBound(f) /\ mimicLog[f] = MimicOf(mimicLog, f)
      BY <2>4 DEF MimicExcess, MimicOf
    <3>2. /\ MimicOf(mimicLog, f).rx \in Nat /\ MimicOf(mimicLog, f).tx \in Nat
          /\ Cardinality(Late(f)) \in Nat /\ Cardinality(Gone(f)) \in Nat
      BY MimicType, LateFinite DEF TInv
    <3>q. QED BY <2>1, <2>2, <3>1, <3>2 DEF MimicBound
  <2>q. QED BY <2>3, <2>4
<1>2. Init => Excess /\ MimicExcess
  <2> SUFFICES ASSUME Init PROVE Excess /\ MimicExcess
    OBVIOUS
  <2>1. /\ \A f, h : EntryOf(flowLog, f, h) = NoEntry
        /\ \A f : MimicOf(mimicLog, f) = [tx |-> 0, rx |-> 0, latency |-> 0]
    BY DEF Init, EntryOf, MimicOf
  <2>2. \A f, h : Due(f, h) = {} /\ Spent(f) = {} /\ Late(f) = {} /\ Gone(f) = {}
    BY DEF Init, Due, Spent, Late, Gone, SentEarly
  <2>3. Cardinality({}) = 0
    BY FS_EmptySet
  <2>q. QED BY <2>1, <2>2, <2>3 DEF Excess, Bound, MimicExcess, MimicBound, NoEntry
<1>q. QED BY <1>1, <1>2, NextExcess, NextMimic, RecordedInvariant, PTL DEF Spec

-------------------------------------------------------------------------------
(* The balance of the flow log: hop by hop in packets, over the hops in    *)
(* time.                                                                   *)

Unfinished(f) ==
  {p \in Packets : FlowOf[p] = f /\ net[p].place \in {"queue", "dropped"}}
At(f, h) == {p \in Unfinished(f) : Hop(p) = h}
Waited(p) == net[p].since - net[p].sent

\* A packet is sent, moves and is forwarded in this order.
Timed ==
  \A p \in Packets : net[p].place # "app" =>
    /\ AppStart <= net[p].sent /\ net[p].sent <= net[p].since /\ net[p].since <= now
    /\ Hop(p) \in Hops

Arrived(f) ==
  \A h \in Hops : EntryOf(flowLog, f, h).arrivals
                    = EntryOf(flowLog, f, h).departures + Cardinality(At(f, h))

Latencies(f) == [h \in Hops |-> EntryOf(flowLog, f, h).latency]
Waits(f) == [p \in Unfinished(f) |-> Waited(p)]
Summed(f) == Total(Latencies(f)) = delaySum[f] + Total(Waits(f))

\* The mimic log has an entry from the first packet of the flow on.
Mimicked(f) ==
  /\ MimicOf(mimicLog, f).latency = delaySum[f]
  /\ Unfinished(f) # {} => f \in DOMAIN mimicLog

Balanced == \A f \in Flows : FullyLogged(f) => Arrived(f) /\ Summed(f) /\ Mimicked(f)

-------------------------------------------------------------------------------
(* The two forms a step takes for a flow.                                  *)

\* The step logs nothing of the flow.
Stays(f) ==
  /\ \A h \in Hops : EntryOf(flowLog', f, h) = EntryOf(flowLog, f, h)
  /\ Unfinished(f)' = Unfinished(f)
  /\ \A p \in Unfinished(f) : Hop(p)' = Hop(p) /\ Waited(p)' = Waited(p)
  /\ delaySum'[f] = delaySum[f]
  /\ MimicOf(mimicLog', f).latency = MimicOf(mimicLog, f).latency
  /\ DOMAIN mimicLog \subseteq DOMAIN mimicLog'

\* What the logs and statistics of the flow show of a packet that is sent, or
\* passes a hop where it was for the given time.
LogsPass(f, p, time) ==
  /\ \A h \in Hops :
       /\ EntryOf(flowLog', f, h).arrivals
            = EntryOf(flowLog, f, h).arrivals + (IF p \in At(f, h)' THEN 1 ELSE 0)
       /\ EntryOf(flowLog', f, h).departures
            = EntryOf(flowLog, f, h).departures + (IF p \in At(f, h) THEN 1 ELSE 0)
       /\ EntryOf(flowLog', f, h).latency
            = EntryOf(flowLog, f, h).latency + (IF p \in At(f, h) THEN time ELSE 0)
  /\ delaySum'[f]
       = delaySum[f] + (IF p \in Unfinished(f)' THEN 0 ELSE Waited(p) + time)
  /\ MimicOf(mimicLog', f).latency
       = MimicOf(mimicLog, f).latency
         + (IF p \in Unfinished(f)' THEN 0 ELSE Waited(p) + time)
  /\ f \in DOMAIN mimicLog'

\* What becomes of the packets of the flow.
Passes(f, p, time) ==
  /\ p \in Packets /\ time \in Nat
  /\ p \in Unfinished(f) \/ p \in Unfinished(f)'
  /\ p \in Unfinished(f)' =>
       Waited(p)' = IF p \in Unfinished(f) THEN Waited(p) + time ELSE 0
  /\ p \in Unfinished(f) /\ p \in Unfinished(f)' => Hop(p)' # Hop(p)
  /\ Unfinished(f)' \ {p} = Unfinished(f) \ {p}
  /\ \A q \in Unfinished(f) \ {p} : Hop(q)' = Hop(q) /\ Waited(q)' = Waited(q)

LEMMA UnfinishedFinite ==
  ASSUME NEW f
  PROVE  /\ IsFiniteSet(Unfinished(f))
         /\ \A h \in Hops : IsFiniteSet(At(f, h)) /\ Cardinality(At(f, h)) \in Nat
PROOF
<1>1. Unfinished(f) \in SUBSET Packets /\ \A h \in Hops : At(f, h) \in SUBSET Packets
  BY DEF Unfinished, At
<1>q. QED BY <1>1, FlowAssumption, FS_Subset, FS_CardinalityType

LEMMA SumTypes ==
  ASSUME TInv, Timed, NEW f \in Flows
  PROVE  /\ Latencies(f) \in [Hops -> Nat] /\ Waits(f) \in [Unfinished(f) -> Nat]
         /\ Total(Latencies(f)) \in Nat /\ Total(Waits(f)) \in Nat
         /\ delaySum[f] \in Nat
PROOF
<1>1. Latencies(f) \in [Hops -> Nat]
  BY EntryType DEF Latencies, TInv
<1>2. Waits(f) \in [Unfinished(f) -> Nat]
  <2>1. ASSUME NEW p \in Unfinished(f) PROVE Waited(p) \in Nat
    <3>1. net[p].sent \in Nat /\ net[p].since \in Nat /\ net[p].sent <= net[p].since
      BY <2>1 DEF Unfinished, Timed, TInv, NetOK, Places
    <3>q. QED BY <3>1 DEF Waited
  <2>q. QED BY <2>1 DEF Waits
<1>3. Total(Latencies(f)) \in Nat /\ Total(Waits(f)) \in Nat
  BY <1>1, <1>2, UnfinishedFinite, PathAssumption, UnitsFinite
<1>q. QED BY <1>1, <1>2, <1>3 DEF TInv, StatsOK

-------------------------------------------------------------------------------
(* Both forms keep the balance.                                            *)

LEMMA StaysBalanced ==
  ASSUME NEW f \in Flows, Stays(f), Arrived(f) /\ Summed(f) /\ Mimicked(f)
  PROVE  (Arrived(f) /\ Summed(f) /\ Mimicked(f))'
PROOF
<1>1. \A h \in Hops : At(f, h)' = At(f, h)
  BY DEF Stays, At
<1>2. Latencies(f)' = Latencies(f)
  BY DEF Stays, Latencies
<1>3. Waits(f)' = Waits(f)
  BY DEF Stays, Waits
<1>4. Arrived(f)'
  <2> SUFFICES ASSUME NEW h \in Hops
               PROVE  EntryOf(flowLog', f, h).arrivals
                        = EntryOf(flowLog', f, h).departures + Cardinality(At(f, h)')
    BY DEF Arrived
  <2>1. EntryOf(flowLog', f, h) = EntryOf(flowLog, f, h)
    BY DEF Stays
  <2>q. QED BY <1>1, <2>1 DEF Arrived
<1>5. Summed(f)'
  BY <1>2, <1>3 DEF Summed, Stays
<1>6. Mimicked(f)'
  BY DEF Mimicked, Stays
<1>q. QED BY <1>4, <1>5, <1>6

LEMMA PassArrived ==
  ASSUME TInv, NEW f \in Flows, NEW p, NEW time, Passes(f, p, time), LogsPass(f, p, time),
         Arrived(f), NEW h \in Hops
  PROVE  EntryOf(flowLog', f, h).arrivals
           = EntryOf(flowLog', f, h).departures + Cardinality(At(f, h)')
PROOF
<1> DEFINE at == At(f, h)
           at2 == At(f, h)'
           a == EntryOf(flowLog, f, h).arrivals
           d == EntryOf(flowLog, f, h).departures
<1>1. IsFiniteSet(at) /\ Cardinality(at) \in Nat
  BY UnfinishedFinite
<1>2. a \in Nat /\ d \in Nat /\ a = d + Cardinality(at)
  BY EntryType DEF TInv, Arrived
<1>3. /\ EntryOf(flowLog', f, h).arrivals = a + (IF p \in at2 THEN 1 ELSE 0)
      /\ EntryOf(flowLog', f, h).departures = d + (IF p \in at THEN 1 ELSE 0)
  BY DEF LogsPass
<1>4. at2 \ {p} = at \ {p} /\ ~(p \in at /\ p \in at2)
  BY DEF Passes, At
<1> HIDE DEF at, at2, a, d
<1>5. CASE p \in at
  <2>1. at2 = at \ {p}
    BY <1>4, <1>5
  <2>2. Cardinality(at2) = Cardinality(at) - 1
    BY <1>1, <1>5, <2>1, FS_RemoveElement
  <2>3. p \notin at2
    BY <1>4, <1>5
  <2>q. QED BY <1>1, <1>2, <1>3, <1>5, <2>2, <2>3 DEF at2
<1>6. CASE p \notin at /\ p \in at2
  <2>1. at2 = at \cup {p}
    BY <1>4, <1>6
  <2>2. Cardinality(at2) = Cardinality(at) + 1
    BY <1>1, <1>6, <2>1, FS_AddElement
  <2>q. QED BY <1>1, <1>2, <1>3, <1>6, <2>2 DEF at2
<1>7. CASE p \notin at /\ p \notin at2
  <2>1. at2 = at
    BY <1>4, <1>7
  <2>q. QED BY <1>1, <1>2, <1>3, <1>7, <2>1 DEF at2
<1>q. QED BY <1>5, <1>6, <1>7

\* The latency of the hop that the packet leaves grows by the time it was there.
LEMMA PassLatencies ==
  ASSUME TInv, TInv', Timed, Timed', NEW f \in Flows, NEW p, NEW time,
         Passes(f, p, time), LogsPass(f, p, time)
  PROVE  Total(Latencies(f)')
           = Total(Latencies(f)) + (IF p \in Unfinished(f) THEN time ELSE 0)
PROOF
<1> DEFINE lat == Latencies(f)
           lat2 == Latencies(f)'
           h == Hop(p)
<1>1. /\ lat \in [Hops -> Nat] /\ lat2 \in [Hops -> Nat]
      /\ Total(lat) \in Nat /\ Total(lat2) \in Nat
  <2>1. lat \in [Hops -> Nat] /\ Total(lat) \in Nat
    BY SumTypes
  <2>2. lat2 \in [Hops -> Nat]
    BY EntryType DEF Latencies, TInv
  <2>3. Total(lat2) \in Nat
    <3> HIDE DEF lat2
    <3>q. QED BY <2>2, PathAssumption, UnitsFinite
  <2>q. QED BY <2>1, <2>2, <2>3
<1>2. \A k \in Hops : lat2[k] = lat[k] + (IF p \in At(f, k) THEN time ELSE 0)
  BY DEF LogsPass, Latencies
<1>3. time \in Nat /\ IsFiniteSet(Hops)
  BY PathAssumption DEF Passes
<1>4. CASE p \in Unfinished(f)
  <2>1. h \in Hops
    BY <1>4 DEF Timed, Unfinished
  <2>2. \A k \in Hops : p \in At(f, k) <=> k = h
    BY <1>4 DEF At
  <2> HIDE DEF lat, lat2, h
  <2>3. lat2[h] = lat[h] + time /\ \A k \in Hops \ {h} : lat2[k] = lat[k]
    BY <1>1, <1>2, <2>1, <2>2
  <2>4. Total(lat2) + lat[h] = Total(lat) + lat2[h]
    BY <1>1, <1>3, <2>1, <2>3, TotalUpdate
  <2>5. lat[h] \in Nat
    BY <1>1, <2>1
  <2>6. Total(lat2) = Total(lat) + time
    BY <1>1, <1>3, <2>3, <2>4, <2>5
  <2>q. QED BY <1>4, <2>6 DEF lat, lat2
<1>5. CASE p \notin Unfinished(f)
  <2>1. \A k \in Hops : p \notin At(f, k)
    BY <1>5 DEF At
  <2> HIDE DEF lat, lat2
  <2>2. lat2 = lat
    BY <1>1, <1>2, <2>1
  <2>3. Total(lat2) = Total(lat) + 0
    BY <1>1, <2>2
  <2>q. QED BY <1>5, <2>3 DEF lat, lat2
<1>q. QED BY <1>4, <1>5

LEMMA PassWaits ==
  ASSUME TInv, TInv', Timed, Timed', NEW f \in Flows, NEW p, NEW time,
         Passes(f, p, time)
  PROVE  Total(Waits(f)') + (IF p \in Unfinished(f)' THEN 0 ELSE Waited(p) + time)
           = Total(Waits(f)) + (IF p \in Unfinished(f) THEN time ELSE 0)
PROOF
<1> DEFINE open == Unfinished(f)
           open2 == Unfinished(f)'
           wait == Waits(f)
           wait2 == Waits(f)'
           old == Waited(p)
           new == Waited(p)'
<1>1. wait \in [open -> Nat] /\ Total(wait) \in Nat /\ IsFiniteSet(open)
  BY SumTypes, UnfinishedFinite
<1>2. wait2 \in [open2 -> Nat] /\ IsFiniteSet(open2)
  <2>1. ASSUME NEW q \in open2 PROVE Waited(q)' \in Nat
    <3>1. net'[q].sent \in Nat /\ net'[q].since \in Nat /\ net'[q].sent <= net'[q].since
      BY <2>1 DEF Unfinished, Timed, TInv, NetOK, Places
    <3>q. QED BY <3>1 DEF Waited
  <2>2. open2 \in SUBSET Packets
    BY DEF Unfinished
  <2>q. QED BY <2>1, <2>2, FlowAssumption, FS_Subset DEF Waits
<1>3. /\ p \in open => wait[p] = old
      /\ p \in open2 => wait2[p] = new
      /\ \A q \in open \ {p} : wait2[q] = wait[q]
  BY DEF Passes, Waits
<1>4. /\ time \in Nat /\ (p \in open \/ p \in open2) /\ open2 \ {p} = open \ {p}
      /\ p \in open2 => new = IF p \in open THEN old + time ELSE 0
  BY DEF Passes
<1> HIDE DEF open, open2, wait, wait2, old, new
<1>5. Total(wait2) \in Nat
  BY <1>2, UnitsFinite
<1>6. p \in open => old \in Nat
  BY <1>1, <1>3
<1>7. CASE p \in open /\ p \in open2
  <2>1. open2 = open
    BY <1>4, <1>7
  <2>2. Total(wait2) + wait[p] = Total(wait) + wait2[p]
    BY <1>1, <1>2, <1>3, <1>7, <2>1, TotalUpdate
  <2>3. Total(wait2) + 0 = Total(wait) + time
    BY <1>1, <1>3, <1>4, <1>5, <1>6, <1>7, <2>2
  <2>q. QED BY <1>7, <2>3 DEF open, open2, wait, wait2
<1>8. CASE p \in open /\ p \notin open2
  <2>1. open2 = open \ {p}
    BY <1>4, <1>8
  <2>2. Total(wait) = Total(wait2) + wait[p]
    BY <1>1, <1>2, <1>3, <1>8, <2>1, TotalRemove
  <2>3. Total(wait2) + (old + time) = Total(wait) + time
    BY <1>1, <1>3, <1>4, <1>5, <1>6, <1>8, <2>2
  <2>q. QED BY <1>8, <2>3 DEF open, open2, wait, wait2, old
<1>9. CASE p \notin open /\ p \in open2
  <2>1. open2 = open \cup {p} /\ open \ {p} = open
    BY <1>4, <1>9
  <2>2. Total(wait2) = Total(wait) + wait2[p]
    BY <1>1, <1>2, <1>3, <1>9, <2>1, TotalAdd
  <2>3. Total(wait2) + 0 = Total(wait) + 0
    BY <1>1, <1>3, <1>4, <1>5, <1>9, <2>2
  <2>q. QED BY <1>9, <2>3 DEF open, open2, wait, wait2
<1>q. QED BY <1>4, <1>7, <1>8, <1>9

LEMMA PassBalanced ==
  ASSUME TInv, TInv', Timed, Timed', NEW f \in Flows, NEW p, NEW time,
         Passes(f, p, time), LogsPass(f, p, time),
         Arrived(f) /\ Summed(f) /\ Mimicked(f)
  PROVE  (Arrived(f) /\ Summed(f) /\ Mimicked(f))'
PROOF
<1> DEFINE lat == Total(Latencies(f))
           lat2 == Total(Latencies(f)')
           wait == Total(Waits(f))
           wait2 == Total(Waits(f)')
           grows == IF p \in Unfinished(f) THEN time ELSE 0
           delay == IF p \in Unfinished(f)' THEN 0 ELSE Waited(p) + time
<1>1. Arrived(f)'
  BY PassArrived DEF Arrived
<1>2. lat2 = lat + grows /\ wait2 + delay = wait + grows /\ lat = delaySum[f] + wait
  BY PassLatencies, PassWaits DEF Summed
<1>3. /\ delaySum'[f] = delaySum[f] + delay
      /\ MimicOf(mimicLog', f).latency = MimicOf(mimicLog, f).latency + delay
      /\ MimicOf(mimicLog, f).latency = delaySum[f] /\ f \in DOMAIN mimicLog'
  BY DEF LogsPass, Mimicked
<1>4. lat \in Nat /\ wait \in Nat /\ delaySum[f] \in Nat /\ grows \in Nat
  BY SumTypes DEF Passes
<1>5. lat2 \in Nat /\ wait2 \in Nat /\ delaySum'[f] \in Nat
  <2>1. (/\ Total(Latencies(f)) \in Nat /\ Total(Waits(f)) \in Nat
         /\ delaySum[f] \in Nat)'
    BY SumTypes, PTL
  <2>q. QED BY <2>1
<1>6. delay \in Int
  BY <1>4 DEF Passes, Unfinished, Waited, TInv, NetOK, Places
<1> HIDE DEF lat, lat2, wait, wait2, grows, delay
<1>7. lat2 = delaySum'[f] + wait2
  BY <1>2, <1>3, <1>4, <1>5, <1>6
<1>8. Summed(f)'
  BY <1>7 DEF Summed, lat2, wait2
<1>9. Mimicked(f)'
  BY <1>3 DEF Mimicked
<1>q. QED BY <1>1, <1>8, <1>9

-------------------------------------------------------------------------------
(* Each step has one of the forms.                                         *)

LEMMA InitTimed == Init => Timed
BY DEF Init, Timed

LEMMA NextTimed == TInv /\ Timed /\ [Next]_vars => Timed'
PROOF
<1> SUFFICES ASSUME TInv, Timed, [Next]_vars, NEW q \in Packets, net'[q].place # "app"
             PROVE  /\ AppStart <= net'[q].sent /\ net'[q].sent <= net'[q].since
                    /\ net'[q].since <= now' /\ Hop(q)' \in Hops
  BY DEF Timed
<1>0. /\ now \in Nat /\ AppStart \in Nat /\ net \in [Packets -> Places]
      /\ \A p \in Packets : net[p].place # "app" =>
           /\ AppStart <= net[p].sent /\ net[p].sent <= net[p].since
           /\ net[p].since <= now /\ Hop(p) \in Hops
  BY TimesAssumption DEF TInv, NetOK, Timed
<1>1. ASSUME net'[q] = net[q], now' = now \/ now' = now + 1
      PROVE  /\ AppStart <= net'[q].sent /\ net'[q].sent <= net'[q].since
             /\ net'[q].since <= now' /\ Hop(q)' \in Hops
  BY <1>0, <1>1 DEF Hop, Places
<1>2. ASSUME NEW p \in Packets, NEW path \in Paths, SendOutgoing(p, path)
      PROVE  /\ AppStart <= net'[q].sent /\ net'[q].sent <= net'[q].since
             /\ net'[q].since <= now' /\ Hop(q)' \in Hops
  <2>1. /\ now >= AppStart /\ now' = now
        /\ net' = [net EXCEPT ![p] =
             [place |-> "queue", path |-> path, at |-> 1, sent |-> now, since |-> now]]
    BY <1>2 DEF SendOutgoing
  <2>2. CASE q = p
    BY <1>0, <2>1, <2>2, PathFacts DEF Hop
  <2>3. CASE q # p
    BY <1>0, <1>1, <2>1, <2>3
  <2>q. QED BY <2>2, <2>3
<1>3. ASSUME NEW p \in Packets, NEW place, NEW at, NEW since, Move(p, place, at, since),
             net[p].place = "queue", now' = now,
             net[p].since <= since, since <= now, since \in Nat,
             net[p].path[at] \in Hops
      PROVE  /\ AppStart <= net'[q].sent /\ net'[q].sent <= net'[q].since
             /\ net'[q].since <= now' /\ Hop(q)' \in Hops
  <2>1. CASE q = p
    <3>1. /\ net'[q].sent = net[q].sent /\ net'[q].since = since
          /\ net'[q].path = net[q].path /\ net'[q].at = at
      BY <1>0, <1>3, <2>1 DEF Move
    <3>2. /\ AppStart <= net[q].sent /\ net[q].sent <= net[q].since
          /\ net[q].sent \in Nat /\ net[q].since \in Nat
      BY <1>0, <1>3, <2>1 DEF Places
    <3>q. QED BY <1>0, <1>3, <2>1, <3>1, <3>2 DEF Hop
  <2>2. CASE q # p
    BY <1>0, <1>1, <1>3, <2>2 DEF Move
  <2>q. QED BY <2>1, <2>2
<1>4. ASSUME NEW p \in Packets, Forward(p) \/ Deliver(p) \/ Drop(p)
      PROVE  /\ AppStart <= net'[q].sent /\ net'[q].sent <= net'[q].since
             /\ net'[q].since <= now' /\ Hop(q)' \in Hops
  <2>1. net[p].place = "queue" /\ now' = now
    BY <1>4 DEF Forward, Deliver, Drop
  <2>2. /\ net[p].path \in Paths /\ net[p].at \in 1..Len(net[p].path)
        /\ net[p].since \in Nat /\ net[p].since <= now
    BY <1>0, <2>1 DEF TInv, NetOK, Places
  <2>3. CASE Forward(p)
    <3>1. Move(p, "queue", net[p].at + 1, now) /\ net[p].at + 1 \in 1..Len(net[p].path)
      BY <2>2, <2>3, PathFacts DEF Forward
    <3>2. net[p].path[net[p].at + 1] \in Hops
      BY <2>2, <3>1, PathFacts
    <3>q. QED BY <1>0, <1>3, <2>1, <2>2, <3>1, <3>2
  <2>4. CASE Deliver(p)
    <3>1. Move(p, "sink", net[p].at, now)
      BY <2>4 DEF Deliver
    <3>q. QED BY <1>0, <1>3, <2>1, <2>2, <3>1, PathFacts
  <2>5. CASE Drop(p)
    <3>1. Move(p, "dropped", net[p].at, net[p].since)
      BY <2>5 DEF Drop
    <3>q. QED BY <1>0, <1>3, <2>1, <2>2, <3>1, PathFacts
  <2>q. QED BY <1>4, <2>3, <2>4, <2>5
<1>5. CASE StartRightNow \/ StopRightNow \/ Tick \/ Finish \/ UNCHANGED vars
  <2>1. net' = net /\ (now' = now \/ now' = now + 1)
    BY <1>5 DEF StartRightNow, StopRightNow, Tick, Finish, vars
  <2>q. QED BY <1>1, <2>1
<1>q. QED BY <1>2, <1>4, <1>5, RouteFacts DEF Next

LEMMA SendPasses ==
  ASSUME TInv, Watch, NEW p \in Packets, NEW path \in Paths, SendOutgoing(p, path),
         FullyLogged(FlowOf[p])
  PROVE  Passes(FlowOf[p], p, 0) /\ LogsPass(FlowOf[p], p, 0)
PROOF
<1> DEFINE f == FlowOf[p]
<1>1. /\ now \in Nat /\ TimeWarmUp \in Nat /\ now >= TimeWarmUp
      /\ FlowLogOK(flowLog) /\ MimicLogOK(mimicLog) /\ enabled /\ Logging(f)
      /\ f \in Flows /\ delaySum \in [Flows -> Nat]
  <2>1. now >= AppStart /\ AppStart \in Nat /\ TimeWarmUp <= AppStart /\ f \in LoggedFlows
        /\ AlwaysOn
    BY TimesAssumption DEF SendOutgoing, FullyLogged
  <2>q. QED BY <2>1, Enabled, FlowFacts, TimesAssumption DEF TInv, StatsOK, Logging
<1>2. /\ net[p].place = "app" /\ net'[p].place = "queue" /\ net'[p].path = path
      /\ net'[p].at = 1 /\ net'[p].sent = now /\ net'[p].since = now
      /\ \A q \in Packets \ {p} : net'[q] = net[q]
  BY DEF SendOutgoing, TInv, NetOK
<1>3. /\ p \notin Unfinished(f) /\ p \in Unfinished(f)'
      /\ Unfinished(f)' \ {p} = Unfinished(f) \ {p}
      /\ Hop(p)' = path[1] /\ Waited(p)' = 0
      /\ \A q \in Unfinished(f) \ {p} : Hop(q)' = Hop(q) /\ Waited(q)' = Waited(q)
  BY <1>1, <1>2 DEF Unfinished, Hop, Waited
<1>4. Passes(f, p, 0)
  BY <1>3 DEF Passes
<1>5. flowLog' = Arrival(flowLog, f, path[1], 0) /\ mimicLog' = MimicTx(mimicLog, f)
      /\ delaySum' = delaySum
  BY <1>1 DEF SendOutgoing, ReportFirstTx
<1>6. Arrives(flowLog', flowLog, f, path[1], 0) /\ LogsTx(mimicLog', mimicLog, f)
  BY <1>1, <1>5, ArrivalArrives, MimicTxLogs
<1>7. ASSUME NEW h \in Hops
      PROVE  /\ EntryOf(flowLog', f, h).arrivals
                  = EntryOf(flowLog, f, h).arrivals + (IF p \in At(f, h)' THEN 1 ELSE 0)
             /\ EntryOf(flowLog', f, h).departures
                  = EntryOf(flowLog, f, h).departures + (IF p \in At(f, h) THEN 1 ELSE 0)
             /\ EntryOf(flowLog', f, h).latency
                  = EntryOf(flowLog, f, h).latency + (IF p \in At(f, h) THEN 0 ELSE 0)
  <2>1. p \notin At(f, h) /\ (p \in At(f, h)' <=> h = path[1])
    BY <1>3 DEF At
  <2>2. /\ EntryOf(flowLog, f, h).arrivals \in Nat /\ EntryOf(flowLog, f, h).departures \in Nat
        /\ EntryOf(flowLog, f, h).latency \in Nat
    BY <1>1, EntryType
  <2>3. CASE h = path[1]
    BY <1>6, <2>1, <2>2, <2>3 DEF Arrives
  <2>4. CASE h # path[1]
    <3>1. EntryOf(flowLog', f, h) = EntryOf(flowLog, f, h)
      BY <1>6, <2>4 DEF Arrives
    <3>q. QED BY <2>1, <2>2, <2>4, <3>1
  <2>q. QED BY <2>3, <2>4
<1>8. /\ MimicOf(mimicLog', f).latency = MimicOf(mimicLog, f).latency
      /\ f \in DOMAIN mimicLog' /\ MimicOf(mimicLog, f).latency \in Nat
  BY <1>1, <1>6, MimicType DEF LogsTx
<1>9. delaySum'[f] = delaySum[f] + 0 /\ MimicOf(mimicLog', f).latency = MimicOf(mimicLog, f).latency + 0
  BY <1>1, <1>5, <1>8
<1>10. LogsPass(f, p, 0)
  BY <1>3, <1>7, <1>8, <1>9 DEF LogsPass
<1>q. QED BY <1>4, <1>10

\* A packet in flight whose flow is fully logged: its reports are logged, and the
\* log has an entry of the hop where it is.
LEMMA LoggedFlight ==
  ASSUME TInv, Watch, Picture, Timed, ~ended, NEW p \in Packets, net[p].place = "queue",
         FullyLogged(FlowOf[p]), Arrived(FlowOf[p]), Mimicked(FlowOf[p])
  PROVE  /\ enabled /\ p \in DOMAIN tracked /\ Logging(FlowOf[p])
         /\ tracked[p].hop = Hop(p) /\ Hop(p) \in Hops
         /\ now - tracked[p].lastSeen \in Nat /\ now - tracked[p].firstSeen \in Nat
         /\ tracked[p].lastSeen = net[p].since /\ tracked[p].firstSeen = net[p].sent
         /\ <<FlowOf[p], Hop(p)>> \in DOMAIN flowLog /\ FlowOf[p] \in DOMAIN mimicLog
         /\ p \in Unfinished(FlowOf[p])
PROOF
<1> DEFINE f == FlowOf[p]
           h == Hop(p)
<1>1. AlwaysOn /\ TimeWarmUp <= AppStart /\ f \in LoggedFlows
  BY DEF FullyLogged
<1>2. /\ enabled /\ p \in DOMAIN tracked
      /\ tracked[p].hop = Hop(p) /\ Hop(p) \in Hops
      /\ tracked[p].lastSeen = net[p].since /\ tracked[p].firstSeen = net[p].sent
      /\ now \in Nat /\ net[p].since \in Nat /\ net[p].sent \in Nat
      /\ net[p].since <= now /\ net[p].sent <= now
  BY <1>1, FlightFacts
<1>3. AppStart <= net[p].sent /\ AppStart \in Nat /\ TimeWarmUp \in Nat
  BY TimesAssumption DEF Timed
<1>4. Logging(f)
  BY <1>1, <1>2, <1>3 DEF Logging
<1>5. p \in Unfinished(f) /\ p \in At(f, h)
  BY DEF Unfinished, At
<1>6. <<f, h>> \in DOMAIN flowLog
  <2>1. IsFiniteSet(At(f, h)) /\ Cardinality(At(f, h)) \in Nat
    BY <1>2, UnfinishedFinite
  <2>2. Cardinality(At(f, h)) # 0
    BY <1>5, <2>1, FS_EmptySet
  <2>3. /\ EntryOf(flowLog, f, h).arrivals
              = EntryOf(flowLog, f, h).departures + Cardinality(At(f, h))
        /\ EntryOf(flowLog, f, h).departures \in Nat
    BY <1>2, EntryType DEF Arrived, TInv
  <2>4. EntryOf(flowLog, f, h).arrivals # 0
    BY <2>1, <2>2, <2>3
  <2>q. QED BY <2>4 DEF EntryOf, NoEntry
<1>q. QED BY <1>2, <1>4, <1>5, <1>6 DEF Mimicked

LEMMA ForwardPasses ==
  ASSUME TInv, Watch, Picture, Stages, Timed, NEW p \in Packets, Forward(p),
         FullyLogged(FlowOf[p]), Arrived(FlowOf[p]), Mimicked(FlowOf[p])
  PROVE  /\ Passes(FlowOf[p], p, now - net[p].since)
         /\ LogsPass(FlowOf[p], p, now - net[p].since)
PROOF
<1> DEFINE f == FlowOf[p]
           t == tracked[p]
           at == net[p].at + 1
           next == net[p].path[at]
           time == now - net[p].since
           mid == Arrival(flowLog, f, next, t.timesForwarded + 1)
<1>1. /\ net[p].place = "queue" /\ ~ended /\ net[p].at < Len(net[p].path)
      /\ Move(p, "queue", at, now)
  BY DEF Forward
<1>2. /\ enabled /\ p \in DOMAIN tracked /\ Logging(f)
      /\ t.hop = Hop(p) /\ Hop(p) \in Hops /\ time \in Nat /\ t.lastSeen = net[p].since
      /\ <<f, Hop(p)>> \in DOMAIN flowLog /\ f \in DOMAIN mimicLog
      /\ p \in Unfinished(f)
  BY <1>1, LoggedFlight
<1>3. /\ net[p].path \in Routes[f] /\ net[p].path \in Paths
      /\ net[p].at \in 1..Len(net[p].path) /\ at \in 1..Len(net[p].path)
      /\ f \in Flows /\ now \in Nat /\ net[p].since \in Nat /\ net[p].sent \in Nat
  <2>1. net[p].path \in Routes[f] /\ f \in Flows
    BY <1>1, FlowFacts DEF Stages, FullyLogged
  <2>2. /\ net[p].path \in Paths /\ net[p].at \in 1..Len(net[p].path)
        /\ now \in Nat /\ net[p].since \in Nat /\ net[p].sent \in Nat
    BY <1>1 DEF TInv, NetOK, Places
  <2>q. QED BY <1>1, <2>1, <2>2, PathFacts
<1>4. next # Hop(p) /\ next \in Hops
  BY <1>3, DistanceAssumption, PathFacts DEF Hop
<1>5. /\ net'[p].place = "queue" /\ net'[p].path = net[p].path /\ net'[p].at = at
      /\ net'[p].sent = net[p].sent /\ net'[p].since = now
      /\ \A q \in Packets \ {p} : net'[q] = net[q]
  BY <1>1 DEF Move, TInv, NetOK
<1>6. /\ p \in Unfinished(f)' /\ Unfinished(f)' = Unfinished(f)
      /\ Hop(p)' = next /\ Waited(p)' = Waited(p) + time
      /\ \A q \in Unfinished(f) \ {p} : Hop(q)' = Hop(q) /\ Waited(q)' = Waited(q)
  <2>1. Waited(p)' = Waited(p) + time
    BY <1>3, <1>5 DEF Waited
  <2>2. Hop(p)' = next
    BY <1>5 DEF Hop
  <2>3. p \in Unfinished(f)' /\ Unfinished(f)' = Unfinished(f)
    BY <1>1, <1>5 DEF Unfinished
  <2>4. \A q \in Unfinished(f) \ {p} : Hop(q)' = Hop(q) /\ Waited(q)' = Waited(q)
    BY <1>5 DEF Unfinished, Hop, Waited
  <2>q. QED BY <2>1, <2>2, <2>3, <2>4
<1>7. Passes(f, p, time)
  BY <1>2, <1>4, <1>6 DEF Passes
<1>8. /\ flowLog' = Departure(mid, f, Hop(p), time)
      /\ mimicLog' = mimicLog /\ delaySum' = delaySum
  BY <1>2 DEF Forward, ReportForwarding, stats
<1>9. t.timesForwarded + 1 \in Nat /\ FlowLogOK(flowLog) /\ f \in LoggedFlows
  BY <1>2 DEF TInv, TrackedOK, Tracks, Logging
<1>10. Arrives(mid, flowLog, f, next, t.timesForwarded + 1) /\ FlowLogOK(mid)
  BY <1>4, <1>9, ArrivalArrives, ArrivalOK
<1> HIDE DEF mid
<1>11. Departs(flowLog', mid, f, Hop(p), time)
  BY <1>2, <1>8, <1>10, DepartureDeparts
<1>12. <<f, Hop(p)>> \in DOMAIN mid
  BY <1>2, <1>10 DEF Arrives
<1>13. ASSUME NEW h \in Hops
       PROVE  /\ EntryOf(flowLog', f, h).arrivals
                   = EntryOf(flowLog, f, h).arrivals + (IF p \in At(f, h)' THEN 1 ELSE 0)
              /\ EntryOf(flowLog', f, h).departures
                   = EntryOf(flowLog, f, h).departures + (IF p \in At(f, h) THEN 1 ELSE 0)
              /\ EntryOf(flowLog', f, h).latency
                   = EntryOf(flowLog, f, h).latency + (IF p \in At(f, h) THEN time ELSE 0)
  <2>1. (p \in At(f, h) <=> h = Hop(p)) /\ (p \in At(f, h)' <=> h = next)
    BY <1>2, <1>6 DEF At
  <2>2. /\ EntryOf(flowLog, f, h).arrivals \in Nat /\ EntryOf(flowLog, f, h).departures \in Nat
        /\ EntryOf(flowLog, f, h).latency \in Nat
    BY <1>9, EntryType
  <2> HIDE DEF next, time, f
  <2>3. CASE h = next
    <3>1. EntryOf(flowLog', f, h) = EntryOf(mid, f, h)
      BY <1>4, <1>11, <2>3 DEF Departs
    <3>2. /\ EntryOf(mid, f, h).arrivals = EntryOf(flowLog, f, h).arrivals + 1
          /\ EntryOf(mid, f, h).departures = EntryOf(flowLog, f, h).departures
          /\ EntryOf(mid, f, h).latency = EntryOf(flowLog, f, h).latency
      BY <1>10, <2>3 DEF Arrives
    <3>q. QED BY <1>4, <2>1, <2>2, <2>3, <3>1, <3>2
  <2>4. CASE h = Hop(p)
    <3>1. EntryOf(mid, f, h) = EntryOf(flowLog, f, h)
      BY <1>4, <1>10, <2>4 DEF Arrives
    <3>2. /\ EntryOf(flowLog', f, h).arrivals = EntryOf(mid, f, h).arrivals
          /\ EntryOf(flowLog', f, h).departures = EntryOf(mid, f, h).departures + 1
          /\ EntryOf(flowLog', f, h).latency = EntryOf(mid, f, h).latency + time
      BY <1>11, <1>12, <2>4 DEF Departs
    <3>q. QED BY <1>4, <2>1, <2>2, <2>4, <3>1, <3>2
  <2>5. CASE h # next /\ h # Hop(p)
    <3>1. EntryOf(flowLog', f, h) = EntryOf(mid, f, h)
      BY <1>11, <2>5 DEF Departs
    <3>2. EntryOf(mid, f, h) = EntryOf(flowLog, f, h)
      BY <1>10, <2>5 DEF Arrives
    <3>q. QED BY <2>1, <2>2, <2>5, <3>1, <3>2
  <2>q. QED BY <2>3, <2>4, <2>5
<1>14. /\ delaySum[f] \in Nat /\ MimicOf(mimicLog, f).latency \in Nat
  BY <1>3, MimicType DEF TInv, StatsOK
<1>15. LogsPass(f, p, time)
  BY <1>2, <1>6, <1>8, <1>13, <1>14 DEF LogsPass
<1>q. QED BY <1>7, <1>15

LEMMA DeliverPasses ==
  ASSUME TInv, Watch, Picture, Timed, NEW p \in Packets, Deliver(p),
         FullyLogged(FlowOf[p]), Arrived(FlowOf[p]), Mimicked(FlowOf[p])
  PROVE  /\ Passes(FlowOf[p], p, now - net[p].since)
         /\ LogsPass(FlowOf[p], p, now - net[p].since)
PROOF
<1> DEFINE f == FlowOf[p]
           t == tracked[p]
           time == now - net[p].since
           delay == now - t.firstSeen
<1>1. /\ net[p].place = "queue" /\ ~ended
      /\ Move(p, "sink", net[p].at, now)
  BY DEF Deliver
<1>2. /\ enabled /\ p \in DOMAIN tracked /\ Logging(f)
      /\ t.hop = Hop(p) /\ Hop(p) \in Hops /\ time \in Nat /\ delay \in Nat
      /\ t.lastSeen = net[p].since /\ t.firstSeen = net[p].sent
      /\ <<f, Hop(p)>> \in DOMAIN flowLog /\ f \in DOMAIN mimicLog
      /\ p \in Unfinished(f)
  BY <1>1, LoggedFlight
<1>3. /\ f \in Flows /\ now \in Nat /\ net[p].since \in Nat /\ net[p].sent \in Nat
      /\ FlowLogOK(flowLog) /\ MimicLogOK(mimicLog) /\ delaySum \in [Flows -> Nat]
  BY FlowFacts DEF TInv, NetOK, Places, StatsOK
<1>4. net'[p].place = "sink" /\ \A q \in Packets \ {p} : net'[q] = net[q]
  BY <1>1 DEF Move, TInv, NetOK
<1>5. /\ p \notin Unfinished(f)' /\ Unfinished(f)' \ {p} = Unfinished(f) \ {p}
      /\ \A q \in Unfinished(f) \ {p} : Hop(q)' = Hop(q) /\ Waited(q)' = Waited(q)
  BY <1>4 DEF Unfinished, Hop, Waited
<1>6. Passes(f, p, time)
  BY <1>2, <1>5 DEF Passes
<1>7. /\ flowLog' = Departure(flowLog, f, Hop(p), time)
      /\ mimicLog' = MimicRx(mimicLog, f, delay)
      /\ delaySum' = [delaySum EXCEPT ![f] = @ + delay]
  BY <1>2 DEF Deliver, ReportLastRx
<1>8. delay = Waited(p) + time
  BY <1>2, <1>3 DEF Waited
<1> HIDE DEF delay, time
<1>9. /\ Departs(flowLog', flowLog, f, Hop(p), time)
      /\ LogsRx(mimicLog', mimicLog, f, delay)
  BY <1>2, <1>3, <1>7, DepartureDeparts, MimicRxLogs
<1>10. ASSUME NEW h \in Hops
       PROVE  /\ EntryOf(flowLog', f, h).arrivals
                   = EntryOf(flowLog, f, h).arrivals + (IF p \in At(f, h)' THEN 1 ELSE 0)
              /\ EntryOf(flowLog', f, h).departures
                   = EntryOf(flowLog, f, h).departures + (IF p \in At(f, h) THEN 1 ELSE 0)
              /\ EntryOf(flowLog', f, h).latency
                   = EntryOf(flowLog, f, h).latency + (IF p \in At(f, h) THEN time ELSE 0)
  <2>1. (p \in At(f, h) <=> h = Hop(p)) /\ p \notin At(f, h)'
    BY <1>2, <1>5 DEF At
  <2>2. /\ EntryOf(flowLog, f, h).arrivals \in Nat /\ EntryOf(flowLog, f, h).departures \in Nat
        /\ EntryOf(flowLog, f, h).latency \in Nat
    BY <1>3, EntryType
  <2>3. CASE h = Hop(p)
    BY <1>2, <1>9, <2>1, <2>2, <2>3 DEF Departs
  <2>4. CASE h # Hop(p)
    <3>1. EntryOf(flowLog', f, h) = EntryOf(flowLog, f, h)
      BY <1>9, <2>4 DEF Departs
    <3>q. QED BY <2>1, <2>2, <2>4, <3>1
  <2>q. QED BY <2>3, <2>4
<1>11. /\ delaySum'[f] = delaySum[f] + delay
       /\ MimicOf(mimicLog', f).latency = MimicOf(mimicLog, f).latency + delay
       /\ f \in DOMAIN mimicLog'
  BY <1>2, <1>3, <1>7, <1>9 DEF LogsRx
<1>12. LogsPass(f, p, time)
  BY <1>5, <1>8, <1>10, <1>11 DEF LogsPass
<1>q. QED BY <1>6, <1>12 DEF time

\* A step of a packet of another flow.
LEMMA OtherStays ==
  ASSUME TInv, NEW p \in Packets, NEW f \in Flows, f # FlowOf[p],
         Forward(p) \/ Deliver(p) \/ \E path \in Paths : SendOutgoing(p, path)
  PROVE  Stays(f)
PROOF
<1> DEFINE g == FlowOf[p]
           t == tracked[p]
<1>1. /\ \A q \in Packets \ {p} : net'[q] = net[q]
      /\ FlowLogOK(flowLog) /\ MimicLogOK(mimicLog) /\ delaySum \in [Flows -> Nat]
      /\ now \in Nat
  BY DEF Forward, Deliver, SendOutgoing, Move, TInv, NetOK, StatsOK
<1>2. /\ Unfinished(f)' = Unfinished(f)
      /\ \A q \in Unfinished(f) : Hop(q)' = Hop(q) /\ Waited(q)' = Waited(q)
  BY <1>1 DEF Unfinished, Hop, Waited
<1>3. p \in DOMAIN tracked => /\ now - t.lastSeen \in Nat /\ now - t.firstSeen \in Nat
                              /\ t.timesForwarded + 1 \in Nat
  BY <1>1 DEF TInv, TrackedOK, Tracks
<1>4. delaySum'[f] = delaySum[f]
  BY <1>1 DEF Forward, Deliver, SendOutgoing, ReportForwarding, ReportLastRx, ReportFirstTx,
              stats
<1>5. /\ MimicOf(mimicLog', f).latency = MimicOf(mimicLog, f).latency
      /\ DOMAIN mimicLog \subseteq DOMAIN mimicLog'
  <2>1. \/ mimicLog' = mimicLog \/ mimicLog' = MimicTx(mimicLog, g)
        \/ p \in DOMAIN tracked /\ mimicLog' = MimicRx(mimicLog, g, now - t.firstSeen)
    BY DEF Forward, Deliver, SendOutgoing, ReportForwarding, ReportLastRx, ReportFirstTx
  <2>2. \/ mimicLog' = mimicLog \/ LogsTx(mimicLog', mimicLog, g)
        \/ LogsRx(mimicLog', mimicLog, g, now - t.firstSeen)
    BY <1>1, <1>3, <2>1, MimicTxLogs, MimicRxLogs
  <2>q. QED BY <2>2 DEF LogsTx, LogsRx
<1>6. \A h \in Hops : EntryOf(flowLog', f, h) = EntryOf(flowLog, f, h)
  <2>1. CASE flowLog' = flowLog
    BY <2>1
  <2>2. CASE \E h \in Hops : flowLog' = Arrival(flowLog, g, h, 0)
    <3>1. PICK h \in Hops : flowLog' = Arrival(flowLog, g, h, 0)
      BY <2>2
    <3>2. Arrives(flowLog', flowLog, g, h, 0)
      BY <1>1, <3>1, ArrivalArrives
    <3>q. QED BY <3>2 DEF Arrives
  <2>3. CASE /\ p \in DOMAIN tracked
             /\ flowLog' = Departure(flowLog, g, t.hop, now - t.lastSeen)
    <3>1. Departs(flowLog', flowLog, g, t.hop, now - t.lastSeen)
      BY <1>1, <1>3, <2>3, DepartureDeparts
    <3>q. QED BY <3>1 DEF Departs
  <2>4. CASE /\ p \in DOMAIN tracked /\ g \in LoggedFlows
             /\ \E h \in Hops : flowLog' = Departure(Arrival(flowLog, g, h, t.timesForwarded + 1),
                                                    g, t.hop, now - t.lastSeen)
    <3>1. PICK h \in Hops :
            flowLog' = Departure(Arrival(flowLog, g, h, t.timesForwarded + 1),
                                 g, t.hop, now - t.lastSeen)
      BY <2>4
    <3> DEFINE mid == Arrival(flowLog, g, h, t.timesForwarded + 1)
    <3>2. Arrives(mid, flowLog, g, h, t.timesForwarded + 1) /\ FlowLogOK(mid)
      BY <1>1, <1>3, <2>4, ArrivalArrives, ArrivalOK
    <3> HIDE DEF mid
    <3>3. Departs(flowLog', mid, g, t.hop, now - t.lastSeen)
      BY <1>3, <2>4, <3>1, <3>2, DepartureDeparts DEF mid
    <3>q. QED BY <3>2, <3>3 DEF Arrives, Departs
  <2>5. CASE Forward(p)
    <3>1. net[p].path[net[p].at + 1] \in Hops
      BY <2>5, PathFacts DEF Forward, TInv, NetOK
    <3>q. QED BY <2>1, <2>3, <2>4, <2>5, <3>1 DEF Forward, ReportForwarding, Logging
  <2>6. CASE Deliver(p)
    BY <2>1, <2>3, <2>6 DEF Deliver, ReportLastRx
  <2>7. CASE \E path \in Paths : SendOutgoing(p, path)
    BY <2>1, <2>2, <2>7, PathFacts DEF SendOutgoing, ReportFirstTx
  <2>q. QED BY <2>5, <2>6, <2>7
<1>q. QED BY <1>2, <1>4, <1>5, <1>6 DEF Stays

LEMMA QuietStays ==
  ASSUME TInv, NEW f \in Flows,
         (\E p \in Packets : Drop(p)) \/ StartRightNow \/ StopRightNow \/ Tick \/ Finish
           \/ UNCHANGED vars
  PROVE  Stays(f)
PROOF
<1>1. flowLog' = flowLog /\ mimicLog' = mimicLog /\ delaySum' = delaySum
  BY DEF Drop, ReportDrop, StartRightNow, StopRightNow, Tick, Finish, CheckForLostPackets,
         stats, vars
<1>2. \A q \in Packets : /\ net'[q].path = net[q].path /\ net'[q].at = net[q].at
                         /\ net'[q].sent = net[q].sent /\ net'[q].since = net[q].since
                         /\ net'[q].place \in {"queue", "dropped"}
                              <=> net[q].place \in {"queue", "dropped"}
  <2>1. CASE \E p \in Packets : Drop(p)
    BY <2>1 DEF Drop, Move, TInv, NetOK, Places
  <2>2. CASE StartRightNow \/ StopRightNow \/ Tick \/ Finish \/ UNCHANGED vars
    BY <2>2 DEF StartRightNow, StopRightNow, Tick, Finish, vars
  <2>q. QED BY <2>1, <2>2
<1>3. /\ Unfinished(f)' = Unfinished(f)
      /\ \A q \in Unfinished(f) : Hop(q)' = Hop(q) /\ Waited(q)' = Waited(q)
  BY <1>2 DEF Unfinished, Hop, Waited
<1>q. QED BY <1>1, <1>3 DEF Stays

LEMMA NextBalanced ==
  TInv /\ Watch /\ Picture /\ Stages /\ Timed /\ Balanced /\ [Next]_vars => Balanced'
PROOF
<1> SUFFICES ASSUME TInv, Watch, Picture, Stages, Timed, [Next]_vars,
                    NEW f \in Flows, FullyLogged(f), Arrived(f) /\ Summed(f) /\ Mimicked(f)
             PROVE  (Arrived(f) /\ Summed(f) /\ Mimicked(f))'
  BY DEF Balanced, FullyLogged, AlwaysOn
<1>0. TInv' /\ Timed'
  BY NextTypes, NextTimed
<1>1. ASSUME NEW p \in Packets, NEW path \in Paths, SendOutgoing(p, path)
      PROVE  (Arrived(f) /\ Summed(f) /\ Mimicked(f))'
  <2>1. CASE f = FlowOf[p]
    <3>1. Passes(f, p, 0) /\ LogsPass(f, p, 0)
      BY <1>1, <2>1, SendPasses
    <3>q. QED BY <1>0, <3>1, PassBalanced
  <2>2. CASE f # FlowOf[p]
    BY <1>1, <2>2, OtherStays, StaysBalanced
  <2>q. QED BY <2>1, <2>2
<1>2. ASSUME NEW p \in Packets, Forward(p) \/ Deliver(p)
      PROVE  (Arrived(f) /\ Summed(f) /\ Mimicked(f))'
  <2>1. CASE f = FlowOf[p]
    <3> DEFINE time == now - net[p].since
    <3>1. Passes(f, p, time) /\ LogsPass(f, p, time)
      BY <1>2, <2>1, ForwardPasses, DeliverPasses
    <3> HIDE DEF time
    <3>2. PICK span : span = time
      OBVIOUS
    <3>q. QED BY <1>0, <3>1, <3>2, PassBalanced
  <2>2. CASE f # FlowOf[p]
    BY <1>2, <2>2, OtherStays, StaysBalanced
  <2>q. QED BY <2>1, <2>2
<1>3. ASSUME (\E p \in Packets : Drop(p)) \/ StartRightNow \/ StopRightNow \/ Tick \/ Finish
               \/ UNCHANGED vars
      PROVE  (Arrived(f) /\ Summed(f) /\ Mimicked(f))'
  BY <1>3, QuietStays, StaysBalanced
<1>q. QED BY <1>1, <1>2, <1>3, RouteFacts DEF Next

(***************************************************************************)
(* The log of a fully logged flow balances: at every hop the arrivals are  *)
(* the departures and the packets that wait or were dropped there, and the *)
(* latencies of the hops add up to the delay of the delivered packets,     *)
(* which is what the mimic log sums, and the time the others have spent on *)
(* the hops behind them.                                                   *)
(***************************************************************************)
THEOREM LogsBalance == Spec => []HopsBalance
PROOF
<1>1. Balanced => HopsBalance
  <2> SUFFICES ASSUME Balanced, NEW f \in Flows, FullyLogged(f)
               PROVE  /\ \A h \in Hops :
                           Entry(f, h).arrivals = Entry(f, h).departures
                             + Cardinality({p \in Unfinished(f) : Hop(p) = h})
                      /\ Total([h \in Hops |-> Entry(f, h).latency])
                           = delaySum[f]
                             + Total([p \in Unfinished(f) |-> net[p].since - net[p].sent])
                      /\ f \in DOMAIN mimicLog => mimicLog[f].latency = delaySum[f]
    BY DEF HopsBalance, Unfinished
  <2>1. \A h \in Hops : Entry(f, h) = EntryOf(flowLog, f, h)
    BY DEF Entry, EntryOf, NoEntry
  <2>2. Arrived(f) /\ Summed(f) /\ Mimicked(f)
    BY DEF Balanced
  <2>3. /\ [h \in Hops |-> Entry(f, h).latency] = Latencies(f)
        /\ [p \in Unfinished(f) |-> net[p].since - net[p].sent] = Waits(f)
    BY <2>1 DEF Latencies, Waits, Waited
  <2>4. Total([h \in Hops |-> Entry(f, h).latency])
          = delaySum[f] + Total([p \in Unfinished(f) |-> net[p].since - net[p].sent])
    BY <2>2, <2>3 DEF Summed
  <2>q. QED BY <2>1, <2>2, <2>4 DEF Arrived, At, Mimicked, MimicOf
<1>2. Init => Balanced
  <2> SUFFICES ASSUME Init, NEW f \in Flows
               PROVE  Arrived(f) /\ Summed(f) /\ Mimicked(f)
    BY DEF Balanced
  <2>1. /\ \A h : EntryOf(flowLog, f, h) = NoEntry
        /\ MimicOf(mimicLog, f) = [tx |-> 0, rx |-> 0, latency |-> 0]
        /\ Unfinished(f) = {} /\ delaySum[f] = 0
    BY DEF Init, EntryOf, MimicOf, Unfinished
  <2>2. \A h \in Hops : Cardinality(At(f, h)) = 0
    BY <2>1, FS_EmptySet DEF At
  <2>3. Total(Latencies(f)) = 0 /\ Total(Waits(f)) = 0
    <3>1. /\ Latencies(f) \in [Hops -> Nat] /\ \A h \in Hops : Latencies(f)[h] = 0
          /\ Waits(f) \in [{} -> Nat]
      BY <2>1 DEF Latencies, Waits, NoEntry
    <3>q. QED BY <3>1, TotalZero
  <2>q. QED BY <2>1, <2>2, <2>3 DEF Arrived, Summed, Mimicked, NoEntry
<1>q. QED BY <1>1, <1>2, InitTimed, NextTimed, InitStages, NextStages, NextBalanced,
             PictureInvariant, PTL DEF Spec

===============================================================================
