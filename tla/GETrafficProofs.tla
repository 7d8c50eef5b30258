---------------------------- MODULE GETrafficProofs ----------------------------
(***************************************************************************)
(* Theorems about the traffic source, for every distribution of sizes,     *)
(* gaps, on and off times, limit and stop time: its two chains of events   *)
(* never fork or break, and once stopped or at its limit it is silent.     *)
(***************************************************************************)
EXTENDS GETraffic, TLAPS

Calls == {"StartApplication", "StopApplication", "StartSending", "StopSending", "SendPacket"}
Records == [time : Nat, uid : Nat, call : Calls]

\* The calls of the chains; the others are the application's.
ChainCalls == {"StartSending", "StopSending", "SendPacket"}

\* Nothing but the stop is scheduled until the application starts.
StartsFirst ==
  \A e \in events : e.call = "StartApplication" =>
    /\ m_socket = "none" /\ m_totBytes = 0
    /\ \A f \in events : f.call \notin ChainCalls
    /\ \A f \in events \ {e} : Before(e, f)

\* The chains go on only on an open socket, and it is open only below the limit.
OpenBelow ==
  /\ \A e \in events : e.call \in ChainCalls => m_socket = "open"
  /\ m_socket # "closed" => BelowLimit(m_totBytes)

Inv == TypeOK /\ OneChainEach /\ StartsFirst /\ OpenBelow

-------------------------------------------------------------------------------
(* The types of the values drawn, and of the events scheduled.             *)

LEMMA EventType ==
  ASSUME NEW time, time \in Nat, NEW call, call \in Calls, NEW id, id \in Nat
  PROVE  /\ Event(time, call, id) \in Records
         /\ Event(time, call, id).call = call /\ Event(time, call, id).uid = id
BY DEF Event, Records

LEMMA LaterTime == ASSUME now' \in Nat, NEW delay \in Nat PROVE now' + delay \in Nat
PROOF
<1>1. PICK time \in Nat : time = now'
  OBVIOUS
<1>2. time + delay \in Nat
  OBVIOUS
<1>q. QED BY <1>1, <1>2

LEMMA DrawTypes ==
  ASSUME TypeOK
  PROVE  NextSizes \subseteq Nat /\ \A size : NextGaps(size) \subseteq Nat
PROOF
<1>1. NextSizes \subseteq Nat
  <2>1. CASE Distribution = "uniform"
    BY <2>1, SourceAssumption DEF NextSizes
  <2>2. CASE Distribution = "exponential"
    BY <2>2, SourceAssumption DEF NextSizes
  <2>3. CASE Distribution = "deterministic"
    BY <2>3 DEF NextSizes, TypeOK
  <2>q. QED BY <2>1, <2>2, <2>3, SourceAssumption
<1>q. QED BY <1>1, SourceAssumption DEF NextGaps

LEMMA FireFacts ==
  ASSUME TypeOK, NEW e \in events, NEW call, Fire(e, call)
  PROVE  e.call = call /\ now' \in Nat /\ events \ {e} \subseteq Records
BY DEF TypeOK, Fire, Records, Calls

LEMMA CountTypes ==
  ASSUME TypeOK, NEW burst \in BOOLEAN, CountBurst(burst)
  PROVE  /\ state_burst' \in {0, 1} /\ sum_burst' \in Nat /\ count_burst' \in Nat
         /\ drawn' \in Seq(BOOLEAN)
BY DEF TypeOK, CountBurst

\* What ScheduleStopEvent leaves.
LEMMA StopEventTypes ==
  ASSUME TypeOK, now' \in Nat, NEW queue \in SUBSET Records, NEW id \in Nat,
         NEW ons \in SUBSET OnTimes, ScheduleStopEvent(queue, id, ons)
  PROVE  events' \subseteq Records /\ m_startStopEvent' \in Nat /\ uid' \in Nat
PROOF
<1>1. ASSUME NEW on \in ons PROVE now' + on \in Nat
  <2>1. on \in Nat
    BY SourceAssumption
  <2>q. QED BY <2>1, LaterTime
<1>2. \A on \in ons : Event(now' + on, "StopSending", id) \in Records
  BY <1>1, EventType DEF Calls
<1>3. /\ events' = queue \cup {Event(now' + on, "StopSending", id) : on \in ons}
      /\ m_startStopEvent' = IF ons = {} THEN m_startStopEvent ELSE id
      /\ uid' = IF ons = {} THEN id ELSE id + 1
  BY DEF ScheduleStopEvent
<1>4. events' \subseteq Records
  <2> SUFFICES ASSUME NEW e \in events' PROVE e \in Records
    OBVIOUS
  <2>1. CASE e \in queue
    BY <2>1
  <2>2. CASE e \notin queue
    <3>1. PICK on \in ons : e = Event(now' + on, "StopSending", id)
      BY <1>3, <2>2
    <3>q. QED BY <1>2, <3>1
  <2>q. QED BY <2>1, <2>2
<1>5. m_startStopEvent' \in Nat /\ uid' \in Nat
  BY <1>3 DEF TypeOK
<1>q. QED BY <1>4, <1>5

LEMMA NextTxTypes ==
  ASSUME TypeOK, now' \in Nat, NEW queue \in SUBSET Records, NEW bytes,
         NEW ons \in SUBSET OnTimes, ScheduleNextTx(queue, bytes, ons)
  PROVE  /\ events' \subseteq Records /\ m_startStopEvent' \in Nat /\ uid' \in Nat
         /\ m_sendEvent' \in Nat /\ m_socket' \in {"none", "open", "closed"}
         /\ m_pktSize' \in Nat
         /\ state_burst' \in {0, 1} /\ sum_burst' \in Nat /\ count_burst' \in Nat
         /\ drawn' \in Seq(BOOLEAN)
PROOF
<1>0. uid \in Nat /\ uid + 1 \in Nat
  BY DEF TypeOK
<1>1. CASE BelowLimit(bytes)
  <2>1. PICK size \in NextSizes, burst \in BOOLEAN :
          \E gap \in IF burst THEN {0} ELSE NextGaps(size) :
            /\ m_pktSize' = size /\ CountBurst(burst)
            /\ ScheduleStopEvent(queue \cup {Event(now' + gap, "SendPacket", uid)},
                                 uid + 1, ons)
    BY <1>1 DEF ScheduleNextTx
  <2>2. PICK gap \in IF burst THEN {0} ELSE NextGaps(size) :
            ScheduleStopEvent(queue \cup {Event(now' + gap, "SendPacket", uid)},
                              uid + 1, ons)
    BY <2>1
  <2>3. now' + gap \in Nat
    <3>1. gap \in Nat
      BY DrawTypes
    <3>q. QED BY <3>1, LaterTime
  <2>4. Event(now' + gap, "SendPacket", uid) \in Records
    BY <1>0, <2>3, EventType DEF Calls
  <2>5. PICK longer \in SUBSET Records :
          longer = queue \cup {Event(now' + gap, "SendPacket", uid)}
    BY <2>4
  <2>6. events' \subseteq Records /\ m_startStopEvent' \in Nat /\ uid' \in Nat
    BY <1>0, <2>2, <2>5, StopEventTypes
  <2>7. m_sendEvent' = uid /\ m_socket' = m_socket
    BY <1>1 DEF ScheduleNextTx
  <2>q. QED BY <1>0, <2>1, <2>6, <2>7, CountTypes, DrawTypes DEF TypeOK
<1>2. CASE ~BelowLimit(bytes)
  <2>1. /\ ScheduleStopEvent(CancelEvents(queue), uid, ons) /\ m_socket' = "closed"
        /\ UNCHANGED <<m_sendEvent, m_pktSize, bursts>>
    BY <1>2 DEF ScheduleNextTx
  <2>2. CancelEvents(queue) \in SUBSET Records
    BY DEF CancelEvents
  <2>3. events' \subseteq Records /\ m_startStopEvent' \in Nat /\ uid' \in Nat
    BY <1>0, <2>1, <2>2, StopEventTypes
  <2>q. QED BY <2>1, <2>3 DEF TypeOK, bursts
<1>q. QED BY <1>1, <1>2

LEMMA StartEventTypes ==
  ASSUME TypeOK, now' \in Nat, NEW queue \in SUBSET Records, ScheduleStartEvent(queue)
  PROVE  /\ events' \subseteq Records /\ m_startStopEvent' \in Nat /\ uid' \in Nat
         /\ m_sendEvent' \in Nat
PROOF
<1>1. PICK off \in OffTimes : events' = queue \cup {Event(now' + off, "StartSending", uid)}
  BY DEF ScheduleStartEvent
<1>2. now' + off \in Nat /\ uid \in Nat
  <2>1. off \in Nat /\ uid \in Nat
    BY SourceAssumption DEF TypeOK
  <2>q. QED BY <2>1, LaterTime
<1>3. Event(now' + off, "StartSending", uid) \in Records
  BY <1>2, EventType DEF Calls
<1>4. m_startStopEvent' = uid /\ uid' = uid + 1 /\ m_sendEvent' = m_sendEvent
  BY DEF ScheduleStartEvent
<1>q. QED BY <1>1, <1>2, <1>3, <1>4 DEF TypeOK

LEMMA InitTypes == Init => TypeOK
PROOF
<1> SUFFICES ASSUME Init PROVE TypeOK
  OBVIOUS
<1>1. FirstUid \in Nat /\ FirstUid + 1 \in Nat /\ FirstUid + 2 \in Nat
  BY DEF FirstUid
<1>2. /\ Event(0, "StartApplication", FirstUid) \in Records
      /\ \A stop \in StopTimes : Event(stop, "StopApplication", FirstUid + 1) \in Records
  BY <1>1, SourceAssumption, EventType DEF Calls
<1>3. events \subseteq Records
  BY <1>2 DEF Init
<1>q. QED BY <1>1, <1>3, SourceAssumption DEF Init, TypeOK, NoEvent, Records, Calls

LEMMA NextTypes == TypeOK /\ [Next]_vars => TypeOK'
PROOF
<1> SUFFICES ASSUME TypeOK, [Next]_vars PROVE TypeOK'
  OBVIOUS
<1>0. /\ uid \in Nat /\ m_sendEvent \in Nat /\ m_startStopEvent \in Nat
      /\ m_socket \in {"none", "open", "closed"} /\ m_pktSize \in Nat /\ m_totBytes \in Nat
      /\ state_burst \in {0, 1} /\ sum_burst \in Nat /\ count_burst \in Nat
      /\ drawn \in Seq(BOOLEAN)
  BY DEF TypeOK
<1>1. ASSUME NEW e \in events, StartApplication(e) PROVE TypeOK'
  <2>1. now' \in Nat /\ events \ {e} \subseteq Records
    BY <1>1, FireFacts DEF StartApplication
  <2>2. CancelEvents(events \ {e}) \in SUBSET Records
    BY <2>1 DEF CancelEvents
  <2>3. /\ events' \subseteq Records /\ m_startStopEvent' \in Nat /\ uid' \in Nat
        /\ m_sendEvent' \in Nat
    BY <1>1, <2>1, <2>2, StartEventTypes DEF StartApplication
  <2>4. m_socket' = "open" /\ UNCHANGED <<m_pktSize, m_totBytes, bursts>>
    BY <1>1 DEF StartApplication
  <2>q. QED BY <1>0, <2>1, <2>3, <2>4 DEF TypeOK, Records, Calls, bursts
<1>2. ASSUME NEW e \in events, StopApplication(e) PROVE TypeOK'
  <2>1. now' \in Nat /\ events \ {e} \subseteq Records
    BY <1>2, FireFacts DEF StopApplication
  <2>2. events' \subseteq Records
    BY <1>2, <2>1 DEF StopApplication, CancelEvents
  <2>q. QED BY <1>0, <1>2, <2>1, <2>2 DEF StopApplication, TypeOK, Records, Calls, bursts, handles
<1>3. ASSUME NEW e \in events, StartSending(e) PROVE TypeOK'
  <2>1. now' \in Nat /\ events \ {e} \in SUBSET Records
    BY <1>3, FireFacts DEF StartSending
  <2>2. PICK on \in OnTimes : ScheduleNextTx(events \ {e}, m_totBytes, {on})
    BY <1>3 DEF StartSending
  <2>3. {on} \in SUBSET OnTimes
    OBVIOUS
  <2>4. PICK queue \in SUBSET Records : queue = events \ {e}
    BY <2>1
  <2>5. PICK bytes : bytes = m_totBytes
    OBVIOUS
  <2>6. /\ events' \subseteq Records /\ m_startStopEvent' \in Nat /\ uid' \in Nat
        /\ m_sendEvent' \in Nat /\ m_socket' \in {"none", "open", "closed"}
        /\ m_pktSize' \in Nat
        /\ state_burst' \in {0, 1} /\ sum_burst' \in Nat /\ count_burst' \in Nat
        /\ drawn' \in Seq(BOOLEAN)
    BY <2>1, <2>2, <2>3, <2>4, <2>5, NextTxTypes
  <2>7. m_totBytes' = m_totBytes
    BY <1>3 DEF StartSending
  <2>q. QED BY <1>0, <2>1, <2>6, <2>7 DEF TypeOK, Records, Calls
<1>4. ASSUME NEW e \in events, StopSending(e) PROVE TypeOK'
  <2>1. now' \in Nat /\ events \ {e} \subseteq Records
    BY <1>4, FireFacts DEF StopSending
  <2>2. CancelEvents(events \ {e}) \in SUBSET Records
    BY <2>1 DEF CancelEvents
  <2>3. /\ events' \subseteq Records /\ m_startStopEvent' \in Nat /\ uid' \in Nat
        /\ m_sendEvent' \in Nat
    BY <1>4, <2>1, <2>2, StartEventTypes DEF StopSending
  <2>4. UNCHANGED <<m_socket, m_pktSize, m_totBytes, bursts>>
    BY <1>4 DEF StopSending
  <2>q. QED BY <1>0, <2>1, <2>3, <2>4 DEF TypeOK, Records, Calls, bursts
<1>5. ASSUME NEW e \in events, SendPacket(e) PROVE TypeOK'
  <2>1. now' \in Nat /\ events \ {e} \in SUBSET Records
    BY <1>5, FireFacts DEF SendPacket
  <2>2. ScheduleNextTx(events \ {e}, m_totBytes', {}) /\ m_totBytes' = m_totBytes + m_pktSize
    BY <1>5 DEF SendPacket
  <2>3. {} \in SUBSET OnTimes
    OBVIOUS
  <2>4. PICK queue \in SUBSET Records : queue = events \ {e}
    BY <2>1
  <2>5. PICK bytes : bytes = m_totBytes'
    OBVIOUS
  <2>6. /\ events' \subseteq Records /\ m_startStopEvent' \in Nat /\ uid' \in Nat
        /\ m_sendEvent' \in Nat /\ m_socket' \in {"none", "open", "closed"}
        /\ m_pktSize' \in Nat
        /\ state_burst' \in {0, 1} /\ sum_burst' \in Nat /\ count_burst' \in Nat
        /\ drawn' \in Seq(BOOLEAN)
    BY <2>1, <2>2, <2>3, <2>4, <2>5, NextTxTypes
  <2>q. QED BY <1>0, <2>1, <2>2, <2>6 DEF TypeOK, Records, Calls
<1>6. CASE UNCHANGED vars
  BY <1>6 DEF TypeOK, vars, handles, bursts
<1>q. QED BY <1>1, <1>2, <1>3, <1>4, <1>5, <1>6 DEF Next

(***************************************************************************)
(* The variables of the source keep their types.                           *)
(***************************************************************************)
THEOREM SourceTypes == Spec => []TypeOK
BY InitTypes, NextTypes, PTL DEF Spec

-------------------------------------------------------------------------------
(* The chains of events.                                                   *)

\* Nothing but the application's stop.
StopOnly(queue) ==
  /\ \A f \in queue : f.call = "StopApplication"
  /\ \A f, g \in queue : f = g

\* The event that runs is not one of the start, and so no start is pending.
LEMMA Started ==
  ASSUME Inv, NEW e \in events, NEW call, Fire(e, call), call # "StartApplication"
  PROVE  \A f \in events : f.call # "StartApplication"
PROOF
<1> SUFFICES ASSUME NEW f \in events, f.call = "StartApplication" PROVE FALSE
  OBVIOUS
<1>1. f # e /\ Before(e, f)
  BY DEF Fire
<1>2. Before(f, e)
  BY <1>1 DEF Inv, StartsFirst
<1>3. /\ e.time \in Nat /\ f.time \in Nat /\ e.uid \in Nat /\ f.uid \in Nat
  BY DEF Inv, TypeOK
<1>q. QED BY <1>1, <1>2, <1>3 DEF Before

\* CancelEvents reaches every event of the chains.
LEMMA CancelLeavesStop ==
  ASSUME Inv, NEW e \in events,
         \A f \in events \ {e} : f.call # "StartApplication"
  PROVE  StopOnly(CancelEvents(events \ {e}))
PROOF
<1> DEFINE left == CancelEvents(events \ {e})
<1>1. \A f \in left : /\ f \in events /\ f.call # "StartApplication"
                     /\ f.uid # m_sendEvent /\ f.uid # m_startStopEvent
  BY DEF CancelEvents
<1>2. \A f \in left : f.call \notin ChainCalls
  BY <1>1 DEF Inv, OneChainEach, ChainCalls
<1>3. \A f \in left : f.call \in Calls
  BY <1>1 DEF Inv, TypeOK, Calls
<1>4. \A f \in left : f.call = "StopApplication"
  BY <1>1, <1>2, <1>3 DEF Calls, ChainCalls
<1>5. \A f, g \in left : f = g
  BY <1>1, <1>4 DEF Inv, OneChainEach
<1>q. QED BY <1>4, <1>5 DEF StopOnly

\* The source is off and will be switched on.
LEMMA StartChain ==
  ASSUME NEW queue, StopOnly(queue), ScheduleStartEvent(queue), m_socket' = "open"
  PROVE  /\ OneChainEach' /\ StartsFirst'
         /\ \A e \in events' : e.call \in ChainCalls => m_socket' = "open"
PROOF
<1>1. PICK off \in OffTimes : events' = queue \cup {Event(now' + off, "StartSending", uid)}
  BY DEF ScheduleStartEvent
<1> DEFINE new == Event(now' + off, "StartSending", uid)
<1>2. new.call = "StartSending" /\ new.uid = uid
  BY DEF Event
<1>3. events' = queue \cup {new} /\ m_startStopEvent' = uid
  BY <1>1 DEF ScheduleStartEvent
<1> HIDE DEF new
<1>4. \A e \in events' : \/ e = new
                         \/ e \in queue /\ e.call = "StopApplication"
  BY <1>3 DEF StopOnly
<1>5. OneChainEach'
  BY <1>2, <1>3, <1>4 DEF OneChainEach, Holds, StopOnly
<1>6. StartsFirst'
  BY <1>2, <1>4 DEF StartsFirst
<1>q. QED BY <1>5, <1>6

\* The source is on, below its limit: the event of its next packet is the only
\* one, beside that of its switching off.
LEMMA SendChain ==
  ASSUME TypeOK, NEW queue, NEW bytes, NEW ons, ScheduleNextTx(queue, bytes, ons),
         BelowLimit(bytes), m_socket = "open",
         \A f \in queue : f.call \in {"StopApplication", "StopSending"},
         \A f, g \in queue : f.call = g.call => f = g,
         \/ /\ \E on : ons = {on}
            /\ \A f \in queue : f.call # "StopSending"
         \/ /\ ons = {}
            /\ \E f \in queue : f.call = "StopSending"
            /\ \A f \in queue : f.call = "StopSending" => f.uid = m_startStopEvent
  PROVE  /\ OneChainEach' /\ StartsFirst' /\ m_socket' = "open"
PROOF
<1>1. /\ m_sendEvent' = uid /\ m_socket' = "open"
      /\ \E size \in NextSizes, burst \in BOOLEAN :
         \E gap \in IF burst THEN {0} ELSE NextGaps(size) :
           ScheduleStopEvent(queue \cup {Event(now' + gap, "SendPacket", uid)}, uid + 1, ons)
  BY DEF ScheduleNextTx
<1>2. PICK gap :
        ScheduleStopEvent(queue \cup {Event(now' + gap, "SendPacket", uid)}, uid + 1, ons)
  BY <1>1
<1> DEFINE send == Event(now' + gap, "SendPacket", uid)
<1>3. send.call = "SendPacket" /\ send.uid = uid
  BY DEF Event
<1>4. /\ events' = (queue \cup {send})
                     \cup {Event(now' + on, "StopSending", uid + 1) : on \in ons}
      /\ m_startStopEvent' = IF ons = {} THEN m_startStopEvent ELSE uid + 1
  BY <1>2 DEF ScheduleStopEvent
<1> HIDE DEF send
\* Either way there is one event that switches off, and it has the handle.
<1>5. \E off : /\ events' = queue \cup {send, off}
               /\ off.call = "StopSending" /\ off.uid = m_startStopEvent'
               /\ \A f \in queue : f.call = "StopSending" => f = off
  <2>1. CASE \E on : ons = {on} /\ \A f \in queue : f.call # "StopSending"
    <3>1. PICK on : ons = {on}
      BY <2>1
    <3> DEFINE off == Event(now' + on, "StopSending", uid + 1)
    <3>2. off.call = "StopSending" /\ off.uid = uid + 1
      BY DEF Event
    <3>3. events' = queue \cup {send, off} /\ m_startStopEvent' = uid + 1
      BY <1>4, <3>1
    <3>4. \A f \in queue : f.call = "StopSending" => f = off
      BY <2>1
    <3>5. PICK event : event = off
      OBVIOUS
    <3> HIDE DEF off
    <3>q. QED BY <3>2, <3>3, <3>4, <3>5
  <2>2. CASE /\ ons = {}
             /\ \E f \in queue : f.call = "StopSending"
             /\ \A f \in queue : f.call = "StopSending" => f.uid = m_startStopEvent
    <3>1. PICK off \in queue : off.call = "StopSending"
      BY <2>2
    <3>2. events' = queue \cup {send, off} /\ m_startStopEvent' = m_startStopEvent
      BY <1>4, <2>2
    <3>q. QED BY <2>2, <3>1, <3>2
  <2>q. QED BY <2>1, <2>2
<1>6. PICK off : /\ events' = queue \cup {send, off}
                 /\ off.call = "StopSending" /\ off.uid = m_startStopEvent'
                 /\ \A f \in queue : f.call = "StopSending" => f = off
  BY <1>5
<1>7. \A e \in events' : \/ e = send \/ e = off
                         \/ e \in queue /\ e.call = "StopApplication"
  BY <1>6
<1>8. OneChainEach'
  <2>1. \A e, f \in events' : e.call = f.call => e = f
    BY <1>3, <1>6, <1>7
  <2>2. send \in events' /\ off \in events'
    BY <1>6
  <2>q. QED BY <1>1, <1>3, <1>6, <1>7, <2>1, <2>2 DEF OneChainEach, Holds
<1>9. StartsFirst'
  BY <1>3, <1>6, <1>7 DEF StartsFirst
<1>q. QED BY <1>1, <1>8, <1>9

LEMMA InitInv == Init => Inv
PROOF
<1> SUFFICES ASSUME Init PROVE Inv
  OBVIOUS
<1>0. PICK time \in StopTimes :
        events = {Event(0, "StartApplication", FirstUid)} \cup
          (IF time = 0 THEN {} ELSE {Event(time, "StopApplication", FirstUid + 1)})
  BY DEF Init
<1> DEFINE start == Event(0, "StartApplication", FirstUid)
           stop == Event(time, "StopApplication", FirstUid + 1)
<1>1. /\ start.call = "StartApplication" /\ start.time = 0 /\ start.uid = 4
      /\ stop.call = "StopApplication" /\ stop.time = time /\ stop.uid = 5
      /\ time \in Nat /\ MaxBytes \in Nat
  BY SourceAssumption DEF Event, FirstUid
<1>2. /\ events = {start} \cup (IF time = 0 THEN {} ELSE {stop})
      /\ m_socket = "none" /\ m_totBytes = 0
  BY <1>0 DEF Init
<1> HIDE DEF start, stop
<1>3. \A e \in events : e = start \/ e = stop
  BY <1>2
<1>4. OneChainEach
  BY <1>1, <1>3 DEF OneChainEach, Holds
<1>5. StartsFirst
  <2>1. Before(start, stop)
    BY <1>1 DEF Before
  <2>2. \A e \in events : e.call = "StartApplication" => e = start
    BY <1>1, <1>3
  <2>3. \A f \in events : f.call \notin ChainCalls
    BY <1>1, <1>3 DEF ChainCalls
  <2>4. \A f \in events \ {start} : f = stop
    BY <1>3
  <2>q. QED BY <1>2, <2>1, <2>2, <2>3, <2>4 DEF StartsFirst
<1>6. OpenBelow
  <2>1. \A f \in events : f.call \notin ChainCalls
    BY <1>1, <1>3 DEF ChainCalls
  <2>2. BelowLimit(0)
    BY <1>1 DEF BelowLimit
  <2>q. QED BY <1>2, <2>1, <2>2 DEF OpenBelow
<1>q. QED BY <1>4, <1>5, <1>6, InitTypes DEF Inv

LEMMA NextInv == Inv /\ [Next]_vars => Inv'
PROOF
<1> SUFFICES ASSUME Inv, [Next]_vars PROVE Inv'
  OBVIOUS
<1>0. TypeOK'
  BY NextTypes DEF Inv
<1>1. ASSUME NEW e \in events, StartApplication(e) PROVE Inv'
  <2>1. /\ Fire(e, "StartApplication") /\ m_socket' = "open" /\ m_totBytes' = m_totBytes
        /\ ScheduleStartEvent(CancelEvents(events \ {e}))
    BY <1>1 DEF StartApplication
  <2>2. e.call = "StartApplication" /\ m_socket = "none"
    BY <2>1 DEF Fire, Inv, StartsFirst
  <2>3. \A f \in events \ {e} : f.call # "StartApplication"
    BY <2>2 DEF Inv, OneChainEach
  <2>4. StopOnly(CancelEvents(events \ {e}))
    BY <2>3, CancelLeavesStop
  <2>5. /\ OneChainEach' /\ StartsFirst'
        /\ \A f \in events' : f.call \in ChainCalls => m_socket' = "open"
    BY <2>1, <2>4, StartChain
  <2>6. BelowLimit(m_totBytes')
    BY <2>1, <2>2 DEF Inv, OpenBelow
  <2>q. QED BY <1>0, <2>5, <2>6 DEF Inv, OpenBelow
<1>2. ASSUME NEW e \in events, StopApplication(e) PROVE Inv'
  <2>1. /\ Fire(e, "StopApplication") /\ events' = CancelEvents(events \ {e})
        /\ m_socket' = IF m_socket = "none" THEN "none" ELSE "closed"
        /\ m_totBytes' = m_totBytes
    BY <1>2 DEF StopApplication
  <2>2. \A f \in events : f.call # "StartApplication"
    BY <2>1, Started
  <2>3. StopOnly(events')
    BY <2>1, <2>2, CancelLeavesStop
  <2>4. OneChainEach' /\ StartsFirst'
    BY <2>3 DEF StopOnly, OneChainEach, Holds, StartsFirst
  <2>5. OpenBelow'
    BY <2>1, <2>3 DEF Inv, OpenBelow, StopOnly, ChainCalls
  <2>q. QED BY <1>0, <2>4, <2>5 DEF Inv
<1>3. ASSUME NEW e \in events, StartSending(e) PROVE Inv'
  <2>1. Fire(e, "StartSending") /\ e.call = "StartSending" /\ m_totBytes' = m_totBytes
    BY <1>3 DEF StartSending, Fire
  <2>2. PICK on \in OnTimes : ScheduleNextTx(events \ {e}, m_totBytes, {on})
    BY <1>3 DEF StartSending
  <2>3. m_socket = "open" /\ BelowLimit(m_totBytes)
    BY <2>1 DEF Inv, OpenBelow, ChainCalls
  <2>4. \A f \in events \ {e} : f.call = "StopApplication"
    <3>1. \A f \in events : f.call # "StartApplication" /\ f.call \in Calls
      BY <2>1, Started DEF Inv, TypeOK, Calls
    <3>q. QED BY <2>1, <3>1 DEF Inv, OneChainEach, Holds, Calls
  <2>5. \A f, g \in events \ {e} : f.call = g.call => f = g
    BY DEF Inv, OneChainEach
  <2>6. PICK queue : queue = events \ {e}
    OBVIOUS
  <2>7. PICK bytes : bytes = m_totBytes
    OBVIOUS
  <2>8. OneChainEach' /\ StartsFirst' /\ m_socket' = "open"
    <3>1. TypeOK
      BY DEF Inv
    <3>q. QED BY <2>2, <2>3, <2>4, <2>5, <2>6, <2>7, <3>1, SendChain
  <2>q. QED BY <1>0, <2>1, <2>3, <2>8 DEF Inv, OpenBelow
<1>4. ASSUME NEW e \in events, StopSending(e) PROVE Inv'
  <2>1. /\ Fire(e, "StopSending") /\ e.call = "StopSending"
        /\ ScheduleStartEvent(CancelEvents(events \ {e}))
        /\ m_socket' = m_socket /\ m_totBytes' = m_totBytes
    BY <1>4 DEF StopSending, Fire
  <2>2. m_socket = "open" /\ BelowLimit(m_totBytes)
    BY <2>1 DEF Inv, OpenBelow, ChainCalls
  <2>3. StopOnly(CancelEvents(events \ {e}))
    BY <2>1, Started, CancelLeavesStop
  <2>4. /\ OneChainEach' /\ StartsFirst'
        /\ \A f \in events' : f.call \in ChainCalls => m_socket' = "open"
    BY <2>1, <2>2, <2>3, StartChain
  <2>q. QED BY <1>0, <2>1, <2>2, <2>4 DEF Inv, OpenBelow
<1>5. ASSUME NEW e \in events, SendPacket(e) PROVE Inv'
  <2>1. /\ Fire(e, "SendPacket") /\ e.call = "SendPacket"
        /\ ScheduleNextTx(events \ {e}, m_totBytes', {})
    BY <1>5 DEF SendPacket, Fire
  <2>2. m_socket = "open"
    BY <2>1 DEF Inv, OpenBelow, ChainCalls
  <2>3. /\ \A f \in events \ {e} : f.call \in {"StopApplication", "StopSending"}
        /\ \A f, g \in events \ {e} : f.call = g.call => f = g
        /\ \A f \in events \ {e} : f.call = "StopSending" => f.uid = m_startStopEvent
        /\ \E f \in events \ {e} : f.call = "StopSending"
    <3>1. \A f \in events : f.call # "StartApplication" /\ f.call \in Calls
      BY <2>1, Started DEF Inv, TypeOK, Calls
    <3>2. Holds("StopSending") /\ ~Holds("StartSending")
      BY <2>1 DEF Inv, OneChainEach, Holds
    <3>3. \A f \in events \ {e} : f.call # "SendPacket" /\ f.call # "StartSending"
      BY <2>1, <3>2 DEF Inv, OneChainEach, Holds
    <3>4. /\ \A f, g \in events \ {e} : f.call = g.call => f = g
          /\ \A f \in events \ {e} : f.call = "StopSending" => f.uid = m_startStopEvent
      BY DEF Inv, OneChainEach
    <3>5. \E f \in events \ {e} : f.call = "StopSending"
      BY <2>1, <3>2 DEF Holds
    <3>6. \A f \in events \ {e} : f.call \in {"StopApplication", "StopSending"}
      BY <3>1, <3>3 DEF Calls
    <3>q. QED BY <3>4, <3>5, <3>6
  <2>4. PICK queue : queue = events \ {e}
    OBVIOUS
  <2>5. PICK bytes : bytes = m_totBytes'
    OBVIOUS
  <2>6. CASE BelowLimit(bytes)
    <3>1. TypeOK
      BY DEF Inv
    <3>2. PICK ons : ons = {}
      OBVIOUS
    <3>3. OneChainEach' /\ StartsFirst' /\ m_socket' = "open"
      BY <2>1, <2>2, <2>3, <2>4, <2>5, <2>6, <3>1, <3>2, SendChain
    <3>q. QED BY <1>0, <2>5, <2>6, <3>3 DEF Inv, OpenBelow
  <2>7. CASE ~BelowLimit(bytes)
    <3>1. /\ m_socket' = "closed"
          /\ ScheduleStopEvent(CancelEvents(events \ {e}), uid, {})
      BY <2>1, <2>5, <2>7 DEF ScheduleNextTx
    <3>2. events' = CancelEvents(events \ {e})
      BY <3>1 DEF ScheduleStopEvent
    <3>3. StopOnly(events')
      BY <2>1, <3>2, Started, CancelLeavesStop
    <3>4. OneChainEach' /\ StartsFirst'
      BY <3>3 DEF StopOnly, OneChainEach, Holds, StartsFirst
    <3>5. OpenBelow'
      BY <3>1, <3>3 DEF OpenBelow, StopOnly, ChainCalls
    <3>q. QED BY <1>0, <3>4, <3>5 DEF Inv
  <2>q. QED BY <2>6, <2>7
<1>6. CASE UNCHANGED vars
  BY <1>0, <1>6 DEF Inv, OneChainEach, Holds, StartsFirst, OpenBelow, vars, handles
<1>q. QED BY <1>1, <1>2, <1>3, <1>4, <1>5, <1>6 DEF Next

LEMMA Invariant == Spec => []Inv
BY InitInv, NextInv, PTL DEF Spec

(***************************************************************************)
(* The two chains never fork or break, whatever falls on one instant.      *)
(***************************************************************************)
THEOREM ChainsHold == Spec => []OneChainEach
BY Invariant, PTL DEF Inv

(***************************************************************************)
(* After the application's stop, or once all bytes are sent, nothing is    *)
(* pending that would send or switch the source on again.                  *)
(***************************************************************************)
THEOREM StaysClosed == Spec => []ClosedIsSilent
PROOF
<1>1. Inv => ClosedIsSilent
  BY DEF Inv, TypeOK, StartsFirst, OpenBelow, ClosedIsSilent, ChainCalls
<1>q. QED BY <1>1, Invariant, PTL

(***************************************************************************)
(* No packet is sent once the limit is reached.                            *)
(***************************************************************************)
THEOREM LimitHolds == Spec => StopsAtTheLimit
PROOF
<1>1. Inv /\ [Next]_vars => [m_totBytes' # m_totBytes => MaxBytes = 0 \/ m_totBytes < MaxBytes]_vars
  <2> SUFFICES ASSUME Inv, Next, m_totBytes' # m_totBytes
               PROVE  MaxBytes = 0 \/ m_totBytes < MaxBytes
    OBVIOUS
  <2>1. PICK e \in events : SendPacket(e)
    BY DEF Next, StartApplication, StopApplication, StartSending, StopSending
  <2>2. e.call \in ChainCalls
    BY <2>1 DEF SendPacket, Fire, ChainCalls
  <2>q. QED BY <2>2 DEF Inv, OpenBelow, BelowLimit
<1>q. QED BY <1>1, Invariant, PTL DEF Spec, StopsAtTheLimit

===============================================================================
