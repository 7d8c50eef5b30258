------------------------------- MODULE GETraffic ------------------------------
(***************************************************************************)
(* GeneralizedExponentialTraffic, the on/off source of the traffic         *)
(* (src/src/applications/model/generalized-exponential-traffic.cc).        *)
(*                                                                         *)
(* Two chains of simulator events drive it: StartSending and StopSending   *)
(* schedule each other, and SendPacket schedules itself while the source   *)
(* is on, at once (a burst) or after an exponential gap.  Each chain has   *)
(* one handle (m_sendEvent, m_startStopEvent), by which its pending event  *)
(* is cancelled: an event no handle refers to cannot be stopped any more.  *)
(*                                                                         *)
(* m_residualBits and m_lastStartTime are left out: all that is computed   *)
(* from them is `bits', which only a log line reads.                       *)
(***************************************************************************)
EXTENDS Naturals, Sequences, FiniteSets

CONSTANTS
  Distribution,  (* m_pktSizeDistrubution                                  *)
  PacketSize,    (* The initial m_pktSize.                                 *)
  Draws,         (* Sizes the random variable may return.                  *)
  MaxBytes,      (* m_maxBytes; 0 means no limit.                          *)
  Gaps,          (* Values of expRanVar, the gap between two packets.      *)
  OnTimes,       (* Values of m_onTime                                     *)
  OffTimes,      (* and m_offTime.                                         *)
  StopTimes,     (* When the application may be stopped; 0 means never.    *)
  MaxDraws       (* Bound: packets drawn in one behaviour.                 *)

ASSUME SourceAssumption ==
  /\ Distribution \in {"deterministic", "uniform", "exponential"}
  /\ PacketSize \in Nat \ {0} /\ Draws \subseteq Nat
  /\ MaxBytes \in Nat /\ StopTimes \subseteq Nat /\ MaxDraws \in Nat
  /\ Gaps \subseteq Nat /\ OnTimes \subseteq Nat /\ OffTimes \subseteq Nat

VARIABLES
  now,             (* Simulator::Now ()                                    *)
  uid,             (* m_uid, as far as this source's events advance it     *)
  events,          (* the source's pending events                          *)
  m_sendEvent,     (* The uids of the last events scheduled.               *)
  m_startStopEvent,
  m_socket,
  m_pktSize,
  m_totBytes,
  state_burst, sum_burst, count_burst,
  drawn            (* for checking: which of the draws so far were bursts  *)

handles == <<m_sendEvent, m_startStopEvent>>
bursts == <<state_burst, sum_burst, count_burst, drawn>>
vars == <<now, uid, events, handles, m_socket, m_pktSize, m_totBytes, bursts>>

-------------------------------------------------------------------------------

NoEvent == 0         \* The uid of an EventId without an event.
FirstUid == 4        \* Uids are allocated from 4.

Event(time, call, id) == [time |-> time, uid |-> id, call |-> call]

\* Events run in the order of their times, then of their uids.
Before(e, f) == e.time < f.time \/ (e.time = f.time /\ e.uid < f.uid)

\* Mutants: only one of the two events is cancelled.
CancelStartStopOnly(queue) == {e \in queue : e.uid # m_startStopEvent}
CancelSendOnly(queue) == {e \in queue : e.uid # m_sendEvent}

\* The events that CancelEvents leaves.
CancelEvents(queue) == {e \in queue : e.uid \notin {m_sendEvent, m_startStopEvent}}

\* Application::DoInitialize schedules the start, and the stop if it has a time.
Init ==
  /\ now = 0
  /\ uid = FirstUid + 2
  /\ \E stop \in StopTimes :
       events = {Event(0, "StartApplication", FirstUid)} \cup
         (IF stop = 0 THEN {} ELSE {Event(stop, "StopApplication", FirstUid + 1)})
  /\ m_sendEvent = NoEvent /\ m_startStopEvent = NoEvent
  /\ m_socket = "none"
  /\ m_pktSize = PacketSize
  /\ m_totBytes = 0
  /\ state_burst = 0 /\ sum_burst = 0 /\ count_burst = 0
  /\ drawn = <<>>

\* The simulator runs the next event.
Fire(e, call) ==
  /\ e.call = call
  /\ \A f \in events \ {e} : Before(e, f)
  /\ now' = e.time

-------------------------------------------------------------------------------

\* Mutant: a uniform draw starts at 0.
NextSizesFromZero == Draws \cup {0}

\* The sizes of the next packet.  An exponential draw has the previous packet's
\* size as its mean; with mean 0 it is 0.
NextSizes ==
  CASE Distribution = "uniform" -> Draws
    [] Distribution = "exponential" -> IF m_pktSize = 0 THEN {0} ELSE Draws
    [] Distribution = "deterministic" -> {m_pktSize}

\* An exponential gap with mean 0 is 0.
NextGaps(size) == IF size = 0 THEN {0} ELSE Gaps

\* Mutant: state_burst counts.
CountBurstState(burst) ==
  /\ drawn' = Append(drawn, burst)
  /\ state_burst' = IF burst THEN state_burst + 1 ELSE 0
  /\ sum_burst' = IF burst THEN sum_burst + 1 ELSE sum_burst
  /\ count_burst' = IF burst /\ state_burst = 0 THEN count_burst + 1 ELSE count_burst

CountBurst(burst) ==
  /\ drawn' = Append(drawn, burst)
  /\ state_burst' = IF burst THEN 1 ELSE 0
  /\ sum_burst' = IF burst THEN sum_burst + 1 ELSE sum_burst
  /\ count_burst' = IF burst /\ state_burst = 0 THEN count_burst + 1 ELSE count_burst

\* Mutant: one packet more.
BelowOrAtLimit(bytes) == MaxBytes = 0 \/ bytes <= MaxBytes

BelowLimit(bytes) == MaxBytes = 0 \/ bytes < MaxBytes

(***************************************************************************)
(* ScheduleStopEvent, for the on times drawn: one, or none if it was       *)
(* SendPacket that called ScheduleNextTx.                                  *)
(***************************************************************************)
ScheduleStopEvent(queue, id, ons) ==
  /\ events' = queue \cup {Event(now' + on, "StopSending", id) : on \in ons}
  /\ m_startStopEvent' = IF ons = {} THEN m_startStopEvent ELSE id
  /\ uid' = IF ons = {} THEN id ELSE id + 1

(***************************************************************************)
(* ScheduleNextTx: draw the next packet, or stop the application if all    *)
(* bytes have been sent.  ScheduleStopEvent may follow.                    *)
(***************************************************************************)
ScheduleNextTx(queue, bytes, ons) ==
  \/ /\ BelowLimit(bytes) /\ Len(drawn) < MaxDraws
     /\ \E size \in NextSizes, burst \in BOOLEAN :
        \E gap \in IF burst THEN {0} ELSE NextGaps(size) :
          /\ m_pktSize' = size
          /\ CountBurst(burst)
          /\ ScheduleStopEvent(queue \cup {Event(now' + gap, "SendPacket", uid)}, uid + 1, ons)
     /\ m_sendEvent' = uid
     /\ UNCHANGED m_socket
  \/ /\ ~BelowLimit(bytes)
     /\ m_socket' = "closed"
     /\ ScheduleStopEvent(CancelEvents(queue), uid, ons)
     /\ UNCHANGED <<m_sendEvent, m_pktSize, bursts>>

ScheduleStartEvent(queue) ==
  /\ \E off \in OffTimes : events' = queue \cup {Event(now' + off, "StartSending", uid)}
  /\ m_startStopEvent' = uid
  /\ uid' = uid + 1
  /\ UNCHANGED m_sendEvent

StartApplication(e) ==
  /\ Fire(e, "StartApplication")
  /\ m_socket' = "open"
  /\ ScheduleStartEvent(CancelEvents(events \ {e}))
  /\ UNCHANGED <<m_pktSize, m_totBytes, bursts>>

StopApplication(e) ==
  /\ Fire(e, "StopApplication")
  /\ m_socket' = IF m_socket = "none" THEN "none" ELSE "closed"
  /\ events' = CancelEvents(events \ {e})
  /\ UNCHANGED <<uid, handles, m_pktSize, m_totBytes, bursts>>

StartSending(e) ==
  /\ Fire(e, "StartSending")
  /\ \E on \in OnTimes : ScheduleNextTx(events \ {e}, m_totBytes, {on})
  /\ UNCHANGED m_totBytes

StopSending(e) ==
  /\ Fire(e, "StopSending")
  /\ ScheduleStartEvent(CancelEvents(events \ {e}))
  /\ UNCHANGED <<m_socket, m_pktSize, m_totBytes, bursts>>

SendPacket(e) ==
  /\ Fire(e, "SendPacket")
  /\ m_totBytes' = m_totBytes + m_pktSize
  /\ ScheduleNextTx(events \ {e}, m_totBytes', {})

Next ==
  \E e \in events :
    StartApplication(e) \/ StopApplication(e) \/ StartSending(e) \/ StopSending(e)
      \/ SendPacket(e)

Spec == Init /\ [][Next]_vars

\* The simulator runs the next event as long as there is one.
FairSpec == Spec /\ WF_vars(Next)

-------------------------------------------------------------------------------

(***************************************************************************)
(* The types of the variables.                                             *)
(***************************************************************************)
TypeOK ==
  /\ now \in Nat /\ uid \in Nat
  /\ events \subseteq [time : Nat, uid : Nat,
                       call : {"StartApplication", "StopApplication", "StartSending",
                               "StopSending", "SendPacket"}]
  /\ m_sendEvent \in Nat /\ m_startStopEvent \in Nat
  /\ m_socket \in {"none", "open", "closed"}
  /\ m_pktSize \in Nat /\ m_totBytes \in Nat
  /\ state_burst \in {0, 1} /\ sum_burst \in Nat /\ count_burst \in Nat
  /\ drawn \in Seq(BOOLEAN)

Holds(call) == \E e \in events : e.call = call

(***************************************************************************)
(* The two chains never fork or break: a source that is on has one packet  *)
(* to send and one event that will switch it off, a source that is off has *)
(* one event that will switch it on and no packet, and each of them is the *)
(* one its handle can cancel, even if several events fall on one instant.  *)
(***************************************************************************)
OneChainEach ==
  /\ Holds("SendPacket") <=> Holds("StopSending")
  /\ ~(Holds("StartSending") /\ Holds("StopSending"))
  /\ \A e, f \in events : e.call = f.call => e = f
  /\ \A e \in events : e.call = "SendPacket" => e.uid = m_sendEvent
  /\ \A e \in events : e.call \in {"StartSending", "StopSending"} => e.uid = m_startStopEvent

(***************************************************************************)
(* A source that was stopped, by the application's stop time or because    *)
(* all its bytes have been sent, stays silent: nothing is pending that     *)
(* would send on the closed socket or switch the source on again.          *)
(***************************************************************************)
ClosedIsSilent ==
  m_socket = "closed" => \A e \in events : e.call = "StopApplication"

(***************************************************************************)
(* "Once these bytes are sent, no packet is sent again, even in on state": *)
(* at most the packet that reaches the limit exceeds it.                   *)
(***************************************************************************)
StopsAtTheLimit ==
  [][m_totBytes' # m_totBytes => MaxBytes = 0 \/ m_totBytes < MaxBytes]_vars

\* sum_burst / count_burst is the mean length of a burst: the draws with no
\* gap, and the maximal runs of them, also across an off period that cancels
\* a drawn packet.
BurstsCounted ==
  LET zero == {i \in 1..Len(drawn) : drawn[i]}
  IN  /\ sum_burst = Cardinality(zero)
      /\ count_burst = Cardinality({i \in zero : i - 1 \notin zero})

\* When the source is switched on, its first packet is due no later than the
\* event that will switch it off.  The two are scheduled one after the other.
FirstPacketFits ==
  \A send, off \in events :
    send.call = "SendPacket" /\ off.call = "StopSending" /\ off.uid = send.uid + 1
      => send.time <= off.time

(***************************************************************************)
(* A source with a byte limit, packets of at least one byte and no stop    *)
(* time reaches the limit and ends, whatever it draws, if the gap before   *)
(* the first packet never exceeds the on time; the two may be equal, and   *)
(* all later packets may be cancelled.  (Else each switch-off may cancel   *)
(* the only packet, and the limit is never reached.)  At its end the burst *)
(* counters are those of its draws.                                        *)
(***************************************************************************)
LimitReached ==
  MaxBytes > 0 /\ [](FirstPacketFits /\ ~Holds("StopApplication")) =>
    <>(m_totBytes >= MaxBytes /\ m_socket = "closed" /\ events = {} /\ BurstsCounted)

(***************************************************************************)
(* The checker of the PacketSize attribute says that it is at least 1.     *)
(***************************************************************************)
PacketSizeInRange == m_pktSize >= 1

===============================================================================
