------------------------------ MODULE LogWindows ------------------------------
(***************************************************************************)
(* The measurement windows of a per-flow log of the simulator: FlowLogV2   *)
(* and MimicLogV2 (src/src/flow-monitor/model).  FlowMonitor accumulates   *)
(* packets in a tracker; periodic events of the ns-3 simulator close the   *)
(* window (UpdateWindow) and append its row to a report (PrintLog).        *)
(*                                                                         *)
(* Every event re-arms itself: the print event after m_TimeWindow, the     *)
(* others after m_TimeWindow less the microsecond or two by which          *)
(* Schedule() puts their first firing ahead of the first print.  The lead  *)
(* is thus subtracted again in every window and the events drift apart.    *)
(* The module keeps the simulator's event queue, ordered by time stamp     *)
(* and then by the unique id drawn when the event was scheduled.           *)
(***************************************************************************)
EXTENDS Integers, Sequences

CONSTANTS
  Kinds,         (* The periodic events the log schedules.                 *)
  Lead,          (* Ticks (microseconds) by which an event precedes the    *)
                 (* print event: 2 and 1 in FlowLogV2, 1 in MimicLogV2.    *)
  TimeWindow,    (* m_TimeWindow, in ticks.                                *)
  TimeWarmUp,    (* m_TimeWarmUp, in ticks.                                *)
  StopTime,      (* When Simulator::Stop fires.                            *)
  Second,        (* Ticks per unit of the printed time stamp.              *)
  MinPackets,    (* PrintLog skips a tracker with fewer packets.           *)
  MaxPackets     (* Bound: packets of the flow in one behaviour.           *)

ASSUME KindsAssumption ==
  /\ {"update", "print"} \subseteq Kinds
  /\ Kinds \subseteq {"update", "analytical", "print"}

ASSUME LeadAssumption ==
  /\ Lead \in [Kinds -> Nat]
  /\ Lead["print"] = 0
  /\ Lead["update"] > 0
  /\ \A k \in Kinds : Lead[k] < TimeWindow

ASSUME TimeAssumption ==
  /\ TimeWindow \in Nat
  /\ TimeWarmUp \in Nat
  /\ StopTime \in Nat
  /\ Second \in Nat \ {0}
  /\ MinPackets \in Nat
  /\ MaxPackets \in Nat

VARIABLES
  now,        (* Simulator::Now ()                                         *)
  stopped,    (* m_stop of the simulator                                   *)
  uid,        (* m_uid of the simulator: the id of the next event          *)
  pending,    (* the scheduled occurrence of each periodic event           *)
  early,      (* packets of the flow reported during the warm-up           *)
  counted,    (* packets of the flow reported after it                     *)
  cur,        (* the accumulators of the open window                       *)
  tracker,    (* what UpdateWindow last stored in the tracker              *)
  prints,     (* how often PrintLog ran                                    *)
  report,     (* the rows PrintLog appended                                *)
  delivered,  (* packets in those rows                                     *)
  skipped     (* packets in windows PrintLog skipped                       *)

vars == <<now, stopped, uid, pending, early, counted, cur, tracker, prints,
          report, delivered, skipped>>

\* Mutant: equal time stamps run in reverse order of scheduling.
BeforeLifo(e, f) == e.ts < f.ts \/ (e.ts = f.ts /\ e.uid > f.uid)

(***************************************************************************)
(* Events are ordered by time stamp, then by unique id.                    *)
(***************************************************************************)
Before(e, f) == e.ts < f.ts \/ (e.ts = f.ts /\ e.uid < f.uid)

\* The simulator's next event among those of the log.
IsNext(k) == \A j \in Kinds \ {k} : Before(pending[k], pending[j])

\* Mutant: the lead is subtracted twice.
FireTwiceEarly(k) ==
  /\ ~stopped /\ IsNext(k) /\ pending[k].ts < StopTime
  /\ now' = pending[k].ts
  /\ pending' = [pending EXCEPT ![k] =
                   [ts |-> @.ts + (TimeWindow - 2 * Lead[k]), uid |-> uid]]
  /\ uid' = uid + 1

\* Running an event moves the clock to it and schedules its next occurrence.
Fire(k) ==
  /\ ~stopped
  /\ IsNext(k)
  /\ pending[k].ts < StopTime
  /\ now' = pending[k].ts
  /\ pending' = [pending EXCEPT ![k] =
                   [ts |-> @.ts + (TimeWindow - Lead[k]), uid |-> uid]]
  /\ uid' = uid + 1

\* Mutants: the packets are not reset; the window opens a tick late.
ReopenedFull(t) == [packets |-> cur.packets, from |-> t]
ReopenedLate(t) == [packets |-> 0, from |-> t + 1]

\* The accumulators after UpdateWindow has reset them.
Reopened(t) == [packets |-> 0, from |-> t]

\* Mutants: rounded up, and a stamp of long before.
StampUp(t) == ((t + Second - 1) \div Second) * Second
StampEarly(t) == (t \div Second) * Second - (TimeWarmUp + TimeWindow + Second)

\* The printed time stamp is truncated to a whole second.
Stamp(t) == (t \div Second) * Second

-------------------------------------------------------------------------------

(***************************************************************************)
(* FlowMonitor::StartRightNow runs at time 0 and calls Schedule(), which   *)
(* schedules "update", "analytical" and "print" in this order.  (MimicLog  *)
(* has no analytical event; the gap in the ids does not matter.)           *)
(***************************************************************************)
ScheduleOrder == [update |-> 0, analytical |-> 1, print |-> 2]

Init ==
  /\ now = 0
  /\ stopped = FALSE
  /\ uid = 3
  /\ pending = [k \in Kinds |->
                  [ts  |-> TimeWindow + TimeWarmUp - Lead[k],
                   uid |-> ScheduleOrder[k]]]
  /\ early = 0
  /\ counted = 0
  /\ cur = [packets |-> 0, from |-> TimeWarmUp]
  /\ tracker = [win |-> 0, packets |-> 0, from |-> TimeWarmUp, to |-> TimeWarmUp]
  /\ prints = 0
  /\ report = <<>>
  /\ delivered = 0
  /\ skipped = 0

(***************************************************************************)
(* A packet of the flow is reported at time t, before the next event of    *)
(* the log or at the same time.  FlowMonitor passes it on to the log only  *)
(* once the warm-up is over.                                               *)
(***************************************************************************)
ReportPacket(t) ==
  /\ ~stopped
  /\ early + counted < MaxPackets
  /\ now <= t /\ t < StopTime
  /\ \A k \in Kinds : t <= pending[k].ts
  /\ now' = t
  /\ IF t >= TimeWarmUp
     THEN /\ counted' = counted + 1
          /\ UNCHANGED early
          /\ cur' = [packets |-> cur.packets + 1, from |-> cur.from]
     ELSE early' = early + 1 /\ UNCHANGED <<counted, cur>>
  /\ UNCHANGED <<stopped, uid, pending, tracker, prints, report, delivered, skipped>>

\* PeriodicUpdateWindow: store the accumulators in the tracker and reset them.
UpdateWindow ==
  /\ Fire("update")
  /\ tracker' = [win |-> tracker.win + 1, packets |-> cur.packets,
                 from |-> cur.from, to |-> pending["update"].ts]
  /\ cur' = Reopened(pending["update"].ts)
  /\ UNCHANGED <<stopped, early, counted, prints, report, delivered, skipped>>

\* PeriodicDoAnalyticalModel derives figures from the tracker, no state of it
\* that a row's window, packets or time depends on.
DoAnalyticalModel ==
  /\ "analytical" \in Kinds
  /\ Fire("analytical")
  /\ UNCHANGED <<stopped, early, counted, cur, tracker, prints, report,
                 delivered, skipped>>

\* PeriodicPrintLog: append the tracker's row, unless it has too few packets.
PrintLog ==
  /\ Fire("print")
  /\ prints' = prints + 1
  /\ IF tracker.packets >= MinPackets
     THEN /\ report' = Append(report,
               [print |-> prints + 1, win |-> tracker.win,
                packets |-> tracker.packets, from |-> tracker.from,
                to |-> tracker.to, stamp |-> Stamp(pending["print"].ts)])
          /\ delivered' = delivered + tracker.packets
          /\ UNCHANGED skipped
     ELSE /\ skipped' = skipped + tracker.packets
          /\ UNCHANGED <<report, delivered>>
  /\ UNCHANGED <<stopped, early, counted, cur, tracker>>

(***************************************************************************)
(* The stop event was scheduled by the program before the simulation ran:  *)
(* its id is smaller than that of any event of the log, so it wins a tie.  *)
(***************************************************************************)
Stop ==
  /\ ~stopped
  /\ \A k \in Kinds : StopTime <= pending[k].ts
  /\ now' = StopTime
  /\ stopped' = TRUE
  /\ UNCHANGED <<uid, pending, early, counted, cur, tracker, prints, report,
                 delivered, skipped>>

Next ==
  \/ \E t \in 0..StopTime : ReportPacket(t)
  \/ UpdateWindow
  \/ DoAnalyticalModel
  \/ PrintLog
  \/ Stop

Spec == Init /\ [][Next]_vars

-------------------------------------------------------------------------------

Row == [print : Nat, win : Nat, packets : Nat, from : Nat, to : Nat, stamp : Nat]

(***************************************************************************)
(* The types of the variables.                                             *)
(***************************************************************************)
TypeOK ==
  /\ now \in Nat
  /\ stopped \in BOOLEAN
  /\ uid \in Nat
  /\ pending \in [Kinds -> [ts : Nat, uid : Nat]]
  /\ early \in Nat /\ counted \in Nat
  /\ cur \in [packets : Nat, from : Nat]
  /\ tracker \in [win : Nat, packets : Nat, from : Nat, to : Nat]
  /\ prints \in Nat
  /\ report \in Seq(Row)
  /\ delivered \in Nat /\ skipped \in Nat

(***************************************************************************)
(* The lead is subtracted from the update event's period as well, so after *)
(* this many windows two updates fit between two prints.                   *)
(***************************************************************************)
Horizon == (TimeWindow - Lead["update"]) \div Lead["update"]

\* The simulation stops before the update that could overwrite a window.
ShortRun ==
  StopTime <= TimeWarmUp + (Horizon + 2) * (TimeWindow - Lead["update"])

(***************************************************************************)
(* Up to the horizon the k-th print publishes the k-th window, however     *)
(* packets and events interleave and even when the next update and the     *)
(* print fall on the same tick: no window is overwritten unread and none   *)
(* is printed twice.                                                       *)
(***************************************************************************)
RowIsItsWindow ==
  \A i \in 1..Len(report) :
    report[i].print <= Horizon => report[i].win = report[i].print

(***************************************************************************)
(* In a run within the horizon every packet reported after the warm-up is  *)
(* in exactly one place: the open window, the closed window that waits for *)
(* its print, a printed row or a skipped window.                           *)
(***************************************************************************)
Waiting == IF tracker.win > prints THEN tracker.packets ELSE 0

NoPacketLost ==
  ShortRun => counted = cur.packets + Waiting + delivered + skipped

(***************************************************************************)
(* Rows of consecutive prints within the horizon cover adjacent spans of   *)
(* time, the first from the end of the warm-up: no gap and no overlap.     *)
(***************************************************************************)
RowsTile ==
  \A i \in 1..Len(report) : report[i].print <= Horizon =>
    /\ report[i].print = 1 => report[i].from = TimeWarmUp
    /\ \A j \in 1..Len(report) : report[i].print = report[j].print + 1 =>
         report[i].from = report[j].to

(***************************************************************************)
(* The stamp of a row, by which the reports are joined and the window      *)
(* files are named (mimic_<stamp>.txt), tells the window that the row      *)
(* measured, up to the horizon: it is the last whole second before the end *)
(* of the row's span, put off by the leads the update events have gained   *)
(* on the prints since.  For windows of a second or more, whole or not, it *)
(* is past the start of the row's span and no other row carries it.        *)
(***************************************************************************)
StampNamesWindow ==
  \A i \in 1..Len(report) : report[i].print <= Horizon =>
    LET row == report[i]
        end == row.to + row.win * Lead["update"]
    IN  /\ row.stamp <= end /\ end < row.stamp + Second
        /\ TimeWindow >= Second =>
             /\ row.from < row.stamp
             /\ \A j \in 1..Len(report) \ {i} : report[j].stamp # row.stamp

(***************************************************************************)
(* The log implements its promise (a run within the horizon).              *)
(***************************************************************************)
Promise == INSTANCE WindowReport WITH
  open <- cur.packets,
  closed <- [full |-> tracker.win > prints, packets |-> Waiting]

ReportsEveryWindow == Promise!ASpec

===============================================================================
