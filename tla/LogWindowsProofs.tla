--------------------------- MODULE LogWindowsProofs ---------------------------
(***************************************************************************)
(* Theorems about the measurement windows, for every window length, lead,  *)
(* warm-up and stop time.  The inductive invariant dates the next update   *)
(* and the next print from the number of windows closed and printed, and   *)
(* keeps the order of their ids that decides a tie at the horizon.         *)
(***************************************************************************)
EXTENDS LogWindows, TLAPS

A == Lead["update"]
Period == TimeWindow - A

\* What the scheduled events say about the windows closed and printed.
Dates ==
  /\ pending["update"].ts = TimeWarmUp + (tracker.win + 1) * Period
  /\ pending["print"].ts = TimeWarmUp + (prints + 1) * TimeWindow
  /\ \A k \in Kinds : pending[k].uid < uid

\* Updates and prints alternate up to the horizon.
Alternate ==
  /\ prints <= tracker.win
  /\ prints < Horizon => tracker.win <= prints + 1
  /\ prints < Horizon /\ tracker.win = prints + 1 =>
       pending["print"].uid < pending["update"].uid
  /\ ShortRun => tracker.win <= prints + 1

IInv == TypeOK /\ Dates /\ Alternate

LEMMA ConstantFacts ==
  /\ TimeWindow \in Nat /\ TimeWarmUp \in Nat /\ StopTime \in Nat
  /\ MinPackets \in Nat /\ Second \in Nat \ {0}
  /\ A \in Nat /\ A > 0 /\ A < TimeWindow
  /\ Period \in Nat /\ Period > 0
  /\ Lead["print"] = 0
  /\ "update" \in Kinds /\ "print" \in Kinds
  /\ \A k \in Kinds : Lead[k] \in Nat /\ TimeWindow - Lead[k] \in Nat
BY KindsAssumption, LeadAssumption, TimeAssumption, SMT DEF A, Period

(***************************************************************************)
(* Arithmetic: the horizon is the last k with A * (k + 1) <= TimeWindow.   *)
(***************************************************************************)
LEMMA HorizonFacts ==
  /\ Horizon \in Nat
  /\ \A p \in Nat : p < Horizon => A * (p + 2) <= TimeWindow
PROOF
<1>1. Horizon \in Nat /\ A * Horizon <= TimeWindow - A
  BY ConstantFacts, SMT DEF Horizon, A
<1>2. ASSUME NEW p \in Nat, p < Horizon
      PROVE  A * (p + 2) <= TimeWindow
  <2>1. A * (p + 1) <= A * Horizon
    BY <1>1, <1>2, ConstantFacts, SMT
  <2>2. A * (p + 2) = A * (p + 1) + A
    BY ConstantFacts, SMT
  <2>3. A * Horizon \in Nat /\ A * (p + 1) \in Nat
    BY <1>1, ConstantFacts, SMT
  <2>q. QED BY <1>1, <2>1, <2>2, <2>3, ConstantFacts, SMT
<1>q. QED BY <1>1, <1>2

LEMMA Products ==
  ASSUME NEW n \in Nat
  PROVE  /\ (n + 1) * Period = n * Period + Period
         /\ (n + 1) * TimeWindow = n * TimeWindow + TimeWindow
         /\ n * Period = n * TimeWindow - A * n
         /\ n * Period \in Nat /\ n * TimeWindow \in Nat /\ A * n \in Nat
BY ConstantFacts, SMT DEF Period

LEMMA Monotone ==
  ASSUME NEW m \in Nat, NEW n \in Nat, m <= n
  PROVE  m * Period <= n * Period
BY ConstantFacts, SMT

\* A print is never due while no closed window waits for it.
LEMMA PrintAfterUpdate ==
  ASSUME IInv, IsNext("print"), Lead["print"] = 0
  PROVE  prints < tracker.win
PROOF
<1> SUFFICES ASSUME prints = tracker.win PROVE FALSE
  BY SMT DEF IInv, Alternate, TypeOK
<1>1. prints + 1 \in Nat /\ prints \in Nat
  BY DEF IInv, TypeOK
<1>2. (prints + 1) * Period = (prints + 1) * TimeWindow - A * (prints + 1)
  BY <1>1, Products
<1>3. A * (prints + 1) > 0
  BY <1>1, ConstantFacts, SMT
<1>4. Before(pending["print"], pending["update"])
  BY ConstantFacts, "update" # "print" DEF IsNext
<1>5. pending["print"].ts <= pending["update"].ts
  BY <1>4, ConstantFacts, SMT DEF Before, IInv, TypeOK
<1>6. /\ pending["update"].ts = TimeWarmUp + (prints + 1) * Period
      /\ pending["print"].ts = TimeWarmUp + (prints + 1) * TimeWindow
  BY DEF IInv, Dates
<1>7. (prints + 1) * TimeWindow \in Nat /\ A * (prints + 1) \in Nat
  BY <1>1, Products
<1>q. QED BY <1>2, <1>3, <1>5, <1>6, <1>7, ConstantFacts, SMT

\* Up to the horizon, and in a short run always, an update finds the previous
\* window printed.
LEMMA UpdateAfterPrint ==
  ASSUME IInv, IsNext("update"), pending["update"].ts < StopTime,
         prints < Horizon \/ ShortRun
  PROVE  tracker.win = prints
PROOF
<1> SUFFICES ASSUME tracker.win = prints + 1 PROVE FALSE
  BY SMT DEF IInv, Alternate, TypeOK
<1>1. prints \in Nat /\ prints + 2 \in Nat /\ tracker.win + 1 = prints + 2
  BY SMT DEF IInv, TypeOK
<1>2. CASE prints < Horizon
  <2>1. A * (prints + 2) <= TimeWindow
    BY <1>1, <1>2, HorizonFacts
  <2>2. /\ (prints + 2) * Period = (prints + 2) * TimeWindow - A * (prints + 2)
        /\ (prints + 2) * TimeWindow \in Nat /\ A * (prints + 2) \in Nat
    BY <1>1, Products
  <2>3. (prints + 2) * TimeWindow = (prints + 1) * TimeWindow + TimeWindow
    BY <1>1, ConstantFacts, SMT
  <2>4. (prints + 1) * TimeWindow \in Nat
    BY <1>1, ConstantFacts, SMT
  <2>5. Before(pending["update"], pending["print"])
    BY ConstantFacts, "update" # "print" DEF IsNext
  <2>6. /\ pending["update"].ts = TimeWarmUp + (prints + 2) * Period
        /\ pending["print"].ts = TimeWarmUp + (prints + 1) * TimeWindow
    BY <1>1 DEF IInv, Dates
  <2>7. pending["print"].ts <= pending["update"].ts
    BY <2>1, <2>2, <2>3, <2>4, <2>6, ConstantFacts, SMT
  <2>8. pending["print"].uid < pending["update"].uid
    BY <1>2 DEF IInv, Alternate
  <2>9. /\ pending["print"].uid \in Nat /\ pending["update"].uid \in Nat
        /\ pending["print"].ts \in Nat /\ pending["update"].ts \in Nat
    BY ConstantFacts DEF IInv, TypeOK
  <2>q. QED BY <2>5, <2>7, <2>8, <2>9, SMT DEF Before
<1>3. CASE ShortRun /\ ~(prints < Horizon)
  <2>1. Horizon \in Nat /\ Horizon + 2 \in Nat /\ Horizon + 2 <= prints + 2
    BY <1>1, <1>3, HorizonFacts, SMT
  <2>2. (Horizon + 2) * Period <= (prints + 2) * Period
    BY <1>1, <2>1, Monotone
  <2>3. pending["update"].ts = TimeWarmUp + (prints + 2) * Period
    BY <1>1 DEF IInv, Dates
  <2>4. StopTime <= TimeWarmUp + (Horizon + 2) * Period
    BY <1>3 DEF ShortRun, Period, A
  <2>5. (Horizon + 2) * Period \in Nat /\ (prints + 2) * Period \in Nat
    BY <1>1, <2>1, Products
  <2>q. QED BY <2>2, <2>3, <2>4, <2>5, ConstantFacts, SMT
<1>q. QED BY <1>2, <1>3

-------------------------------------------------------------------------------

LEMMA InitInv == Init => IInv
PROOF
<1> SUFFICES ASSUME Init PROVE IInv
  OBVIOUS
<1> USE ConstantFacts
<1>0. \A k \in Kinds : ScheduleOrder[k] \in Nat /\ ScheduleOrder[k] < 3
  <2> SUFFICES ASSUME NEW k \in Kinds PROVE ScheduleOrder[k] \in Nat /\ ScheduleOrder[k] < 3
    OBVIOUS
  <2>1. k = "update" \/ k = "analytical" \/ k = "print"
    BY KindsAssumption
  <2>2. /\ ScheduleOrder["update"] = 0 /\ ScheduleOrder["analytical"] = 1
        /\ ScheduleOrder["print"] = 2
    BY DEF ScheduleOrder
  <2>q. QED BY <2>1, <2>2, SMT
<1>1. TypeOK
  <2>1. pending \in [Kinds -> [ts : Nat, uid : Nat]]
    <3>1. ASSUME NEW k \in Kinds PROVE TimeWindow + TimeWarmUp - Lead[k] \in Nat
      <4>1. /\ Lead[k] \in Nat /\ TimeWindow - Lead[k] \in Nat
            /\ TimeWindow \in Nat /\ TimeWarmUp \in Nat
        OBVIOUS
      <4>q. QED BY ONLY <4>1, SMT
    <3>q. QED BY <1>0, <3>1 DEF Init
  <2>2. report \in Seq(Row)
    BY DEF Init
  <2>3. /\ cur \in [packets : Nat, from : Nat]
        /\ tracker \in [win : Nat, packets : Nat, from : Nat, to : Nat]
    BY DEF Init
  <2>4. /\ now \in Nat /\ stopped \in BOOLEAN /\ uid \in Nat /\ prints \in Nat
        /\ early \in Nat /\ counted \in Nat /\ delivered \in Nat /\ skipped \in Nat
    <3>1. /\ now = 0 /\ stopped = FALSE /\ uid = 3 /\ prints = 0
          /\ early = 0 /\ counted = 0 /\ delivered = 0 /\ skipped = 0
      BY DEF Init
    <3>2. now \in Nat /\ uid \in Nat /\ prints \in Nat
      BY ONLY <3>1, SMT
    <3>3. early \in Nat /\ counted \in Nat /\ delivered \in Nat /\ skipped \in Nat
      BY ONLY <3>1, SMT
    <3>q. QED BY ONLY <3>1, <3>2, <3>3
  <2>q. QED BY <2>1, <2>2, <2>3, <2>4 DEF TypeOK
<1>2. Dates
  <2>1. (0 + 1) * Period = TimeWindow - A /\ (0 + 1) * TimeWindow = TimeWindow
    BY SMT DEF Period
  <2>2. /\ pending["update"].ts = TimeWindow + TimeWarmUp - A
        /\ pending["print"].ts = TimeWindow + TimeWarmUp
    BY SMT DEF Init, A
  <2>3. tracker.win = 0 /\ prints = 0
    BY DEF Init
  <2>4. \A k \in Kinds : pending[k].uid < uid
    <3>1. \A k \in Kinds : pending[k].uid = ScheduleOrder[k]
      BY DEF Init
    <3>q. QED BY <1>0, <3>1 DEF Init
  <2>q. QED BY <2>1, <2>2, <2>3, <2>4, SMT DEF Dates
<1>3. Alternate
  BY HorizonFacts, SMT DEF Init, Alternate
<1>q. QED BY <1>1, <1>2, <1>3 DEF IInv

\* What running an event does to the event queue.
LEMMA FireFacts ==
  ASSUME IInv, NEW k \in Kinds, Fire(k)
  PROVE  /\ now' \in Nat /\ uid' = uid + 1 /\ uid' \in Nat
         /\ pending' \in [Kinds -> [ts : Nat, uid : Nat]]
         /\ pending'[k] = [ts |-> pending[k].ts + (TimeWindow - Lead[k]), uid |-> uid]
         /\ \A j \in Kinds : j # k => pending'[j] = pending[j]
         /\ \A j \in Kinds : pending'[j].uid < uid'
PROOF
<1>1. TimeWindow - Lead[k] \in Nat
  BY ConstantFacts
<1>2. /\ pending \in [Kinds -> [ts : Nat, uid : Nat]] /\ uid \in Nat
      /\ \A j \in Kinds : pending[j].uid < uid
  BY DEF IInv, TypeOK, Dates
<1>3. pending' = [pending EXCEPT ![k] =
                    [ts |-> pending[k].ts + (TimeWindow - Lead[k]), uid |-> uid]]
  BY DEF Fire
<1>4. pending[k].ts + (TimeWindow - Lead[k]) \in Nat /\ pending[k].ts \in Nat
  BY <1>1, <1>2, SMT
<1>5. now' = pending[k].ts /\ uid' = uid + 1
  BY DEF Fire
<1>q. QED BY <1>2, <1>3, <1>4, <1>5, SMT

LEMMA StampType ==
  ASSUME NEW t \in Nat
  PROVE  Stamp(t) \in Nat
PROOF
<1>1. t \div Second \in Nat
  BY ConstantFacts, SMT
<1>2. \A q \in Nat : q * Second \in Nat
  BY ConstantFacts, SMT
<1>q. QED BY <1>1, <1>2 DEF Stamp

LEMMA UpdateStep ==
  ASSUME IInv, UpdateWindow
  PROVE  IInv'
PROOF
<1> USE ConstantFacts
<1>1. Fire("update")
  BY DEF UpdateWindow
<1>2. /\ tracker'.win = tracker.win + 1 /\ prints' = prints
      /\ tracker.win \in Nat /\ prints \in Nat /\ pending["update"].ts \in Nat
      /\ uid \in Nat
  BY SMT DEF UpdateWindow, IInv, TypeOK
<1>3. TypeOK'
  <2>1. /\ now' \in Nat /\ uid' \in Nat
        /\ pending' \in [Kinds -> [ts : Nat, uid : Nat]]
    BY <1>1, FireFacts
  <2>2. tracker' \in [win : Nat, packets : Nat, from : Nat, to : Nat]
    BY <1>2, SMT DEF UpdateWindow, IInv, TypeOK
  <2>3. cur' \in [packets : Nat, from : Nat]
    BY <1>2, SMT DEF UpdateWindow, Reopened
  <2>q. QED BY <2>1, <2>2, <2>3 DEF IInv, TypeOK, UpdateWindow, Reopened
<1>4. Dates'
  <2>1. (tracker'.win + 1) * Period = (tracker.win + 1) * Period + Period
    BY <1>2, Products
  <2>2. pending'["update"].ts = pending["update"].ts + Period
    <3>1. pending'["update"] = [ts |-> pending["update"].ts + (TimeWindow - Lead["update"]),
                                uid |-> uid]
      BY <1>1, FireFacts
    <3>q. QED BY <3>1 DEF Period, A
  <2>3. pending["update"].ts = TimeWarmUp + (tracker.win + 1) * Period
    BY DEF IInv, Dates
  <2>4. (tracker.win + 1) * Period \in Nat
    BY <1>2, Products
  <2>5. pending'["update"].ts = TimeWarmUp + (tracker'.win + 1) * Period
    BY <2>1, <2>2, <2>3, <2>4, SMT
  <2>6. pending'["print"].ts = TimeWarmUp + (prints' + 1) * TimeWindow
    BY <1>1, <1>2, FireFacts DEF IInv, Dates
  <2>q. QED BY <1>1, <2>5, <2>6, FireFacts DEF Dates
<1>5. Alternate'
  <2>1. prints < Horizon \/ ShortRun => tracker.win = prints
    BY <1>1, UpdateAfterPrint DEF Fire
  <2>2. pending'["print"].uid < pending'["update"].uid
    <3>1. pending'["update"] = [ts |-> pending["update"].ts + (TimeWindow - Lead["update"]),
                                uid |-> uid]
      BY <1>1, FireFacts
    <3>2. pending'["print"] = pending["print"]
      BY <1>1, FireFacts
    <3>q. QED BY <3>1, <3>2 DEF IInv, Dates
  <2>3. prints <= tracker.win
    BY DEF IInv, Alternate
  <2>q. QED BY <1>2, <2>1, <2>2, <2>3, SMT DEF Alternate
<1>q. QED BY <1>3, <1>4, <1>5 DEF IInv

LEMMA PrintStep ==
  ASSUME IInv, PrintLog
  PROVE  IInv'
PROOF
<1> USE ConstantFacts
<1>1. Fire("print")
  BY DEF PrintLog
<1>2. /\ tracker' = tracker /\ prints' = prints + 1
      /\ tracker.win \in Nat /\ prints \in Nat /\ pending["print"].ts \in Nat
      /\ tracker \in [win : Nat, packets : Nat, from : Nat, to : Nat]
  BY SMT DEF PrintLog, IInv, TypeOK
<1>3. Stamp(pending["print"].ts) \in Nat
  BY <1>2, StampType
<1>4. TypeOK'
  <2>1. report' \in Seq(Row)
    <3>1. CASE tracker.packets >= MinPackets
      <4> DEFINE r == [print |-> prints + 1, win |-> tracker.win,
                       packets |-> tracker.packets, from |-> tracker.from,
                       to |-> tracker.to, stamp |-> Stamp(pending["print"].ts)]
      <4>1. r \in Row
        BY <1>2, <1>3, SMT DEF Row
      <4>2. report' = Append(report, r)
        BY <3>1 DEF PrintLog
      <4>q. QED BY <4>1, <4>2, SMT DEF IInv, TypeOK
    <3>2. CASE ~(tracker.packets >= MinPackets)
      BY <3>2 DEF PrintLog, IInv, TypeOK
    <3>q. QED BY <3>1, <3>2
  <2>2. delivered' \in Nat /\ skipped' \in Nat
    <3>1. delivered \in Nat /\ skipped \in Nat /\ tracker.packets \in Nat
      BY DEF IInv, TypeOK
    <3>2. \/ delivered' = delivered + tracker.packets /\ skipped' = skipped
          \/ delivered' = delivered /\ skipped' = skipped + tracker.packets
      BY DEF PrintLog
    <3>q. QED BY <3>1, <3>2, SMT
  <2>3. prints' \in Nat /\ UNCHANGED <<stopped, early, counted, cur, tracker>>
    BY <1>2, SMT DEF PrintLog
  <2>q. QED BY <1>1, <2>1, <2>2, <2>3, FireFacts DEF IInv, TypeOK
<1>5. Dates'
  <2>1. (prints' + 1) * TimeWindow = (prints + 1) * TimeWindow + TimeWindow
    BY <1>2, Products
  <2>2. pending'["print"].ts = pending["print"].ts + TimeWindow
    <3>1. pending'["print"] = [ts |-> pending["print"].ts + (TimeWindow - Lead["print"]),
                               uid |-> uid]
      BY <1>1, FireFacts
    <3>q. QED BY <3>1, SMT
  <2>3. pending["print"].ts = TimeWarmUp + (prints + 1) * TimeWindow
    BY DEF IInv, Dates
  <2>4. (prints + 1) * TimeWindow \in Nat
    BY <1>2, Products
  <2>5. pending'["print"].ts = TimeWarmUp + (prints' + 1) * TimeWindow
    BY <2>1, <2>2, <2>3, <2>4, SMT
  <2>6. pending'["update"].ts = TimeWarmUp + (tracker'.win + 1) * Period
    BY <1>1, <1>2, FireFacts DEF IInv, Dates
  <2>q. QED BY <1>1, <2>5, <2>6, FireFacts DEF Dates
<1>6. Alternate'
  <2>1. prints < tracker.win
    BY <1>1, PrintAfterUpdate DEF Fire
  <2>2. Horizon \in Nat
    BY HorizonFacts
  <2>q. QED BY <1>2, <2>1, <2>2, SMT DEF Alternate, IInv
<1>q. QED BY <1>4, <1>5, <1>6 DEF IInv

\* The other steps leave windows, prints and their next dates alone.
LEMMA OtherStep ==
  ASSUME IInv, DoAnalyticalModel \/ Stop \/ (\E t \in 0..StopTime : ReportPacket(t))
  PROVE  IInv'
PROOF
<1> USE ConstantFacts
<1>1. CASE DoAnalyticalModel
  <2>1. Fire("analytical") /\ "analytical" \in Kinds
    BY <1>1 DEF DoAnalyticalModel
  <2>2. TypeOK'
    BY <1>1, <2>1, FireFacts DEF IInv, TypeOK, DoAnalyticalModel
  <2>3. pending'["update"] = pending["update"] /\ pending'["print"] = pending["print"]
    BY <2>1, FireFacts, "update" # "analytical", "print" # "analytical"
  <2>4. Dates'
    BY <1>1, <2>1, <2>3, FireFacts DEF IInv, Dates, DoAnalyticalModel
  <2>5. Alternate'
    BY <1>1, <2>3 DEF IInv, Alternate, DoAnalyticalModel
  <2>q. QED BY <2>2, <2>4, <2>5 DEF IInv
<1>2. CASE Stop
  <2>1. TypeOK'
    BY <1>2 DEF Stop, IInv, TypeOK
  <2>q. QED BY <1>2, <2>1 DEF Stop, IInv, Dates, Alternate
<1>3. ASSUME NEW t \in 0..StopTime, ReportPacket(t) PROVE IInv'
  <2>1. now' \in Nat
    BY <1>3, SMT DEF ReportPacket
  <2>2. /\ counted \in Nat /\ early \in Nat /\ cur.packets \in Nat /\ cur.from \in Nat
        /\ cur \in [packets : Nat, from : Nat]
    BY DEF IInv, TypeOK
  <2>3. counted' \in Nat /\ early' \in Nat /\ cur' \in [packets : Nat, from : Nat]
    <3>1. CASE t >= TimeWarmUp
      BY <1>3, <2>2, <3>1 DEF ReportPacket
    <3>2. CASE ~(t >= TimeWarmUp)
      BY <1>3, <2>2, <3>2 DEF ReportPacket
    <3>q. QED BY <3>1, <3>2
  <2>4. TypeOK'
    BY <1>3, <2>1, <2>3 DEF ReportPacket, IInv, TypeOK
  <2>q. QED BY <1>3, <2>4 DEF ReportPacket, IInv, Dates, Alternate
<1>q. QED BY <1>1, <1>2, <1>3

LEMMA StepInv == IInv /\ [Next]_vars => IInv'
PROOF
<1> SUFFICES ASSUME IInv, [Next]_vars PROVE IInv'
  OBVIOUS
<1>1. CASE UNCHANGED vars
  BY <1>1 DEF vars, IInv, TypeOK, Dates, Alternate
<1>2. CASE UpdateWindow
  BY <1>2, UpdateStep
<1>3. CASE PrintLog
  BY <1>3, PrintStep
<1>4. CASE DoAnalyticalModel \/ Stop \/ (\E t \in 0..StopTime : ReportPacket(t))
  BY <1>4, OtherStep
<1>q. QED BY <1>1, <1>2, <1>3, <1>4 DEF Next

(***************************************************************************)
(* The dates of the periodic events and their alternation always hold.     *)
(***************************************************************************)
THEOREM WindowsInvariant == Spec => []IInv
BY InitInv, StepInv, PTL DEF Spec

(***************************************************************************)
(* The variables keep their types, for every instance of the constants     *)
(* (FlowLogV2 and MimicLogV2 of the simulator).                            *)
(***************************************************************************)
THEOREM TypeCorrect == Spec => []TypeOK
<1>1. IInv => TypeOK
  BY DEF IInv
<1>q. QED BY <1>1, WindowsInvariant, PTL

-------------------------------------------------------------------------------

LEMMA RowStep == IInv /\ RowIsItsWindow /\ [Next]_vars => RowIsItsWindow'
PROOF
<1> SUFFICES ASSUME IInv, RowIsItsWindow, [Next]_vars PROVE RowIsItsWindow'
  OBVIOUS
<1> USE ConstantFacts
<1>1. CASE report' = report
  BY <1>1 DEF RowIsItsWindow, Horizon
<1>2. CASE PrintLog
  <2>1. Fire("print") /\ prints < tracker.win
    BY <1>2, PrintAfterUpdate DEF PrintLog, Fire
  <2>2. prints < Horizon => tracker.win = prints + 1
    BY <2>1, SMT DEF IInv, Alternate, TypeOK
  <2>3. CASE tracker.packets >= MinPackets
    <3> DEFINE r == [print |-> prints + 1, win |-> tracker.win,
                     packets |-> tracker.packets, from |-> tracker.from,
                     to |-> tracker.to, stamp |-> Stamp(pending["print"].ts)]
    <3>1. report' = Append(report, r)
      BY <1>2, <2>3 DEF PrintLog
    <3>2. r.print = prints + 1 /\ r.win = tracker.win
      OBVIOUS
    <3>3. prints \in Nat /\ Horizon \in Nat /\ report \in Seq(Row)
      BY HorizonFacts DEF IInv, TypeOK
    <3>4. r.print <= Horizon => r.win = r.print
      BY <2>2, <3>2, <3>3, SMT
    <3> HIDE DEF r
    <3>5. /\ Len(report') = Len(report) + 1
          /\ \A i \in 1..Len(report) : report'[i] = report[i]
          /\ report'[Len(report) + 1] = r
      BY <3>1, <3>3, SMT
    <3>6. Horizon' = Horizon
      BY DEF Horizon
    <3>7. ASSUME NEW i \in 1..Len(report'), report'[i].print <= Horizon
          PROVE  report'[i].win = report'[i].print
      <4>1. Len(report) \in Nat
        BY <3>3
      <4>2. i \in 1..Len(report) \/ i = Len(report) + 1
        BY <3>5, <3>7, <4>1, SMT
      <4>3. CASE i \in 1..Len(report)
        BY <3>5, <3>7, <4>3 DEF RowIsItsWindow
      <4>4. CASE i = Len(report) + 1
        BY <3>4, <3>5, <3>7, <4>4
      <4>q. QED BY <4>2, <4>3, <4>4
    <3>q. QED BY <3>6, <3>7 DEF RowIsItsWindow
  <2>4. CASE ~(tracker.packets >= MinPackets)
    BY <1>1, <1>2, <2>4 DEF PrintLog
  <2>q. QED BY <2>3, <2>4
<1>3. CASE UNCHANGED vars
  BY <1>1, <1>3 DEF vars
<1>4. ASSUME NEW t \in 0..StopTime, ReportPacket(t) PROVE report' = report
  BY <1>4 DEF ReportPacket
<1>5. UpdateWindow \/ DoAnalyticalModel \/ Stop => report' = report
  BY DEF UpdateWindow, DoAnalyticalModel, Stop
<1>q. QED BY <1>1, <1>2, <1>3, <1>4, <1>5 DEF Next

(***************************************************************************)
(* Up to the horizon the k-th print publishes the k-th window              *)
(* (PeriodicUpdateWindow against PeriodicPrintLog).                        *)
(***************************************************************************)
THEOREM RowsAreTheirWindows == Spec => []RowIsItsWindow
<1>1. Init => RowIsItsWindow
  BY SMT DEF Init, RowIsItsWindow
<1>q. QED BY <1>1, RowStep, WindowsInvariant, PTL DEF Spec

-------------------------------------------------------------------------------

LEMMA PacketStep ==
  ASSUME IInv, NoPacketLost, ShortRun, NEW t \in 0..StopTime, ReportPacket(t)
  PROVE  NoPacketLost'
PROOF
<1>1. /\ counted \in Nat /\ cur.packets \in Nat /\ delivered \in Nat /\ skipped \in Nat
      /\ tracker.packets \in Nat
  BY SMT DEF IInv, TypeOK
<1>2. Waiting \in Nat /\ Waiting' = Waiting
  BY <1>1, SMT DEF Waiting, ReportPacket
<1>3. delivered' = delivered /\ skipped' = skipped
  BY DEF ReportPacket
<1>4. \/ counted' = counted + 1 /\ cur'.packets = cur.packets + 1
      \/ counted' = counted /\ cur' = cur
  BY SMT DEF ReportPacket
<1>q. QED BY <1>1, <1>2, <1>3, <1>4, SMT DEF NoPacketLost

LEMMA LossStep == IInv /\ NoPacketLost /\ [Next]_vars => NoPacketLost'
PROOF
<1> SUFFICES ASSUME IInv, NoPacketLost, [Next]_vars, ShortRun PROVE NoPacketLost'
  BY DEF NoPacketLost, ShortRun, Horizon
<1> USE ConstantFacts
<1>0. /\ counted \in Nat /\ cur.packets \in Nat /\ delivered \in Nat /\ skipped \in Nat
      /\ tracker.packets \in Nat /\ tracker.win \in Nat /\ prints \in Nat
      /\ counted = cur.packets + Waiting + delivered + skipped
  BY SMT DEF IInv, TypeOK, NoPacketLost
<1>1. CASE UpdateWindow
  <2>1. tracker.win = prints
    BY <1>1, UpdateAfterPrint DEF UpdateWindow, Fire
  <2>2. Waiting = 0
    BY <1>0, <2>1, SMT DEF Waiting
  <2>3. /\ tracker'.win = prints + 1 /\ tracker'.packets = cur.packets
        /\ prints' = prints /\ cur'.packets = 0
        /\ counted' = counted /\ delivered' = delivered /\ skipped' = skipped
    BY <1>1, <2>1, SMT DEF UpdateWindow, Reopened
  <2>4. Waiting' = cur.packets
    BY <1>0, <2>3, SMT DEF Waiting
  <2>q. QED BY <1>0, <2>2, <2>3, <2>4, SMT DEF NoPacketLost
<1>2. CASE PrintLog
  <2>1. prints < tracker.win
    BY <1>2, PrintAfterUpdate DEF PrintLog, Fire
  <2>2. tracker.win = prints + 1
    BY <1>0, <2>1, SMT DEF IInv, Alternate
  <2>3. /\ tracker' = tracker /\ prints' = prints + 1 /\ cur' = cur /\ counted' = counted
        /\ delivered' + skipped' = delivered + skipped + tracker.packets
        /\ delivered' \in Nat /\ skipped' \in Nat
    <3>1. \/ delivered' = delivered + tracker.packets /\ skipped' = skipped
          \/ delivered' = delivered /\ skipped' = skipped + tracker.packets
      BY <1>2 DEF PrintLog
    <3>2. tracker' = tracker /\ prints' = prints + 1 /\ cur' = cur /\ counted' = counted
      BY <1>2 DEF PrintLog
    <3>q. QED BY <1>0, <3>1, <3>2, SMT
  <2>4. Waiting = tracker.packets /\ Waiting' = 0
    BY <1>0, <2>2, <2>3, SMT DEF Waiting
  <2>q. QED BY <1>0, <2>3, <2>4, SMT DEF NoPacketLost
<1>3. ASSUME NEW t \in 0..StopTime, ReportPacket(t) PROVE NoPacketLost'
  BY <1>3, PacketStep
<1>4. CASE DoAnalyticalModel \/ Stop \/ UNCHANGED vars
  BY <1>0, <1>4 DEF DoAnalyticalModel, Stop, vars, NoPacketLost, Waiting
<1>q. QED BY <1>1, <1>2, <1>3, <1>4 DEF Next

(***************************************************************************)
(* In a run that stops before the horizon no packet counted after the      *)
(* warm-up falls between two windows.                                      *)
(***************************************************************************)
THEOREM NoPacketIsLost == Spec => []NoPacketLost
<1>1. Init => NoPacketLost
  BY SMT DEF Init, NoPacketLost, Waiting
<1>q. QED BY <1>1, LossStep, WindowsInvariant, PTL DEF Spec

-------------------------------------------------------------------------------

(***************************************************************************)
(* Window w reaches from w - 1 to w shortened periods after the warm-up.   *)
(***************************************************************************)
Span(row) ==
  row.win > 0 => /\ row.from = TimeWarmUp + (row.win - 1) * Period
                 /\ row.to = TimeWarmUp + row.win * Period

Spans ==
  /\ cur.from = TimeWarmUp + tracker.win * Period
  /\ Span(tracker)
  /\ \A i \in 1..Len(report) : report[i].print > 0 /\ Span(report[i])

LEMMA SpansInit == Init => Spans
<1> SUFFICES ASSUME Init PROVE Spans
  OBVIOUS
<1>1. tracker.win = 0 /\ cur.from = TimeWarmUp /\ report = <<>>
  BY DEF Init
<1>2. Len(report) = 0
  BY <1>1
<1>3. 0 * Period = 0
  BY ConstantFacts, SMT
<1>q. QED BY <1>1, <1>2, <1>3, ConstantFacts, SMT DEF Spans, Span

LEMMA SpansUpdate ==
  ASSUME IInv, Spans, UpdateWindow
  PROVE  Spans'
<1>1. /\ tracker.win \in Nat
      /\ pending["update"].ts = TimeWarmUp + (tracker.win + 1) * Period
  BY SMT DEF IInv, TypeOK, Dates
<1>2. /\ tracker'.win = tracker.win + 1
      /\ tracker'.from = cur.from /\ tracker'.to = pending["update"].ts
      /\ cur'.from = pending["update"].ts
      /\ report' = report
  BY DEF UpdateWindow, Reopened
<1>3. cur.from = TimeWarmUp + tracker.win * Period
  BY DEF Spans
<1>4. tracker'.win - 1 = tracker.win
  BY <1>1, <1>2, SMT
<1>5. Span(tracker')
  BY <1>1, <1>2, <1>3, <1>4 DEF Span
<1>6. cur'.from = TimeWarmUp + tracker'.win * Period
  BY <1>1, <1>2
<1>q. QED BY <1>2, <1>5, <1>6 DEF Spans, Span, Period, A

LEMMA SpansPrint ==
  ASSUME IInv, Spans, PrintLog
  PROVE  Spans'
<1>1. /\ report \in Seq(Row) /\ prints \in Nat /\ Len(report) \in Nat
  BY DEF IInv, TypeOK
<1>2. cur' = cur /\ tracker' = tracker
  BY DEF PrintLog
<1>3. CASE tracker.packets >= MinPackets
  <2> DEFINE r == [print |-> prints + 1, win |-> tracker.win,
                   packets |-> tracker.packets, from |-> tracker.from,
                   to |-> tracker.to, stamp |-> Stamp(pending["print"].ts)]
  <2>1. report' = Append(report, r)
    BY <1>3 DEF PrintLog
  <2>2. r.print > 0
    BY <1>1, SMT
  <2>3. Span(r)
    BY DEF Spans, Span
  <2> HIDE DEF r
  <2>4. /\ Len(report') = Len(report) + 1
        /\ \A i \in 1..Len(report) : report'[i] = report[i]
        /\ report'[Len(report) + 1] = r
    BY <1>1, <2>1, SMT
  <2>5. ASSUME NEW i \in 1..Len(report')
        PROVE  report'[i].print > 0 /\ Span(report'[i])
    <3>1. i \in 1..Len(report) \/ i = Len(report) + 1
      BY <1>1, <2>4, SMT
    <3>2. CASE i \in 1..Len(report)
      BY <2>4, <3>2 DEF Spans
    <3>3. CASE i = Len(report) + 1
      BY <2>2, <2>3, <2>4, <3>3
    <3>q. QED BY <3>1, <3>2, <3>3
  <2>q. QED BY <1>2, <2>5 DEF Spans, Span, Period, A
<1>4. CASE ~(tracker.packets >= MinPackets)
  <2>1. report' = report
    BY <1>4 DEF PrintLog
  <2>q. QED BY <1>2, <2>1 DEF Spans, Span, Period, A
<1>q. QED BY <1>3, <1>4

LEMMA SpansStep == IInv /\ Spans /\ [Next]_vars => Spans'
<1> SUFFICES ASSUME IInv, Spans, [Next]_vars PROVE Spans'
  OBVIOUS
<1>1. CASE UpdateWindow
  BY <1>1, SpansUpdate
<1>2. CASE PrintLog
  BY <1>2, SpansPrint
<1>3. CASE cur'.from = cur.from /\ tracker' = tracker /\ report' = report
  BY <1>3 DEF Spans, Span, Period, A
<1>4. UNCHANGED vars => cur'.from = cur.from /\ tracker' = tracker /\ report' = report
  BY DEF vars
<1>5. DoAnalyticalModel \/ Stop => cur'.from = cur.from /\ tracker' = tracker /\ report' = report
  BY DEF DoAnalyticalModel, Stop
<1>6. ASSUME NEW t \in 0..StopTime, ReportPacket(t)
      PROVE  cur'.from = cur.from /\ tracker' = tracker /\ report' = report
  BY <1>6 DEF ReportPacket
<1>q. QED BY <1>1, <1>2, <1>3, <1>4, <1>5, <1>6 DEF Next

\* Every row of the report counts its prints and windows.
LEMMA RowsTyped ==
  ASSUME IInv, NEW k \in 1..Len(report)
  PROVE  report[k].print \in Nat /\ report[k].win \in Nat
<1>1. report \in Seq(Row)
  BY DEF IInv, TypeOK
<1>2. report[k] \in Row
  BY <1>1, SMT
<1>q. QED BY <1>2 DEF Row

LEMMA SpansTile == IInv /\ RowIsItsWindow /\ Spans => RowsTile
<1> SUFFICES ASSUME IInv, RowIsItsWindow, Spans,
                    NEW i \in 1..Len(report), report[i].print <= Horizon
             PROVE  /\ report[i].print = 1 => report[i].from = TimeWarmUp
                    /\ \A j \in 1..Len(report) : report[i].print = report[j].print + 1 =>
                         report[i].from = report[j].to
  BY DEF RowsTile
<1>1. report[i].print \in Nat /\ Horizon \in Nat
  BY HorizonFacts, RowsTyped
<1>2. report[i].win = report[i].print /\ report[i].print > 0
  BY DEF RowIsItsWindow, Spans
<1>3. report[i].from = TimeWarmUp + (report[i].win - 1) * Period
  BY <1>2 DEF Spans, Span
<1>4. ASSUME report[i].print = 1 PROVE report[i].from = TimeWarmUp
  <2>1. report[i].from = TimeWarmUp + 0 * Period
    BY <1>2, <1>3, <1>4
  <2>q. QED BY <2>1, ConstantFacts, SMT
<1>5. ASSUME NEW j \in 1..Len(report), report[i].print = report[j].print + 1
      PROVE  report[i].from = report[j].to
  <2>1. report[j].print \in Nat
    BY RowsTyped
  <2>2. report[j].print <= Horizon
    BY <1>1, <1>5, <2>1, SMT
  <2>3. report[j].win = report[j].print /\ report[j].print > 0
    BY <2>2 DEF RowIsItsWindow, Spans
  <2>4. report[j].to = TimeWarmUp + report[j].win * Period
    BY <2>3 DEF Spans, Span
  <2>5. report[i].win - 1 = report[j].win
    BY <1>2, <1>5, <2>1, <2>3, SMT
  <2>q. QED BY <1>3, <2>4, <2>5
<1>q. QED BY <1>4, <1>5

(***************************************************************************)
(* Up to the horizon the rows of consecutive prints cover adjacent spans   *)
(* of time, from the end of the warm-up (the times at which UpdateWindow   *)
(* resets the accumulators that PrintLog reports).                         *)
(***************************************************************************)
THEOREM RowsTileTime == Spec => []RowsTile
<1>1. Spec => []Spans
  BY SpansInit, SpansStep, WindowsInvariant, PTL DEF Spec
<1>q. QED BY <1>1, SpansTile, WindowsInvariant, RowsAreTheirWindows, PTL

-------------------------------------------------------------------------------

\* A row carries the stamp of the tick at which its print was due, and the prints
\* of the rows increase.
Stamped ==
  /\ \A i \in 1..Len(report) :
       /\ report[i].print \in Nat /\ report[i].print <= prints
       /\ report[i].stamp = Stamp(TimeWarmUp + report[i].print * TimeWindow)
  /\ \A i, j \in 1..Len(report) : i < j => report[i].print < report[j].print

LEMMA StampedPrint ==
  ASSUME IInv, Stamped, PrintLog
  PROVE  Stamped'
PROOF
<1>1. /\ report \in Seq(Row) /\ prints \in Nat /\ Len(report) \in Nat
      /\ pending["print"].ts = TimeWarmUp + (prints + 1) * TimeWindow
      /\ prints' = prints + 1
  BY DEF IInv, TypeOK, Dates, PrintLog
<1>2. CASE tracker.packets >= MinPackets
  <2> DEFINE r == [print |-> prints + 1, win |-> tracker.win,
                   packets |-> tracker.packets, from |-> tracker.from,
                   to |-> tracker.to, stamp |-> Stamp(pending["print"].ts)]
  <2>1. report' = Append(report, r)
    BY <1>2 DEF PrintLog
  <2>2. r.print = prints + 1 /\ r.stamp = Stamp(TimeWarmUp + r.print * TimeWindow)
    BY <1>1, SMT
  <2> HIDE DEF r
  <2>3. /\ Len(report') = Len(report) + 1
        /\ \A i \in 1..Len(report) : report'[i] = report[i]
        /\ report'[Len(report) + 1] = r
    BY <1>1, <2>1, SMT
  <2>4. \A i \in 1..Len(report') : i \in 1..Len(report) \/ i = Len(report) + 1
    BY <1>1, <2>3, SMT
  <2>5. ASSUME NEW i \in 1..Len(report')
        PROVE  /\ report'[i].print \in Nat /\ report'[i].print <= prints'
               /\ report'[i].stamp = Stamp(TimeWarmUp + report'[i].print * TimeWindow)
    <3>1. CASE i \in 1..Len(report)
      <4>1. report'[i] = report[i] /\ report[i].print \in Nat /\ report[i].print <= prints
        BY <2>3, <3>1 DEF Stamped
      <4>2. report[i].stamp = Stamp(TimeWarmUp + report[i].print * TimeWindow)
        BY <3>1 DEF Stamped
      <4>3. report[i].print <= prints'
        BY <1>1, <4>1, SMT
      <4>q. QED BY <4>1, <4>2, <4>3
    <3>2. CASE i = Len(report) + 1
      <4>1. prints + 1 \in Nat /\ prints + 1 <= prints'
        BY <1>1, SMT
      <4>q. QED BY <2>2, <2>3, <3>2, <4>1
    <3>q. QED BY <2>4, <3>1, <3>2
  <2>6. ASSUME NEW i \in 1..Len(report'), NEW j \in 1..Len(report'), i < j
        PROVE  report'[i].print < report'[j].print
    <3>1. CASE j \in 1..Len(report)
      <4>1. i \in 1..Len(report)
        BY <1>1, <2>6, <3>1, SMT
      <4>q. QED BY <2>3, <2>6, <3>1, <4>1 DEF Stamped
    <3>2. CASE j = Len(report) + 1
      <4>1. i \in 1..Len(report)
        BY <1>1, <2>3, <2>6, <3>2, SMT
      <4>2. report[i].print \in Nat /\ report[i].print <= prints
        BY <4>1 DEF Stamped
      <4>3. report[i].print < prints + 1
        BY <1>1, <4>2, SMT
      <4>q. QED BY <2>2, <2>3, <3>2, <4>1, <4>3
    <3>q. QED BY <2>4, <3>1, <3>2
  <2>q. QED BY <2>5, <2>6 DEF Stamped, Stamp
<1>3. CASE ~(tracker.packets >= MinPackets)
  <2>1. report' = report
    BY <1>3 DEF PrintLog
  <2>2. \A i \in 1..Len(report) : report[i].print \in Nat /\ report[i].print <= prints
    BY DEF Stamped
  <2>3. \A i \in 1..Len(report) : report[i].print <= prints'
    BY <1>1, <2>2, SMT
  <2>q. QED BY <2>1, <2>3 DEF Stamped, Stamp
<1>q. QED BY <1>2, <1>3

LEMMA StampedStep == IInv /\ Stamped /\ [Next]_vars => Stamped'
PROOF
<1> SUFFICES ASSUME IInv, Stamped, [Next]_vars PROVE Stamped'
  OBVIOUS
<1>1. CASE PrintLog
  BY <1>1, StampedPrint
<1>2. CASE UNCHANGED <<report, prints>>
  BY <1>2 DEF Stamped, Stamp
<1>3. UpdateWindow \/ DoAnalyticalModel \/ Stop \/ UNCHANGED vars => UNCHANGED <<report, prints>>
  BY DEF UpdateWindow, DoAnalyticalModel, Stop, vars
<1>4. ASSUME NEW t \in 0..StopTime, ReportPacket(t) PROVE UNCHANGED <<report, prints>>
  BY <1>4 DEF ReportPacket
<1>q. QED BY <1>1, <1>2, <1>3, <1>4 DEF Next

\* Truncation goes back by less than a second.
LEMMA StampBounds ==
  ASSUME NEW t \in Nat
  PROVE  Stamp(t) \in Nat /\ Stamp(t) <= t /\ t < Stamp(t) + Second
PROOF
<1>1. Second \in Nat \ {0}
  BY ConstantFacts
<1>2. t = Second * (t \div Second) + (t % Second) /\ t \div Second \in Nat /\ t % Second \in 0..Second - 1
  BY <1>1, SMT
<1>3. Second * (t \div Second) = Stamp(t) /\ Second * (t \div Second) \in Nat
  BY <1>1, <1>2, SMT DEF Stamp
<1>4. t = Stamp(t) + (t % Second) /\ Stamp(t) \in Nat
  BY <1>2, <1>3
<1>q. QED BY <1>1, <1>2, <1>4, SMT

\* Of two prints a window or more apart the stamps differ.
LEMMA StampsDiffer ==
  ASSUME NEW m \in Nat, NEW n \in Nat, m < n, TimeWindow >= Second
  PROVE  Stamp(TimeWarmUp + m * TimeWindow) # Stamp(TimeWarmUp + n * TimeWindow)
PROOF
<1> DEFINE t == TimeWarmUp + m * TimeWindow
           u == TimeWarmUp + n * TimeWindow
<1>1. m * TimeWindow \in Nat /\ n * TimeWindow \in Nat /\ (m + 1) * TimeWindow = m * TimeWindow + TimeWindow
  BY Products
<1>2. (m + 1) * TimeWindow <= n * TimeWindow
  BY ConstantFacts, SMT
<1>3. t \in Nat /\ u \in Nat /\ t + TimeWindow <= u
  BY <1>1, <1>2, ConstantFacts, SMT
<1> HIDE DEF t, u
<1>4. Stamp(t) \in Nat /\ Stamp(u) \in Nat /\ Stamp(t) <= t /\ u < Stamp(u) + Second
  BY <1>3, StampBounds
<1>5. Stamp(t) # Stamp(u)
  BY <1>3, <1>4, ConstantFacts, SMT
<1>q. QED BY <1>5 DEF t, u

\* The end of a row's span and the leads gained give the tick of its print.
LEMMA StampedNames ==
  ASSUME IInv, Stamped, Spans, RowIsItsWindow
  PROVE  StampNamesWindow
PROOF
<1> SUFFICES ASSUME NEW i \in 1..Len(report), report[i].print <= Horizon
             PROVE  LET row == report[i]
                        end == row.to + row.win * Lead["update"]
                    IN  /\ row.stamp <= end /\ end < row.stamp + Second
                        /\ TimeWindow >= Second =>
                             /\ row.from < row.stamp
                             /\ \A j \in 1..Len(report) \ {i} : report[j].stamp # row.stamp
  BY DEF StampNamesWindow
<1>1. PICK n \in Nat : /\ n = report[i].print /\ n = report[i].win /\ n > 0
                       /\ report[i].stamp = Stamp(TimeWarmUp + n * TimeWindow)
  BY DEF Stamped, Spans, RowIsItsWindow
<1>2. /\ report[i].to = TimeWarmUp + n * Period
      /\ report[i].from = TimeWarmUp + (n - 1) * Period
  BY <1>1 DEF Spans, Span
<1>3. /\ n * Period = n * TimeWindow - A * n /\ n * A = A * n
      /\ n * Period \in Nat /\ n * TimeWindow \in Nat /\ A * n \in Nat
  <2>1. n * A = A * n
    BY ConstantFacts, SMT
  <2>q. QED BY <2>1, Products
<1>4. /\ report[i].to + n * A = TimeWarmUp + n * TimeWindow
      /\ TimeWarmUp + n * TimeWindow \in Nat
  <2>1. PICK p \in Nat, w \in Nat, a \in Nat :
          p = n * Period /\ w = n * TimeWindow /\ a = A * n
    BY <1>3
  <2>2. report[i].to = TimeWarmUp + p /\ p = w - a /\ n * A = a
    BY <1>2, <1>3, <2>1
  <2>3. TimeWarmUp + p + a = TimeWarmUp + w /\ TimeWarmUp + w \in Nat
    <3>1. p = w - a /\ TimeWarmUp \in Nat
      BY <2>2, ConstantFacts
    <3>q. QED BY <3>1, SMT
  <2>q. QED BY <2>1, <2>2, <2>3
<1>5. PICK t \in Nat : t = TimeWarmUp + n * TimeWindow
  BY <1>4
<1>6. /\ report[i].stamp = Stamp(t)
      /\ Stamp(t) \in Nat /\ Stamp(t) <= t /\ t < Stamp(t) + Second
  BY <1>1, <1>5, StampBounds
<1>7. report[i].to + report[i].win * Lead["update"] = t
  BY <1>1, <1>4, <1>5 DEF A
<1>8. ASSUME TimeWindow >= Second PROVE report[i].from < report[i].stamp
  <2>1. PICK m \in Nat : n = m + 1
    <3>1. n - 1 \in Nat /\ n = (n - 1) + 1
      BY <1>1, SMT
    <3>q. QED BY <3>1
  <2>2. report[i].from = TimeWarmUp + m * Period
    <3>1. n - 1 = m
      BY <2>1, SMT
    <3>q. QED BY <1>2, <3>1
  <2>3. /\ m * Period = m * TimeWindow - A * m
        /\ m * Period \in Nat /\ m * TimeWindow \in Nat /\ A * m \in Nat
        /\ n * TimeWindow = m * TimeWindow + TimeWindow
    BY <2>1, Products
  <2>4. CASE m > 0
    <3>1. A * m > 0
      BY <2>4, ConstantFacts, SMT
    <3>2. report[i].from < TimeWarmUp + m * TimeWindow
      <4>1. PICK p \in Nat, w \in Nat, a \in Nat :
              p = m * Period /\ w = m * TimeWindow /\ a = A * m
        BY <2>3
      <4>2. report[i].from = TimeWarmUp + p /\ p = w - a /\ a > 0
        BY <2>2, <2>3, <3>1, <4>1
      <4>3. report[i].from < TimeWarmUp + w
        BY <4>2, ConstantFacts, SMT
      <4>q. QED BY <4>1, <4>3
    <3>3. TimeWarmUp + m * TimeWindow + TimeWindow = t
      <4>1. PICK w \in Nat : w = m * TimeWindow
        BY <2>3
      <4>2. t = TimeWarmUp + (w + TimeWindow)
        BY <1>5, <2>3, <4>1
      <4>3. TimeWarmUp + w + TimeWindow = t
        BY <4>2, ConstantFacts, SMT
      <4>q. QED BY <4>1, <4>3
    <3>4. report[i].from \in Nat
      BY <2>2, <2>3, ConstantFacts
    <3>q. QED BY <1>6, <1>8, <2>3, <3>2, <3>3, <3>4, ConstantFacts, SMT
  <2>5. CASE m = 0
    <3>1. report[i].from = TimeWarmUp /\ t = TimeWarmUp + TimeWindow
      BY <1>5, <2>1, <2>2, <2>3, <2>5, ConstantFacts, SMT
    <3>q. QED BY <1>6, <1>8, <3>1, ConstantFacts, SMT
  <2>q. QED BY <2>1, <2>4, <2>5, SMT
<1>9. ASSUME TimeWindow >= Second, NEW j \in 1..Len(report) \ {i}
      PROVE  report[j].stamp # report[i].stamp
  <2>1. PICK m \in Nat : m = report[j].print /\ report[j].stamp = Stamp(TimeWarmUp + m * TimeWindow)
    BY DEF Stamped
  <2>2. m < n \/ n < m
    <3>1. report \in Seq(Row)
      BY DEF IInv, TypeOK
    <3>2. i < j \/ j < i
      BY <3>1, SMT
    <3>q. QED BY <1>1, <2>1, <3>2 DEF Stamped
  <2>q. QED BY <1>1, <1>9, <2>1, <2>2, StampsDiffer
<1>q. QED BY <1>6, <1>7, <1>8, <1>9

(***************************************************************************)
(* The stamp by which the reports are joined tells the span of time that   *)
(* the row measured, for windows, leads and warm-ups of any length: the    *)
(* print event re-arms itself without the lead, so it is by the leads of   *)
(* its window that a row is stamped after its end.                         *)
(***************************************************************************)
THEOREM StampsNameWindows == Spec => []StampNamesWindow
PROOF
<1>1. Init => Stamped
  BY DEF Init, Stamped
<1>2. Spec => []Spans
  BY SpansInit, SpansStep, WindowsInvariant, PTL DEF Spec
<1>q. QED BY <1>1, <1>2, StampedStep, StampedNames, WindowsInvariant, RowsAreTheirWindows, PTL DEF Spec

-------------------------------------------------------------------------------

\* In a short run every step of the log is a step of its promise.
LEMMA StepPromise ==
  ASSUME ShortRun, IInv, [Next]_vars
  PROVE  [Promise!ANext]_(Promise!avars)
PROOF
<1> USE ConstantFacts
<1> DEFINE box == [full |-> tracker.win > prints, packets |-> Waiting]
<1>0. /\ cur.packets \in Nat /\ delivered \in Nat /\ skipped \in Nat
      /\ tracker.packets \in Nat /\ tracker.win \in Nat /\ prints \in Nat
  BY SMT DEF IInv, TypeOK
<1>1. CASE UpdateWindow
  <2>1. tracker.win = prints
    BY <1>1, UpdateAfterPrint DEF UpdateWindow, Fire
  <2>2. ~(tracker.win > prints)
    BY <1>0, <2>1, SMT
  <2>3. /\ tracker'.win = prints + 1 /\ tracker'.packets = cur.packets
        /\ prints' = prints /\ cur'.packets = 0
        /\ delivered' = delivered /\ skipped' = skipped
    BY <1>1, <2>1, SMT DEF UpdateWindow, Reopened
  <2>4. (tracker'.win > prints') = TRUE /\ Waiting' = cur.packets
    BY <1>0, <2>3, SMT DEF Waiting
  <2>5. Promise!Close
    BY <2>2, <2>3, <2>4 DEF Promise!Close
  <2>q. QED BY <2>5 DEF Promise!ANext
<1>2. CASE PrintLog
  <2>1. prints < tracker.win /\ tracker.win = prints + 1
    BY <1>0, <1>2, PrintAfterUpdate, SMT DEF PrintLog, Fire, IInv, Alternate
  <2>2. tracker' = tracker /\ prints' = prints + 1 /\ cur' = cur
    BY <1>2 DEF PrintLog
  <2>3. /\ tracker.win > prints /\ Waiting = tracker.packets
        /\ (tracker'.win > prints') = FALSE /\ Waiting' = 0
    BY <1>0, <2>1, <2>2, SMT DEF Waiting
  <2>4. IF Waiting >= MinPackets
        THEN delivered' = delivered + Waiting /\ UNCHANGED skipped
        ELSE skipped' = skipped + Waiting /\ UNCHANGED delivered
    BY <1>2, <2>3 DEF PrintLog
  <2>5. Promise!Publish
    BY <2>2, <2>3, <2>4 DEF Promise!Publish, Promise!None
  <2>q. QED BY <2>5 DEF Promise!ANext
<1>3. ASSUME NEW t \in 0..StopTime, ReportPacket(t)
      PROVE  [Promise!ANext]_(Promise!avars)
  <2>1. UNCHANGED <<tracker, prints, delivered, skipped>>
    BY <1>3 DEF ReportPacket
  <2>2. UNCHANGED Waiting /\ (tracker'.win > prints') = (tracker.win > prints)
    BY <2>1 DEF Waiting
  <2>3. CASE t >= TimeWarmUp
    <3>1. cur'.packets = cur.packets + 1
      BY <1>3, <2>3, SMT DEF ReportPacket
    <3>2. Promise!Count
      BY <2>1, <2>2, <3>1 DEF Promise!Count
    <3>q. QED BY <3>2 DEF Promise!ANext
  <2>4. CASE ~(t >= TimeWarmUp)
    <3>1. cur' = cur
      BY <1>3, <2>4 DEF ReportPacket
    <3>q. QED BY <2>1, <2>2, <3>1 DEF Promise!avars
  <2>q. QED BY <2>3, <2>4
<1>4. CASE DoAnalyticalModel \/ Stop \/ UNCHANGED vars
  <2>1. UNCHANGED <<cur, tracker, prints, delivered, skipped>>
    BY <1>4 DEF DoAnalyticalModel, Stop, vars
  <2>2. UNCHANGED Waiting /\ (tracker'.win > prints') = (tracker.win > prints)
    BY <2>1 DEF Waiting
  <2>q. QED BY <2>1, <2>2 DEF Promise!avars
<1>q. QED BY <1>1, <1>2, <1>3, <1>4 DEF Next

(***************************************************************************)
(* A log of a short run implements the abstract report: each window is     *)
(* closed once and published before the next is closed.                    *)
(***************************************************************************)
THEOREM LogImplementsReport == ASSUME ShortRun PROVE Spec => ReportsEveryWindow
<1>1. Init => Promise!AInit
  <2> SUFFICES ASSUME Init PROVE Promise!AInit
    OBVIOUS
  <2>1. tracker.win = 0 /\ prints = 0 /\ cur.packets = 0
    BY DEF Init
  <2>2. (tracker.win > prints) = FALSE /\ Waiting = 0
    BY <2>1, SMT DEF Waiting
  <2>q. QED BY <2>1, <2>2 DEF Init, Promise!AInit, Promise!None
<1>2. IInv /\ [Next]_vars => [Promise!ANext]_(Promise!avars)
  BY StepPromise
<1>q. QED BY <1>1, <1>2, WindowsInvariant, PTL
        DEF Spec, ReportsEveryWindow, Promise!ASpec

===============================================================================
