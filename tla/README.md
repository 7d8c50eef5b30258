# Verification project for MQL (ML-assisted queuing latency analysis)

MQL predicts the latency of flows in a data-centre network.  An ns-3 simulation
measures the traffic that hosts send, window by window; an analytical model
(`auto_oop/`) turns the measured arrivals into per-queue latencies, corrects
them with a regression tree and reports latencies per flow; Python scripts run
both for several random seeds and merge the results.

This directory holds TLA+ models of the parts of that system whose correctness
depends on order, on state that outlives a step, or on structure: the event
driven measurement in the simulator, the routing tables and the stage-by-stage
calculation of the analytical model, the traffic source, the set-up of the
traffic, and the scripts that run all this and merge its results.  All paths below are relative to the root of the repository.

## 1. Inventory

| Component | Code | State | Operations | Interacts with |
|---|---|---|---|---|
| Window logs | `src/flow-monitor/model/flow-log-v2.cc`, `mimic-log-v2.cc` | accumulators per flow (and hop), trackers with the figures of the last window, report file, three (two) pending events | `UpdateLog`, `UpdateLatency`, `PeriodicUpdateWindow`, `PeriodicDoAnalyticalModel`, `PeriodicPrintLog` | fed by FlowMonitor; driven by the simulator's events; `mimic_*.txt` feeds the analytical model |
| Flow monitor and probes | `flow-monitor.cc`, `ipv4-flow-probe.cc` | `m_enabled`, `m_trackedPackets`, `m_flowStats` | `ReportFirstTx`, `ReportForwarding`, `ReportLastRx`, `ReportDrop`, `CheckForLostPackets`, `StartRightNow`, `StopRightNow` | traces of the IPv4 layer and the queues; calls the logs |
| Event queue | `src/core/model/default-simulator-impl.cc` | clock, pending events, next id, stop flag | `Schedule`, `Cancel`, `ProcessOneEvent`, `Run`, `Stop` | everything in the simulator |
| Fat tree | `auto_oop/fattreeL3.cpp` | devices, queues, flows and flow splits of every pair of hosts | `create`, `link`, `route` | read by the window loop |
| Two-level custom tree | `auto_oop/fattreeL2Custom.cpp` | as the fat tree | as the fat tree | read by the window loop |
| Window loop | `auto_oop/main.cpp`, `fattree.cpp`, `util.*` | vectors of each queue, flows and splits of the window, the report | load a window, stages 0-5, correction, latencies, report, reset | reads the simulator's files |
| Traffic source | `src/applications/model/generalized-exponential-traffic.cc` | two event handles, socket, byte and burst counters | start, stop, on, off, send | event queue; socket |
| Traffic set-up | `src/scratch/dcn_fattree_finite_large_v3.cc` | role and peer of each node, sinks, sources | read the traffic file or draw the pattern, install, start | creates the traffic sources |
| Seed merge | `utils/functions.py` | data frames of the three result files | `merge_header`, `merge_seeds`, `merge_latency_per_flow`, `merge_latency_per_queue` | called by the run scripts on the files of the simulator and the analytical model |
| Run scripts | `run_sim_analytical_compare.py`, `utils/build_dataset_train_evaluate.py`, `analytical_compare.py` | the run directories, the source of the regression tree, the executable | a pool of worker processes, one per seed; merge, analyse, join; train, compile, compare, collect | run both programs; hand each other files |
| Queue monitor | `src/queue-monitor/model/` | per-queue accumulators and trackers | as the window logs | queue traces |
| Load trace source | `src/applications/model/load-trace.cc` | as the traffic source | as the traffic source | event queue |
| Regression tree, training | `DT/`, `utils/train_model.py`, `auto_oop/regression_tree_model.h` | a tree | fit, evaluate | window loop |
| Older logs, reports, plots | `flow-log.cc`, `queue-log*.cc`, `merge_csv_*.py`, ... | | | |
| ns-3 itself, its generated Python bindings and its test runner | `src/`, `bindings/`, `test.py` | | | the framework under the simulator |

What is hard in them, and what makes each of them correct:

* **Window logs.**  A window passes through three events, which re-arm
  themselves separately: the print event after a whole window, the update event
  after a window less 2 (1) microseconds, the lead by which its first firing
  precedes the first print.  So the events drift apart in every window, and on
  some tick they meet, where the id drawn when they were armed decides.
  Correct means: a window is printed once, before it is overwritten; no
  packet is in two windows or in none; the stamp of a row tells the span of time that
  the row measured.
* **Flow monitor.**  A packet is known through reports from different nodes. It
  can be dropped at any hop, given up as overdue, or sent before the monitor was
  enabled.  Correct means: each packet is counted in exactly one of received,
  lost and tracked; the record of a tracked packet agrees with where it is,
  since the latency of each hop is charged by it; arrivals, departures and
  latencies of the logs balance.
* **Trees.**  Two directions of each link come from separate formulas, the sizes
  of the two-level tree from integer divisions, and
  the routing table from nested searches over ports.  Correct means: the splits
  of a flow are all the shortest walks between its hosts, and no others; a
  host that integer division left without a port has none.
* **Window loop.**  The data of a queue are parallel vectors, filled by
  different functions and joined by position; the queues are reused in every
  window.  Correct means: the vectors stay in step, no queue is computed before
  all its arrivals are known, nothing of a window survives it, every line of a
  file gives one row.
* **Traffic source.**  Two chains of events that cancel each other and may fall
  on one instant.  Correct means: the chains never fork or break, a stopped
  source is silent, a byte limit is kept and, where the times it draws permit, reached.
* **Traffic set-up.**  A node's role is overwritten by later lines of the file
  or by a draw.  Correct means: each server has exactly one sink, each source a
  server that listens, and nothing but a wrong file keeps the simulation from running.
* **Seed merge.**  The rows of one flow are found in the files of all seeds by
  position in a sorted frame; which rows a flow has depends on what the window saw
  of it, and several flows may have the same client and server; sums and means treat
  missing values differently; the three merged files are numbered separately and
  joined by these numbers.
  Correct means: an averaged row averages one row of each seed with the same labels, a
  joined row compares a flow with its own analysis.
* **Run scripts.**  Directories are reused, exit statuses ignored, the
  workers of a pool compile in one directory while others run what they
  compile, and a failed worker stops the script and not the other workers.
  Correct means: no result mixes two simulations, nobody runs or waits for a half-written
  executable, what is collected was computed with the tree it is collected for.

`PROJECT.json` lists these hazards at their lines, with the properties that
cover them or the reason why none does.

## 2. Modules

| Module | What it is |
|---|---|
| `WindowReport` | abstract: packets are counted, windows closed, and each closed window published or skipped before the next is closed |
| `LogWindows` | the periodic events of `FlowLogV2` / `MimicLogV2` on the simulator's event queue; implements `WindowReport` |
| `LogWindowsProofs` | theorems about `LogWindows` |
| `MCLogWindows` | the leads of the two logs |
| `PacketFates` | abstract: a packet is seen once and then received or lost once; the counters follow |
| `FlowMonitor` | monitor, probes and logs over a network of queues; implements `PacketFates` |
| `FlowMonitorProofs` | theorems about `FlowMonitor`: types, packet counts, the tracked packets, the refinement |
| `FlowLogProofs` | extends `FlowMonitorProofs`: theorems about the stages of the logs, the excess of a warm-up, and the balance of arrivals, departures and latencies |
| `MCFlowMonitor` | packets, flows and two ECMP paths |
| `DeviceGraph` | devices, their queues, links, and walks over them; shared by both trees |
| `FatTree` | `create`, `link` and `route` of the fat tree, as operators |
| `TreeL2Custom` | the same of the two-level tree, for any number of ports and hosts |
| `Routing` | the two loops of `route()` over a tree of either kind, against the reference; instantiates both |
| `RoutingProofs` | theorems about `Routing` with `FatTree` and `TreeL2Custom` |
| `MCRouting` | the trees |
| `StageModel` | the window loop of the analytical model |
| `StageModelProofs` | theorems about `StageModel` |
| `MCStageModel` | composes `StageModel` with `FatTree`: the queues and splits are those of the tree with four pods |
| `GETraffic`, `MCGETraffic` | the traffic source |
| `GETrafficProofs` | theorems about `GETraffic` |
| `TrafficSetup`, `MCTrafficSetup` | the traffic set-up |
| `TrafficSetupProofs` | theorems about `TrafficSetup` |
| `SeedMerge` | the data frames of `functions.py`: sort, align, average, number, join |
| `RunScripts` | the three scripts with their worker processes, over the files `SeedMerge` defines |
| `RunScriptsProofs` | theorems about `RunScripts` and `SeedMerge` |
| `MCRunScripts` | two queues and the windows the simulations may measure |

How state and actions correspond to the code is listed definition by definition
under `map` in `PROJECT.json`; the essentials:

**LogWindows.**  `pending[k]` is the scheduled occurrence of event `k` (time
stamp and unique id, ordered as in `Scheduler::EventKey`), `uid` the simulator's
next id.  `UpdateWindow`, `DoAnalyticalModel` and `PrintLog` are the three
`Periodic*` functions with the re-arming `Simulator::Schedule` as part of the
step (`Fire`).  `ReportPacket` is a packet that FlowMonitor passes on, at any
time up to the next event and before or after events of the same tick.  `cur` is
the open window's accumulators, `tracker` what the last update stored; `win`,
`from` and `to` say which window that was and are not in the code.  The moments of a row (CA², CS², CD²,
rates) are left out.  `Kinds` and `Lead` make one module serve both logs.

**FlowMonitor.**  `net` is the truth about each packet, `tracked`, the
statistics and the two logs what the monitor believes.  One action for each trace of
`Ipv4FlowProbe` (`SendOutgoing`, `Forward`, `Deliver`, `Drop`), containing the
monitor's `Report...`, with its early returns; `StartRightNow`, `StopRightNow`;
`Finish` is the end of `main` with its last `CheckForLostPackets`.  As in the
code, a drop is counted whether or not the packet is tracked, and the periodic check,
which is commented out in the code, does not run.  `enable_log` and
`enable_mimic_log` are taken as true.  A dropped packet is not reported again.
`Routes` are the equal-cost paths of each flow.  As ECMP takes shortest paths
only, a hop is at the same distance on each path of a flow
(`DistanceAssumption`); without it the stage that the log records for a hop
would depend on which packet comes first.

**Routing.**  A queue is a pair of a device and its local queue id, instead of an
index into `globalQueues`.  `Route` is one round of `route()`'s two loops.  The
two-level tree is refused (`Linked` is false) where the code's sizes make `link()` index past
its switches; hosts beyond the last full edge switch stay without a link and get no
splits.  Any topology but `L2custom` stands for the fat tree.

**StageModel.**  Instead of numbers an element of a vector holds what it was
computed from (the split, the previous queue, the splits of the load), so that a
mix-up shows.  A file is read line by line (`OpenWindow`, `ReadLine`).  `Push` is the
`push_back` of several values to several vectors: what a queue gets are the
values meant for it, in order, each at its rank among their positions.  The code serves
the queues of a stage in the order of `globalQueues`; the model in any order.

**GETraffic.**  `events` is the source's part of the event queue, a set ordered by
time and id as in the scheduler.  `uid` is the simulator's next id as far as this source
advances it: only the order of its own ids matters.  A handle is an event id.  The
stop is scheduled only if there is a stop time.  Scheduling and cancelling inside
`ScheduleNextTx`, `ScheduleStartEvent`, `CancelEvents` are part of the calling event's
action.  Times and sizes are drawn from small sets, 0 included where the random
variable may return it.

**TrafficSetup.**  `ReadLine` is one line of the traffic file with everything it
installs, `RefuseLine` one that names a node there is not, at which the program ends; `AssignNode` and `InstallNode` are one round of the loops of the other
patterns; `StartApps` the loop over `app[0..appCount]`.

**SeedMerge.**  A simulation is the set of flows of its window, and a flow has any of
these rows without the others: one end to end if two packets or more were sent in
the window (`mimic-log-v2.cc:256`), one at each queue that packets have left in it
(`flow-log-v2.cc:383`); the one of the first queue is also its row in the mimic file.
A row counts packets of its own, so its mean size may be in another half than that of the
flow's other rows.  A row keeps the columns
the scripts sort, group and join by, and in place of its figures the set of
measurements they were computed from (`of`), so that an average over the wrong
rows shows; a missing value is the empty set.  A row's index in a sorted frame is its
rank; rows of equal labels keep the order of the file.  All that is assumed of a window
is that a simulation numbers its flows (`WindowsAssumption`): several flows of one client,
server and size are allowed, as the mimic traffic files have them.

**RunScripts.**  `pc` is the step of the running script and `worker[s]` that of
the pool's process for seed s; each step is one command or one function of the
script, with what it does to the files: `sim`, `header`, `ana` and `joined` are
what lies in a run directory, `merged` the averaged files.  `source`, `compiles` and
`built` are the regression tree's source and the one executable all workers make and run; it is
`Partial` while one of them links it.  `regression_tree_model.cpp` is not in the
repository: the tree at the start may or may not compile, and there may be no
executable, or an older one.  A file that is missing is `None`.  `Simulate` and `Analyse` have failing
alternatives, as the code does not look at the status: `failures` counts those of a
script, and the history variable `ran` holds the directories whose analysis it has
completed.  The two pools differ: the map of `multiprocessing` waits for all tasks and then raises the
exception of one that failed (`SimulationsEnd`), that of `billiard`, which
`analytical_compare.py` imports, raises the first one while the other workers are still at
work (`ComparisonFails`); neither is caught, and the script ends.

## 3. Runs

The systems of the simulator and of the analytical model end, so their runs set
`CHECK_DEADLOCK FALSE`.  The runs of `RunScripts` check for deadlock: a
user can always start another comparison.

| Run | Question and result |
|---|---|
| `flow_log_windows` | FlowLogV2 (leads 2 and 1), window 8, warm-up 4, up to tick 34, four packets. `StopTime` is within `ShortRun`, and updates, packets and prints meet on one tick.  No packet is lost, and the log implements `WindowReport`. |
| `mimic_log_windows` | MimicLogV2 (lead 1), window 4, warm-up 2, up to tick 27: longer than the horizon of 3 windows, so the drift is reached; up to it row k is window k and rows tile the time.  A second has 3 ticks, so that windows are no whole seconds; up to the horizon the stamp of a row tells its span, and no two rows have the same. |
| `flow_monitor_full` | two packets of a flow over two ECMP paths of three hops that part and join; time 0..4; any drops, overdue packets at the end.  Conservation, tracking, balance of arrivals, departures and latencies at each hop, stages; implements `PacketFates`. |
| `flow_monitor_restart` | three packets of two flows, one of them logged; the monitor is on in [0,2] and from 3 on, the warm-up ends at 2.  The weaker `Accounted` holds for any pattern of starts and stops, and departures exceed arrivals by early packets only. |
| `routing` | all pairs of hosts of the three-level tree of 4-port switches and of seven two-level trees, (ports, hosts) = (8,16), (4,4), (6,6), (8,10) with hosts left over, and (4,8), (8,12), (8,3), which are refused; against a reference (walks that get closer with each hop in the graph of the links), and counted against the tree's shape. |
| `stage_model` | two windows, each with a missing file, a file of two flows or a file of four flows with an unknown pair and a pair that occurs twice; all orders of queues in a stage.  The rows of a window are those of its own file, term by term. |
| `ge_traffic_limited` | byte limit 3, packets of 1 or 2 bytes, gaps 0 or 2, on times 1 or 2, off times 0 or 1, stopped at 5 or never.  Its chains never fork, the limit is never passed, and it is reached if nothing stops the source and the first packet after each switch-on fits in the on time (an on time shorter than the gap cancels the packet every time, and the limit is never reached). |
| `ge_traffic_exponential` | *violated, finding*: a drawn packet size replaces the mean and may be 0. |
| `traffic_setup_all` | four nodes: all draws of the three patterns, all files of up to four lines over three of the nodes, and files of up to two lines that may name a node there is not. |
| `run_scripts` | two seeds, two simulations, one training, any number of comparisons, one unforced failure of a command in each script run.  The first round's windows: four flows of both directions and sizes, the same in another order, or a window in which nothing has left a first queue (the merge breaks off).  The second round's: two flows of one client, server and size, a flow whose rows are of all three sizes, one that is sent and has not departed, one with a row at a later queue only.  Averages, joins and reports belong together, and every script ends. |
| `evaluation` | *violated, finding*: what is collected after a training includes a report made with the tree before. |
| `merged_ids` | *violated, finding*: one flow of a single packet, and the merged files disagree on flow ids. |

**Why the bounds are enough.**  In `LogWindows` what matters is the order of
the events, and that depends on the differences of their time stamps only; a window of four
or eight ticks runs through all of them, ties included, within a few windows.
(In a real run a window is 10^4 to 10^6 ticks, and the horizon as many windows: the drift stays
harmless there, which is what the theorems say for every window length.)  In
`FlowMonitor` every report touches one packet and one flow, the counters add up over
packets: two packets show overtaking on ECMP paths, a third a second flow, and
the proofs cover any number.  The fat tree with K = 4 has all the cases of
`route()` (same edge, same pod, different pods) with more than one choice at
each branching; the two-level trees have one and several hosts at an edge
switch, and each way in which the divisions do not come out.  `StageModel` needs two windows for remainders, two flows that
share a pair and a queue for positions.  `GETraffic` needs a limit that is
reached inside an on period and times that coincide; `MaxDraws = 8` cuts off
only sources whose first packet is cancelled again and again, of which `LimitReached` says nothing.  `TrafficSetup` needs three lines
to show a role overwritten twice.  In `RunScripts` the files of a seed meet
those of any other seed one pair at a time and the alignment is by position, so that a second
seed shows a shift (the configurations have three seeds); what is left over from an earlier
simulation, or tree, needs two of each (`MaxRounds = 2`, and `MaxTrainings = 1` beside
the tree and the executable of the start).  `MaxFailures = 1` bounds the commands that fail of
themselves in one run of a script; those that fail because of it, and makes of a tree that does not
compile, are not bounded.
`StopTime`, `MaxPackets`, `EndTime`, `Windows`, `MaxDraws`, `MaxRounds`, `MaxTrainings`,
`MaxFailures` are the bounds in the guards.

**Fairness.**  Three modules have a `FairSpec`.  `DefaultSimulatorImpl::Run` takes the
next event for as long as there is one and the simulator is not stopped: weak
fairness of the next event (`GETraffic`).  The simulation program is sequential: weak
fairness of the next step (`TrafficSetup`); there a round of the `while` loop
that draws a node that is not free is not a step, so no fairness of the random
generator is needed: `SetupEnds` says that there always is a free one.
In `RunScripts` the operating system runs every process: weak fairness of a step of some worker or
of the script, until none of them can go on; none is assumed of the user.

## 4. Proofs

All theorems hold for every value of the constants that satisfies the named
assumptions of the model's module; nothing is assumed beyond them, but where a
theorem names a condition (`ShortRun`, `AlwaysOn`).  TLC evaluates the assumptions in
every run.  Every listed theorem but the inductive invariants states a property that
a run checks, too.

### The window logs: `LogWindowsProofs`

For a lead of the update smaller than the window, without a bound on packets,
windows or times:

* `WindowsInvariant`: the inductive invariant `IInv`, made of the types,
  `Dates` (the n-th update is due n shortened periods after the warm-up, the n-th print n
  full windows, and every scheduled id is below the next one) and `Alternate` (updates are never behind
  the prints, and within the horizon at most one ahead).
  Neither `RowIsItsWindow` nor `NoPacketLost` is inductive without it: whether the
  next print finds its window depends on the dates of both chains.
* `TypeCorrect`, `RowsAreTheirWindows` (`RowIsItsWindow`), `NoPacketIsLost`
  (`NoPacketLost`): its consequences.  The lemmas `PrintAfterUpdate` and
  `UpdateAfterPrint` are the heart: dates and ids together order the two events,
  up to the horizon, where they may fall on the same tick.
* `RowsTileTime` (`RowsTile`): rows of consecutive prints cover adjacent spans of
  time.  Its invariant `Spans` says that window w lies between the ends of w - 1 and w
  shortened periods after the warm-up; `RowsAreTheirWindows` does the rest.
* `StampsNameWindows` (`StampNamesWindow`), for windows of any length and any second: the stamp of
  a row is the last whole second before the end of the row's own span, put off by the leads that
  the updates have gained on the prints since.  `Stamped` dates each row at its print and
  `RowsAreTheirWindows` says which update that print follows; with windows of a second or more it is
  past the span's start, and stamps of different rows differ, since prints are a window apart.
* `LogImplementsReport`: a run within the horizon implements `WindowReport`,
  each step of the log is a step of it or a stutter.

### The flow monitor: `FlowMonitorProofs`, `FlowLogProofs`

For every finite set of packets, all flows, paths and times.  The invariants build on each other:

| Theorem (property) | Invariant | What it adds |
|---|---|---|
| `TypeCorrect` (`TypeOK`) | `TInv` | the types, and that packets are on paths |
| `PacketsAccounted` (`Accounted`) | itself, with `TInv` | any starts and stops; `StepCounts` reduces each action to one of four effects on the counters of a flow |
| `PacketsConserved` (`Conserved`) | `Watch` | while a monitor that watches the whole run is not yet enabled no packet has been sent, and a packet in a queue before the end is tracked: a drop finds what it counts |
| `TracksNetwork` (`TracksTheNetwork`) | `Picture` | each record is that of the packet's place, also of those that only the last check removes |
| `StagesAlwaysAgree` (`StagesAgree`) | `Stages` | the stage of a log entry is the hop's distance on some path of the flow; with `DistanceAssumption` on all of them |
| `ExcessIsOfWarmUp` (`ExcessIsWarmUp`) | `Recorded`, `Excess`, `MimicExcess` | departures and the logged arrivals that are still to depart do not exceed arrivals and the early packets that are past their first logged event; any starts and stops |
| `LogsBalance` (`HopsBalance`) | `Timed`, `Balanced` | hop by hop in packets (`Arrived`), over the hops in time (`Summed`), against the mimic log (`Mimicked`) |

`ExcessIsWarmUp` and `HopsBalance` compare sums over packets and hops.  `Total` is a sum
as the number of its units, so that the lemmas `TotalAdd`, `TotalRemove` and
`TotalUpdate` follow from facts on cardinalities instead of an induction.
For the balance every step is brought into one of two forms: it logs nothing
of the flow (`Stays`), or takes one packet from one hop to the next, with the time it
waited (the lemmas `Pass...`).

`ImplementsFates` (`CountsFates`): under a monitor that watches the whole run each step is a
step of `PacketFates` or a stutter: `SendIsSee`, `DeliverIsReceive`, `DropIsLose`,
and `FinishIsLose`, where the last check loses a set of packets in one step.

### The routing tables: `RoutingProofs`

For the fat tree of every even K and the two-level tree of every even K and every N, whichever
of them `create()` and `link()` accept.

* `TypeCorrect` (`TypeOK`), `SplitsAreShortest` (`SplitsAreShortestWalks`) and
  `ReversesFlow` (`ReverseFlow`) follow from the inductive invariant `RouteInv`: the last flow
  pushed is that of two hosts of the tree, with the splits that the code's searches
  find for them.  What is hard is not that step but `Routed`, which says what these
  searches find, for any two hosts (`FatRoutes`, `CustomRoutes`).
* Where a port leads to (`FatHop`, `CustomHop`) gives the devices at each distance of
  a host (`FatSpheres`, `CustomSpheres`), hence how far two hosts are apart
  (`FatNear`, `CustomNear`).  The code looks for a port by the type, the
  pod or the identity of the device behind it, the reference for any port
  that leads one sphere closer; in each sphere these are the same ports.
* Distances are at most six: the recursive reference is unfolded that often
  (`TwoSteps`, `FourSteps`, `SixSteps`), and no induction is needed.
* Links have two directions (`FatClosed`, `CustomClosed`): in both trees a device that
  something leads to can be left the way it was reached (`WayBack`), so that each shortest
  walk has one back that mirrors it (`TwoMirror`, `FourMirror`, `SixMirror`).
* In the two-level tree `CustomSizes` shows that the integer divisions come out
  whenever `link()` is not refused: the links of a core switch use up its ports,
  those of an edge switch its upper half.  `CustomUnreached` shows what a division leaves
  over: nothing leads to a host whose edge switch has no port for it.
* `FlowsAreSpread` (`SplitsCounted`) counts the splits, by which the window loop divides data rates and latencies:
  1, K/2 or (K/2)² in the fat tree; in the two-level tree 1, or K/2 times the parallel links of a
  core switch to an edge switch, or none where the server has no port.  The searches of `route()` are
  evaluated (`FatSearches`, `CustomSearches`) and what they find is numbered without repetition
  (`Numbering`).

### The window loop: `StageModelProofs`

For any queues, routes, files and number of windows, any order of the queues of a
stage, and routes that have a queue at stage 0 and 5 and at each stage a queue of this stage or none:

* `LoopInvariant`: `IInv` is made of the types and, among others, `Reading` (while the file is
  read only first queues have splits), `Places` (a split is once at each
  queue of its route that is due: the first one, and those behind a served one;
  at no other), `ServedInOrder`, `Arguments` and `Results` (the vectors in step and
  from the queue before, the load from all splits that pass) and `Corrections`.
* `TypeCorrect`, `StaysInStep` (`VectorsInStep`), `RoutesAreFollowed`
  (`SplitsFollowTheirRoutes`), `NoLateArrivals` (the action property `NothingArrivesLate`) and
  `LatencyAddsUp` (`LatencyIsOfItsRoute`) follow.  None is inductive alone: that nothing arrives at a
  served queue needs the stages of routes and `ServedInOrder`; that the load of
  a result is complete needs `Places` at the stage.
* Lemmas: `NthIsOneEach` and `PushContents` (what `Push` appends, as the ranks of the positions),
  `NextOnRoute` and `PreviousOnRoute` (the next queue's previous one),
  `ServeTargets` (what the served queue passes on, and where).

### The traffic source: `GETrafficProofs`

For every distribution, limit, stop time and any drawn times, 0 included.
`SourceTypes` (`TypeOK`); then `Inv` adds to `OneChainEach` that nothing but the stop
is scheduled before the start, which precedes it (`StartsFirst`), and that a chain goes on only
on an open socket and the socket is open only below the limit (`OpenBelow`).  It gives
`ChainsHold` (`OneChainEach`: at most one pending event of each chain, and the one its
handle can cancel), `StaysClosed` (`ClosedIsSilent`) and `LimitHolds` (the action
property `StopsAtTheLimit`).

### The traffic set-up: `TrafficSetupProofs`

For every even number of nodes, all draws and all files.  `SetupInvariant`: `IInv`
says, of the patterns, which nodes have which role and peer while the first loop runs
(`Assigned`: pairs for oneToOne, a centre drawn first for the others), and
which have their sink or source while the second does (`Installed`); of a file, that the
servers of the lines read have sinks, though later lines overwrite roles, and exactly
one if the file is grouped (`FileRead`).  `TypeCorrect`, `BindsOnce`
(`GroupedBindsOnce`) and `SourcesReach` (`SourcesReachSinks`) follow; for oneToOne the
number of sources is that of pairs, from a bijection between clients and servers.

### The run scripts: `RunScriptsProofs`

For two or more seeds, any number of rounds, trainings, failures and queues and any windows of
finitely many flows with ids of their own:

* `MergedOfOneRound` (`MergedIsOfOneRound`) and `SeedReportsOfOneRound`
  (`SeedReportsAreOfOneRound`).  Lemmas on `SeedMerge` say
  that sorting, numbering, averaging, analysing and joining rows of one round
  give rows of that round.  The invariant `IInv` says what a worker may have left in its
  directory at each of its steps (`WorkerFiles`: after the clean-up neither a
  simulation nor an analysis, at its end a simulation of this round), that an
  analysis in a directory is one of the simulation beside it (`AnalysisMatches`),
  and when a report is one of both (`ReportsMatch`).  Neither property is
  inductive without it: that the analysis matches depends on the clean-up
  of the simulation script, a whole script earlier.
* `ScriptsTypes` (`TypeOK`) and `SeedReportsCurrent` (`SeedReportsAreCurrent`), from `CInv`: a
  simulation is of a round there has been and of a window it may measure (`SimsMeasured`);
  only the comparison links, and while somebody links the tree compiles (`LinksEnd`); what a worker has
  analysed is its own seed's, by the executable that there is at the end
  (`WorkersCurrent`, `ReportsCurrent`), however the workers that compile in the same directory
  interleave and whichever of their commands fail.  `OwnReport` says what the join of a seed's
  own files gives: each flow has one id in all of them, so no flow meets another's analysis, whatever
  rows it lacks.
* `RowsAverage` (`RowsAverageOneEach`): merged files are those of the simulations that lie in
  the directories, if these are of one round.  A row's place in a sorted file is the number of rows
  before it.  The ranks of a file of n rows are 1 to n, each taken once (`RanksNumber`), and two files with
  as many rows of each label have the same label at each rank (`RanksAreLabels`), so that aligning
  by position averages one row of each seed with one label (`MergesAre`, `MergedAverages`,
  `AveragesOne`), however many rows share it.
* `MergedReportJoins` (the action property `MergedJoinsFlows`), from the invariant
  `MergedAnalysed`.  The three merged files have ids of their own: positions in two of them,
  numbers of groups in the third.  A flow with a row in both of the first two has the same
  rank in both (`TwinRanks`, `CompleteTwins`), so an end-to-end row meets the
  analysis of the same flows (`FlowsJoin`).  The number of a group is that rank, too, when
  each group has one flow (`GroupIsRank`), and then the queues meet theirs (`QueuesJoin`).  The conditions are
  needed: finding 3 is what happens when a flow lacks its row end to end.

### Only model-checked

Liveness (`LimitReached`, `SetupEnds`, `ScriptsEnd`), which is out of the prover's
reach; `RowsAreLines`, which speaks of every window's rows by position; and what the runs of the
findings show.  Every other property of a run is a theorem's.

The runs and theorems with `AlwaysOn` (`Conserved`, `CountsFates` and the others of
`flow_monitor_full`) meet a packet as overdue in the last check only, after which the run ends: that
a packet given up as overdue is delivered later is not among their behaviours.

## 5. Findings

1. `generalized-exponential-traffic.cc:291` overwrites the mean packet size
   with each exponential draw, and the draw may be 0.  Run `ge_traffic_exponential`.
2. `analytical_compare.py:220` collects the merged files' report with those of
   the seeds; after a training it is one of the tree before.  Run `evaluation`.
3. `functions.py:414` numbers the merged `end_to_end_latency.csv` by its own
   rows, which lack flows of one packet, while the mimic file and the flow log have a
   row of each flow that has left its first queue: ids differ between the merged files.
   Run `merged_ids`.

Also seen, and without a run: `flow-monitor.cc:525` counts a drop of a
packet it does not track as lost, though the header describes lost packets as
transmitted ones, so that a monitor that starts after the traffic may report more lost
packets than sent ones (`Accounted` is stated accordingly);
`dcn_fattree_finite_large_v3.cc:554` reads a status that line 585 overwrites, so
that the lines server, client, server of one node give it a second sink
(`GroupedBindsOnce` says when it has one: files grouped by server are those that
`generate_traffic_synthetic.py` writes, while `generate_traffic_mimic.py` groups by client);
the help text of `auto_oop/main.cpp:51` offers the topology `L2Custom`, but line 82 compares with
`L2custom`, so that the documented spelling gives the fat tree; and at line 732 only `app[0]` gets its start and stop time in
the patterns other than the custom one (`StartApps`).

## 6. Not modelled, and plan

Not modelled: floating-point formulas (their inputs are tracked, their values
are not); the synthetic path of the analytical model (`load_traffic_file`, the
`calc_` functions without `_mimic`); fragments, histograms, jitter and XML in the
flow monitor; topology, addresses and TCP in the simulator programs; learning,
plots, cluster scripts, and ns-3 apart from the event queue.  In the run scripts:
several windows per simulation, more than one configuration, two scripts at the
same time, a single seed (for which `merge_seeds` fails), a worker that is killed by a
signal, for which the map of `multiprocessing` would wait for ever, error columns and
summaries of the reports.

Most lines of Python in the repository are ns-3's generated bindings
(`modulegen__gcc_*.py`, several hundred thousand lines), and the core of MQL is C++: the
share of Python lines the models stand for is small for that reason, and not a
measure of how much of MQL they cover.

Plan, in this order:

1. `MCStageModel` over the two-level tree.
2. `QueueMonitor` (windows per queue) and `LoadTrace`, as instances or variants of
   `LogWindows` and `GETraffic`; the second chain of window events after a
   restart of the monitor.
