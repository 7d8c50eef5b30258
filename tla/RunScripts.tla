------------------------------ MODULE RunScripts ------------------------------
(***************************************************************************)
(* The scripts that run the experiments, and the files they hand each      *)
(* other through runs/ and auto_oop/:                                      *)
(*                                                                         *)
(*   - run_sim_analytical_compare.py: a worker process per random seed     *)
(*     simulates, then the seeds are merged and the merged files analysed; *)
(*   - utils/build_dataset_train_evaluate.py: trains a regression tree     *)
(*     with the merged report, compiles it into the analytical model, and  *)
(*     compares with it;                                                   *)
(*   - analytical_compare.py: a worker process per seed compiles, analyses *)
(*     and joins, then all reports are collected.                          *)
(*                                                                         *)
(* One configuration.  Directory s of Seeds is runs/<tag>_s<seed>, and     *)
(* MergedDir is runs/<tag>_merged.  A user starts one script at a time.    *)
(***************************************************************************)
EXTENDS SeedMerge

CONSTANTS
  NumSeeds,         (* the number of random seeds of the configuration      *)
  Windows,          (* the windows a simulation may measure, for each round *)
  MaxRounds,        (* bound: simulations of the configuration              *)
  MaxTrainings,     (* bound: regression trees trained                      *)
  MaxFailures,      (* bound: commands that fail of themselves in a script  *)
  None,
  Partial           (* an executable that is being written                  *)

Seeds == 1..NumSeeds
MergedDir == 0
Dirs == {MergedDir} \cup Seeds

\* With one seed merge_seeds fails: a column has no rows to average over.
ASSUME SeedsAssumption == NumSeeds \in Nat /\ NumSeeds > 1
ASSUME BoundsAssumption ==
  MaxRounds \in Nat /\ MaxTrainings \in Nat /\ MaxFailures \in Nat

\* A simulation numbers its flows.  Any number of them may have the same client
\* and server.
ASSUME WindowsAssumption ==
  \A r \in 1..MaxRounds : \A flows \in Windows[r] :
    /\ flows \subseteq Flows /\ IsFiniteSet(flows)
    /\ \A f, g \in flows : f.id = g.id => f = g

ASSUME NoneAssumption ==
  /\ None # Partial /\ None \notin Nat /\ Partial \notin Nat
  /\ None \notin Analyses

VARIABLES
  pc,           (* the step of the running script, "idle" if there is none  *)
  worker,       (* what the worker process of each seed has done            *)
  round,        (* simulations of the configuration so far                  *)
  sim,          (* the files of each seed's simulation                      *)
  header,       (* whether they have their header                           *)
  merged,       (* the averaged files in MergedDir                          *)
  ana,          (* reports_ana/latency_per_{flow,queue}.csv of each dir     *)
  joined,       (* reports_ana/latency_per_{flow,queue}_merged.csv          *)
  source,       (* the version of auto_oop/regression_tree_model.cpp        *)
  compiles,     (* whether it compiles                                      *)
  built,        (* the version in the executable analytical_model           *)
  failures,     (* commands of this script that failed of themselves        *)
  ran           (* history: the directories this script has analysed        *)

files == <<sim, header, merged, ana, joined>>
tools == <<source, compiles, built>>
vars == <<pc, worker, round, files, tools, failures, ran>>

-------------------------------------------------------------------------------

\* The tree in auto_oop/ at the start has number 1 and need not compile.  There
\* is no executable, or that of an earlier tree.
Init ==
  /\ pc = "idle" /\ worker = [s \in Seeds |-> "none"]
  /\ round = 0
  /\ sim = [s \in Seeds |-> None] /\ header = [s \in Seeds |-> FALSE]
  /\ merged = None
  /\ ana = [d \in Dirs |-> None] /\ joined = [d \in Dirs |-> None]
  /\ source = 1 /\ compiles \in BOOLEAN /\ built \in {None, 0}
  /\ failures = 0 /\ ran = {}

\* A command fails of itself, not for want of a file or of an executable.
Fails == failures < MaxFailures /\ failures' = failures + 1

NothingFails == UNCHANGED failures

\* What a process does next, and what its parent waits for.
Goto(step) == pc' = step
Continue(step) == Goto(step) /\ UNCHANGED <<failures, ran>>
EndScript == Goto("idle") /\ failures' = 0 /\ ran' = {}
Becomes(s, state) == worker' = [worker EXCEPT ![s] = state]

Ended(s) == worker[s] \in {"done", "failed"}
AllEnded == \A s \in Seeds : Ended(s)

AllDone == \A s \in Seeds : worker[s] = "done"

\* A worker fails by an exception.  One that is killed by a signal, for which
\* Pool.map would wait in vain, is not modelled.
PoolReturns == worker' = [s \in Seeds |-> "none"]

StartPool(step) ==
  /\ Continue(step)
  /\ worker' = [s \in Seeds |-> "todo"]

-------------------------------------------------------------------------------
(* run_sim_analytical_compare.py                                           *)

StartSimulations ==
  /\ pc = "idle" /\ round < MaxRounds
  /\ StartPool("simulate")
  /\ round' = round + 1
  /\ UNCHANGED <<files, tools>>

\* Mutant: the files of an earlier run are left in the directory.
CleanDirNot(s) ==
  /\ pc = "simulate" /\ worker[s] = "todo"
  /\ Becomes(s, "empty")
  /\ UNCHANGED <<pc, round, files, tools, failures, ran>>

\* Mutant: only the simulation's files are removed.
CleanDirOfSimulation(s) ==
  /\ pc = "simulate" /\ worker[s] = "todo"
  /\ Becomes(s, "empty")
  /\ sim' = [sim EXCEPT ![s] = None]
  /\ header' = [header EXCEPT ![s] = FALSE]
  /\ UNCHANGED <<pc, round, merged, ana, joined, tools, failures, ran>>

CleanDir(s) ==
  /\ pc = "simulate" /\ worker[s] = "todo"
  /\ Becomes(s, "empty")
  /\ sim' = [sim EXCEPT ![s] = None]
  /\ header' = [header EXCEPT ![s] = FALSE]
  /\ ana' = [ana EXCEPT ![s] = None]
  /\ joined' = [joined EXCEPT ![s] = None]
  /\ UNCHANGED <<pc, round, merged, tools, failures, ran>>

\* ./waf runs the simulator, which may fail: its status is not looked at.
Simulate(s) ==
  /\ pc = "simulate" /\ worker[s] = "empty"
  /\ Becomes(s, "simulated")
  /\ \/ /\ \E flows \in Windows[round] :
             sim' = [sim EXCEPT ![s] = [round |-> round, flows |-> flows]]
        /\ NothingFails
     \/ Fails /\ UNCHANGED sim
  /\ UNCHANGED <<pc, round, header, merged, ana, joined, tools, ran>>

\* A file the simulator has written no row to does not exist.
Written(s) ==
  sim[s] # None /\ EndToEndRows(s, sim[s]) # {} /\ FlowQueueRows(s, sim[s]) # {}

\* merge_header fails to open a file that is missing.
AttachHeaders(s) ==
  /\ pc = "simulate" /\ worker[s] = "simulated"
  /\ IF Written(s)
     THEN Becomes(s, "done") /\ header' = [header EXCEPT ![s] = TRUE]
     ELSE Becomes(s, "failed") /\ UNCHANGED header
  /\ UNCHANGED <<pc, round, sim, merged, ana, joined, tools, failures, ran>>

\* The map of multiprocessing returns when all tasks have ended, and then raises
\* the exception of one that failed; the script does not catch it.
SimulationsEnd ==
  /\ pc = "simulate" /\ AllEnded
  /\ PoolReturns
  /\ IF AllDone THEN Continue("merge") ELSE EndScript
  /\ UNCHANGED <<round, files, tools>>

\* MergedDir is created when it is missing, and never emptied.  merge_seeds
\* breaks off when a seed has no mimic file.
Merge ==
  /\ pc = "merge"
  /\ IF \A s \in Seeds : MimicRows(s, sim[s]) # {}
     THEN /\ merged' = [round |-> round, files |-> MergeSeeds(sim, NumSeeds)]
          /\ Continue("analyse")
     ELSE UNCHANGED merged /\ EndScript
  /\ UNCHANGED <<worker, round, sim, header, ana, joined, tools>>

Runs == built \notin {None, Partial}

\* ./analytical_model on directory d, whose mimic file has these rows.  When it
\* does not start, the files of an earlier run stay; when it breaks off, they
\* have but their header.  Its status is not looked at.
Analyse(d, mimic) ==
  \/ /\ Runs
     /\ ana' = [ana EXCEPT ![d] = AnalyticalModel(mimic, built)]
     /\ ran' = ran \cup {d}
     /\ NothingFails
  \/ /\ Runs /\ Fails
     /\ ana' = [ana EXCEPT ![d] = AnalyticalModel({}, built)]
     /\ UNCHANGED ran
  \/ /\ IF Runs THEN Fails ELSE NothingFails
     /\ UNCHANGED <<ana, ran>>

AnalyseMerged ==
  /\ pc = "analyse"
  /\ Analyse(MergedDir, merged.files.mimic)
  /\ Goto("join")
  /\ UNCHANGED <<worker, round, sim, header, merged, joined, tools>>

JoinMerged ==
  /\ pc = "join"
  /\ EndScript
  /\ IF ana[MergedDir] = None
     THEN UNCHANGED joined
     ELSE joined' = [joined EXCEPT ![MergedDir] =
            Report(merged.files.endToEnd, merged.files.flowQueue, ana[MergedDir])]
  /\ UNCHANGED <<worker, round, sim, header, merged, ana, tools>>

-------------------------------------------------------------------------------
(* build_dataset_train_evaluate.py: the data set is MergedDir's report,    *)
(* and the script ends if there is none.                                   *)

Train ==
  /\ pc = "idle" /\ source < 1 + MaxTrainings
  /\ joined[MergedDir] # None
  /\ source' = source + 1
  /\ compiles' \in BOOLEAN
  /\ Continue("make")
  /\ UNCHANGED <<worker, round, files, built>>

Make ==
  /\ pc = "make"
  /\ built' = IF compiles THEN source ELSE built
  /\ StartPool("compare")
  /\ UNCHANGED <<round, files, source, compiles>>

-------------------------------------------------------------------------------
(* analytical_compare.py, started by the user or by the training script.   *)

StartComparison ==
  /\ pc = "idle"
  /\ StartPool("compare")
  /\ UNCHANGED <<round, files, tools>>

\* Mutant: workers compile only when there is no executable.
StartMakeOnce(s) ==
  /\ pc = "compare" /\ worker[s] = "todo"
  /\ IF built = None /\ compiles
     THEN Becomes(s, "linking") /\ built' = Partial
     ELSE Becomes(s, "made") /\ UNCHANGED built
  /\ UNCHANGED <<pc, round, files, source, compiles, failures, ran>>

\* Each worker compiles; while make links the executable cannot be run.
StartMake(s) ==
  /\ pc = "compare" /\ worker[s] = "todo"
  /\ IF built # source /\ compiles
     THEN Becomes(s, "linking") /\ built' = Partial
     ELSE Becomes(s, "made") /\ UNCHANGED built
  /\ UNCHANGED <<pc, round, files, source, compiles, failures, ran>>

Linking == {s \in Seeds : worker[s] = "linking"}

\* Mutant: a worker compiles again when another one still does.
EndMakeAgain(s) ==
  /\ pc = "compare" /\ worker[s] = "linking"
  /\ Becomes(s, IF Linking # {s} THEN "todo" ELSE "made")
  /\ built' \in IF Linking = {s} THEN {source} ELSE {source, Partial}
  /\ UNCHANGED <<pc, round, files, source, compiles, failures, ran>>

\* Of several that link at the same time, one may spoil what another wrote.
EndMake(s) ==
  /\ pc = "compare" /\ worker[s] = "linking"
  /\ Becomes(s, "made")
  /\ built' \in IF Linking = {s} THEN {source} ELSE {source, Partial}
  /\ UNCHANGED <<pc, round, files, source, compiles, failures, ran>>

\* With no simulation in the directory there is nothing to analyse, and the
\* join will fail for want of the simulation's files.
MimicInput(s) == IF sim[s] = None THEN {} ELSE MimicRows(s, sim[s])

AnalyseSeed(s) ==
  /\ pc = "compare" /\ worker[s] = "made"
  /\ Becomes(s, "analysed")
  /\ Analyse(s, MimicInput(s))
  /\ UNCHANGED <<pc, round, sim, header, merged, joined, tools>>

JoinSeed(s) ==
  /\ pc = "compare" /\ worker[s] = "analysed"
  /\ IF header[s] /\ ana[s] # None
     THEN /\ Becomes(s, "done")
          /\ joined' = [joined EXCEPT ![s] =
               Report(EndToEndRows(s, sim[s]), FlowQueueRows(s, sim[s]), ana[s])]
     ELSE Becomes(s, "failed") /\ UNCHANGED joined
  /\ UNCHANGED <<pc, round, sim, header, merged, ana, tools, failures, ran>>

ComparisonsEnd ==
  /\ pc = "compare" /\ AllDone
  /\ PoolReturns /\ Continue("collect")
  /\ UNCHANGED <<round, files, tools>>

\* The map of billiard raises the exception of the first task that fails, and
\* the script ends with the workers that are still at work.  What they have
\* started goes on: a make ends before the user starts the next script.
ComparisonFails ==
  /\ pc = "compare" /\ Linking = {}
  /\ \E s \in Seeds : worker[s] = "failed"
  /\ PoolReturns /\ EndScript
  /\ UNCHANGED <<round, files, tools>>

\* glob runs/<tag>*/reports_ana/latency_per_queue_merged.csv
Reports == {d \in Dirs : joined[d] # None}

\* The reports are put together in a file of MergedDir that no script reads.
Collect ==
  /\ pc = "collect"
  /\ EndScript
  /\ UNCHANGED <<worker, round, files, tools>>

-------------------------------------------------------------------------------

\* A worker process, the running script, and the user.
WorkerStep(s) ==
  \/ CleanDir(s) \/ Simulate(s) \/ AttachHeaders(s)
  \/ StartMake(s) \/ EndMake(s) \/ AnalyseSeed(s) \/ JoinSeed(s)

ScriptStep ==
  \/ SimulationsEnd \/ Merge \/ AnalyseMerged \/ JoinMerged
  \/ Make \/ ComparisonsEnd \/ ComparisonFails \/ Collect

UserStep == StartSimulations \/ Train \/ StartComparison

SystemStep == (\E s \in Seeds : WorkerStep(s)) \/ ScriptStep

Next == SystemStep \/ UserStep

Spec == Init /\ [][Next]_vars

\* The operating system runs the processes; users need not do anything.
FairSpec == Spec /\ WF_vars(SystemStep)

-------------------------------------------------------------------------------

MergedRows == merged.files.mimic \cup merged.files.endToEnd \cup merged.files.flowQueue

Sources == [seed : Seeds, round : 1..MaxRounds, flow : Nat, size : Sizes, hop : Places]

IsRow(row) ==
  /\ row.id \in Nat \ {0} /\ row.client \in Nat /\ row.server \in Nat
  /\ row.hop \in Places
  /\ row.of \subseteq Sources

(***************************************************************************)
(* The types of the variables; the rows of the merged files are numbered   *)
(* from 1 on.                                                              *)
(***************************************************************************)
TypeOK ==
  /\ pc \in {"idle", "simulate", "merge", "analyse", "join", "make", "compare", "collect"}
  /\ worker \in [Seeds -> {"none", "todo", "empty", "simulated", "linking", "made",
                           "analysed", "done", "failed"}]
  /\ round \in 0..MaxRounds
  /\ \A s \in Seeds : sim[s] # None => sim[s].round \in 1..round
  /\ header \in [Seeds -> BOOLEAN]
  /\ merged # None =>
       /\ merged.round \in 1..round
       /\ \A row \in MergedRows : IsRow(row)
  /\ DOMAIN ana = Dirs /\ DOMAIN joined = Dirs
  /\ source \in 1..1 + MaxTrainings /\ compiles \in BOOLEAN
  /\ built \in {None, Partial} \cup 0..source
  /\ failures \in 0..MaxFailures /\ ran \subseteq Dirs

(***************************************************************************)
(* The averaged files are made of measurements of one simulation of the    *)
(* configuration, in which every seed took part: whatever simulation       *)
(* failed or was repeated, no file of an earlier run is mixed in.  While   *)
(* they are analysed and joined that is the latest simulation.             *)
(***************************************************************************)
MergedIsOfOneRound ==
  merged # None =>
    /\ \A row \in MergedRows : \A x \in row.of : x.round = merged.round
    /\ pc \in {"analyse", "join"} =>
         merged.round = round /\ \A s \in Seeds : sim[s] # None /\ sim[s].round = round

-------------------------------------------------------------------------------

\* The rows of each seed that are merged.
MimicPart(s) == SplitBySize(MimicRows(s, sim[s]))
EndToEndPart(s) == SplitBySize(EndToEndRows(s, sim[s]))
FlowQueuePart(s) == SplitBySize(FlowQueueRows(s, sim[s]))

\* What the merge sorts by.
Label(row) == <<Class(row), row.client, row.server, row.hop>>

Like(row, rows) == {r \in rows : Label(r) = Label(row)}

\* The seeds' files have as many rows of each label.
Alike(Part(_)) ==
  \A s, t \in Seeds : \A row \in Part(s) :
    Cardinality(Like(row, Part(t))) = Cardinality(Like(row, Part(s)))

\* Each row of the frame averages one row of each seed, all with its label, and
\* no row is lost or used twice.
AveragesOneEach(frame, Part(_)) ==
  /\ \A s \in Seeds :
       /\ \A r \in frame : \E row \in Part(s) :
            row.of = {x \in r.of : x.seed = s} /\ Label(row) = Label(r)
       /\ \A row \in Part(s) : \E r \in frame : row.of \subseteq r.of
  /\ \A r, q \in frame : r.of \cap q.of # {} => r = q

(***************************************************************************)
(* merge_seeds finds the rows to average in the files of all seeds by      *)
(* position alone.  Whatever the order and the flow ids of the simulations *)
(* and however many flows have the same client and server: in a file of    *)
(* which the seeds have as many rows of each label, each averaged row is   *)
(* that of one row of each seed with its own size class, client, server    *)
(* and queue, and every row of every seed is in one average.               *)
(***************************************************************************)
RowsAverageOneEach ==
  pc = "analyse" =>
    /\ Alike(MimicPart) => AveragesOneEach(merged.files.mimic, MimicPart)
    /\ Alike(EndToEndPart) => AveragesOneEach(merged.files.endToEnd, EndToEndPart)
    /\ Alike(FlowQueuePart) => AveragesOneEach(merged.files.flowQueue, FlowQueuePart)

-------------------------------------------------------------------------------

AllAlike == Alike(MimicPart) /\ Alike(EndToEndPart) /\ Alike(FlowQueuePart)

\* Every flow has a row from end to end and one at its first queue, and its
\* packets are in one half of the size in all its rows.
Complete ==
  \A s \in Seeds : \A f \in sim[s].flows :
    /\ {EndToEnd, FirstHop} \subseteq DOMAIN f.size
    /\ \A place \in DOMAIN f.size : f.size[place] = f.size[EndToEnd]

\* No two flows of a client and a server are of the same half.
OneOfAKind ==
  \A s \in Seeds : \A q, r \in MimicPart(s) : Group(q) = Group(r) => q = r

\* The flows, of each seed, that a row was measured at.
Owners(row) == {<<x.seed, x.flow>> : x \in row.of}

\* Each row is joined once, with figures of the same flows.
EachMeetsItself(joins, rows) ==
  /\ \A r \in joins : Owners(r.sim) = Owners(r.ana)
  /\ \A row \in rows : \E r \in joins : r.sim = row
  /\ \A p, q \in joins : p.sim = q.sim => p = q

(***************************************************************************)
(* The join that makes the report the training starts from.  The merged    *)
(* files are numbered separately, end_to_end and mimic by their rows and   *)
(* the flow log by groups; yet every row of the first is joined with the   *)
(* analysis of the same flows, when these are all in both files and the    *)
(* seeds' files are alike, and every row of the flow log is when besides   *)
(* no two flows of a size class have the same client and server.           *)
(***************************************************************************)
MergedJoinsFlows ==
  [][pc = "join" /\ MergedDir \in ran /\ Complete /\ AllAlike =>
       LET report == joined'[MergedDir] IN
       /\ EachMeetsItself(report.flows, merged.files.endToEnd)
       /\ OneOfAKind => EachMeetsItself(report.queues, merged.files.flowQueue)]_vars

-------------------------------------------------------------------------------

\* What a seed's own report should have: its flows that have a row both from end
\* to end and at the first queue, the only one the analysis knows of, and the
\* queues of all flows it knows.
OwnFlows(s) ==
  {[sim |-> Row(s, sim[s].round, f, EndToEnd), ana |-> Row(s, sim[s].round, f, FirstHop)] :
     f \in {g \in sim[s].flows : {EndToEnd, FirstHop} \subseteq DOMAIN g.size}}

OwnQueues(s) ==
  UNION {{[sim |-> Row(s, sim[s].round, f, hop),
           ana |-> [Row(s, sim[s].round, f, FirstHop) EXCEPT !.hop = hop]] :
             hop \in Hops \cap DOMAIN f.size} :
           f \in {g \in sim[s].flows : FirstHop \in DOMAIN g.size}}

(***************************************************************************)
(* When a comparison collects its reports, each one of a seed that could   *)
(* be analysed has every flow and queue its files know, once, with the     *)
(* analysis of the same flow, whatever flows the simulation has seen and   *)
(* however the workers' compiling, analysing and joining interleave.  All  *)
(* of them were computed with one executable, half-written ones and makes  *)
(* that failed notwithstanding, and it is that of the tree in auto_oop/    *)
(* whenever this one compiles.                                             *)
(***************************************************************************)
SeedReportsAreCurrent ==
  pc = "collect" =>
    /\ compiles => built = source
    /\ \A s \in ran \cap Seeds :
         /\ joined[s].flows = OwnFlows(s)
         /\ joined[s].queues = OwnQueues(s)
         /\ joined[s].tree = built

(***************************************************************************)
(* Whatever commands failed unchecked, no report of a seed that is         *)
(* collected mixes two simulations: its measurements and the analysis      *)
(* they are compared with are those of the seed's last simulation.         *)
(***************************************************************************)
SeedReportsAreOfOneRound ==
  pc = "collect" =>
    \A s \in Seeds : \A r \in joined[s].flows \cup joined[s].queues :
      \A x \in r.sim.of \cup r.ana.of : x.round = sim[s].round

(***************************************************************************)
(* Every script ends, whatever commands of it fail and whatever workers by *)
(* an exception: no worker waits for the executable another one writes,    *)
(* and the parent's pool returns.                                          *)
(***************************************************************************)
ScriptsEnd == pc # "idle" ~> pc = "idle"

(***************************************************************************)
(* Said of the comparison by the training script ("Running analytical      *)
(* models to evaluate performance" of the new model, lines 411 to 419): if *)
(* the tree it trained compiles and every seed is analysed, what is        *)
(* collected was computed with this tree.  It does not hold: the merged    *)
(* files' report in MergedDir was computed with the one before, and        *)
(* matches the pattern.                                                    *)
(***************************************************************************)
EvaluatesTheNewModel ==
  pc = "collect" /\ source > 1 /\ compiles /\ Seeds \subseteq ran
    => \A d \in Reports : joined[d].tree = source

(***************************************************************************)
(* Said of the merged files ("We assign flow IDs first to ACK and then to  *)
(* DATA, because the other files are sorted by meanPacketSize", lines 318  *)
(* and 319 of functions.py): a flow has one id in all three.  It does not  *)
(* hold: a flow of one packet is missing in end_to_end_latency.csv, and    *)
(* all flows after it get a smaller id there.                              *)
(***************************************************************************)
MergedIdsAgree ==
  merged # None =>
    \A a, b \in MergedRows :
      a.id = b.id /\ a.of # {} /\ b.of # {} /\ Class(a) = Class(b)
        => a.client = b.client /\ a.server = b.server

===============================================================================
