--------------------------- MODULE RunScriptsProofs ---------------------------
(***************************************************************************)
(* Theorems about the run scripts, for any number of seeds, rounds and     *)
(* trainings and any windows.                                              *)
(*                                                                         *)
(*   - IInvariant: no merge, analysis or join mixes two rounds, whatever   *)
(*     commands fail unchecked and however workers interleave.             *)
(*   - CInvariant: the types, and what the workers of a comparison have    *)
(*     compiled, analysed and joined so far.                               *)
(*   - The sort of two files with as many rows of each label puts the same *)
(*     label at each rank (RanksAreLabels); so an average over the rows at *)
(*     a position is one of the same label (AveragesOne), and the separate *)
(*     numbers of the merged files meet (FlowsJoin, QueuesJoin).           *)
(***************************************************************************)
EXTENDS RunScripts, FiniteSetTheorems, TLAPS

-------------------------------------------------------------------------------
(* The operators on rows keep the round of the measurements.               *)

IsRecord(r) ==
  r = [id |-> r.id, client |-> r.client, server |-> r.server, hop |-> r.hop, of |-> r.of]

IsFrame(x) ==
  x = [seed |-> x.seed, index |-> x.index, row |-> x.row] /\ IsRecord(x.row)

OfRound(rows, n) == \A r \in rows : IsRecord(r) /\ \A x \in r.of : x.round = n

FramesOfRound(frames, n) ==
  \A x \in frames : IsFrame(x) /\ \A y \in x.row.of : y.round = n

LEMMA OfReplaced ==
  ASSUME NEW r, IsRecord(r), NEW S
  PROVE  [r EXCEPT !.of = S] = [id |-> r.id, client |-> r.client, server |-> r.server,
                                hop |-> r.hop, of |-> S]
BY DEF IsRecord

LEMMA IdReplaced ==
  ASSUME NEW x, IsFrame(x), NEW id
  PROVE  WithId(x, id) = [seed |-> x.seed, index |-> x.index,
                          row |-> [id |-> id, client |-> x.row.client, server |-> x.row.server,
                                   hop |-> x.row.hop, of |-> x.row.of]]
PROOF
<1>1. PICK row : row = x.row /\ x = [seed |-> x.seed, index |-> x.index, row |-> row]
                 /\ row = [id |-> row.id, client |-> row.client, server |-> row.server,
                           hop |-> row.hop, of |-> row.of]
  BY DEF IsFrame, IsRecord
<1>2. WithId(x, id) = [seed |-> x.seed, index |-> x.index, row |-> [row EXCEPT !.id = id]]
  BY <1>1 DEF WithId
<1>3. [row EXCEPT !.id = id] = [id |-> id, client |-> row.client, server |-> row.server,
                                hop |-> row.hop, of |-> row.of]
  BY <1>1
<1>q. QED BY <1>1, <1>2, <1>3

LEMMA RowFields ==
  ASSUME NEW s, NEW n, NEW f, NEW place
  PROVE  LET row == Row(s, n, f, place)
         IN  /\ IsRecord(row) /\ row.id = f.id
             /\ row.client = f.client /\ row.server = f.server /\ row.hop = place
             /\ row.of = {[seed |-> s, round |-> n, flow |-> f.id, size |-> f.size[place],
                           hop |-> place]}
BY DEF Row, IsRecord

LEMMA FilesOfRound ==
  ASSUME NEW seed, NEW simulation
  PROVE  /\ OfRound(MimicRows(seed, simulation), simulation.round)
         /\ OfRound(EndToEndRows(seed, simulation), simulation.round)
         /\ OfRound(FlowQueueRows(seed, simulation), simulation.round)
PROOF
<1>1. ASSUME NEW place PROVE OfRound(RowsAt(seed, simulation, place), simulation.round)
  BY RowFields DEF OfRound, RowsAt
<1>q. QED BY <1>1 DEF OfRound, MimicRows, EndToEndRows, FlowQueueRows

LEMMA SortedOfRound ==
  ASSUME NEW rows, NEW n, NEW seed, OfRound(rows, n)
  PROVE  FramesOfRound(Frame(seed, SplitBySize(rows)), n)
PROOF
<1>1. OfRound(SplitBySize(rows), n)
  BY DEF OfRound, SplitBySize
<1>q. QED BY <1>1 DEF OfRound, FramesOfRound, IsFrame, Frame

\* New ids leave the measurements alone.
LEMMA RenumberedOfRound ==
  ASSUME NEW frames, NEW n, FramesOfRound(frames, n)
  PROVE  FramesOfRound(Numbered(frames), n) /\ FramesOfRound(Regrouped(frames), n)
PROOF
<1>1. ASSUME NEW x \in frames, NEW id
      PROVE  IsFrame(WithId(x, id)) /\ \A y \in WithId(x, id).row.of : y.round = n
  <2>1. IsFrame(x) /\ \A y \in x.row.of : y.round = n
    BY DEF FramesOfRound
  <2>q. QED BY <2>1, IdReplaced DEF IsFrame, IsRecord
<1>q. QED BY <1>1, Zenon DEF FramesOfRound, Numbered, Regrouped

LEMMA MergedFramesOfRound ==
  ASSUME NEW frames, NEW n, NEW k, FramesOfRound(frames, n)
  PROVE  OfRound(MergeMeans(frames, k), n) /\ OfRound(MergeSums(frames, k), n)
PROOF
<1>1. ASSUME NEW x \in frames, NEW S, S \subseteq UNION {y.row.of : y \in Aligned(x, frames)}
      PROVE  /\ IsRecord([x.row EXCEPT !.of = S])
             /\ \A z \in [x.row EXCEPT !.of = S].of : z.round = n
  <2>1. \A z \in S : z.round = n
    BY <1>1 DEF FramesOfRound, Aligned
  <2>2. IsRecord(x.row)
    BY DEF FramesOfRound, IsFrame
  <2>q. QED BY <2>1, <2>2, OfReplaced DEF IsRecord
<1>2. ASSUME NEW r \in MergeMeans(frames, k)
      PROVE  IsRecord(r) /\ \A z \in r.of : z.round = n
  <2>1. PICK x \in frames : r = [x.row EXCEPT !.of = UNION {y.row.of : y \in Aligned(x, frames)}]
    BY <1>2, Zenon DEF MergeMeans, OfSeed
  <2>2. PICK S : S = UNION {y.row.of : y \in Aligned(x, frames)}
    OBVIOUS
  <2>q. QED BY <1>1, <2>1, <2>2
<1>3. ASSUME NEW r \in MergeSums(frames, k)
      PROVE  IsRecord(r) /\ \A z \in r.of : z.round = n
  <2>1. PICK x \in frames :
          r = [x.row EXCEPT !.of = IF {y.seed : y \in Aligned(x, frames)} = 1..k
                                   THEN UNION {y.row.of : y \in Aligned(x, frames)}
                                   ELSE {}]
    BY <1>3, Zenon DEF MergeSums, OfSeed
  <2>2. PICK S : S = IF {y.seed : y \in Aligned(x, frames)} = 1..k
                     THEN UNION {y.row.of : y \in Aligned(x, frames)} ELSE {}
    OBVIOUS
  <2>3. S \subseteq UNION {y.row.of : y \in Aligned(x, frames)}
    BY <2>2
  <2>q. QED BY <1>1, <2>1, <2>2, <2>3
<1>q. QED BY <1>2, <1>3 DEF OfRound

\* The sorted frames of one file, of each of the seeds 1..k.
Sorted(rows, k) == UNION {Frame(s, SplitBySize(rows[s])) : s \in 1..k}

SortedGroups(rows, k) == UNION {Regrouped(Frame(s, SplitBySize(rows[s]))) : s \in 1..k}

LEMMA MergeSeedsIs ==
  ASSUME NEW sims, NEW k
  PROVE  MergeSeeds(sims, k)
           = [mimic |-> MergeMeans(Numbered(Sorted([s \in 1..k |-> MimicRows(s, sims[s])], k)), k),
              endToEnd |->
                MergeSums(Numbered(Sorted([s \in 1..k |-> EndToEndRows(s, sims[s])], k)), k),
              flowQueue |->
                MergeSums(SortedGroups([s \in 1..k |-> FlowQueueRows(s, sims[s])], k), k)]
PROOF
<1>1. /\ Sorted([s \in 1..k |-> MimicRows(s, sims[s])], k)
           = UNION {Frame(s, SplitBySize(MimicRows(s, sims[s]))) : s \in 1..k}
      /\ Sorted([s \in 1..k |-> EndToEndRows(s, sims[s])], k)
           = UNION {Frame(s, SplitBySize(EndToEndRows(s, sims[s]))) : s \in 1..k}
      /\ SortedGroups([s \in 1..k |-> FlowQueueRows(s, sims[s])], k)
           = UNION {Regrouped(Frame(s, SplitBySize(FlowQueueRows(s, sims[s])))) : s \in 1..k}
  BY DEF Sorted, SortedGroups
<1>q. QED BY <1>1 DEF MergeSeeds

(***************************************************************************)
(* merge_seeds: files of one round give averages of this round.            *)
(***************************************************************************)
LEMMA MergeSeedsOfRound ==
  ASSUME NEW sims, NEW k, NEW n, \A s \in 1..k : sims[s].round = n
  PROVE  /\ OfRound(MergeSeeds(sims, k).mimic, n)
         /\ OfRound(MergeSeeds(sims, k).endToEnd, n)
         /\ OfRound(MergeSeeds(sims, k).flowQueue, n)
PROOF
<1>1. ASSUME NEW rows, \A s \in 1..k : OfRound(rows[s], n)
      PROVE  FramesOfRound(Sorted(rows, k), n) /\ FramesOfRound(SortedGroups(rows, k), n)
  <2>1. \A s \in 1..k : FramesOfRound(Frame(s, SplitBySize(rows[s])), n)
    BY <1>1, SortedOfRound
  <2>2. \A s \in 1..k : FramesOfRound(Regrouped(Frame(s, SplitBySize(rows[s]))), n)
    BY <2>1, RenumberedOfRound
  <2>q. QED BY <2>1, <2>2, Zenon DEF FramesOfRound, Sorted, SortedGroups
<1> DEFINE M == [s \in 1..k |-> MimicRows(s, sims[s])]
           E == [s \in 1..k |-> EndToEndRows(s, sims[s])]
           Q == [s \in 1..k |-> FlowQueueRows(s, sims[s])]
<1>2. \A s \in 1..k : OfRound(M[s], n) /\ OfRound(E[s], n) /\ OfRound(Q[s], n)
  BY FilesOfRound
<1>3. /\ MergeSeeds(sims, k).mimic = MergeMeans(Numbered(Sorted(M, k)), k)
      /\ MergeSeeds(sims, k).endToEnd = MergeSums(Numbered(Sorted(E, k)), k)
      /\ MergeSeeds(sims, k).flowQueue = MergeSums(SortedGroups(Q, k), k)
  BY MergeSeedsIs
<1> HIDE DEF M, E, Q
<1>4. /\ FramesOfRound(Numbered(Sorted(M, k)), n) /\ FramesOfRound(Numbered(Sorted(E, k)), n)
      /\ FramesOfRound(SortedGroups(Q, k), n)
  BY <1>1, <1>2, RenumberedOfRound
<1>q. QED BY <1>3, <1>4, MergedFramesOfRound

(***************************************************************************)
(* The analytical model and the joins.                                     *)
(***************************************************************************)
LEMMA AnalysisOfRound ==
  ASSUME NEW rows, NEW n, NEW t, OfRound(rows, n)
  PROVE  /\ OfRound(AnalyticalModel(rows, t).flows, n)
         /\ OfRound(AnalyticalModel(rows, t).queues, n)
PROOF
<1>1. OfRound({[r EXCEPT !.hop = hop] : r \in rows, hop \in Hops}, n)
  BY DEF OfRound, IsRecord
<1>2. AnalyticalModel(rows, t).queues \subseteq {[r EXCEPT !.hop = hop] : r \in rows, hop \in Hops}
  BY DEF AnalyticalModel
<1>3. AnalyticalModel(rows, t).flows = rows
  BY DEF AnalyticalModel
<1>q. QED BY <1>1, <1>2, <1>3 DEF OfRound

LEMMA ReportOfRound ==
  ASSUME NEW endToEnd, NEW flowQueue, NEW analysis, NEW n,
         OfRound(endToEnd, n), OfRound(flowQueue, n),
         OfRound(analysis.flows, n), OfRound(analysis.queues, n)
  PROVE  \A r \in Report(endToEnd, flowQueue, analysis).flows
                    \cup Report(endToEnd, flowQueue, analysis).queues :
           \A x \in r.sim.of \cup r.ana.of : x.round = n
PROOF
<1>1. /\ Report(endToEnd, flowQueue, analysis).flows = JoinFlows(endToEnd, analysis.flows)
      /\ Report(endToEnd, flowQueue, analysis).queues = JoinQueues(flowQueue, analysis.queues)
  BY DEF Report
<1>2. \A r \in JoinFlows(endToEnd, analysis.flows) :
        \A x \in r.sim.of \cup r.ana.of : x.round = n
  BY DEF OfRound, JoinFlows
<1>3. \A r \in JoinQueues(flowQueue, analysis.queues) :
        \A x \in r.sim.of \cup r.ana.of : x.round = n
  BY DEF OfRound, JoinQueues
<1>q. QED BY <1>1, <1>2, <1>3

-------------------------------------------------------------------------------
(* The inductive invariant of the two claims about rounds.                 *)

LEMMA SeedDirs == Seeds \subseteq Dirs /\ \A s \in Seeds : s # MergedDir
BY SeedsAssumption DEF Seeds, Dirs, MergedDir

Shape ==
  /\ DOMAIN worker = Seeds /\ DOMAIN sim = Seeds /\ DOMAIN header = Seeds
  /\ DOMAIN ana = Dirs /\ DOMAIN joined = Dirs

\* What a worker of the simulation script has left in its directory so far.
WorkerFiles ==
  pc = "simulate" =>
    \A s \in Seeds :
      /\ worker[s] = "empty" => sim[s] = None /\ ana[s] = None
      /\ worker[s] = "simulated" /\ sim[s] # None => sim[s].round = round
      /\ worker[s] = "done" => sim[s] # None /\ sim[s].round = round

SimsAreOfThisRound ==
  pc \in {"merge", "analyse", "join"} =>
    \A s \in Seeds : sim[s] # None /\ sim[s].round = round

MergedRound ==
  /\ merged # None =>
       /\ OfRound(merged.files.mimic, merged.round)
       /\ OfRound(merged.files.endToEnd, merged.round)
       /\ OfRound(merged.files.flowQueue, merged.round)
  /\ pc \in {"analyse", "join"} => merged.round = round

\* The analysis in a seed's directory is one of the simulation in it.
AnalysisMatches ==
  \A s \in Seeds :
    ana[s] # None =>
      /\ OfRound(ana[s].flows, sim[s].round)
      /\ OfRound(ana[s].queues, sim[s].round)

ReportMatches(s) ==
  \A r \in joined[s].flows \cup joined[s].queues :
    \A x \in r.sim.of \cup r.ana.of : x.round = sim[s].round

ReportsMatch ==
  \A s \in Seeds :
    (pc = "compare" /\ worker[s] = "done") \/ pc = "collect" => ReportMatches(s)

IInv ==
  /\ Shape /\ WorkerFiles /\ SimsAreOfThisRound
  /\ MergedRound /\ AnalysisMatches /\ ReportsMatch

LEMMA InitIInv == Init => IInv
PROOF
<1> SUFFICES ASSUME Init PROVE IInv
  OBVIOUS
<1>1. Shape /\ AnalysisMatches
  BY SeedDirs DEF Init, Shape, AnalysisMatches
<1>2. WorkerFiles /\ SimsAreOfThisRound /\ MergedRound /\ ReportsMatch
  BY DEF Init, WorkerFiles, SimsAreOfThisRound, MergedRound, ReportsMatch
<1>q. QED BY <1>1, <1>2 DEF IInv

\* Any step that leaves files alone and takes pc to a step that asks nothing.
LEMMA FilesUnchanged ==
  ASSUME IInv, UNCHANGED files, DOMAIN worker' = Seeds,
         pc' \notin {"simulate", "merge", "analyse", "join", "collect"},
         \A s \in Seeds : pc' = "compare" /\ worker'[s] = "done"
                            => pc = "compare" /\ worker[s] = "done"
  PROVE  IInv'
BY DEF IInv, Shape, WorkerFiles, SimsAreOfThisRound, MergedRound, AnalysisMatches,
       ReportsMatch, ReportMatches, files

-------------------------------------------------------------------------------
(* One lemma for each script.                                              *)

LEMMA SimulationScript ==
  ASSUME IInv,
         StartSimulations \/ SimulationsEnd \/ Merge \/ AnalyseMerged \/ JoinMerged
           \/ \E s \in Seeds : CleanDir(s) \/ Simulate(s) \/ AttachHeaders(s)
  PROVE  IInv'
PROOF
<1> USE DEF IInv, Shape, WorkerFiles, SimsAreOfThisRound, MergedRound, AnalysisMatches,
            ReportsMatch, ReportMatches, files, Goto, Continue, EndScript, Becomes
<1>1. CASE StartSimulations
  BY <1>1 DEF StartSimulations, StartPool
<1>2. ASSUME NEW s \in Seeds, CleanDir(s) PROVE IInv'
  BY <1>2, SeedDirs DEF CleanDir
<1>3. ASSUME NEW s \in Seeds, Simulate(s) PROVE IInv'
  BY <1>3, SeedDirs DEF Simulate
<1>4. ASSUME NEW s \in Seeds, AttachHeaders(s) PROVE IInv'
  BY <1>4, SeedDirs DEF AttachHeaders, Written
<1>5. CASE SimulationsEnd
  BY <1>5 DEF SimulationsEnd, PoolReturns, AllDone
<1>6. CASE Merge
  <2>1. \A s \in 1..NumSeeds : sim[s].round = round
    BY <1>6 DEF Merge, Seeds
  <2>2. /\ OfRound(MergeSeeds(sim, NumSeeds).mimic, round)
        /\ OfRound(MergeSeeds(sim, NumSeeds).endToEnd, round)
        /\ OfRound(MergeSeeds(sim, NumSeeds).flowQueue, round)
    BY <2>1, MergeSeedsOfRound
  <2>3. /\ pc = "merge" /\ UNCHANGED <<worker, round, sim, header, ana, joined>>
        /\ \/ /\ merged' = [round |-> round, files |-> MergeSeeds(sim, NumSeeds)]
              /\ pc' = "analyse"
           \/ merged' = merged /\ pc' = "idle"
    BY <1>6 DEF Merge
  <2>q. QED BY <2>2, <2>3
<1>7. CASE AnalyseMerged
  <2>1. \A s \in Seeds : ana'[s] = ana[s]
    BY <1>7, SeedDirs DEF AnalyseMerged, Analyse
  <2>2. DOMAIN ana' = Dirs
    BY <1>7 DEF AnalyseMerged, Analyse
  <2>q. QED BY <1>7, <2>1, <2>2 DEF AnalyseMerged
<1>8. CASE JoinMerged
  BY <1>8, SeedDirs DEF JoinMerged
<1>q. QED BY <1>1, <1>2, <1>3, <1>4, <1>5, <1>6, <1>7, <1>8

LEMMA ComparisonScripts ==
  ASSUME IInv,
         Train \/ Make \/ StartComparison \/ ComparisonsEnd \/ ComparisonFails \/ Collect
           \/ \E s \in Seeds : StartMake(s) \/ EndMake(s) \/ AnalyseSeed(s) \/ JoinSeed(s)
  PROVE  IInv'
PROOF
<1>1. CASE Train
  BY <1>1, FilesUnchanged DEF Train, Continue, Goto, IInv, Shape
<1>2. CASE Make
  BY <1>2, FilesUnchanged DEF Make, StartPool, Continue, Goto
<1>3. CASE StartComparison
  BY <1>3, FilesUnchanged DEF StartComparison, StartPool, Continue, Goto
<1>4. ASSUME NEW s \in Seeds, StartMake(s) \/ EndMake(s) PROVE IInv'
  <2>1. /\ pc = "compare" /\ pc' = "compare" /\ UNCHANGED files
        /\ \E state \in {"made", "linking"} : Becomes(s, state)
    BY <1>4 DEF StartMake, EndMake
  <2>q. QED BY <2>1, FilesUnchanged DEF Becomes, IInv, Shape
<1>5. ASSUME NEW s \in Seeds, AnalyseSeed(s) PROVE IInv'
  <2>1. /\ pc = "compare" /\ Becomes(s, "analysed")
        /\ UNCHANGED <<pc, round, sim, header, merged, joined>>
    BY <1>5 DEF AnalyseSeed
  <2>2. DOMAIN ana' = Dirs /\ \A d \in Dirs \ {s} : ana'[d] = ana[d]
    BY <1>5 DEF AnalyseSeed, Analyse, IInv, Shape
  <2>3. ana'[s] = ana[s] \/ (/\ OfRound(ana'[s].flows, sim[s].round)
                             /\ OfRound(ana'[s].queues, sim[s].round))
    <3>1. OfRound(MimicInput(s), sim[s].round) /\ OfRound({}, sim[s].round)
      BY FilesOfRound DEF OfRound, MimicInput
    <3>2. s \in DOMAIN ana
      BY SeedDirs DEF IInv, Shape
    <3>3. \/ ana'[s] = ana[s]
          \/ ana'[s] = AnalyticalModel(MimicInput(s), built)
          \/ ana'[s] = AnalyticalModel({}, built)
      BY <1>5, <3>2 DEF AnalyseSeed, Analyse
    <3>q. QED BY <3>1, <3>3, AnalysisOfRound
  <2>4. AnalysisMatches'
    BY <2>1, <2>2, <2>3, SeedDirs DEF IInv, AnalysisMatches
  <2>5. (Shape /\ WorkerFiles /\ SimsAreOfThisRound /\ MergedRound /\ ReportsMatch)'
    BY <2>1, <2>2 DEF IInv, Shape, WorkerFiles, SimsAreOfThisRound, MergedRound,
                      ReportsMatch, ReportMatches, Becomes
  <2>q. QED BY <2>4, <2>5 DEF IInv
<1>6. ASSUME NEW s \in Seeds, JoinSeed(s) PROVE IInv'
  <2>1. /\ pc = "compare" /\ UNCHANGED <<pc, round, sim, header, merged, ana>>
        /\ DOMAIN worker' = Seeds /\ DOMAIN joined' = Dirs
        /\ \A t \in Seeds \ {s} : joined'[t] = joined[t] /\ worker'[t] = worker[t]
    BY <1>6, SeedDirs DEF JoinSeed, Becomes, IInv, Shape
  <2>2. worker'[s] = "done" => ReportMatches(s)'
    <3>1. SUFFICES ASSUME header[s] /\ ana[s] # None PROVE ReportMatches(s)'
      BY <1>6 DEF JoinSeed, Becomes, IInv, Shape
    <3>2. joined'[s] = Report(EndToEndRows(s, sim[s]), FlowQueueRows(s, sim[s]), ana[s])
      BY <1>6, <3>1, SeedDirs DEF JoinSeed, IInv, Shape
    <3>3. OfRound(ana[s].flows, sim[s].round) /\ OfRound(ana[s].queues, sim[s].round)
      BY <3>1 DEF IInv, AnalysisMatches
    <3>4. /\ OfRound(EndToEndRows(s, sim[s]), sim[s].round)
          /\ OfRound(FlowQueueRows(s, sim[s]), sim[s].round)
      BY FilesOfRound
    <3>q. QED BY <2>1, <3>2, <3>3, <3>4, ReportOfRound DEF ReportMatches
  <2>3. ReportsMatch'
    BY <2>1, <2>2 DEF IInv, ReportsMatch, ReportMatches
  <2>4. (Shape /\ WorkerFiles /\ SimsAreOfThisRound /\ MergedRound /\ AnalysisMatches)'
    BY <2>1 DEF IInv, Shape, WorkerFiles, SimsAreOfThisRound, MergedRound, AnalysisMatches
  <2>q. QED BY <2>3, <2>4 DEF IInv
<1>7. CASE ComparisonsEnd
  BY <1>7 DEF ComparisonsEnd, AllDone, PoolReturns, Continue, Goto, files, IInv, Shape,
              WorkerFiles, SimsAreOfThisRound, MergedRound, AnalysisMatches, ReportsMatch,
              ReportMatches
<1>8. CASE Collect \/ ComparisonFails
  BY <1>8, FilesUnchanged DEF Collect, ComparisonFails, PoolReturns, EndScript, Goto, IInv, Shape
<1>q. QED BY <1>1, <1>2, <1>3, <1>4, <1>5, <1>6, <1>7, <1>8

LEMMA NextIInv == IInv /\ [Next]_vars => IInv'
PROOF
<1> SUFFICES ASSUME IInv, [Next]_vars PROVE IInv'
  OBVIOUS
<1>1. CASE UNCHANGED vars
  BY <1>1 DEF vars, files, IInv, Shape, WorkerFiles, SimsAreOfThisRound, MergedRound,
              AnalysisMatches, ReportsMatch, ReportMatches
<1>2. CASE Next
  BY <1>2, SimulationScript, ComparisonScripts
     DEF Next, SystemStep, WorkerStep, ScriptStep, UserStep
<1>q. QED BY <1>1, <1>2

LEMMA IInvariant == Spec => []IInv
BY InitIInv, NextIInv, PTL DEF Spec

(***************************************************************************)
(* The averaged files never mix two simulations of the configuration, and  *)
(* those a script analyses and joins are of the latest one, whatever       *)
(* simulations failed and in whatever order the workers of the pool ran    *)
(* (merge_seeds and run_sim_analytical_compare.py), for any number of      *)
(* seeds.                                                                  *)
(***************************************************************************)
THEOREM MergedOfOneRound == Spec => []MergedIsOfOneRound
PROOF
<1>1. IInv => MergedIsOfOneRound
  BY DEF IInv, MergedRound, SimsAreOfThisRound, MergedIsOfOneRound, MergedRows, OfRound
<1>q. QED BY <1>1, IInvariant, PTL

(***************************************************************************)
(* The report collected for a seed (analytical_compare.py) compares        *)
(* measurements and analysis of the same, last simulation of this seed,    *)
(* whatever commands failed unchecked: the simulation script empties the   *)
(* directory of all an analysis left in it before it simulates again.      *)
(***************************************************************************)
THEOREM SeedReportsOfOneRound == Spec => []SeedReportsAreOfOneRound
PROOF
<1>1. IInv => SeedReportsAreOfOneRound
  BY DEF IInv, ReportsMatch, ReportMatches, SeedReportsAreOfOneRound
<1>q. QED BY <1>1, IInvariant, PTL

-------------------------------------------------------------------------------
(* What the files of a seed are: finitely many rows, each with one         *)
(* measurement of the seed, and at most one for a flow and a place.        *)

LEMMA ImageFinite ==
  ASSUME NEW S, IsFiniteSet(S), NEW f
  PROVE  IsFiniteSet({f[x] : x \in S})
PROOF
<1>1. [x \in S |-> f[x]] \in Surjection(S, {f[x] : x \in S})
  BY DEF Surjection
<1>q. QED BY <1>1, FS_Surjection

\* The flows of a window, as WindowsAssumption says.
Unique(flows) ==
  /\ flows \subseteq Flows /\ IsFiniteSet(flows)
  /\ \A f, g \in flows : f.id = g.id => f = g

Measured(s, n, r) ==
  /\ IsRecord(r)
  /\ r.id \in Nat /\ r.client \in Nat /\ r.server \in Nat /\ r.hop \in Places
  /\ \E size \in Sizes :
       r.of = {[seed |-> s, round |-> n, flow |-> r.id, size |-> size, hop |-> r.hop]}

SeedFile(s, n, rows) ==
  /\ IsFiniteSet(rows)
  /\ \A r \in rows : Measured(s, n, r)
  /\ \A q, r \in rows : q.id = r.id /\ q.hop = r.hop => q = r

LEMMA FlowFields ==
  ASSUME NEW f \in Flows
  PROVE  /\ f.id \in Nat /\ f.client \in Nat /\ f.server \in Nat
         /\ DOMAIN f.size \subseteq Places
         /\ \A place \in DOMAIN f.size : f.size[place] \in Sizes
PROOF
<1>1. PICK places \in SUBSET Places : f.size \in [places -> Sizes]
  BY DEF Flows
<1>q. QED BY <1>1 DEF Flows

LEMMA RowMeasured ==
  ASSUME NEW s, NEW n, NEW f \in Flows, NEW place \in DOMAIN f.size
  PROVE  Measured(s, n, Row(s, n, f, place))
BY FlowFields, RowFields DEF Measured

LEMMA FilesOfSeed ==
  ASSUME NEW s, NEW simulation, Unique(simulation.flows)
  PROVE  /\ SeedFile(s, simulation.round, MimicRows(s, simulation))
         /\ SeedFile(s, simulation.round, EndToEndRows(s, simulation))
         /\ SeedFile(s, simulation.round, FlowQueueRows(s, simulation))
PROOF
<1>1. PICK n, flows : n = simulation.round /\ flows = simulation.flows /\ Unique(flows)
  OBVIOUS
<1> DEFINE pairs == flows \X Places
           rowOf == [p \in pairs |-> Row(s, n, p[1], p[2])]
           all == {rowOf[p] : p \in pairs}
           From(rows) == \A r \in rows : \E f \in flows : \E place \in DOMAIN f.size :
                           r = Row(s, n, f, place)
<1>2. IsFiniteSet(all)
  <2>1. IsFiniteSet(Places)
    BY HopsAssumption, FS_Singleton, FS_Union DEF Places
  <2>2. IsFiniteSet(pairs)
    BY <1>1, <2>1, FS_Product DEF Unique
  <2> HIDE DEF pairs, rowOf
  <2>q. QED BY <2>2, ImageFinite
<1>3. ASSUME NEW f \in flows, NEW place \in DOMAIN f.size PROVE Row(s, n, f, place) \in all
  <2>1. place \in Places
    BY <1>1, FlowFields DEF Unique
  <2>2. <<f, place>> \in pairs /\ rowOf[<<f, place>>] = Row(s, n, f, place)
    BY <2>1
  <2> HIDE DEF pairs, rowOf
  <2>q. QED BY <2>2
<1> HIDE DEF all
<1>4. ASSUME NEW rows, From(rows) PROVE SeedFile(s, n, rows)
  <2>1. IsFiniteSet(rows)
    <3>1. rows \subseteq all
      BY <1>3, <1>4
    <3>q. QED BY <1>2, <3>1, FS_Subset
  <2>2. \A r \in rows : Measured(s, n, r)
    BY <1>1, <1>4, RowMeasured DEF Unique
  <2>3. ASSUME NEW q \in rows, NEW r \in rows, q.id = r.id, q.hop = r.hop PROVE q = r
    <3>1. PICK f \in flows, g \in flows : \E a, b : q = Row(s, n, f, a) /\ r = Row(s, n, g, b)
      BY <1>4
    <3>2. PICK a, b : q = Row(s, n, f, a) /\ r = Row(s, n, g, b)
      BY <3>1
    <3>3. f.id = g.id /\ a = b
      BY <2>3, <3>2, RowFields
    <3>q. QED BY <1>1, <3>2, <3>3 DEF Unique
  <2>q. QED BY <2>1, <2>2, <2>3 DEF SeedFile
<1>5. ASSUME NEW place PROVE From(RowsAt(s, simulation, place))
  BY <1>1 DEF RowsAt
<1>6. From(FlowQueueRows(s, simulation))
  BY <1>5 DEF FlowQueueRows
<1>q. QED BY <1>1, <1>4, <1>5, <1>6 DEF MimicRows, EndToEndRows

LEMMA SplitOfSeed ==
  ASSUME NEW s, NEW n, NEW rows, SeedFile(s, n, rows)
  PROVE  SeedFile(s, n, SplitBySize(rows))
PROOF
<1>1. SplitBySize(rows) \subseteq rows
  BY DEF SplitBySize
<1>q. QED BY <1>1, FS_Subset DEF SeedFile

-------------------------------------------------------------------------------
(* Types of the averaged files.                                            *)

TypedFrames(frames) ==
  \A x \in frames :
    /\ IsFrame(x) /\ x.index \in Nat \ {0}
    /\ x.row.client \in Nat /\ x.row.server \in Nat /\ x.row.hop \in Places
    /\ x.row.of \subseteq Sources

Identified(frames) == \A x \in frames : x.row.id \in Nat \ {0}

LEMMA Ranks ==
  ASSUME NEW rows, IsFiniteSet(rows), NEW row
  PROVE  Rank(row, rows) \in Nat \ {0} /\ GroupId(row, rows) \in Nat \ {0}
PROOF
<1>1. Rank(row, rows) \in Nat \ {0}
  <2> DEFINE before == {r \in rows : Precedes(r, row)}
  <2>1. IsFiniteSet(before)
    BY FS_Subset
  <2>2. Cardinality(before) \in Nat
    BY <2>1, FS_CardinalityType
  <2> HIDE DEF before
  <2>3. 1 + Cardinality(before) \in Nat \ {0}
    BY <2>2
  <2>q. QED BY <2>3 DEF Rank, before
<1>2. GroupId(row, rows) \in Nat \ {0}
  <2> DEFINE before == {q \in rows : Precedes(q, row) /\ Group(q) # Group(row)}
             group == [r \in before |-> Group(r)]
  <2>1. IsFiniteSet(before)
    BY FS_Subset
  <2>2. {Group(r) : r \in before} = {group[r] : r \in before}
    OBVIOUS
  <2> HIDE DEF before, group
  <2>3. IsFiniteSet({group[r] : r \in before})
    BY <2>1, ImageFinite
  <2>4. Cardinality({Group(r) : r \in before}) \in Nat
    BY <2>2, <2>3, FS_CardinalityType
  <2>5. 1 + Cardinality({Group(r) : r \in before}) \in Nat \ {0}
    BY <2>4
  <2>q. QED BY <2>5 DEF GroupId, before
<1>q. QED BY <1>1, <1>2

LEMMA FrameRows ==
  ASSUME NEW seed, NEW rows
  PROVE  {y.row : y \in Frame(seed, rows)} = rows
PROOF
<1>1. ASSUME NEW r \in rows PROVE \E y \in Frame(seed, rows) : y.row = r
  <2>1. [seed |-> seed, index |-> Rank(r, rows), row |-> r] \in Frame(seed, rows)
    BY DEF Frame
  <2>q. QED BY <2>1
<1>2. \A y \in Frame(seed, rows) : y.row \in rows
  BY DEF Frame
<1>q. QED BY <1>1, <1>2

LEMMA FrameTyped ==
  ASSUME NEW s \in Seeds, NEW n \in 1..MaxRounds, NEW rows, SeedFile(s, n, rows)
  PROVE  TypedFrames(Frame(s, rows))
PROOF
<1>1. ASSUME NEW x \in Frame(s, rows)
      PROVE  /\ IsFrame(x) /\ x.index \in Nat \ {0}
             /\ x.row.client \in Nat /\ x.row.server \in Nat /\ x.row.hop \in Places
             /\ x.row.of \subseteq Sources
  <2>1. PICK r \in rows : x = [seed |-> s, index |-> Rank(r, rows), row |-> r]
    BY DEF Frame
  <2>2. Measured(s, n, r) /\ Rank(r, rows) \in Nat \ {0}
    BY Ranks DEF SeedFile
  <2>3. r.of \subseteq Sources
    BY <2>2 DEF Measured, Sources
  <2>q. QED BY <2>1, <2>2, <2>3 DEF Measured, IsFrame
<1>q. QED BY <1>1 DEF TypedFrames

LEMMA RenumberedTyped ==
  ASSUME NEW frames, TypedFrames(frames)
  PROVE  TypedFrames(Numbered(frames)) /\ Identified(Numbered(frames))
PROOF
<1>1. ASSUME NEW z \in Numbered(frames)
      PROVE  /\ IsFrame(z) /\ z.index \in Nat \ {0} /\ z.row.id \in Nat \ {0}
             /\ z.row.client \in Nat /\ z.row.server \in Nat /\ z.row.hop \in Places
             /\ z.row.of \subseteq Sources
  <2>1. PICK x \in frames : z = WithId(x, x.index)
    BY DEF Numbered
  <2>2. IsFrame(x)
    BY DEF TypedFrames
  <2>3. z = [seed |-> x.seed, index |-> x.index,
             row |-> [id |-> x.index, client |-> x.row.client, server |-> x.row.server,
                      hop |-> x.row.hop, of |-> x.row.of]]
    BY <2>1, <2>2, IdReplaced
  <2>q. QED BY <2>3 DEF TypedFrames, IsFrame, IsRecord
<1>q. QED BY <1>1 DEF TypedFrames, Identified

LEMMA RegroupedTyped ==
  ASSUME NEW s \in Seeds, NEW n \in 1..MaxRounds, NEW rows, SeedFile(s, n, rows)
  PROVE  /\ TypedFrames(Regrouped(Frame(s, rows)))
         /\ Identified(Regrouped(Frame(s, rows)))
PROOF
<1>1. ASSUME NEW z \in Regrouped(Frame(s, rows))
      PROVE  /\ IsFrame(z) /\ z.index \in Nat \ {0} /\ z.row.id \in Nat \ {0}
             /\ z.row.client \in Nat /\ z.row.server \in Nat /\ z.row.hop \in Places
             /\ z.row.of \subseteq Sources
  <2>1. PICK x \in Frame(s, rows) : z = WithId(x, GroupId(x.row, rows))
    BY FrameRows DEF Regrouped
  <2>2. GroupId(x.row, rows) \in Nat \ {0}
    BY Ranks DEF SeedFile
  <2>3. TypedFrames(Frame(s, rows))
    BY FrameTyped
  <2>4. IsFrame(x)
    BY <2>3 DEF TypedFrames
  <2>5. z = [seed |-> x.seed, index |-> x.index,
             row |-> [id |-> GroupId(x.row, rows), client |-> x.row.client,
                      server |-> x.row.server, hop |-> x.row.hop, of |-> x.row.of]]
    BY <2>1, <2>4, IdReplaced
  <2>q. QED BY <2>2, <2>3, <2>5 DEF TypedFrames, IsFrame, IsRecord
<1>q. QED BY <1>1 DEF TypedFrames, Identified

\* What is averaged keeps the columns of a row.
TypedRows(rows) == \A r \in rows : IsRecord(r) /\ IsRow(r)

LEMMA MergedFramesTyped ==
  ASSUME NEW frames, NEW k, TypedFrames(frames), Identified(frames)
  PROVE  TypedRows(MergeMeans(frames, k)) /\ TypedRows(MergeSums(frames, k))
PROOF
<1>1. ASSUME NEW x \in frames, NEW S, S \subseteq UNION {y.row.of : y \in Aligned(x, frames)}
      PROVE  IsRecord([x.row EXCEPT !.of = S]) /\ IsRow([x.row EXCEPT !.of = S])
  <2>1. S \subseteq Sources
    BY <1>1 DEF Aligned, TypedFrames
  <2>2. IsRecord(x.row) /\ x.row.id \in Nat \ {0}
    BY DEF TypedFrames, IsFrame, Identified
  <2>3. [x.row EXCEPT !.of = S] = [id |-> x.row.id, client |-> x.row.client,
                                   server |-> x.row.server, hop |-> x.row.hop, of |-> S]
    BY <2>2, OfReplaced
  <2>q. QED BY <2>1, <2>2, <2>3 DEF TypedFrames, IsRow, IsRecord
<1>2. ASSUME NEW r \in MergeMeans(frames, k) PROVE IsRecord(r) /\ IsRow(r)
  <2>1. PICK x \in frames : r = [x.row EXCEPT !.of = UNION {y.row.of : y \in Aligned(x, frames)}]
    BY <1>2, Zenon DEF MergeMeans, OfSeed
  <2>2. PICK S : S = UNION {y.row.of : y \in Aligned(x, frames)}
    OBVIOUS
  <2>q. QED BY <1>1, <2>1, <2>2
<1>3. ASSUME NEW r \in MergeSums(frames, k) PROVE IsRecord(r) /\ IsRow(r)
  <2>1. PICK x \in frames :
          r = [x.row EXCEPT !.of = IF {y.seed : y \in Aligned(x, frames)} = 1..k
                                   THEN UNION {y.row.of : y \in Aligned(x, frames)} ELSE {}]
    BY <1>3, Zenon DEF MergeSums, OfSeed
  <2>2. PICK S : S = IF {y.seed : y \in Aligned(x, frames)} = 1..k
                      THEN UNION {y.row.of : y \in Aligned(x, frames)} ELSE {}
    OBVIOUS
  <2>3. S \subseteq UNION {y.row.of : y \in Aligned(x, frames)}
    BY <2>2
  <2>q. QED BY <1>1, <2>1, <2>2, <2>3
<1>q. QED BY <1>2, <1>3 DEF TypedRows

LEMMA MergeSeedsTyped ==
  ASSUME NEW sims, \A s \in Seeds : sims[s].round \in 1..MaxRounds /\ Unique(sims[s].flows)
  PROVE  LET m == MergeSeeds(sims, NumSeeds)
         IN  TypedRows(m.mimic) /\ TypedRows(m.endToEnd) /\ TypedRows(m.flowQueue)
PROOF
<1>1. ASSUME NEW rows, \A s \in Seeds : SeedFile(s, sims[s].round, rows[s])
      PROVE  /\ TypedFrames(Sorted(rows, NumSeeds))
             /\ TypedFrames(SortedGroups(rows, NumSeeds))
             /\ Identified(SortedGroups(rows, NumSeeds))
  <2>1. \A s \in Seeds : SeedFile(s, sims[s].round, SplitBySize(rows[s]))
    BY <1>1, SplitOfSeed
  <2>2. \A s \in Seeds :
          /\ TypedFrames(Frame(s, SplitBySize(rows[s])))
          /\ TypedFrames(Regrouped(Frame(s, SplitBySize(rows[s]))))
          /\ Identified(Regrouped(Frame(s, SplitBySize(rows[s]))))
    BY <2>1, FrameTyped, RegroupedTyped
  <2>q. QED BY <2>2, Zenon DEF TypedFrames, Identified, Sorted, SortedGroups, Seeds
<1> DEFINE M == [s \in 1..NumSeeds |-> MimicRows(s, sims[s])]
           E == [s \in 1..NumSeeds |-> EndToEndRows(s, sims[s])]
           Q == [s \in 1..NumSeeds |-> FlowQueueRows(s, sims[s])]
<1>2. \A s \in Seeds : /\ SeedFile(s, sims[s].round, M[s])
                       /\ SeedFile(s, sims[s].round, E[s])
                       /\ SeedFile(s, sims[s].round, Q[s])
  BY FilesOfSeed DEF Seeds
<1>3. /\ MergeSeeds(sims, NumSeeds).mimic = MergeMeans(Numbered(Sorted(M, NumSeeds)), NumSeeds)
      /\ MergeSeeds(sims, NumSeeds).endToEnd = MergeSums(Numbered(Sorted(E, NumSeeds)), NumSeeds)
      /\ MergeSeeds(sims, NumSeeds).flowQueue = MergeSums(SortedGroups(Q, NumSeeds), NumSeeds)
  BY MergeSeedsIs
<1> HIDE DEF M, E, Q
<1>4. /\ TypedFrames(Numbered(Sorted(M, NumSeeds))) /\ Identified(Numbered(Sorted(M, NumSeeds)))
      /\ TypedFrames(Numbered(Sorted(E, NumSeeds))) /\ Identified(Numbered(Sorted(E, NumSeeds)))
      /\ TypedFrames(SortedGroups(Q, NumSeeds)) /\ Identified(SortedGroups(Q, NumSeeds))
  BY <1>1, <1>2, RenumberedTyped
<1>q. QED BY <1>3, <1>4, MergedFramesTyped

\* The analysis of an averaged file is a file like any other.
LEMMA AnalysisTyped ==
  ASSUME NEW rows, TypedRows(rows), NEW tree \in Nat
  PROVE  AnalyticalModel(rows, tree) \in Analyses
PROOF
<1>1. Sources \subseteq Measurements
  <2>1. Seeds \subseteq Nat /\ 1..MaxRounds \subseteq Nat /\ Places \subseteq Nat
    BY HopsAssumption, SeedsAssumption, BoundsAssumption DEF Seeds, Places, EndToEnd
  <2>q. QED BY <2>1 DEF Sources, Measurements
<1>2. ASSUME NEW r \in rows, NEW hop \in Hops PROVE r \in Rows /\ [r EXCEPT !.hop = hop] \in Rows
  <2>1. /\ r = [id |-> r.id, client |-> r.client, server |-> r.server, hop |-> r.hop, of |-> r.of]
        /\ r.id \in Nat /\ r.client \in Nat /\ r.server \in Nat /\ r.hop \in Nat /\ hop \in Nat
        /\ r.of \in SUBSET Measurements
    BY <1>1, HopsAssumption DEF TypedRows, IsRecord, IsRow, Places, EndToEnd
  <2>2. [r EXCEPT !.hop = hop]
          = [id |-> r.id, client |-> r.client, server |-> r.server, hop |-> hop, of |-> r.of]
    BY <2>1
  <2>q. QED BY <2>1, <2>2 DEF Rows
<1>3. rows \in SUBSET Rows
  BY <1>2, HopsAssumption
<1>4. UNION {{[r EXCEPT !.hop = hop] : hop \in Hops} : r \in rows} \in SUBSET Rows
  BY <1>2
<1>q. QED BY <1>3, <1>4 DEF AnalyticalModel, Analyses

-------------------------------------------------------------------------------
(* A seed's own report.                                                    *)

LEMMA InJoins ==
  ASSUME NEW S, NEW A, NEW r
  PROVE  /\ r \in JoinFlows(S, A)
              <=> \E a \in S : \E b \in A : SameFlow(a, b) /\ r = [sim |-> a, ana |-> b]
         /\ r \in JoinQueues(S, A)
              <=> \E a \in S : \E b \in A :
                    SameFlow(a, b) /\ a.hop = b.hop /\ r = [sim |-> a, ana |-> b]
PROOF
<1>1. ASSUME NEW a \in S, NEW b \in A, SameFlow(a, b)
      PROVE  [sim |-> a, ana |-> b] \in JoinFlows(S, A)
  <2>1. PICK p : p = <<a, b>>
    OBVIOUS
  <2>2. p \in {q \in S \X A : SameFlow(q[1], q[2])} /\ p[1] = a /\ p[2] = b
    BY <1>1, <2>1
  <2>q. QED BY <2>2 DEF JoinFlows
<1>2. ASSUME NEW a \in S, NEW b \in A, SameFlow(a, b), a.hop = b.hop
      PROVE  [sim |-> a, ana |-> b] \in JoinQueues(S, A)
  <2>1. PICK p : p = <<a, b>>
    OBVIOUS
  <2>2. /\ p \in {q \in S \X A : SameFlow(q[1], q[2]) /\ q[1].hop = q[2].hop}
        /\ p[1] = a /\ p[2] = b
    BY <1>2, <2>1
  <2>q. QED BY <2>2 DEF JoinQueues
<1>3. r \in JoinFlows(S, A)
        => \E a \in S : \E b \in A : SameFlow(a, b) /\ r = [sim |-> a, ana |-> b]
  BY DEF JoinFlows
<1>4. r \in JoinQueues(S, A)
        => \E a \in S : \E b \in A :
             SameFlow(a, b) /\ a.hop = b.hop /\ r = [sim |-> a, ana |-> b]
  BY DEF JoinQueues
<1>q. QED BY <1>1, <1>2, <1>3, <1>4

LEMMA AnalysisQueues ==
  ASSUME NEW rows, NEW tree, NEW b
  PROVE  b \in AnalyticalModel(rows, tree).queues
           <=> \E r \in rows : \E hop \in Hops : b = [r EXCEPT !.hop = hop]
BY DEF AnalyticalModel

LEMMA HopReplaced ==
  ASSUME NEW r, IsRecord(r), NEW hop
  PROVE  [r EXCEPT !.hop = hop] = [id |-> r.id, client |-> r.client, server |-> r.server,
                                   hop |-> hop, of |-> r.of]
BY DEF IsRecord

\* The report of a simulation has each of its flows once, with its own analysis.
LEMMA OwnReport ==
  ASSUME NEW s, NEW simulation, Unique(simulation.flows), NEW tree
  PROVE  LET n == simulation.round
             report == Report(EndToEndRows(s, simulation), FlowQueueRows(s, simulation),
                              AnalyticalModel(MimicRows(s, simulation), tree))
         IN  /\ report.flows
                  = {[sim |-> Row(s, n, f, EndToEnd), ana |-> Row(s, n, f, FirstHop)] :
                       f \in {g \in simulation.flows : {EndToEnd, FirstHop} \subseteq DOMAIN g.size}}
             /\ report.queues
                  = UNION {{[sim |-> Row(s, n, f, hop),
                             ana |-> [Row(s, n, f, FirstHop) EXCEPT !.hop = hop]] :
                               hop \in Hops \cap DOMAIN f.size} :
                             f \in {g \in simulation.flows : FirstHop \in DOMAIN g.size}}
             /\ report.tree = tree
PROOF
<1> DEFINE n == simulation.round
           flows == simulation.flows
           analysis == AnalyticalModel(MimicRows(s, simulation), tree)
           report == Report(EndToEndRows(s, simulation), FlowQueueRows(s, simulation), analysis)
           ownFlows == {[sim |-> Row(s, n, f, EndToEnd), ana |-> Row(s, n, f, FirstHop)] :
                          f \in {g \in flows : {EndToEnd, FirstHop} \subseteq DOMAIN g.size}}
           ownQueues == UNION {{[sim |-> Row(s, n, f, hop),
                                 ana |-> [Row(s, n, f, FirstHop) EXCEPT !.hop = hop]] :
                                   hop \in Hops \cap DOMAIN f.size} :
                                 f \in {g \in flows : FirstHop \in DOMAIN g.size}}
<1>1. /\ report.flows = JoinFlows(EndToEndRows(s, simulation), MimicRows(s, simulation))
      /\ report.queues = JoinQueues(FlowQueueRows(s, simulation), analysis.queues)
      /\ report.tree = tree
  BY DEF Report, AnalyticalModel
<1>2. ASSUME NEW f \in flows, NEW g \in flows, f.id = g.id PROVE f = g
  BY <1>2 DEF Unique
<1>3. ASSUME NEW a, NEW place
      PROVE  a \in RowsAt(s, simulation, place)
               <=> \E f \in flows : place \in DOMAIN f.size /\ a = Row(s, n, f, place)
  BY DEF RowsAt
<1>4. ASSUME NEW a
      PROVE  a \in FlowQueueRows(s, simulation)
               <=> \E hop \in Hops : a \in RowsAt(s, simulation, hop)
  BY DEF FlowQueueRows
<1>5. report.flows = ownFlows
  <2>1. ASSUME NEW r \in report.flows PROVE r \in ownFlows
    <3>1. PICK a \in EndToEndRows(s, simulation), b \in MimicRows(s, simulation) :
            SameFlow(a, b) /\ r = [sim |-> a, ana |-> b]
      BY <1>1, <2>1, InJoins
    <3>2. PICK f \in flows : EndToEnd \in DOMAIN f.size /\ a = Row(s, n, f, EndToEnd)
      BY <1>3 DEF EndToEndRows
    <3>3. PICK g \in flows : FirstHop \in DOMAIN g.size /\ b = Row(s, n, g, FirstHop)
      BY <1>3 DEF MimicRows
    <3>4. f = g
      BY <1>2, <3>1, <3>2, <3>3, RowFields DEF SameFlow
    <3>q. QED BY <3>1, <3>2, <3>3, <3>4
  <2>2. ASSUME NEW r \in ownFlows PROVE r \in report.flows
    <3>1. PICK f \in flows :
            /\ {EndToEnd, FirstHop} \subseteq DOMAIN f.size
            /\ r = [sim |-> Row(s, n, f, EndToEnd), ana |-> Row(s, n, f, FirstHop)]
      BY <2>2
    <3>2. /\ Row(s, n, f, EndToEnd) \in EndToEndRows(s, simulation)
          /\ Row(s, n, f, FirstHop) \in MimicRows(s, simulation)
      BY <1>3, <3>1 DEF EndToEndRows, MimicRows
    <3>3. SameFlow(Row(s, n, f, EndToEnd), Row(s, n, f, FirstHop))
      BY RowFields DEF SameFlow
    <3>q. QED BY <1>1, <3>1, <3>2, <3>3, InJoins
  <2> HIDE DEF report, ownFlows
  <2>q. QED BY <2>1, <2>2
<1>6. ASSUME NEW f, NEW hop
      PROVE  LET b == [Row(s, n, f, FirstHop) EXCEPT !.hop = hop]
             IN  b.id = f.id /\ b.client = f.client /\ b.server = f.server /\ b.hop = hop
  BY RowFields, HopReplaced
<1>7. report.queues = ownQueues
  <2>1. ASSUME NEW r \in report.queues PROVE r \in ownQueues
    <3>1. PICK a \in FlowQueueRows(s, simulation), b \in analysis.queues :
            SameFlow(a, b) /\ a.hop = b.hop /\ r = [sim |-> a, ana |-> b]
      BY <1>1, <2>1, InJoins
    <3>2. PICK hop \in Hops : \E f \in flows : hop \in DOMAIN f.size /\ a = Row(s, n, f, hop)
      BY <1>3, <1>4
    <3>3. PICK f \in flows : hop \in DOMAIN f.size /\ a = Row(s, n, f, hop)
      BY <3>2
    <3>4. PICK m \in MimicRows(s, simulation), other \in Hops : b = [m EXCEPT !.hop = other]
      <4>1. b \in AnalyticalModel(MimicRows(s, simulation), tree).queues
        OBVIOUS
      <4>q. QED BY <4>1, AnalysisQueues
    <3>5. PICK g \in flows : FirstHop \in DOMAIN g.size /\ m = Row(s, n, g, FirstHop)
      BY <1>3 DEF MimicRows
    <3>6. b.id = g.id /\ b.hop = other
      BY <1>6, <3>4, <3>5
    <3>7. f = g /\ hop = other
      BY <1>2, <3>1, <3>3, <3>6, RowFields DEF SameFlow
    <3>8. r = [sim |-> Row(s, n, f, hop), ana |-> [Row(s, n, f, FirstHop) EXCEPT !.hop = hop]]
      BY <3>1, <3>3, <3>4, <3>5, <3>7
    <3>9. hop \in Hops \cap DOMAIN f.size /\ f \in {g1 \in flows : FirstHop \in DOMAIN g1.size}
      BY <3>3, <3>5, <3>7
    <3>q. QED BY <3>8, <3>9
  <2>2. ASSUME NEW r \in ownQueues PROVE r \in report.queues
    <3>1. PICK f \in {g \in flows : FirstHop \in DOMAIN g.size} :
             r \in {[sim |-> Row(s, n, f, hop),
                    ana |-> [Row(s, n, f, FirstHop) EXCEPT !.hop = hop]] :
                      hop \in Hops \cap DOMAIN f.size}
      BY <2>2, Zenon
    <3>2. PICK hop \in Hops \cap DOMAIN f.size :
             r = [sim |-> Row(s, n, f, hop), ana |-> [Row(s, n, f, FirstHop) EXCEPT !.hop = hop]]
      BY <3>1
    <3>3. PICK a, b : a = Row(s, n, f, hop) /\ b = [Row(s, n, f, FirstHop) EXCEPT !.hop = hop]
      OBVIOUS
    <3>4. a \in FlowQueueRows(s, simulation)
      BY <1>3, <1>4, <3>3
    <3>5. b \in analysis.queues
      <4>1. Row(s, n, f, FirstHop) \in MimicRows(s, simulation)
        BY <1>3, <3>1 DEF MimicRows
      <4>q. QED BY <3>3, <4>1, AnalysisQueues, Zenon
    <3>6. SameFlow(a, b) /\ a.hop = b.hop
      BY <1>6, <3>3, RowFields DEF SameFlow
    <3>7. r \in JoinQueues(FlowQueueRows(s, simulation), analysis.queues)
      <4> HIDE DEF analysis
      <4>1. r = [sim |-> a, ana |-> b]
        BY <3>2, <3>3
      <4>q. QED BY <3>4, <3>5, <3>6, <4>1, InJoins
    <3>q. QED BY <1>1, <3>7
  <2> HIDE DEF report, ownQueues
  <2>q. QED BY <2>1, <2>2
<1>q. QED BY <1>1, <1>5, <1>7

-------------------------------------------------------------------------------
(* The inductive invariant of the types and of the seeds' reports.         *)

\* A simulation has the flows of one of the windows of its round.
SimsMeasured ==
  /\ pc \in {"simulate", "merge", "analyse", "join"} => round # 0
  /\ \A s \in Seeds : sim[s] # None =>
       sim[s].round \in 1..round /\ sim[s].flows \in Windows[sim[s].round]
  /\ \A s \in Seeds : header[s] => sim[s] # None /\ ~(pc = "simulate" /\ worker[s] = "empty")

\* Only workers of the comparison compile, and no executable is left half-written.
LinksEnd ==
  /\ \A s \in Seeds : worker[s] = "linking" => pc = "compare" /\ compiles
  /\ built = Partial => \E s \in Seeds : worker[s] = "linking"

\* The tree that all seeds are analysed with.
Tree == IF compiles THEN source ELSE built

SeedReport(s) ==
  Report(EndToEndRows(s, sim[s]), FlowQueueRows(s, sim[s]), AnalyticalModel(MimicInput(s), Tree))

\* Once a worker has compiled, the executable is the trained tree's or being
\* written, and what the worker then analyses and joins are its own files.
WorkersCurrent ==
  /\ pc \in {"idle", "simulate", "merge", "analyse", "make"} => ran = {}
  /\ pc = "compare" =>
       \A s \in Seeds :
         /\ compiles /\ worker[s] # "todo" => built \in {source, Partial}
         /\ s \in ran => /\ worker[s] \in {"analysed", "done", "failed"}
                         /\ ana[s] = AnalyticalModel(MimicInput(s), Tree)
         /\ s \in ran /\ worker[s] = "done" => header[s] /\ joined[s] = SeedReport(s)

ReportsCurrent ==
  pc = "collect" =>
    /\ compiles => built = source
    /\ \A s \in Seeds \cap ran : header[s] /\ joined[s] = SeedReport(s)

CInv == TypeOK /\ SimsMeasured /\ LinksEnd /\ WorkersCurrent /\ ReportsCurrent

LEMMA WindowFlows ==
  ASSUME CInv, NEW s \in Seeds, sim[s] # None
  PROVE  sim[s].round \in 1..MaxRounds /\ Unique(sim[s].flows)
PROOF
<1>1. sim[s].round \in 1..MaxRounds /\ sim[s].flows \in Windows[sim[s].round]
  BY BoundsAssumption DEF CInv, SimsMeasured, TypeOK
<1>q. QED BY <1>1, WindowsAssumption DEF Unique

LEMMA InitCInv == Init => CInv
PROOF
<1> SUFFICES ASSUME Init PROVE CInv
  OBVIOUS
<1>1. TypeOK
  BY NoneAssumption, BoundsAssumption DEF Init, TypeOK
<1>2. SimsMeasured /\ LinksEnd /\ WorkersCurrent /\ ReportsCurrent
  BY NoneAssumption DEF Init, SimsMeasured, LinksEnd, WorkersCurrent, ReportsCurrent
<1>q. QED BY <1>1, <1>2 DEF CInv

\* The simulation script leaves the executable alone and collects nothing.
LEMMA SimulationTypes ==
  ASSUME CInv, IInv,
         StartSimulations \/ SimulationsEnd \/ Merge \/ AnalyseMerged \/ JoinMerged
           \/ \E s \in Seeds : CleanDir(s) \/ Simulate(s) \/ AttachHeaders(s)
  PROVE  CInv'
PROOF
<1> USE DEF CInv, LinksEnd, WorkersCurrent, ReportsCurrent, files, tools, Goto, Continue,
            EndScript, Becomes
<1>1. CASE StartSimulations
  <2>1. TypeOK'
    BY <1>1, BoundsAssumption DEF TypeOK, MergedRows, StartSimulations, StartPool
  <2>2. SimsMeasured'
    BY <1>1, BoundsAssumption DEF TypeOK, SimsMeasured, StartSimulations, StartPool
  <2>q. QED BY <1>1, <2>1, <2>2 DEF StartSimulations, StartPool
<1>2. ASSUME NEW s \in Seeds, CleanDir(s) \/ Simulate(s) \/ AttachHeaders(s) PROVE CInv'
  <2>1. /\ pc = "simulate" /\ pc' = pc /\ UNCHANGED <<round, merged, tools, ran>>
        /\ round \in 1..MaxRounds
    BY <1>2, BoundsAssumption DEF CleanDir, Simulate, AttachHeaders, TypeOK, SimsMeasured
  <2>2. \E state \in {"empty", "simulated", "done", "failed"} : Becomes(s, state)
    BY <1>2 DEF CleanDir, Simulate, AttachHeaders
  <2>3. /\ header' \in [Seeds -> BOOLEAN] /\ failures' \in 0..MaxFailures
        /\ DOMAIN ana' = Dirs /\ DOMAIN joined' = Dirs
    <3>1. header' \in [Seeds -> BOOLEAN] /\ DOMAIN ana' = Dirs /\ DOMAIN joined' = Dirs
      BY <1>2 DEF CleanDir, Simulate, AttachHeaders, TypeOK
    <3>2. failures' = failures \/ (failures < MaxFailures /\ failures' = failures + 1)
      BY <1>2 DEF CleanDir, Simulate, AttachHeaders, Fails, NothingFails
    <3>q. QED BY <3>1, <3>2, BoundsAssumption DEF TypeOK
  <2>4. \A t \in Seeds :
          /\ sim'[t] # None =>
               \/ sim[t] # None /\ sim'[t] = sim[t]
               \/ sim'[t].round = round /\ sim'[t].flows \in Windows[round]
          /\ header'[t] => sim'[t] # None /\ worker'[t] # "empty"
    <3>1. DOMAIN sim = Seeds /\ DOMAIN header = Seeds /\ DOMAIN worker = Seeds
      BY DEF IInv, Shape
    <3>2. CASE CleanDir(s)
      BY <3>1, <3>2 DEF CleanDir, SimsMeasured
    <3>3. CASE Simulate(s)
      <4>1. header' = header /\ ~header[s] /\ \A t \in Seeds \ {s} : sim'[t] = sim[t]
        BY <3>1, <3>3 DEF Simulate, SimsMeasured
      <4>2. \/ sim'[s] = sim[s]
            \/ sim'[s].round = round /\ sim'[s].flows \in Windows[round]
        BY <3>1, <3>3 DEF Simulate
      <4>3. worker'[s] = "simulated" /\ \A t \in Seeds \ {s} : worker'[t] = worker[t]
        BY <3>1, <3>3 DEF Simulate
      <4>q. QED BY <2>1, <4>1, <4>2, <4>3 DEF SimsMeasured
    <3>4. CASE AttachHeaders(s)
      BY <3>1, <3>4 DEF AttachHeaders, Written, SimsMeasured
    <3>q. QED BY <1>2, <3>2, <3>3, <3>4
  <2>5. SimsMeasured'
    BY <2>1, <2>4 DEF SimsMeasured
  <2>6. TypeOK'
    BY <2>1, <2>2, <2>3, <2>5 DEF TypeOK, MergedRows, SimsMeasured
  <2>7. \A t \in Seeds : worker[t] # "linking" /\ worker'[t] # "linking"
    BY <2>1, <2>2 DEF TypeOK
  <2>q. QED BY <2>1, <2>5, <2>6, <2>7
<1>3. CASE SimulationsEnd
  <2>1. /\ pc = "simulate" /\ pc' \in {"merge", "idle"} /\ ran = {} /\ ran' = {}
        /\ failures' \in 0..MaxFailures /\ worker' = [s \in Seeds |-> "none"]
        /\ UNCHANGED <<round, files, tools>>
    BY <1>3, BoundsAssumption DEF SimulationsEnd, PoolReturns, TypeOK
  <2>2. TypeOK'
    BY <2>1 DEF TypeOK, MergedRows
  <2>3. SimsMeasured'
    BY <2>1 DEF SimsMeasured
  <2>q. QED BY <2>1, <2>2, <2>3
<1>4. CASE Merge
  <2>1. /\ pc = "merge" /\ round \in 1..MaxRounds /\ ran = {} /\ ran' = {}
        /\ UNCHANGED <<worker, round, sim, header, ana, joined, tools>>
        /\ failures' \in 0..MaxFailures
        /\ \/ /\ merged' = [round |-> round, files |-> MergeSeeds(sim, NumSeeds)]
              /\ pc' = "analyse"
           \/ merged' = merged /\ pc' = "idle"
    BY <1>4, BoundsAssumption DEF Merge, TypeOK, SimsMeasured
  <2>2. \A s \in Seeds : sim[s].round \in 1..MaxRounds /\ Unique(sim[s].flows)
    BY <2>1, WindowFlows DEF IInv, SimsAreOfThisRound
  <2>3. merged' # None => merged'.round \in 1..round /\ \A row \in MergedRows' : IsRow(row)
    <3>1. CASE merged' = [round |-> round, files |-> MergeSeeds(sim, NumSeeds)]
      BY <2>1, <2>2, <3>1, MergeSeedsTyped DEF MergedRows, TypedRows
    <3>2. CASE merged' = merged
      BY <3>2 DEF TypeOK, MergedRows
    <3>q. QED BY <2>1, <3>1, <3>2
  <2>4. TypeOK'
    BY <2>1, <2>3 DEF TypeOK
  <2>q. QED BY <2>1, <2>4 DEF SimsMeasured
<1>5. CASE AnalyseMerged
  <2>1. /\ pc = "analyse" /\ pc' = "join" /\ DOMAIN ana' = Dirs /\ ran' \subseteq Dirs
        /\ failures' \in 0..MaxFailures
        /\ UNCHANGED <<worker, round, sim, header, merged, joined, tools>>
    BY <1>5, BoundsAssumption DEF AnalyseMerged, Analyse, Fails, NothingFails, TypeOK, Dirs
  <2>2. TypeOK'
    BY <2>1 DEF TypeOK, MergedRows
  <2>q. QED BY <2>1, <2>2 DEF SimsMeasured
<1>6. CASE JoinMerged
  <2>1. /\ pc = "join" /\ pc' = "idle" /\ DOMAIN joined' = Dirs /\ ran' = {}
        /\ failures' \in 0..MaxFailures
        /\ UNCHANGED <<worker, round, sim, header, merged, ana, tools>>
    BY <1>6, BoundsAssumption DEF JoinMerged, TypeOK
  <2>2. TypeOK'
    BY <2>1 DEF TypeOK, MergedRows
  <2>q. QED BY <2>1, <2>2 DEF SimsMeasured
<1>q. QED BY <1>1, <1>2, <1>3, <1>4, <1>5, <1>6

LEMMA ComparisonTypes ==
  ASSUME CInv, IInv,
         Train \/ Make \/ StartComparison \/ ComparisonsEnd \/ ComparisonFails \/ Collect
           \/ \E s \in Seeds : StartMake(s) \/ EndMake(s) \/ AnalyseSeed(s) \/ JoinSeed(s)
  PROVE  CInv'
PROOF
<1> USE DEF CInv, LinksEnd, WorkersCurrent, ReportsCurrent, files, tools, Goto, Continue,
            EndScript, Becomes
<1>1. CASE Train
  <2>1. TypeOK'
    BY <1>1, BoundsAssumption DEF TypeOK, MergedRows, Train
  <2>q. QED BY <1>1, <2>1 DEF Train, SimsMeasured
<1>2. CASE Make
  <2>1. /\ pc = "make" /\ pc' = "compare" /\ worker' = [s \in Seeds |-> "todo"]
        /\ UNCHANGED <<round, files, source, compiles, failures, ran>>
        /\ built' \in {built, source}
    BY <1>2 DEF Make, StartPool
  <2>2. built # Partial /\ source # Partial /\ source \in 0..source
    BY <2>1, NoneAssumption DEF TypeOK
  <2>3. TypeOK'
    BY <2>1, <2>2 DEF TypeOK, MergedRows
  <2>q. QED BY <2>1, <2>2, <2>3 DEF SimsMeasured
<1>3. CASE StartComparison
  <2>1. TypeOK'
    BY <1>3 DEF TypeOK, MergedRows, StartComparison, StartPool
  <2>q. QED BY <1>3, <2>1 DEF StartComparison, StartPool, SimsMeasured
<1>4. ASSUME NEW s \in Seeds, StartMake(s) PROVE CInv'
  <2>1. /\ pc = "compare" /\ pc' = pc /\ worker[s] = "todo"
        /\ UNCHANGED <<round, files, source, compiles, failures, ran>>
        /\ \/ Becomes(s, "made") /\ built' = built /\ (compiles => built = source)
           \/ Becomes(s, "linking") /\ built' = Partial /\ compiles
    BY <1>4 DEF StartMake
  <2>2. s \notin ran
    BY <2>1
  <2>3. TypeOK'
    BY <2>1 DEF TypeOK, MergedRows
  <2>4. LinksEnd'
    BY <2>1 DEF TypeOK
  <2>5. WorkersCurrent'
    BY <2>1, <2>2 DEF TypeOK, SeedReport, Tree, MimicInput
  <2>q. QED BY <2>1, <2>3, <2>4, <2>5 DEF SimsMeasured
<1>5. ASSUME NEW s \in Seeds, EndMake(s) PROVE CInv'
  <2>1. /\ pc = "compare" /\ pc' = pc /\ worker[s] = "linking" /\ Becomes(s, "made")
        /\ UNCHANGED <<round, files, source, compiles, failures, ran>>
        /\ compiles /\ s \notin ran
        /\ \/ built' = source
           \/ built' = Partial /\ \E t \in Seeds \ {s} : worker[t] = "linking"
    BY <1>5 DEF EndMake, Linking
  <2>2. TypeOK'
    BY <2>1, NoneAssumption DEF TypeOK, MergedRows
  <2>3. LinksEnd'
    BY <2>1, NoneAssumption DEF TypeOK
  <2>4. WorkersCurrent'
    BY <2>1 DEF TypeOK, SeedReport, Tree, MimicInput
  <2>q. QED BY <2>1, <2>2, <2>3, <2>4 DEF SimsMeasured
<1>6. ASSUME NEW s \in Seeds, AnalyseSeed(s) PROVE CInv'
  <2>1. /\ pc = "compare" /\ pc' = pc /\ worker[s] = "made" /\ Becomes(s, "analysed")
        /\ UNCHANGED <<round, sim, header, merged, joined, tools>>
    BY <1>6 DEF AnalyseSeed
  <2>2. s \notin ran
    BY <2>1
  <2>3. /\ DOMAIN ana' = Dirs /\ \A d \in Dirs \ {s} : ana'[d] = ana[d]
        /\ failures' \in 0..MaxFailures
        /\ \/ ran' = ran
           \/ ran' = ran \cup {s} /\ Runs /\ ana'[s] = AnalyticalModel(MimicInput(s), built)
    <3>1. DOMAIN ana = Dirs /\ s \in Dirs /\ failures \in 0..MaxFailures
      BY SeedDirs DEF TypeOK
    <3>2. failures' = failures \/ (failures < MaxFailures /\ failures' = failures + 1)
      BY <1>6 DEF AnalyseSeed, Analyse, Fails, NothingFails
    <3>3. failures' \in 0..MaxFailures
      BY <3>1, <3>2, BoundsAssumption
    <3>4. DOMAIN ana' = Dirs /\ \A d \in Dirs \ {s} : ana'[d] = ana[d]
      BY <1>6, <3>1 DEF AnalyseSeed, Analyse
    <3>5. \/ ran' = ran
          \/ ran' = ran \cup {s} /\ Runs /\ ana'[s] = AnalyticalModel(MimicInput(s), built)
      BY <1>6, <3>1 DEF AnalyseSeed, Analyse
    <3>q. QED BY <3>3, <3>4, <3>5
  <2>4. s \in ran' => built = Tree /\ ana'[s] = AnalyticalModel(MimicInput(s), Tree)
    BY <2>1, <2>2, <2>3 DEF Runs, Tree
  <2>5. TypeOK'
    BY <2>1, <2>3, SeedDirs DEF TypeOK, MergedRows
  <2>6. LinksEnd'
    BY <2>1 DEF TypeOK
  <2>7. WorkersCurrent'
    <3>1. /\ DOMAIN worker = Seeds /\ Tree' = Tree
          /\ \A t \in Seeds : MimicInput(t)' = MimicInput(t)
      BY <2>1 DEF TypeOK, Tree, MimicInput
    <3>2. worker'[s] = "analysed" /\ \A t \in Seeds \ {s} : worker'[t] = worker[t]
      BY <2>1, <3>1
    <3>3. \A t \in Seeds \ {s} : t \in ran' => t \in ran /\ ana'[t] = ana[t]
      BY <2>3, SeedDirs
    <3>4. \A t \in Seeds : SeedReport(t)' = SeedReport(t)
      BY <2>1, <3>1 DEF SeedReport
    <3>q. QED BY <2>1, <2>4, <3>1, <3>2, <3>3, <3>4
  <2>q. QED BY <2>1, <2>5, <2>6, <2>7 DEF SimsMeasured
<1>7. ASSUME NEW s \in Seeds, JoinSeed(s) PROVE CInv'
  <2>1. /\ pc = "compare" /\ pc' = pc /\ worker[s] = "analysed"
        /\ UNCHANGED <<round, sim, header, merged, ana, tools, failures, ran>>
        /\ DOMAIN joined' = Dirs /\ \A d \in Dirs \ {s} : joined'[d] = joined[d]
        /\ \/ Becomes(s, "failed")
           \/ /\ Becomes(s, "done") /\ header[s]
              /\ joined'[s] = Report(EndToEndRows(s, sim[s]), FlowQueueRows(s, sim[s]), ana[s])
    BY <1>7, SeedDirs DEF JoinSeed, TypeOK
  <2>2. TypeOK'
    BY <2>1 DEF TypeOK, MergedRows
  <2>3. LinksEnd'
    BY <2>1 DEF TypeOK
  <2>4. WorkersCurrent'
    <3>1. /\ DOMAIN worker = Seeds /\ Tree' = Tree
          /\ \A t \in Seeds : MimicInput(t)' = MimicInput(t)
      BY <2>1 DEF TypeOK, Tree, MimicInput
    <3>2. /\ worker'[s] \in {"done", "failed"} /\ (worker'[s] = "done" => header[s])
          /\ \A t \in Seeds \ {s} : worker'[t] = worker[t] /\ joined'[t] = joined[t]
      BY <2>1, <3>1, SeedDirs
    <3>3. \A t \in Seeds : SeedReport(t)' = SeedReport(t)
      BY <2>1, <3>1 DEF SeedReport
    <3>4. s \in ran /\ worker'[s] = "done" => joined'[s] = SeedReport(s)
      BY <2>1, <3>1 DEF SeedReport
    <3>q. QED BY <2>1, <3>1, <3>2, <3>3, <3>4
  <2>q. QED BY <2>1, <2>2, <2>3, <2>4 DEF SimsMeasured
<1>8. CASE ComparisonsEnd
  <2>1. /\ pc = "compare" /\ (\A s \in Seeds : worker[s] = "done")
        /\ worker' = [s \in Seeds |-> "none"] /\ pc' = "collect"
        /\ UNCHANGED <<round, files, tools, failures, ran>>
    BY <1>8 DEF ComparisonsEnd, PoolReturns, AllDone
  <2>2. built # Partial
    BY <2>1
  <2>3. TypeOK'
    BY <2>1, <2>2 DEF TypeOK, MergedRows
  <2>4. compiles => built = source
    <3>1. 1 \in Seeds
      BY SeedsAssumption DEF Seeds
    <3>q. QED BY <2>1, <2>2, <3>1
  <2>5. \A s \in Seeds : SeedReport(s)' = SeedReport(s)
    BY <2>1 DEF SeedReport, Tree, MimicInput
  <2>q. QED BY <2>1, <2>2, <2>3, <2>4, <2>5 DEF SimsMeasured
<1>9. CASE ComparisonFails
  <2>1. /\ pc = "compare" /\ (\A s \in Seeds : worker[s] # "linking")
        /\ worker' = [s \in Seeds |-> "none"] /\ pc' = "idle" /\ failures' = 0 /\ ran' = {}
        /\ UNCHANGED <<round, files, tools>>
    BY <1>9 DEF ComparisonFails, PoolReturns, Linking
  <2>2. TypeOK'
    BY <2>1, BoundsAssumption DEF TypeOK, MergedRows
  <2>q. QED BY <2>1, <2>2 DEF SimsMeasured
<1>10. CASE Collect
  <2>1. TypeOK'
    BY <1>10, BoundsAssumption DEF TypeOK, MergedRows, Collect
  <2>q. QED BY <1>10, <2>1 DEF Collect, SimsMeasured
<1>q. QED BY <1>1, <1>2, <1>3, <1>4, <1>5, <1>6, <1>7, <1>8, <1>9, <1>10

LEMMA NextCInv == CInv /\ IInv /\ [Next]_vars => CInv'
PROOF
<1> SUFFICES ASSUME CInv, IInv, [Next]_vars PROVE CInv'
  OBVIOUS
<1>1. CASE UNCHANGED vars
  BY <1>1 DEF vars, files, tools, CInv, TypeOK, MergedRows, SimsMeasured, LinksEnd,
              WorkersCurrent, ReportsCurrent, SeedReport, Tree, MimicInput
<1>2. CASE Next
  BY <1>2, SimulationTypes, ComparisonTypes
     DEF Next, SystemStep, WorkerStep, ScriptStep, UserStep
<1>q. QED BY <1>1, <1>2

LEMMA CInvariant == Spec => []CInv
BY InitCInv, NextCInv, IInvariant, PTL DEF Spec

(***************************************************************************)
(* The variables keep their types: the averaged rows have ids that start   *)
(* with 1, ends that are numbers and measurements of the seeds, and the    *)
(* executable is that of a tree or being written by a worker.              *)
(***************************************************************************)
THEOREM ScriptsTypes == Spec => []TypeOK
BY CInvariant, PTL DEF CInv

(***************************************************************************)
(* Whatever commands of a comparison have failed, half-written executables *)
(* were met and workers compiled, analysed and joined in whatever order:   *)
(* the report of each seed that could be analysed has every flow and queue *)
(* the files of its simulation know, once, with the analysis of the same   *)
(* flow, and all were computed with one tree, that in auto_oop/ if this    *)
(* one compiles.                                                           *)
(***************************************************************************)
THEOREM SeedReportsCurrent == Spec => []SeedReportsAreCurrent
PROOF
<1>1. CInv => SeedReportsAreCurrent
  <2> SUFFICES ASSUME CInv, pc = "collect"
               PROVE  /\ compiles => built = source
                      /\ \A s \in ran \cap Seeds :
                           /\ joined[s].flows = OwnFlows(s)
                           /\ joined[s].queues = OwnQueues(s)
                           /\ joined[s].tree = built
    BY DEF SeedReportsAreCurrent
  <2>1. compiles => built = source
    BY DEF CInv, ReportsCurrent
  <2>2. ASSUME NEW s \in ran \cap Seeds
        PROVE  /\ joined[s].flows = OwnFlows(s)
               /\ joined[s].queues = OwnQueues(s)
               /\ joined[s].tree = built
    <3>1. header[s] /\ joined[s] = SeedReport(s) /\ Tree = built
      BY <2>1 DEF CInv, ReportsCurrent, Tree
    <3>2. sim[s] # None /\ Unique(sim[s].flows)
      BY <3>1, WindowFlows DEF CInv, SimsMeasured
    <3>3. joined[s] = Report(EndToEndRows(s, sim[s]), FlowQueueRows(s, sim[s]),
                             AnalyticalModel(MimicRows(s, sim[s]), built))
      BY <3>1, <3>2 DEF SeedReport, MimicInput
    <3>q. QED BY <3>2, <3>3, OwnReport DEF OwnFlows, OwnQueues
  <2>q. QED BY <2>1, <2>2
<1>q. QED BY <1>1, CInvariant, PTL

-------------------------------------------------------------------------------
(* Sorting.  LabelBefore is the order of the columns that label a row; rows *)
(* of one label are in the order of their ids.                             *)

\* Sets of the same size.
LEMMA SameSize ==
  ASSUME NEW S, NEW T, IsFiniteSet(S), NEW f \in [S -> T],
         \A x, y \in S : f[x] = f[y] => x = y, \A t \in T : \E x \in S : f[x] = t
  PROVE  IsFiniteSet(T) /\ Cardinality(T) = Cardinality(S)
PROOF
<1>1. f \in Surjection(S, T) /\ f \in Injection(S, T)
  BY DEF Surjection, Injection, IsInjective
<1>q. QED BY <1>1, FS_Surjection

Columns(r) ==
  Class(r) \in Nat /\ r.client \in Nat /\ r.server \in Nat /\ r.hop \in Nat /\ r.id \in Nat

Sortable(rows) ==
  /\ IsFiniteSet(rows)
  /\ \A r \in rows : Columns(r)
  /\ \A q, r \in rows : q.id = r.id /\ q.hop = r.hop => q = r

LEMMA SeedFilesSortable ==
  ASSUME NEW s, NEW n, NEW rows, SeedFile(s, n, rows)
  PROVE  Sortable(rows)
PROOF
<1>1. ASSUME NEW r \in rows PROVE Columns(r)
  <2>1. Measured(s, n, r) /\ Places \subseteq Nat
    BY HopsAssumption DEF SeedFile, Places, EndToEnd
  <2>2. Class(r) \in Nat
    BY DEF Class
  <2>q. QED BY <2>1, <2>2 DEF Columns, Measured
<1>q. QED BY <1>1 DEF Sortable, SeedFile

LabelBefore(a, b) ==
  \/ Class(a) < Class(b)
  \/ Class(a) = Class(b) /\ a.client < b.client
  \/ Class(a) = Class(b) /\ a.client = b.client /\ a.server < b.server
  \/ /\ Class(a) = Class(b) /\ a.client = b.client
     /\ a.server = b.server /\ a.hop < b.hop

LEMMA LabelOrders ==
  ASSUME NEW a, NEW b, NEW c, Columns(a), Columns(b), Columns(c)
  PROVE  /\ LabelBefore(a, b) /\ LabelBefore(b, c) => LabelBefore(a, c)
         /\ Label(a) = Label(b) => /\ ~LabelBefore(a, b)
                                   /\ LabelBefore(a, c) <=> LabelBefore(b, c)
                                   /\ LabelBefore(c, a) <=> LabelBefore(c, b)
         /\ Label(a) # Label(b) => LabelBefore(a, b) \/ LabelBefore(b, a)
         /\ LabelBefore(a, b) => ~LabelBefore(b, a)
PROOF
<1>1. PICK a1 \in Nat, a2 \in Nat, a3 \in Nat, a4 \in Nat :
        a1 = Class(a) /\ a2 = a.client /\ a3 = a.server /\ a4 = a.hop
  BY DEF Columns
<1>2. PICK b1 \in Nat, b2 \in Nat, b3 \in Nat, b4 \in Nat :
        b1 = Class(b) /\ b2 = b.client /\ b3 = b.server /\ b4 = b.hop
  BY DEF Columns
<1>3. PICK c1 \in Nat, c2 \in Nat, c3 \in Nat, c4 \in Nat :
        c1 = Class(c) /\ c2 = c.client /\ c3 = c.server /\ c4 = c.hop
  BY DEF Columns
<1>4. Label(a) = Label(b) <=> a1 = b1 /\ a2 = b2 /\ a3 = b3 /\ a4 = b4
  BY <1>1, <1>2 DEF Label
<1>5. /\ LabelBefore(a, b) <=> \/ a1 < b1
                               \/ a1 = b1 /\ a2 < b2
                               \/ a1 = b1 /\ a2 = b2 /\ a3 < b3
                               \/ a1 = b1 /\ a2 = b2 /\ a3 = b3 /\ a4 < b4
      /\ LabelBefore(b, a) <=> \/ b1 < a1
                               \/ b1 = a1 /\ b2 < a2
                               \/ b1 = a1 /\ b2 = a2 /\ b3 < a3
                               \/ b1 = a1 /\ b2 = a2 /\ b3 = a3 /\ b4 < a4
  BY <1>1, <1>2 DEF LabelBefore
<1>6. /\ LabelBefore(b, c) <=> \/ b1 < c1
                               \/ b1 = c1 /\ b2 < c2
                               \/ b1 = c1 /\ b2 = c2 /\ b3 < c3
                               \/ b1 = c1 /\ b2 = c2 /\ b3 = c3 /\ b4 < c4
      /\ LabelBefore(a, c) <=> \/ a1 < c1
                               \/ a1 = c1 /\ a2 < c2
                               \/ a1 = c1 /\ a2 = c2 /\ a3 < c3
                               \/ a1 = c1 /\ a2 = c2 /\ a3 = c3 /\ a4 < c4
  BY <1>1, <1>2, <1>3 DEF LabelBefore
<1>7. /\ LabelBefore(c, a) <=> \/ c1 < a1
                               \/ c1 = a1 /\ c2 < a2
                               \/ c1 = a1 /\ c2 = a2 /\ c3 < a3
                               \/ c1 = a1 /\ c2 = a2 /\ c3 = a3 /\ c4 < a4
      /\ LabelBefore(c, b) <=> \/ c1 < b1
                               \/ c1 = b1 /\ c2 < b2
                               \/ c1 = b1 /\ c2 = b2 /\ c3 < b3
                               \/ c1 = b1 /\ c2 = b2 /\ c3 = b3 /\ c4 < b4
  BY <1>1, <1>2, <1>3 DEF LabelBefore
<1>8. LabelBefore(a, b) /\ LabelBefore(b, c) => LabelBefore(a, c)
  BY <1>5, <1>6
<1>9. Label(a) = Label(b) => /\ ~LabelBefore(a, b)
                             /\ LabelBefore(a, c) <=> LabelBefore(b, c)
                             /\ LabelBefore(c, a) <=> LabelBefore(c, b)
  <2> SUFFICES ASSUME a1 = b1 /\ a2 = b2 /\ a3 = b3 /\ a4 = b4
               PROVE  /\ ~LabelBefore(a, b)
                      /\ LabelBefore(a, c) <=> LabelBefore(b, c)
                      /\ LabelBefore(c, a) <=> LabelBefore(c, b)
    BY <1>4
  <2>q. QED BY <1>5, <1>6, <1>7
<1>10. Label(a) # Label(b) => LabelBefore(a, b) \/ LabelBefore(b, a)
  BY <1>4, <1>5
<1>11. LabelBefore(a, b) => ~LabelBefore(b, a)
  BY <1>5
<1>q. QED BY <1>8, <1>9, <1>10, <1>11

LEMMA PrecedesIs ==
  ASSUME NEW a, NEW b, Columns(a), Columns(b)
  PROVE  Precedes(a, b) <=> LabelBefore(a, b) \/ (Label(a) = Label(b) /\ a.id < b.id)
PROOF
<1>1. PICK a1 \in Nat, a2 \in Nat, a3 \in Nat, a4 \in Nat, a5 \in Nat :
        /\ SortKey(a) = <<a1, a2, a3, a4, a5>>
        /\ a1 = Class(a) /\ a2 = a.client /\ a3 = a.server /\ a4 = a.hop /\ a5 = a.id
  BY DEF Columns, SortKey
<1>2. PICK b1 \in Nat, b2 \in Nat, b3 \in Nat, b4 \in Nat, b5 \in Nat :
        /\ SortKey(b) = <<b1, b2, b3, b4, b5>>
        /\ b1 = Class(b) /\ b2 = b.client /\ b3 = b.server /\ b4 = b.hop /\ b5 = b.id
  BY DEF Columns, SortKey
<1> DEFINE k == <<a1, a2, a3, a4, a5>>
           m == <<b1, b2, b3, b4, b5>>
<1>3. Precedes(a, b) <=> \E i \in 1..5 : k[i] < m[i] /\ \A j \in 1..i - 1 : k[j] = m[j]
  BY <1>1, <1>2 DEF Precedes
<1>4. /\ k[1] = a1 /\ k[2] = a2 /\ k[3] = a3 /\ k[4] = a4 /\ k[5] = a5
      /\ m[1] = b1 /\ m[2] = b2 /\ m[3] = b3 /\ m[4] = b4 /\ m[5] = b5
  OBVIOUS
<1> HIDE DEF k, m
<1>5. (\E i \in 1..5 : k[i] < m[i] /\ \A j \in 1..i - 1 : k[j] = m[j])
        <=> \/ k[1] < m[1]
            \/ k[2] < m[2] /\ k[1] = m[1]
            \/ k[3] < m[3] /\ k[1] = m[1] /\ k[2] = m[2]
            \/ k[4] < m[4] /\ k[1] = m[1] /\ k[2] = m[2] /\ k[3] = m[3]
            \/ k[5] < m[5] /\ k[1] = m[1] /\ k[2] = m[2] /\ k[3] = m[3] /\ k[4] = m[4]
  <2>1. /\ 1..5 = {1, 2, 3, 4, 5} /\ 1..1 - 1 = {} /\ 1..2 - 1 = {1}
        /\ 1..3 - 1 = {1, 2} /\ 1..4 - 1 = {1, 2, 3} /\ 1..5 - 1 = {1, 2, 3, 4}
    OBVIOUS
  <2>q. QED BY <2>1
<1>6. Label(a) = Label(b) <=> a1 = b1 /\ a2 = b2 /\ a3 = b3 /\ a4 = b4
  BY <1>1, <1>2 DEF Label
<1>7. LabelBefore(a, b) <=> \/ a1 < b1
                            \/ a1 = b1 /\ a2 < b2
                            \/ a1 = b1 /\ a2 = b2 /\ a3 < b3
                            \/ a1 = b1 /\ a2 = b2 /\ a3 = b3 /\ a4 < b4
  BY <1>1, <1>2 DEF LabelBefore
<1>8. a5 = a.id /\ b5 = b.id
  BY <1>1, <1>2
<1>q. QED BY <1>3, <1>4, <1>5, <1>6, <1>7, <1>8

LEMMA PrecedesOrders ==
  ASSUME NEW a, NEW b, NEW c, Columns(a), Columns(b), Columns(c)
  PROVE  /\ ~Precedes(a, a)
         /\ Precedes(a, b) /\ Precedes(b, c) => Precedes(a, c)
         /\ a.id # b.id \/ a.hop # b.hop => Precedes(a, b) \/ Precedes(b, a)
PROOF
<1>1. ~Precedes(a, a)
  BY PrecedesIs, LabelOrders DEF Columns
<1>2. ASSUME Precedes(a, b), Precedes(b, c) PROVE Precedes(a, c)
  <2>1. /\ LabelBefore(a, b) \/ (Label(a) = Label(b) /\ a.id < b.id)
        /\ LabelBefore(b, c) \/ (Label(b) = Label(c) /\ b.id < c.id)
    BY <1>2, PrecedesIs
  <2>2. CASE LabelBefore(a, b) /\ LabelBefore(b, c)
    BY <2>2, LabelOrders, PrecedesIs
  <2>3. CASE LabelBefore(a, b) /\ Label(b) = Label(c)
    <3>1. LabelBefore(a, c)
      BY <2>3, LabelOrders
    <3>q. QED BY <3>1, PrecedesIs
  <2>4. CASE Label(a) = Label(b) /\ LabelBefore(b, c)
    <3>1. LabelBefore(a, c)
      BY <2>4, LabelOrders
    <3>q. QED BY <3>1, PrecedesIs
  <2>5. CASE Label(a) = Label(b) /\ a.id < b.id /\ Label(b) = Label(c) /\ b.id < c.id
    <3>1. a.id < c.id /\ Label(a) = Label(c)
      BY <2>5 DEF Columns
    <3>q. QED BY <3>1, PrecedesIs
  <2>q. QED BY <2>1, <2>2, <2>3, <2>4, <2>5
<1>3. ASSUME a.id # b.id \/ a.hop # b.hop PROVE Precedes(a, b) \/ Precedes(b, a)
  <2>1. CASE Label(a) # Label(b)
    BY <2>1, LabelOrders, PrecedesIs
  <2>2. CASE Label(a) = Label(b)
    <3>1. a.hop = b.hop
      BY <2>2 DEF Label
    <3>2. a.id < b.id \/ b.id < a.id
      BY <1>3, <3>1 DEF Columns
    <3>q. QED BY <2>2, <3>2, PrecedesIs
  <2>q. QED BY <2>1, <2>2
<1>q. QED BY <1>1, <1>2, <1>3

\* The ranks of a file's rows are the numbers from 1 to their number.
LEMMA RanksNumber ==
  ASSUME NEW rows, Sortable(rows)
  PROVE  /\ Cardinality(rows) \in Nat
         /\ \A r \in rows : Rank(r, rows) \in 1..Cardinality(rows)
         /\ \A q, r \in rows : Rank(q, rows) = Rank(r, rows) => q = r
         /\ \A i \in 1..Cardinality(rows) : \E r \in rows : Rank(r, rows) = i
PROOF
<1> DEFINE before(r) == {q \in rows : Precedes(q, r)}
           N == Cardinality(rows)
<1>1. IsFiniteSet(rows) /\ N \in Nat
  BY FS_CardinalityType DEF Sortable
<1>2. ASSUME NEW S, NEW T, IsFiniteSet(T), S \subseteq T, NEW x \in T, x \notin S
      PROVE  Cardinality(S) \in Nat /\ Cardinality(T) \in Nat /\ Cardinality(S) < Cardinality(T)
  <2>1. /\ IsFiniteSet(S) /\ Cardinality(S) <= Cardinality(T)
        /\ (Cardinality(S) = Cardinality(T) => S = T)
    BY <1>2, FS_Subset
  <2>2. Cardinality(S) \in Nat /\ Cardinality(T) \in Nat
    BY <1>2, <2>1, FS_CardinalityType
  <2>q. QED BY <1>2, <2>1, <2>2
<1>3. ASSUME NEW r \in rows
      PROVE  /\ Cardinality(before(r)) \in Nat /\ Cardinality(before(r)) < N
             /\ Rank(r, rows) = 1 + Cardinality(before(r))
  <2>1. before(r) \subseteq rows /\ r \notin before(r)
    BY PrecedesOrders DEF Sortable
  <2>2. Rank(r, rows) = 1 + Cardinality(before(r))
    BY DEF Rank
  <2> HIDE DEF before
  <2>q. QED BY <1>1, <1>2, <2>1, <2>2
<1>4. ASSUME NEW q \in rows, NEW r \in rows, Precedes(q, r)
      PROVE  Rank(q, rows) # Rank(r, rows)
  <2>1. before(q) \subseteq before(r) /\ q \in before(r) /\ q \notin before(q)
    <3>1. \A p \in rows : Precedes(p, q) => Precedes(p, r)
      BY <1>4, PrecedesOrders DEF Sortable
    <3>2. ~Precedes(q, q)
      BY PrecedesOrders DEF Sortable
    <3>q. QED BY <1>4, <3>1, <3>2
  <2>2. IsFiniteSet(before(r))
    BY <1>1, FS_Subset
  <2> HIDE DEF before
  <2>3. Cardinality(before(q)) < Cardinality(before(r))
    BY <1>2, <2>1, <2>2
  <2>q. QED BY <1>3, <2>3
<1>5. ASSUME NEW q \in rows, NEW r \in rows, q # r PROVE Rank(q, rows) # Rank(r, rows)
  <2>1. q.id # r.id \/ q.hop # r.hop
    BY <1>5 DEF Sortable
  <2>2. Precedes(q, r) \/ Precedes(r, q)
    BY <2>1, PrecedesOrders DEF Sortable
  <2>q. QED BY <1>4, <2>2
<1>6. ASSUME NEW r \in rows PROVE Rank(r, rows) \in 1..N
  <2>1. PICK c \in Nat, n \in Nat : c < n /\ n = N /\ Rank(r, rows) = 1 + c
    BY <1>1, <1>3
  <2>q. QED BY <2>1
<1>7. ASSUME NEW i \in 1..N PROVE \E r \in rows : Rank(r, rows) = i
  <2> DEFINE rank == [r \in rows |-> Rank(r, rows)]
             image == {rank[r] : r \in rows}
  <2>1. /\ rank \in [rows -> image] /\ (\A q, r \in rows : rank[q] = rank[r] => q = r)
        /\ (\A k \in image : \E r \in rows : rank[r] = k) /\ image \subseteq 1..N
    BY <1>5, <1>6
  <2> HIDE DEF rank, image
  <2>2. Cardinality(image) = N
    BY <1>1, <2>1, SameSize
  <2>3. IsFiniteSet(1..N) /\ Cardinality(1..N) = N
    <3>1. /\ IsFiniteSet(1..N)
          /\ Cardinality(1..N) = IF 1 > N THEN 0 ELSE N - 1 + 1
      BY <1>1, FS_Interval
    <3>q. QED BY <1>1, <3>1
  <2>4. image = 1..N
    BY <2>1, <2>2, <2>3, FS_Subset
  <2>q. QED BY <2>1, <2>4 DEF rank
<1>q. QED BY <1>1, <1>5, <1>6, <1>7

-------------------------------------------------------------------------------
(* Two files with as many rows of each label have the same label at each   *)
(* rank.                                                                   *)

AsMany(S, T) == \A row \in S : Cardinality(Like(row, T)) = Cardinality(Like(row, S))

LEMMA LabelSubsets ==
  ASSUME NEW S, NEW T, Sortable(S), Sortable(T), AsMany(S, T), AsMany(T, S), NEW L
  PROVE  Cardinality({r \in S : Label(r) \in L}) = Cardinality({r \in T : Label(r) \in L})
PROOF
<1> DEFINE U == {r \in S : Label(r) \in L}
           V == {r \in T : Label(r) \in L}
           match(row) == CHOOSE g : g \in Bijection(Like(row, S), Like(row, T))
           f == [row \in U |-> match(row)[row]]
<1>1. ASSUME NEW row \in S \cup T
      PROVE  match(row) \in Bijection(Like(row, S), Like(row, T))
  <2>1. Cardinality(Like(row, S)) = Cardinality(Like(row, T))
    BY DEF AsMany
  <2>2. IsFiniteSet(Like(row, S)) /\ IsFiniteSet(Like(row, T))
    BY FS_Subset DEF Like, Sortable
  <2>3. \E g : g \in Bijection(Like(row, S), Like(row, T))
    BY <2>1, <2>2, FS_SameCardinalityBij DEF ExistsBijection
  <2>q. QED BY <2>3
<1>2. ASSUME NEW q, NEW r, Label(q) = Label(r)
      PROVE  match(q) = match(r) /\ Like(q, S) = Like(r, S) /\ Like(q, T) = Like(r, T)
  BY <1>2 DEF Like
<1> HIDE DEF match
<1>3. ASSUME NEW row \in S
      PROVE  match(row)[row] \in T /\ Label(match(row)[row]) = Label(row)
  <2>1. row \in Like(row, S) /\ match(row) \in [Like(row, S) -> Like(row, T)]
    BY <1>1 DEF Like, Bijection, Injection
  <2>2. match(row)[row] \in Like(row, T)
    BY <2>1
  <2>q. QED BY <2>2 DEF Like
<1>4. f \in [U -> V]
  BY <1>3
<1>5. ASSUME NEW q \in U, NEW r \in U, f[q] = f[r] PROVE q = r
  <2>1. f[q] = match(q)[q] /\ f[r] = match(r)[r]
    OBVIOUS
  <2>2. Label(q) = Label(r)
    BY <1>3, <1>5, <2>1
  <2>3. match(q) = match(r) /\ q \in Like(r, S) /\ r \in Like(r, S)
    BY <1>2, <2>2 DEF Like
  <2>4. \A x, y \in Like(r, S) : match(r)[x] = match(r)[y] => x = y
    BY <1>1 DEF Bijection, Injection, IsInjective
  <2>q. QED BY <1>5, <2>1, <2>3, <2>4
<1>6. ASSUME NEW t \in V PROVE \E r \in U : f[r] = t
  <2>1. t \in Like(t, T) /\ match(t) \in Surjection(Like(t, S), Like(t, T))
    BY <1>1 DEF Like, Bijection
  <2>2. PICK r \in Like(t, S) : match(t)[r] = t
    BY <2>1 DEF Surjection
  <2>3. r \in U /\ match(r) = match(t)
    BY <1>2 DEF Like
  <2>4. f[r] = match(r)[r]
    BY <2>3
  <2>q. QED BY <2>2, <2>3, <2>4
<1>7. IsFiniteSet(U)
  BY FS_Subset DEF Sortable
<1> HIDE DEF f, U, V
<1>8. Cardinality(V) = Cardinality(U)
  BY <1>4, <1>5, <1>6, <1>7, SameSize
<1>q. QED BY <1>8 DEF U, V

LEMMA RankBelow ==
  ASSUME NEW S, NEW T, Sortable(S), Sortable(T), AsMany(S, T), AsMany(T, S),
         NEW a \in S, NEW b \in T, Rank(a, S) = Rank(b, T)
  PROVE  ~LabelBefore(a, b)
PROOF
<1> SUFFICES ASSUME LabelBefore(a, b) PROVE FALSE
  OBVIOUS
<1> DEFINE L == {Label(r) : r \in {q \in S \cup T : ~LabelBefore(a, q)}}
           U == {r \in S : Label(r) \in L}
           V == {r \in T : Label(r) \in L}
           P == {r \in S : Precedes(r, a)}
           Q == {r \in T : Precedes(r, b)}
<1>1. Columns(a) /\ Columns(b) /\ \A r \in S \cup T : Columns(r)
  BY DEF Sortable
<1>2. ASSUME NEW r \in S \cup T PROVE Label(r) \in L <=> ~LabelBefore(a, r)
  <2>1. ASSUME NEW q \in S \cup T, ~LabelBefore(a, q), Label(q) = Label(r)
        PROVE  ~LabelBefore(a, r)
    BY <1>1, <2>1, LabelOrders
  <2>q. QED BY <2>1
<1>3. P \subseteq U /\ a \in U /\ a \notin P
  <2>1. ASSUME NEW r \in S, Precedes(r, a) PROVE ~LabelBefore(a, r)
    BY <1>1, <2>1, PrecedesIs, LabelOrders
  <2>2. ~LabelBefore(a, a) /\ ~Precedes(a, a)
    BY <1>1, LabelOrders, PrecedesOrders
  <2>q. QED BY <1>2, <2>1, <2>2
<1>4. V \subseteq Q
  <2>1. ASSUME NEW r \in T, ~LabelBefore(a, r) PROVE Precedes(r, b)
    <3>1. LabelBefore(r, b)
      <4>1. CASE Label(r) = Label(a)
        BY <1>1, <4>1, LabelOrders
      <4>2. CASE Label(r) # Label(a)
        <5>1. LabelBefore(r, a)
          BY <1>1, <2>1, <4>2, LabelOrders
        <5>q. QED BY <1>1, <5>1, LabelOrders
      <4>q. QED BY <4>1, <4>2
    <3>q. QED BY <1>1, <3>1, PrecedesIs
  <2>q. QED BY <1>2, <2>1
<1>5. Cardinality(U) = Cardinality(V)
  <2> HIDE DEF L
  <2>q. QED BY LabelSubsets
<1>6. Rank(a, S) = 1 + Cardinality(P) /\ Rank(b, T) = 1 + Cardinality(Q)
  BY DEF Rank
<1>7. IsFiniteSet(U) /\ IsFiniteSet(Q)
  BY FS_Subset DEF Sortable
<1> HIDE DEF L, U, V, P, Q
<1>8. /\ Cardinality(P) \in Nat /\ Cardinality(U) \in Nat
      /\ Cardinality(V) \in Nat /\ Cardinality(Q) \in Nat
      /\ Cardinality(P) <= Cardinality(U) /\ Cardinality(P) # Cardinality(U)
      /\ Cardinality(V) <= Cardinality(Q)
  <2>1. IsFiniteSet(P) /\ IsFiniteSet(V)
    BY <1>3, <1>4, <1>7, FS_Subset
  <2>2. Cardinality(P) <= Cardinality(U) /\ Cardinality(P) # Cardinality(U)
    BY <1>3, <1>7, FS_Subset
  <2>3. Cardinality(V) <= Cardinality(Q)
    BY <1>4, <1>7, FS_Subset
  <2>q. QED BY <1>7, <2>1, <2>2, <2>3, FS_CardinalityType
<1>9. Cardinality(P) = Cardinality(Q)
  <2>1. PICK p \in Nat, q \in Nat : p = Cardinality(P) /\ q = Cardinality(Q)
    BY <1>8
  <2>2. 1 + p = 1 + q
    BY <1>6, <2>1
  <2>q. QED BY <2>1, <2>2
<1>q. QED BY <1>5, <1>8, <1>9

LEMMA RanksAreLabels ==
  ASSUME NEW S, NEW T, Sortable(S), Sortable(T), AsMany(S, T), AsMany(T, S)
  PROVE  /\ Cardinality(S) = Cardinality(T)
         /\ \A a \in S : \A b \in T : Rank(a, S) = Rank(b, T) => Label(a) = Label(b)
PROOF
<1>1. Cardinality(S) = Cardinality(T)
  <2> DEFINE L == {Label(r) : r \in S \cup T}
  <2>1. {r \in S : Label(r) \in L} = S /\ {r \in T : Label(r) \in L} = T
    OBVIOUS
  <2> HIDE DEF L
  <2>q. QED BY <2>1, LabelSubsets
<1>2. ASSUME NEW a \in S, NEW b \in T, Rank(a, S) = Rank(b, T) PROVE Label(a) = Label(b)
  <2>1. ~LabelBefore(a, b) /\ ~LabelBefore(b, a)
    BY <1>2, RankBelow
  <2>q. QED BY <2>1, LabelOrders DEF Sortable
<1>q. QED BY <1>1, <1>2

-------------------------------------------------------------------------------
(* Merging by position.  F[s] are the rows of one file of seed s that are  *)
(* merged, and At(F, s, i) is the one at position i.                       *)

\* The rows of each seed, of which none has exactly 70 bytes.
MergeFile(F) ==
  \A s \in Seeds : /\ \E n : SeedFile(s, n, F[s])
                   /\ \A r \in F[s] : "odd" \notin SizeOf(r)

AlikeFiles(F) == \A s, t \in Seeds : AsMany(F[s], F[t])

Length(F) == Cardinality(F[1])

At(F, s, i) == CHOOSE r \in F[s] : Rank(r, F[s]) = i

LEMMA SomeSeed == 1 \in Seeds /\ NumSeeds \in Seeds /\ Seeds = 1..NumSeeds /\ Seeds # {}
BY SeedsAssumption DEF Seeds

LEMMA MergeFilesSortable ==
  ASSUME NEW F, MergeFile(F), NEW s \in Seeds
  PROVE  Sortable(F[s])
BY SeedFilesSortable DEF MergeFile

LEMMA AtRank ==
  ASSUME NEW F, MergeFile(F), AlikeFiles(F), NEW s \in Seeds
  PROVE  /\ Length(F) \in Nat
         /\ \A i \in 1..Length(F) : /\ At(F, s, i) \in F[s] /\ Rank(At(F, s, i), F[s]) = i
                                    /\ \A t \in Seeds : Label(At(F, s, i)) = Label(At(F, t, i))
         /\ \A r \in F[s] : Rank(r, F[s]) \in 1..Length(F) /\ At(F, s, Rank(r, F[s])) = r
PROOF
<1>1. ASSUME NEW t \in Seeds
      PROVE  /\ Cardinality(F[t]) = Length(F) /\ Length(F) \in Nat
             /\ \A i \in 1..Length(F) : At(F, t, i) \in F[t] /\ Rank(At(F, t, i), F[t]) = i
             /\ \A r \in F[t] : /\ Rank(r, F[t]) \in 1..Length(F)
                                /\ At(F, t, Rank(r, F[t])) = r
  <2>1. Sortable(F[t]) /\ Sortable(F[1])
    BY SomeSeed, MergeFilesSortable
  <2>2. Cardinality(F[t]) = Length(F)
    BY <2>1, SomeSeed, RanksAreLabels DEF AlikeFiles, Length
  <2>3. /\ Length(F) \in Nat
        /\ \A r \in F[t] : Rank(r, F[t]) \in 1..Length(F)
        /\ \A q, r \in F[t] : Rank(q, F[t]) = Rank(r, F[t]) => q = r
        /\ \A i \in 1..Length(F) : \E r \in F[t] : Rank(r, F[t]) = i
    BY <2>1, <2>2, RanksNumber
  <2>4. \A i \in 1..Length(F) : At(F, t, i) \in F[t] /\ Rank(At(F, t, i), F[t]) = i
    BY <2>3 DEF At
  <2>q. QED BY <2>2, <2>3, <2>4
<1>2. ASSUME NEW t \in Seeds, NEW i \in 1..Length(F) PROVE Label(At(F, s, i)) = Label(At(F, t, i))
  <2>1. Sortable(F[s]) /\ Sortable(F[t]) /\ AsMany(F[s], F[t]) /\ AsMany(F[t], F[s])
    BY MergeFilesSortable DEF AlikeFiles
  <2>q. QED BY <1>1, <2>1, RanksAreLabels
<1>q. QED BY <1>1, <1>2

\* The frames of all seeds, with ids I.
Entry(F, s, i, id) ==
  [seed |-> s, index |-> i,
   row |-> [id |-> id, client |-> At(F, s, i).client, server |-> At(F, s, i).server,
            hop |-> At(F, s, i).hop, of |-> At(F, s, i).of]]

Entries(F, I) == UNION {{Entry(F, s, i, I[s][i]) : i \in 1..Length(F)} : s \in Seeds}

Positions(F) == [s \in Seeds |-> [i \in 1..Length(F) |-> i]]

Groups(F) == [s \in Seeds |-> [i \in 1..Length(F) |-> GroupId(At(F, s, i), F[s])]]

LEMMA FrameEntries ==
  ASSUME NEW F, MergeFile(F), AlikeFiles(F), NEW s \in Seeds, NEW x
  PROVE  x \in Frame(s, F[s])
           <=> \E i \in 1..Length(F) : x = [seed |-> s, index |-> i, row |-> At(F, s, i)]
PROOF
<1>1. ASSUME NEW r \in F[s] 
      PROVE  \E i \in 1..Length(F) : r = At(F, s, i) /\ Rank(r, F[s]) = i
  BY AtRank
<1>2. ASSUME NEW i \in 1..Length(F)
      PROVE  At(F, s, i) \in F[s] /\ Rank(At(F, s, i), F[s]) = i
  BY AtRank
<1>3. x \in Frame(s, F[s]) => \E i \in 1..Length(F) : x = [seed |-> s, index |-> i, row |-> At(F, s, i)]
  BY <1>1 DEF Frame
<1>4. ASSUME NEW i \in 1..Length(F), x = [seed |-> s, index |-> i, row |-> At(F, s, i)]
      PROVE  x \in Frame(s, F[s])
  BY <1>2, <1>4 DEF Frame
<1>q. QED BY <1>3, <1>4

LEMMA EntryIs ==
  ASSUME NEW F, MergeFile(F), AlikeFiles(F), NEW s \in Seeds, NEW i \in 1..Length(F), NEW id
  PROVE  WithId([seed |-> s, index |-> i, row |-> At(F, s, i)], id) = Entry(F, s, i, id)
PROOF
<1> DEFINE x == [seed |-> s, index |-> i, row |-> At(F, s, i)]
<1>1. IsRecord(At(F, s, i))
  BY AtRank DEF MergeFile, SeedFile, Measured
<1>2. IsFrame(x) /\ x.seed = s /\ x.index = i /\ x.row = At(F, s, i)
  BY <1>1 DEF IsFrame
<1> HIDE DEF x
<1>3. WithId(x, id) = Entry(F, s, i, id)
  BY <1>2, IdReplaced DEF Entry
<1>q. QED BY <1>3 DEF x

LEMMA InEntries ==
  ASSUME NEW F, NEW I, NEW z
  PROVE  z \in Entries(F, I)
           <=> \E s \in Seeds : \E i \in 1..Length(F) : z = Entry(F, s, i, I[s][i])
BY DEF Entries

LEMMA NumberedEntries ==
  ASSUME NEW rows, NEW F, F = [s \in Seeds |-> SplitBySize(rows[s])],
         MergeFile(F), AlikeFiles(F)
  PROVE  Numbered(Sorted(rows, NumSeeds)) = Entries(F, Positions(F))
PROOF
<1>1. ASSUME NEW x
      PROVE  x \in Sorted(rows, NumSeeds)
               <=> \E s \in Seeds : \E i \in 1..Length(F) :
                     x = [seed |-> s, index |-> i, row |-> At(F, s, i)]
  <2>1. x \in Sorted(rows, NumSeeds) <=> \E s \in Seeds : x \in Frame(s, F[s])
    BY SomeSeed DEF Sorted
  <2>q. QED BY <2>1, FrameEntries
<1>2. ASSUME NEW s \in Seeds, NEW i \in 1..Length(F)
      PROVE  /\ WithId([seed |-> s, index |-> i, row |-> At(F, s, i)], i)
                  = Entry(F, s, i, Positions(F)[s][i])
  BY EntryIs DEF Positions
<1>3. ASSUME NEW z \in Numbered(Sorted(rows, NumSeeds)) PROVE z \in Entries(F, Positions(F))
  <2>1. PICK x \in Sorted(rows, NumSeeds) : z = WithId(x, x.index)
    BY DEF Numbered
  <2>2. PICK s \in Seeds, i \in 1..Length(F) : x = [seed |-> s, index |-> i, row |-> At(F, s, i)]
    BY <1>1
  <2>3. z = Entry(F, s, i, Positions(F)[s][i])
    BY <1>2, <2>1, <2>2
  <2>q. QED BY <2>3, InEntries
<1>4. ASSUME NEW z \in Entries(F, Positions(F)) PROVE z \in Numbered(Sorted(rows, NumSeeds))
  <2>1. PICK s \in Seeds, i \in 1..Length(F) : z = Entry(F, s, i, Positions(F)[s][i])
    BY InEntries
  <2>2. PICK x \in Sorted(rows, NumSeeds) : x = [seed |-> s, index |-> i, row |-> At(F, s, i)]
    BY <1>1
  <2>3. z = WithId(x, x.index)
    BY <1>2, <2>1, <2>2
  <2>q. QED BY <2>3 DEF Numbered
<1>q. QED BY <1>3, <1>4

LEMMA GroupedEntries ==
  ASSUME NEW rows, NEW F, F = [s \in Seeds |-> SplitBySize(rows[s])],
         MergeFile(F), AlikeFiles(F)
  PROVE  SortedGroups(rows, NumSeeds) = Entries(F, Groups(F))
PROOF
<1>1. ASSUME NEW z
      PROVE  z \in SortedGroups(rows, NumSeeds)
               <=> \E s \in Seeds : \E x \in Frame(s, F[s]) : z = WithId(x, GroupId(x.row, F[s]))
  <2>1. z \in SortedGroups(rows, NumSeeds) <=> \E s \in Seeds : z \in Regrouped(Frame(s, F[s]))
    BY SomeSeed DEF SortedGroups
  <2>2. ASSUME NEW s \in Seeds
        PROVE  z \in Regrouped(Frame(s, F[s]))
                 <=> \E x \in Frame(s, F[s]) : z = WithId(x, GroupId(x.row, F[s]))
    BY FrameRows DEF Regrouped
  <2>q. QED BY <2>1, <2>2
<1>2. ASSUME NEW s \in Seeds, NEW i \in 1..Length(F),
             NEW x, x = [seed |-> s, index |-> i, row |-> At(F, s, i)]
      PROVE  WithId(x, GroupId(x.row, F[s])) = Entry(F, s, i, Groups(F)[s][i])
  <2>1. x.row = At(F, s, i) /\ Groups(F)[s][i] = GroupId(At(F, s, i), F[s])
    BY <1>2 DEF Groups
  <2>q. QED BY <1>2, <2>1, EntryIs
<1>3. ASSUME NEW z \in SortedGroups(rows, NumSeeds) PROVE z \in Entries(F, Groups(F))
  <2>1. PICK s \in Seeds : \E x \in Frame(s, F[s]) : z = WithId(x, GroupId(x.row, F[s]))
    BY <1>1
  <2>2. PICK x \in Frame(s, F[s]) : z = WithId(x, GroupId(x.row, F[s]))
    BY <2>1
  <2>3. PICK i \in 1..Length(F) : x = [seed |-> s, index |-> i, row |-> At(F, s, i)]
    BY <2>2, FrameEntries
  <2>4. z = Entry(F, s, i, Groups(F)[s][i])
    BY <1>2, <2>2, <2>3
  <2>q. QED BY <2>4, InEntries
<1>4. ASSUME NEW z \in Entries(F, Groups(F)) PROVE z \in SortedGroups(rows, NumSeeds)
  <2>1. PICK s \in Seeds, i \in 1..Length(F) : z = Entry(F, s, i, Groups(F)[s][i])
    BY InEntries
  <2>2. PICK x : x = [seed |-> s, index |-> i, row |-> At(F, s, i)]
    OBVIOUS
  <2>3. x \in Frame(s, F[s]) /\ z = WithId(x, GroupId(x.row, F[s]))
    BY <1>2, <2>1, <2>2, FrameEntries
  <2>q. QED BY <1>1, <2>3
<1>q. QED BY <1>3, <1>4

\* The measurements of frames, and of all seeds at position i.
OfFrames(A) == UNION {y.row.of : y \in A}
SeedsOf(A) == {y.seed : y \in A}
OfAll(F, i) == UNION {At(F, k, i).of : k \in Seeds}

\* The average at position i: the labels are those of any seed.
Average(F, i, id) ==
  [id |-> id, client |-> At(F, 1, i).client, server |-> At(F, 1, i).server,
   hop |-> At(F, 1, i).hop, of |-> OfAll(F, i)]

LEMMA AlignedEntries ==
  ASSUME NEW F, NEW I, NEW s \in Seeds, NEW i \in 1..Length(F), NEW x, x = Entry(F, s, i, I[s][i])
  PROVE  /\ SeedsOf(Aligned(x, Entries(F, I))) = Seeds
         /\ OfFrames(Aligned(x, Entries(F, I))) = OfAll(F, i)
PROOF
<1> DEFINE A == {Entry(F, k, i, I[k][i]) : k \in Seeds}
<1>1. ASSUME NEW k, NEW j, NEW id
      PROVE  /\ Entry(F, k, j, id).seed = k /\ Entry(F, k, j, id).index = j
             /\ Entry(F, k, j, id).row.of = At(F, k, j).of
  BY DEF Entry
<1>2. Aligned(x, Entries(F, I)) = A
  <2>1. ASSUME NEW y \in Aligned(x, Entries(F, I)) PROVE y \in A
    <3>1. y \in Entries(F, I) /\ y.index = i
      BY <1>1 DEF Aligned
    <3>2. PICK k \in Seeds, j \in 1..Length(F) : y = Entry(F, k, j, I[k][j])
      BY <3>1, InEntries
    <3>3. j = i
      BY <1>1, <3>1, <3>2
    <3>q. QED BY <3>2, <3>3
  <2>2. ASSUME NEW y \in A PROVE y \in Aligned(x, Entries(F, I))
    <3>1. PICK k \in Seeds : y = Entry(F, k, i, I[k][i])
      OBVIOUS
    <3>2. y \in Entries(F, I)
      BY <3>1, InEntries
    <3>3. y.index = i /\ x.index = i
      BY <1>1, <3>1
    <3>q. QED BY <3>2, <3>3 DEF Aligned
  <2> HIDE DEF A
  <2>q. QED BY <2>1, <2>2
<1>3. {y.seed : y \in A} = Seeds
  <2>1. \A k \in Seeds : Entry(F, k, i, I[k][i]).seed = k
    BY <1>1
  <2>q. QED BY <2>1
<1>4. UNION {y.row.of : y \in A} = UNION {At(F, k, i).of : k \in Seeds}
  <2>1. \A k \in Seeds : Entry(F, k, i, I[k][i]).row.of = At(F, k, i).of
    BY <1>1
  <2>q. QED BY <2>1
<1>q. QED BY <1>2, <1>3, <1>4, Zenon DEF SeedsOf, OfFrames, OfAll

LEMMA AverageIs ==
  ASSUME NEW F, MergeFile(F), AlikeFiles(F), NEW I,
         NEW t \in Seeds, NEW i \in 1..Length(F), NEW x, x = Entry(F, t, i, I[t][i]),
         NEW S, S = OfAll(F, i)
  PROVE  [x.row EXCEPT !.of = S] = Average(F, i, I[t][i])
PROOF
<1>1. /\ At(F, t, i).client = At(F, 1, i).client
      /\ At(F, t, i).server = At(F, 1, i).server
      /\ At(F, t, i).hop = At(F, 1, i).hop
  <2>1. Label(At(F, t, i)) = Label(At(F, 1, i))
    BY SomeSeed, AtRank
  <2>q. QED BY <2>1 DEF Label
<1>2. x.row = [id |-> I[t][i], client |-> At(F, t, i).client, server |-> At(F, t, i).server,
               hop |-> At(F, t, i).hop, of |-> At(F, t, i).of]
  BY DEF Entry
<1>3. [x.row EXCEPT !.of = S]
        = [id |-> I[t][i], client |-> At(F, t, i).client, server |-> At(F, t, i).server,
           hop |-> At(F, t, i).hop, of |-> S]
  <2>1. PICK row : row = x.row
    OBVIOUS
  <2>2. /\ row.id = I[t][i] /\ row.client = At(F, t, i).client
        /\ row.server = At(F, t, i).server /\ row.hop = At(F, t, i).hop /\ IsRecord(row)
    BY <1>2, <2>1 DEF IsRecord
  <2>q. QED BY <2>1, <2>2, OfReplaced
<1>q. QED BY <1>1, <1>3 DEF Average

LEMMA OfSeedEntries ==
  ASSUME NEW F, NEW I, NEW t \in Seeds, NEW x
  PROVE  x \in OfSeed(t, Entries(F, I))
           <=> \E i \in 1..Length(F) : x = Entry(F, t, i, I[t][i])
PROOF
<1>1. \A s, i : Entry(F, s, i, I[s][i]).seed = s
  BY DEF Entry
<1>q. QED BY <1>1, InEntries DEF OfSeed

LEMMA EntryAverage ==
  ASSUME NEW F, MergeFile(F), AlikeFiles(F), NEW I,
         NEW t \in Seeds, NEW i \in 1..Length(F), NEW x, x = Entry(F, t, i, I[t][i]),
         NEW A, A = Aligned(x, Entries(F, I))
  PROVE  /\ [x.row EXCEPT !.of = OfFrames(A)] = Average(F, i, I[t][i])
         /\ [x.row EXCEPT !.of = IF SeedsOf(A) = 1..NumSeeds THEN OfFrames(A) ELSE {}]
              = Average(F, i, I[t][i])
PROOF
<1>1. SeedsOf(A) = Seeds /\ OfFrames(A) = OfAll(F, i)
  BY AlignedEntries
<1>2. PICK S : S = OfFrames(A)
  OBVIOUS
<1>3. [x.row EXCEPT !.of = S] = Average(F, i, I[t][i])
  BY <1>1, <1>2, AverageIs
<1>4. (IF SeedsOf(A) = 1..NumSeeds THEN OfFrames(A) ELSE {}) = S
  BY <1>1, <1>2, SomeSeed
<1>q. QED BY <1>2, <1>3, <1>4, Zenon

Mean(x, frames) == [x.row EXCEPT !.of = OfFrames(Aligned(x, frames))]

Sum(x, frames) ==
  [x.row EXCEPT !.of = IF SeedsOf(Aligned(x, frames)) = 1..NumSeeds
                       THEN OfFrames(Aligned(x, frames)) ELSE {}]

Means(t, frames) == {Mean(x, frames) : x \in OfSeed(t, frames)}
Sums(t, frames) == {Sum(x, frames) : x \in OfSeed(t, frames)}
Averages(F, I, t) == {Average(F, i, I[t][i]) : i \in 1..Length(F)}

LEMMA AveragesAre ==
  ASSUME NEW F, MergeFile(F), AlikeFiles(F), NEW I, NEW t \in Seeds
  PROVE  Means(t, Entries(F, I)) = Averages(F, I, t) /\ Sums(t, Entries(F, I)) = Averages(F, I, t)
PROOF
<1> DEFINE Z == Entries(F, I)
           avg(i) == Average(F, i, I[t][i])
<1>1. ASSUME NEW i \in 1..Length(F), NEW x, x = Entry(F, t, i, I[t][i])
      PROVE  Mean(x, Z) = avg(i) /\ Sum(x, Z) = avg(i)
  BY <1>1, EntryAverage DEF Mean, Sum
<1>2. \A x : x \in OfSeed(t, Z) <=> \E i \in 1..Length(F) : x = Entry(F, t, i, I[t][i])
  BY OfSeedEntries
<1> HIDE DEF Z, avg
<1>3. /\ {Mean(x, Z) : x \in OfSeed(t, Z)} = {avg(i) : i \in 1..Length(F)}
      /\ {Sum(x, Z) : x \in OfSeed(t, Z)} = {avg(i) : i \in 1..Length(F)}
  BY <1>1, <1>2
<1>q. QED BY <1>3 DEF Z, avg, Means, Sums, Averages

LEMMA MergesAre ==
  ASSUME NEW F, MergeFile(F), AlikeFiles(F), NEW I
  PROVE  /\ MergeMeans(Entries(F, I), NumSeeds) = Averages(F, I, NumSeeds)
         /\ MergeSums(Entries(F, I), NumSeeds) = Averages(F, I, 1)
PROOF
<1>1. MergeMeans(Entries(F, I), NumSeeds) = Means(NumSeeds, Entries(F, I))
  BY DEF MergeMeans, OfFrames, Mean, Means
<1>2. MergeSums(Entries(F, I), NumSeeds) = Sums(1, Entries(F, I))
  BY DEF MergeSums, OfFrames, SeedsOf, Sum, Sums
<1>3. Means(NumSeeds, Entries(F, I)) = Averages(F, I, NumSeeds)
  BY SomeSeed, AveragesAre
<1>4. Sums(1, Entries(F, I)) = Averages(F, I, 1)
  BY SomeSeed, AveragesAre
<1>q. QED BY <1>1, <1>2, <1>3, <1>4

\* AveragesOneEach for the files F.
OneEach(frame, F) ==
  /\ \A s \in Seeds :
       /\ \A r \in frame : \E row \in F[s] :
            row.of = {x \in r.of : x.seed = s} /\ Label(row) = Label(r)
       /\ \A row \in F[s] : \E r \in frame : row.of \subseteq r.of
  /\ \A r, q \in frame : r.of \cap q.of # {} => r = q

LEMMA MeasuredAt ==
  ASSUME NEW F, MergeFile(F), NEW s \in Seeds, NEW r \in F[s], NEW x
  PROVE  /\ x \in r.of => x.seed = s /\ x.flow = r.id /\ x.hop = r.hop
         /\ r.of # {}
         /\ \E m : r.of = {m} /\ m.size \in {"ack", "data"}
PROOF
<1>1. PICK n : SeedFile(s, n, F[s])
  BY DEF MergeFile
<1>2. PICK size \in Sizes :
        r.of = {[seed |-> s, round |-> n, flow |-> r.id, size |-> size, hop |-> r.hop]}
  BY <1>1 DEF SeedFile, Measured
<1>3. PICK m : m = [seed |-> s, round |-> n, flow |-> r.id, size |-> size, hop |-> r.hop]
  OBVIOUS
<1>4. r.of = {m} /\ m.seed = s /\ m.flow = r.id /\ m.hop = r.hop /\ m.size = size
  BY <1>2, <1>3
<1>5. size # "odd"
  BY <1>4 DEF MergeFile, SizeOf
<1>6. m.size \in {"ack", "data"}
  BY <1>2, <1>4, <1>5 DEF Sizes
<1>q. QED BY <1>4, <1>6

LEMMA AverageLabel ==
  ASSUME NEW F, MergeFile(F), AlikeFiles(F), NEW s \in Seeds, NEW i \in 1..Length(F), NEW id
  PROVE  Label(Average(F, i, id)) = Label(At(F, s, i))
PROOF
<1> DEFINE r == Average(F, i, id)
<1>1. \A k \in Seeds : Label(At(F, k, i)) = Label(At(F, s, i))
  BY AtRank
<1>2. /\ r.client = At(F, 1, i).client /\ r.server = At(F, 1, i).server
      /\ r.hop = At(F, 1, i).hop /\ r.of = OfAll(F, i)
  BY DEF Average
<1> HIDE DEF r
<1>3. \A k \in Seeds : Class(At(F, k, i)) = Class(At(F, s, i))
  BY <1>1 DEF Label
<1>4. "ack" \in SizeOf(r) <=> \E k \in Seeds : "ack" \in SizeOf(At(F, k, i))
  BY <1>2 DEF SizeOf, OfAll
<1>5. Class(r) = Class(At(F, s, i))
  <2>1. \A k \in Seeds : "ack" \in SizeOf(At(F, k, i)) <=> Class(At(F, k, i)) = 0
    BY DEF Class
  <2>2. "ack" \in SizeOf(r) <=> Class(At(F, s, i)) = 0
    BY <1>3, <1>4, <2>1
  <2>3. Class(At(F, s, i)) \in {0, 1}
    BY DEF Class
  <2>q. QED BY <2>2, <2>3 DEF Class
<1>6. Label(At(F, 1, i)) = Label(At(F, s, i))
  BY <1>1, SomeSeed
<1>7. /\ At(F, 1, i).client = At(F, s, i).client /\ At(F, 1, i).server = At(F, s, i).server
      /\ At(F, 1, i).hop = At(F, s, i).hop
  BY <1>6 DEF Label
<1>8. Label(r) = Label(At(F, s, i))
  BY <1>2, <1>5, <1>7 DEF Label
<1>q. QED BY <1>8 DEF r

LEMMA AveragesOne ==
  ASSUME NEW F, MergeFile(F), AlikeFiles(F), NEW I, NEW t \in Seeds
  PROVE  OneEach(Averages(F, I, t), F)
PROOF
<1>1. ASSUME NEW s \in Seeds, NEW i \in 1..Length(F), NEW id
      PROVE  At(F, s, i).of = {x \in Average(F, i, id).of : x.seed = s}
  <2>1. Average(F, i, id).of = OfAll(F, i)
    BY DEF Average
  <2>2. \A k \in Seeds : At(F, k, i) \in F[k]
    BY AtRank
  <2>3. \A k \in Seeds : \A x \in At(F, k, i).of : x.seed = k
    BY <2>2, MeasuredAt
  <2>4. \A x : x \in OfAll(F, i) <=> \E k \in Seeds : x \in At(F, k, i).of
    BY DEF OfAll
  <2>5. \A x \in OfAll(F, i) : x.seed = s <=> x \in At(F, s, i).of
    BY <2>3, <2>4
  <2>6. At(F, s, i).of \subseteq OfAll(F, i)
    BY <2>4
  <2>q. QED BY <2>1, <2>5, <2>6
<1>2. \A r : r \in Averages(F, I, t) <=> \E i \in 1..Length(F) : r = Average(F, i, I[t][i])
  BY DEF Averages
<1>3. ASSUME NEW s \in Seeds, NEW r \in Averages(F, I, t)
      PROVE  \E row \in F[s] : row.of = {x \in r.of : x.seed = s} /\ Label(row) = Label(r)
  <2>1. PICK i \in 1..Length(F) : r = Average(F, i, I[t][i])
    BY <1>2
  <2>2. At(F, s, i) \in F[s]
    BY AtRank
  <2>3. Label(At(F, s, i)) = Label(r)
    BY <2>1, AverageLabel
  <2>4. At(F, s, i).of = {x \in r.of : x.seed = s}
    BY <1>1, <2>1
  <2>q. QED BY <2>2, <2>3, <2>4
<1>4. ASSUME NEW s \in Seeds, NEW row \in F[s]
      PROVE  \E r \in Averages(F, I, t) : row.of \subseteq r.of
  <2>1. PICK i \in 1..Length(F) : At(F, s, i) = row
    BY AtRank
  <2>2. PICK r : r = Average(F, i, I[t][i])
    OBVIOUS
  <2>3. row.of = {x \in r.of : x.seed = s}
    BY <1>1, <2>1, <2>2
  <2>q. QED BY <1>2, <2>2, <2>3
<1>5. ASSUME NEW r \in Averages(F, I, t), NEW q \in Averages(F, I, t), r.of \cap q.of # {}
      PROVE  r = q
  <2>1. PICK i \in 1..Length(F), j \in 1..Length(F) :
          r = Average(F, i, I[t][i]) /\ q = Average(F, j, I[t][j])
    BY <1>2
  <2>2. PICK x : x \in OfAll(F, i) /\ x \in OfAll(F, j)
    BY <1>5, <2>1 DEF Average
  <2>3. PICK k \in Seeds, l \in Seeds : x \in At(F, k, i).of /\ x \in At(F, l, j).of
    BY <2>2 DEF OfAll
  <2>4. At(F, k, i) \in F[k] /\ At(F, l, j) \in F[l]
    BY AtRank
  <2>5. /\ k = l /\ At(F, k, i).id = At(F, l, j).id /\ At(F, k, i).hop = At(F, l, j).hop
    BY <2>3, <2>4, MeasuredAt
  <2>6. At(F, k, i) = At(F, k, j)
    BY <2>4, <2>5, MergeFilesSortable DEF Sortable
  <2>7. i = j
    BY <2>6, AtRank
  <2>q. QED BY <2>1, <2>7
<1>q. QED BY <1>3, <1>4, <1>5 DEF OneEach

-------------------------------------------------------------------------------
(* The three merged files.                                                 *)

Mimics == [s \in Seeds |-> MimicPart(s)]
EndToEnds == [s \in Seeds |-> EndToEndPart(s)]
FlowQueues == [s \in Seeds |-> FlowQueuePart(s)]

LEMMA PartsAreFiles ==
  ASSUME CInv, \A s \in Seeds : sim[s] # None
  PROVE  MergeFile(Mimics) /\ MergeFile(EndToEnds) /\ MergeFile(FlowQueues)
PROOF
<1>1. ASSUME NEW s \in Seeds
      PROVE  /\ SeedFile(s, sim[s].round, MimicPart(s))
             /\ SeedFile(s, sim[s].round, EndToEndPart(s))
             /\ SeedFile(s, sim[s].round, FlowQueuePart(s))
  <2>1. Unique(sim[s].flows)
    BY WindowFlows
  <2>q. QED
    BY <2>1, FilesOfSeed, SplitOfSeed DEF MimicPart, EndToEndPart, FlowQueuePart
<1>2. \A rows : \A r \in SplitBySize(rows) : "odd" \notin SizeOf(r)
  BY DEF SplitBySize
<1>3. ASSUME NEW s \in Seeds
      PROVE  /\ \A r \in MimicPart(s) : "odd" \notin SizeOf(r)
             /\ \A r \in EndToEndPart(s) : "odd" \notin SizeOf(r)
             /\ \A r \in FlowQueuePart(s) : "odd" \notin SizeOf(r)
  BY <1>2 DEF MimicPart, EndToEndPart, FlowQueuePart
<1>q. QED BY <1>1, <1>3 DEF MergeFile, Mimics, EndToEnds, FlowQueues

LEMMA PartsAlike ==
  /\ Alike(MimicPart) <=> AlikeFiles(Mimics)
  /\ Alike(EndToEndPart) <=> AlikeFiles(EndToEnds)
  /\ Alike(FlowQueuePart) <=> AlikeFiles(FlowQueues)
BY DEF Alike, AlikeFiles, AsMany, Mimics, EndToEnds, FlowQueues

LEMMA MergedAverages ==
  ASSUME CInv, \A s \in Seeds : sim[s] # None, NEW m, m = MergeSeeds(sim, NumSeeds)
  PROVE  /\ Alike(MimicPart) => m.mimic = Averages(Mimics, Positions(Mimics), NumSeeds)
         /\ Alike(EndToEndPart) => m.endToEnd = Averages(EndToEnds, Positions(EndToEnds), 1)
         /\ Alike(FlowQueuePart) => m.flowQueue = Averages(FlowQueues, Groups(FlowQueues), 1)
PROOF
<1> DEFINE A == [s \in Seeds |-> MimicRows(s, sim[s])]
           B == [s \in Seeds |-> EndToEndRows(s, sim[s])]
           C == [s \in Seeds |-> FlowQueueRows(s, sim[s])]
<1>1. /\ Mimics = [s \in Seeds |-> SplitBySize(A[s])]
      /\ EndToEnds = [s \in Seeds |-> SplitBySize(B[s])]
      /\ FlowQueues = [s \in Seeds |-> SplitBySize(C[s])]
  BY DEF Mimics, EndToEnds, FlowQueues, MimicPart, EndToEndPart, FlowQueuePart
<1>2. /\ m.mimic = MergeMeans(Numbered(Sorted(A, NumSeeds)), NumSeeds)
      /\ m.endToEnd = MergeSums(Numbered(Sorted(B, NumSeeds)), NumSeeds)
      /\ m.flowQueue = MergeSums(SortedGroups(C, NumSeeds), NumSeeds)
  BY MergeSeedsIs, SomeSeed
<1> HIDE DEF A, B, C
<1>3. MergeFile(Mimics) /\ MergeFile(EndToEnds) /\ MergeFile(FlowQueues)
  BY PartsAreFiles
<1>4. Alike(MimicPart) => m.mimic = Averages(Mimics, Positions(Mimics), NumSeeds)
  BY <1>1, <1>2, <1>3, PartsAlike, NumberedEntries, MergesAre
<1>5. Alike(EndToEndPart) => m.endToEnd = Averages(EndToEnds, Positions(EndToEnds), 1)
  BY <1>1, <1>2, <1>3, PartsAlike, NumberedEntries, MergesAre
<1>6. Alike(FlowQueuePart) => m.flowQueue = Averages(FlowQueues, Groups(FlowQueues), 1)
  BY <1>1, <1>2, <1>3, PartsAlike, GroupedEntries, MergesAre
<1>q. QED BY <1>4, <1>5, <1>6

LEMMA MergedOneEach ==
  ASSUME CInv, \A s \in Seeds : sim[s] # None, NEW m, m = MergeSeeds(sim, NumSeeds)
  PROVE  /\ Alike(MimicPart) => AveragesOneEach(m.mimic, MimicPart)
         /\ Alike(EndToEndPart) => AveragesOneEach(m.endToEnd, EndToEndPart)
         /\ Alike(FlowQueuePart) => AveragesOneEach(m.flowQueue, FlowQueuePart)
PROOF
<1>1. /\ Alike(MimicPart) => OneEach(m.mimic, Mimics)
      /\ Alike(EndToEndPart) => OneEach(m.endToEnd, EndToEnds)
      /\ Alike(FlowQueuePart) => OneEach(m.flowQueue, FlowQueues)
  BY MergedAverages, PartsAreFiles, PartsAlike, AveragesOne, SomeSeed
<1>2. /\ OneEach(m.mimic, Mimics) => AveragesOneEach(m.mimic, MimicPart)
      /\ OneEach(m.endToEnd, EndToEnds) => AveragesOneEach(m.endToEnd, EndToEndPart)
      /\ OneEach(m.flowQueue, FlowQueues) => AveragesOneEach(m.flowQueue, FlowQueuePart)
  BY DEF OneEach, AveragesOneEach, Mimics, EndToEnds, FlowQueues
<1>q. QED BY <1>1, <1>2

-------------------------------------------------------------------------------
(* The report of the merged files.                                         *)

\* The merged files are those of the simulations, and analysed as they are.
MergedAnalysed ==
  /\ pc \in {"analyse", "join"} => merged.files = MergeSeeds(sim, NumSeeds)
  /\ pc = "join" /\ MergedDir \in ran =>
       built \in Nat /\ ana[MergedDir] = AnalyticalModel(merged.files.mimic, built)

LEMMA NextMergedAnalysed ==
  CInv /\ IInv /\ MergedAnalysed /\ [Next]_vars => MergedAnalysed'
PROOF
<1> SUFFICES ASSUME CInv, IInv, MergedAnalysed, [Next]_vars PROVE MergedAnalysed'
  OBVIOUS
<1> USE DEF MergedAnalysed
<1>1. CASE pc' \notin {"analyse", "join"}
  BY <1>1
<1>2. CASE UNCHANGED vars
  BY <1>2 DEF vars, files, tools
<1>3. CASE Merge
  <2>1. CASE \A s \in Seeds : MimicRows(s, sim[s]) # {}
    <3>1. /\ merged' = [round |-> round, files |-> MergeSeeds(sim, NumSeeds)]
          /\ pc' = "analyse" /\ sim' = sim
      BY <1>3, <2>1 DEF Merge, Continue, Goto
    <3>2. merged'.files = MergeSeeds(sim', NumSeeds)
      BY <3>1
    <3>q. QED BY <3>1, <3>2
  <2>2. CASE ~\A s \in Seeds : MimicRows(s, sim[s]) # {}
    BY <1>3, <2>2 DEF Merge, EndScript, Goto
  <2>q. QED BY <2>1, <2>2
<1>4. CASE AnalyseMerged
  <2>1. /\ pc = "analyse" /\ pc' = "join" /\ sim' = sim /\ merged' = merged /\ built' = built
        /\ Analyse(MergedDir, merged.files.mimic)
    BY <1>4 DEF AnalyseMerged, Goto, tools
  <2>2. merged'.files = MergeSeeds(sim', NumSeeds)
    BY <2>1
  <2>3. ran = {}
    BY <2>1 DEF CInv, WorkersCurrent
  <2>4. CASE MergedDir \in ran'
    <3>1. Runs /\ ana' = [ana EXCEPT ![MergedDir] = AnalyticalModel(merged.files.mimic, built)]
      BY <2>1, <2>3, <2>4 DEF Analyse
    <3>2. MergedDir \in DOMAIN ana
      BY DEF IInv, Shape, Dirs
    <3>3. built \in Nat
      BY <3>1 DEF Runs, CInv, TypeOK
    <3>4. ana'[MergedDir] = AnalyticalModel(merged.files.mimic, built)
      BY <3>1, <3>2
    <3>q. QED BY <2>1, <2>2, <3>3, <3>4
  <2>q. QED BY <2>2, <2>4
<1>5. CASE pc' \in {"analyse", "join"} /\ Next /\ ~Merge /\ ~AnalyseMerged
  <2> USE DEF Goto, Continue, EndScript, StartPool
  <2>1. ASSUME NEW s \in Seeds, WorkerStep(s) PROVE pc' = pc /\ pc \in {"simulate", "compare"}
    BY <2>1 DEF WorkerStep, CleanDir, Simulate, AttachHeaders, StartMake, EndMake, AnalyseSeed, JoinSeed
  <2>2. ASSUME ScriptStep PROVE FALSE
    BY <1>5, <2>2 DEF ScriptStep, SimulationsEnd, JoinMerged, Make, ComparisonsEnd,
                      ComparisonFails, Collect
  <2>3. ASSUME UserStep PROVE FALSE
    BY <1>5, <2>3 DEF UserStep, StartSimulations, Train, StartComparison
  <2>q. QED BY <1>5, <2>1, <2>2, <2>3 DEF Next, SystemStep
<1>q. QED BY <1>1, <1>2, <1>3, <1>4, <1>5

LEMMA MergedAnalysedInvariant == Spec => []MergedAnalysed
PROOF
<1>1. Init => MergedAnalysed
  BY DEF Init, MergedAnalysed
<1>q. QED BY <1>1, NextMergedAnalysed, CInvariant, IInvariant, PTL DEF Spec

(***************************************************************************)
(* merge_seeds finds the rows it averages by their position in the sorted  *)
(* files (functions.py).  For any number of seeds and any flows, several   *)
(* of one client and server included: in a file of which the seeds have as *)
(* many rows of each size class, client, server and queue, each averaged   *)
(* row is that of one row of each seed with its own ones, and every row of *)
(* every seed is in one average.                                           *)
(***************************************************************************)
THEOREM RowsAverage == Spec => []RowsAverageOneEach
PROOF
<1>1. CInv /\ IInv /\ MergedAnalysed => RowsAverageOneEach
  <2> SUFFICES ASSUME CInv, IInv, MergedAnalysed, pc = "analyse"
               PROVE  /\ Alike(MimicPart) => AveragesOneEach(merged.files.mimic, MimicPart)
                      /\ Alike(EndToEndPart) => AveragesOneEach(merged.files.endToEnd, EndToEndPart)
                      /\ Alike(FlowQueuePart) => AveragesOneEach(merged.files.flowQueue, FlowQueuePart)
    BY DEF RowsAverageOneEach
  <2>1. merged.files = MergeSeeds(sim, NumSeeds) /\ \A s \in Seeds : sim[s] # None
    BY DEF IInv, SimsAreOfThisRound, MergedAnalysed
  <2>q. QED BY <2>1, MergedOneEach
<1>q. QED BY <1>1, CInvariant, IInvariant, MergedAnalysedInvariant, PTL

-------------------------------------------------------------------------------
(* Rows of the same flows in two files of one seed.                        *)

\* Every row of S has one of the same flow in T.
Twins(S, T) == \A a \in S : \E b \in T : a.id = b.id /\ Group(a) = Group(b)

\* A file of one place, with one row of each flow.
OneRowEach(S) == \A a, b \in S : a.hop = b.hop /\ (a.id = b.id => a = b)

LEMMA PrecedesByGroup ==
  ASSUME NEW a, NEW b, NEW c, NEW d, Columns(a), Columns(b), Columns(c), Columns(d),
         Group(a) = Group(c), Group(b) = Group(d)
  PROVE  /\ Group(a) # Group(b) => (Precedes(a, b) <=> Precedes(c, d))
         /\ a.hop = b.hop /\ c.hop = d.hop /\ a.id = c.id /\ b.id = d.id
              => (Precedes(a, b) <=> Precedes(c, d))
PROOF
<1>1. /\ Class(a) = Class(c) /\ a.client = c.client /\ a.server = c.server
      /\ Class(b) = Class(d) /\ b.client = d.client /\ b.server = d.server
  BY DEF Group
<1>2. /\ Precedes(a, b) <=> LabelBefore(a, b) \/ (Label(a) = Label(b) /\ a.id < b.id)
      /\ Precedes(c, d) <=> LabelBefore(c, d) \/ (Label(c) = Label(d) /\ c.id < d.id)
  BY PrecedesIs
<1>3. ASSUME Group(a) # Group(b) PROVE Precedes(a, b) <=> Precedes(c, d)
  <2>1. ~(Class(a) = Class(b) /\ a.client = b.client /\ a.server = b.server)
    BY <1>3 DEF Group
  <2>2. Label(a) # Label(b) /\ Label(c) # Label(d)
    BY <1>1, <2>1 DEF Label
  <2>q. QED BY <1>1, <1>2, <2>1, <2>2 DEF LabelBefore
<1>4. ASSUME a.hop = b.hop, c.hop = d.hop, a.id = c.id, b.id = d.id
      PROVE  Precedes(a, b) <=> Precedes(c, d)
  <2>1. ~(a.hop < b.hop) /\ ~(c.hop < d.hop)
    BY <1>4 DEF Columns
  <2>2. LabelBefore(a, b) <=> LabelBefore(c, d)
    BY <1>1, <2>1 DEF LabelBefore
  <2>3. Label(a) = Label(b) <=> Label(c) = Label(d)
    BY <1>1, <1>4 DEF Label
  <2>q. QED BY <1>2, <1>4, <2>2, <2>3
<1>q. QED BY <1>3, <1>4

LEMMA TwinSubsets ==
  ASSUME NEW S, NEW T, Sortable(S), Twins(S, T), Twins(T, S), OneRowEach(S), OneRowEach(T),
         NEW U \in SUBSET S, NEW V \in SUBSET T,
         \A a \in S : \A b \in T : a.id = b.id => (a \in U <=> b \in V)
  PROVE  Cardinality(U) = Cardinality(V)
PROOF
<1> DEFINE twin(a) == CHOOSE b \in T : a.id = b.id
           f == [a \in U |-> twin(a)]
<1>1. ASSUME NEW a \in U PROVE f[a] \in V /\ f[a].id = a.id
  <2>1. twin(a) \in T /\ a.id = twin(a).id
    BY DEF Twins
  <2>q. QED BY <2>1
<1>2. \A a \in U : f[a] \in V
  BY <1>1
<1> HIDE DEF twin
<1>3. f \in [U -> V]
  BY <1>2
<1>4. DOMAIN f = U
  OBVIOUS
<1> HIDE DEF f
<1>5. \A x, y \in U : f[x] = f[y] => x = y
  BY <1>1 DEF OneRowEach
<1>6. ASSUME NEW b \in V PROVE \E a \in U : f[a] = b
  <2>1. PICK a \in S : a.id = b.id
    BY DEF Twins
  <2>2. a \in U
    BY <2>1
  <2>3. f[a] \in V /\ f[a].id = b.id
    BY <1>1, <2>1, <2>2
  <2>4. f[a] = b
    BY <2>3 DEF OneRowEach
  <2>q. QED BY <2>2, <2>4
<1>7. IsFiniteSet(U)
  BY FS_Subset DEF Sortable
<1>q. QED BY <1>3, <1>5, <1>6, <1>7, SameSize

\* A flow has the same position in two files that have one row of each flow.
LEMMA TwinRanks ==
  ASSUME NEW S, NEW T, Sortable(S), Sortable(T), Twins(S, T), Twins(T, S),
         OneRowEach(S), OneRowEach(T)
  PROVE  /\ Cardinality(S) = Cardinality(T)
         /\ \A a \in S : \A b \in T : a.id = b.id => Rank(a, S) = Rank(b, T)
PROOF
<1>1. ASSUME NEW a \in S, NEW b \in T, a.id = b.id PROVE Group(a) = Group(b)
  BY <1>1 DEF Twins, OneRowEach
<1>2. Cardinality(S) = Cardinality(T)
  BY TwinSubsets
<1>3. ASSUME NEW a \in S, NEW b \in T, a.id = b.id PROVE Rank(a, S) = Rank(b, T)
  <2> DEFINE U == {r \in S : Precedes(r, a)}
             V == {r \in T : Precedes(r, b)}
  <2>1. ASSUME NEW p \in S, NEW q \in T, p.id = q.id PROVE p \in U <=> q \in V
    <3>1. Group(p) = Group(q) /\ Group(a) = Group(b)
      BY <1>1, <1>3, <2>1
    <3>2. p.hop = a.hop /\ q.hop = b.hop
      BY DEF OneRowEach
    <3>3. Columns(p) /\ Columns(q) /\ Columns(a) /\ Columns(b)
      BY DEF Sortable
    <3>4. Precedes(p, a) <=> Precedes(q, b)
      BY <1>3, <2>1, <3>1, <3>2, <3>3, PrecedesByGroup
    <3>q. QED BY <3>4
  <2>2. U \in SUBSET S /\ V \in SUBSET T
    OBVIOUS
  <2> HIDE DEF U, V
  <2>3. Cardinality(U) = Cardinality(V)
    BY <2>1, <2>2, TwinSubsets
  <2>q. QED BY <2>3 DEF Rank, U, V
<1>q. QED BY <1>2, <1>3

\* The id of a group in the flow log is the position of its only row in the
\* mimic file.
LEMMA GroupIsRank ==
  ASSUME NEW S, NEW T, Sortable(S), Sortable(T), Twins(S, T), Twins(T, S),
         \A a, b \in T : Group(a) = Group(b) => a = b,
         NEW q \in S, NEW m \in T, Group(q) = Group(m)
  PROVE  GroupId(q, S) = Rank(m, T)
PROOF
<1> DEFINE P == {r \in T : Precedes(r, m)}
           R == {x \in S : Precedes(x, q) /\ Group(x) # Group(q)}
           G == {Group(x) : x \in R}
           f == [r \in P |-> Group(r)]
<1>1. ASSUME NEW x \in S, NEW y \in T, Group(x) = Group(y)
      PROVE  x \in R <=> y \in P
  <2>1. Columns(x) /\ Columns(y) /\ Columns(q) /\ Columns(m)
    BY DEF Sortable
  <2>2. Group(x) # Group(q) => (Precedes(x, q) <=> Precedes(y, m))
    BY <1>1, <2>1, PrecedesByGroup
  <2>3. Group(x) = Group(q) => y = m
    BY <1>1
  <2>4. ~Precedes(m, m)
    BY <2>1, PrecedesOrders
  <2>q. QED BY <2>2, <2>3, <2>4
<1>2. ASSUME NEW y \in P PROVE Group(y) \in G
  <2>1. PICK x \in S : Group(y) = Group(x)
    BY DEF Twins
  <2>2. x \in R
    BY <1>1, <2>1
  <2>q. QED BY <2>1, <2>2
<1>3. ASSUME NEW g \in G PROVE \E y \in P : Group(y) = g
  <2>1. PICK x \in R : g = Group(x)
    OBVIOUS
  <2>2. PICK y \in T : Group(x) = Group(y)
    BY <2>1 DEF Twins
  <2>3. y \in P
    BY <1>1, <2>1, <2>2
  <2>q. QED BY <2>1, <2>2, <2>3
<1>4. \A x, y \in P : Group(x) = Group(y) => x = y
  OBVIOUS
<1>5. IsFiniteSet(P)
  BY FS_Subset DEF Sortable
<1>6. Rank(m, T) = 1 + Cardinality(P) /\ GroupId(q, S) = 1 + Cardinality(G)
  BY DEF Rank, GroupId
<1> HIDE DEF P, R, G
<1>7. f \in [P -> G]
  BY <1>2
<1>8. \A y \in P : f[y] = Group(y)
  OBVIOUS
<1> HIDE DEF f
<1>9. Cardinality(G) = Cardinality(P)
  BY <1>3, <1>4, <1>5, <1>7, <1>8, SameSize
<1>q. QED BY <1>6, <1>9

-------------------------------------------------------------------------------
(* The joins of the merged files: E is merged from end_to_end_latency.csv, *)
(* M from the mimic files and Q from flow_queue_log.csv.                   *)

LEMMA AverageOwners ==
  ASSUME NEW F, MergeFile(F), AlikeFiles(F), NEW i \in 1..Length(F), NEW id
  PROVE  Owners(Average(F, i, id)) = {<<s, At(F, s, i).id>> : s \in Seeds}
PROOF
<1>1. Average(F, i, id).of = OfAll(F, i)
  BY DEF Average
<1>2. ASSUME NEW s \in Seeds
      PROVE  /\ \A x \in At(F, s, i).of : x.seed = s /\ x.flow = At(F, s, i).id
             /\ At(F, s, i).of # {}
  <2>1. At(F, s, i) \in F[s]
    BY AtRank
  <2>q. QED BY <2>1, MeasuredAt
<1>3. \A x : x \in OfAll(F, i) <=> \E s \in Seeds : x \in At(F, s, i).of
  BY DEF OfAll
<1>4. {<<x.seed, x.flow>> : x \in OfAll(F, i)} = {<<s, At(F, s, i).id>> : s \in Seeds}
  <2>1. ASSUME NEW x \in OfAll(F, i) PROVE \E s \in Seeds : <<x.seed, x.flow>> = <<s, At(F, s, i).id>>
    BY <1>2, <1>3
  <2>2. ASSUME NEW s \in Seeds PROVE \E x \in OfAll(F, i) : <<x.seed, x.flow>> = <<s, At(F, s, i).id>>
    <3>1. PICK x : x \in At(F, s, i).of
      BY <1>2
    <3>q. QED BY <3>1, <1>2, <1>3
  <2>q. QED BY <2>1, <2>2
<1>q. QED BY <1>1, <1>4 DEF Owners

\* Every row of F has one of the same flow in M, and conversely.
TwinFiles(F, M) ==
  \A s \in Seeds : Twins(F[s], M[s]) /\ Twins(M[s], F[s])

OneRowFiles(F) == \A s \in Seeds : OneRowEach(F[s])

\* The averaged rows that are joined, as merge_latency_per_flow finds them.
LEMMA FlowsJoin ==
  ASSUME NEW E, MergeFile(E), AlikeFiles(E), NEW M, MergeFile(M), AlikeFiles(M),
         TwinFiles(E, M), OneRowFiles(E), OneRowFiles(M),
         NEW t \in Seeds, NEW u \in Seeds
  PROVE  LET rows == Averages(E, Positions(E), t)
         IN  EachMeetsItself(JoinFlows(rows, Averages(M, Positions(M), u)), rows)
PROOF
<1> DEFINE rows == Averages(E, Positions(E), t)
           analysed == Averages(M, Positions(M), u)
           joins == JoinFlows(rows, analysed)
<1>1. ASSUME NEW s \in Seeds
      PROVE  /\ Length(E) = Length(M)
             /\ \A i \in 1..Length(E) : /\ At(E, s, i).id = At(M, s, i).id
                                        /\ Group(At(E, s, i)) = Group(At(M, s, i))
  <2>1. \A k \in Seeds : Sortable(E[k]) /\ Sortable(M[k])
    BY MergeFilesSortable
  <2>2. \A k \in Seeds : Cardinality(E[k]) = Cardinality(M[k])
    BY <2>1, TwinRanks DEF TwinFiles, OneRowFiles
  <2>3. Length(E) = Length(M)
    BY <2>2, SomeSeed DEF Length
  <2>4. ASSUME NEW i \in 1..Length(E)
        PROVE  /\ At(E, s, i).id = At(M, s, i).id
               /\ Group(At(E, s, i)) = Group(At(M, s, i))
    <3>1. At(E, s, i) \in E[s] /\ Rank(At(E, s, i), E[s]) = i
      BY AtRank
    <3>2. PICK b \in M[s] : At(E, s, i).id = b.id /\ Group(At(E, s, i)) = Group(b)
      BY <3>1 DEF TwinFiles, Twins
    <3>3. Rank(b, M[s]) = i
      BY <2>1, <3>1, <3>2, TwinRanks DEF TwinFiles, OneRowFiles
    <3>4. At(M, s, i) = b
      BY <3>3, AtRank
    <3>q. QED BY <3>2, <3>4
  <2>q. QED BY <2>3, <2>4
<1>2. /\ \A r : r \in rows <=> \E i \in 1..Length(E) : r = Average(E, i, i)
      /\ \A r : r \in analysed <=> \E i \in 1..Length(E) : r = Average(M, i, i)
  <2>1. Length(E) = Length(M)
    BY <1>1, SomeSeed
  <2>q. QED BY <2>1 DEF Averages, Positions
<1>3. \A F, i, id : Average(F, i, id).id = id
  BY DEF Average
<1>4. ASSUME NEW i \in 1..Length(E)
      PROVE  /\ SameFlow(Average(E, i, i), Average(M, i, i))
             /\ Owners(Average(E, i, i)) = Owners(Average(M, i, i))
  <2>1. Group(At(E, 1, i)) = Group(At(M, 1, i))
    BY <1>1, SomeSeed
  <2>2. /\ At(E, 1, i).client = At(M, 1, i).client /\ At(E, 1, i).server = At(M, 1, i).server
    BY <2>1 DEF Group
  <2>3. SameFlow(Average(E, i, i), Average(M, i, i))
    BY <2>2 DEF SameFlow, Average
  <2>4. i \in 1..Length(M)
    BY <1>1, SomeSeed
  <2>5. /\ Owners(Average(E, i, i)) = {<<s, At(E, s, i).id>> : s \in Seeds}
        /\ Owners(Average(M, i, i)) = {<<s, At(M, s, i).id>> : s \in Seeds}
    BY <2>4, AverageOwners
  <2>6. \A s \in Seeds : At(E, s, i).id = At(M, s, i).id
    BY <1>1
  <2>7. {<<s, At(E, s, i).id>> : s \in Seeds} = {<<s, At(M, s, i).id>> : s \in Seeds}
    BY <2>6
  <2>q. QED BY <2>3, <2>5, <2>7
<1> HIDE DEF rows, analysed
<1>5. \A r : r \in joins <=> \E i \in 1..Length(E) :
                               r = [sim |-> Average(E, i, i), ana |-> Average(M, i, i)]
  <2>1. ASSUME NEW r \in joins
        PROVE  \E i \in 1..Length(E) : r = [sim |-> Average(E, i, i), ana |-> Average(M, i, i)]
    <3>1. PICK a \in rows, b \in analysed : SameFlow(a, b) /\ r = [sim |-> a, ana |-> b]
      BY InJoins
    <3>2. PICK i \in 1..Length(E), j \in 1..Length(E) : a = Average(E, i, i) /\ b = Average(M, j, j)
      BY <1>2
    <3>3. i = j
      BY <1>3, <3>1, <3>2 DEF SameFlow
    <3>q. QED BY <3>1, <3>2, <3>3
  <2>2. ASSUME NEW i \in 1..Length(E), NEW r, r = [sim |-> Average(E, i, i), ana |-> Average(M, i, i)]
        PROVE  r \in joins
    <3>1. Average(E, i, i) \in rows /\ Average(M, i, i) \in analysed
      BY <1>2
    <3>q. QED BY <1>4, <2>2, <3>1, InJoins
  <2>q. QED BY <2>1, <2>2
<1>6. EachMeetsItself(joins, rows)
  <2>1. ASSUME NEW r \in joins PROVE Owners(r.sim) = Owners(r.ana)
    <3>1. PICK i \in 1..Length(E) : r = [sim |-> Average(E, i, i), ana |-> Average(M, i, i)]
      BY <1>5
    <3>q. QED BY <1>4, <3>1
  <2>2. ASSUME NEW row \in rows PROVE \E r \in joins : r.sim = row
    <3>1. PICK i \in 1..Length(E) : row = Average(E, i, i)
      BY <1>2
    <3>2. PICK r : r = [sim |-> Average(E, i, i), ana |-> Average(M, i, i)]
      OBVIOUS
    <3>q. QED BY <1>5, <3>1, <3>2
  <2>3. ASSUME NEW p \in joins, NEW q \in joins, p.sim = q.sim PROVE p = q
    <3>1. PICK i \in 1..Length(E), j \in 1..Length(E) :
            /\ p = [sim |-> Average(E, i, i), ana |-> Average(M, i, i)]
            /\ q = [sim |-> Average(E, j, j), ana |-> Average(M, j, j)]
      BY <1>5
    <3>2. i = j
      BY <1>3, <2>3, <3>1
    <3>q. QED BY <3>1, <3>2
  <2>q. QED BY <2>1, <2>2, <2>3 DEF EachMeetsItself
<1>q. QED BY <1>6 DEF rows, analysed

AtHop(r, hop) == [r EXCEPT !.hop = hop]

LEMMA QueuesAtHop ==
  ASSUME NEW rows, NEW tree, NEW b
  PROVE  b \in AnalyticalModel(rows, tree).queues
           <=> \E r \in rows : \E hop \in Hops : b = AtHop(r, hop)
BY AnalysisQueues DEF AtHop

\* The rows of all queues, as merge_latency_per_queue finds them.
LEMMA QueuesJoin ==
  ASSUME NEW Q, MergeFile(Q), AlikeFiles(Q), NEW M, MergeFile(M), AlikeFiles(M),
         TwinFiles(Q, M), \A s \in Seeds : \A r \in Q[s] : r.hop \in Hops,
         \A s \in Seeds : \A a, b \in M[s] : Group(a) = Group(b) => a = b,
         NEW u \in Seeds, NEW tree
  PROVE  LET rows == Averages(Q, Groups(Q), 1)
             queues == AnalyticalModel(Averages(M, Positions(M), u), tree).queues
         IN  EachMeetsItself(JoinQueues(rows, queues), rows)
PROOF
<1> DEFINE rows == Averages(Q, Groups(Q), 1)
           analysed == Averages(M, Positions(M), u)
           queues == AnalyticalModel(analysed, tree).queues
           joins == JoinQueues(rows, queues)
           group(i) == GroupId(At(Q, 1, i), Q[1])
           row(i) == Average(Q, i, group(i))
           own(i) == AtHop(Average(M, group(i), group(i)), At(Q, 1, i).hop)
<1>1. ASSUME NEW i \in 1..Length(Q)
      PROVE  /\ group(i) \in 1..Length(M)
             /\ \A s \in Seeds : /\ At(Q, s, i).id = At(M, s, group(i)).id
                                 /\ Group(At(Q, s, i)) = Group(At(M, s, group(i)))
  <2>1. \A s \in Seeds : Sortable(Q[s]) /\ Sortable(M[s])
    BY MergeFilesSortable
  <2>2. \A s \in Seeds : At(Q, s, i) \in Q[s]
    BY AtRank
  <2>3. PICK m \in M[1] : At(Q, 1, i).id = m.id /\ Group(At(Q, 1, i)) = Group(m)
    BY <2>2, SomeSeed DEF TwinFiles, Twins
  <2>4. group(i) = Rank(m, M[1])
    BY <2>1, <2>2, <2>3, SomeSeed, GroupIsRank DEF TwinFiles
  <2>5. group(i) \in 1..Length(M) /\ At(M, 1, group(i)) = m
    BY <2>4, SomeSeed, AtRank
  <2>6. ASSUME NEW s \in Seeds
        PROVE  /\ At(Q, s, i).id = At(M, s, group(i)).id
               /\ Group(At(Q, s, i)) = Group(At(M, s, group(i)))
    <3>1. PICK b \in M[s] : At(Q, s, i).id = b.id /\ Group(At(Q, s, i)) = Group(b)
      BY <2>2 DEF TwinFiles, Twins
    <3>2. Label(At(Q, s, i)) = Label(At(Q, 1, i))
      BY SomeSeed, AtRank
    <3>3. Label(At(M, s, group(i))) = Label(At(M, 1, group(i))) /\ At(M, s, group(i)) \in M[s]
      BY <2>5, SomeSeed, AtRank
    <3>4. \A a, c : Label(a) = Label(c) => Group(a) = Group(c)
      BY DEF Label, Group
    <3>5. Group(At(M, s, group(i))) = Group(b)
      BY <2>3, <2>5, <3>1, <3>2, <3>3, <3>4
    <3>6. At(M, s, group(i)) = b
      BY <3>3, <3>5
    <3>q. QED BY <3>1, <3>6
  <2>q. QED BY <2>5, <2>6
<1> HIDE DEF group
<1>2. /\ \A r : r \in rows <=> \E i \in 1..Length(Q) : r = row(i)
      /\ \A r : r \in analysed <=> \E i \in 1..Length(M) : r = Average(M, i, i)
  <2>1. \A i \in 1..Length(Q) : Groups(Q)[1][i] = group(i)
    BY SomeSeed DEF Groups, group
  <2>2. \A i \in 1..Length(M) : Positions(M)[u][i] = i
    BY DEF Positions
  <2>q. QED BY <2>1, <2>2 DEF Averages
<1>3. \A F, i, id : /\ Average(F, i, id).id = id /\ Average(F, i, id).hop = At(F, 1, i).hop
                    /\ Average(F, i, id).client = At(F, 1, i).client
                    /\ Average(F, i, id).server = At(F, 1, i).server
                    /\ IsRecord(Average(F, i, id))
  BY DEF Average, IsRecord
<1>4. ASSUME NEW i, NEW hop, NEW r, r = Average(M, i, i), NEW b, b = AtHop(r, hop)
      PROVE  /\ b.id = i /\ b.client = At(M, 1, i).client /\ b.server = At(M, 1, i).server
             /\ b.hop = hop /\ Owners(b) = Owners(Average(M, i, i))
  <2>1. IsRecord(r)
    BY <1>3, <1>4
  <2>2. b = [id |-> r.id, client |-> r.client, server |-> r.server, hop |-> hop, of |-> r.of]
    BY <1>4, <2>1, HopReplaced DEF AtHop
  <2>3. /\ b.id = r.id /\ b.client = r.client /\ b.server = r.server
        /\ b.hop = hop /\ b.of = r.of
    BY <2>2
  <2>4. Owners(b) = Owners(r)
    BY <2>3 DEF Owners
  <2>q. QED BY <1>3, <1>4, <2>3, <2>4
<1>5. ASSUME NEW i \in 1..Length(Q)
      PROVE  /\ SameFlow(row(i), own(i)) /\ row(i).hop = own(i).hop
             /\ Owners(row(i)) = Owners(own(i)) /\ own(i) \in queues
  <2>1. Group(At(Q, 1, i)) = Group(At(M, 1, group(i))) /\ group(i) \in 1..Length(M)
    BY <1>1, SomeSeed
  <2>2. /\ At(Q, 1, i).client = At(M, 1, group(i)).client
        /\ At(Q, 1, i).server = At(M, 1, group(i)).server
    BY <2>1 DEF Group
  <2>3. PICK b, r : r = Average(M, group(i), group(i)) /\ b = AtHop(r, At(Q, 1, i).hop)
    OBVIOUS
  <2>4. /\ b.id = group(i) /\ b.client = At(M, 1, group(i)).client
        /\ b.server = At(M, 1, group(i)).server /\ b.hop = At(Q, 1, i).hop
        /\ Owners(b) = Owners(Average(M, group(i), group(i)))
    BY <1>4, <2>3
  <2>5. SameFlow(row(i), b) /\ row(i).hop = b.hop
    BY <1>3, <2>2, <2>4 DEF SameFlow
  <2>6. /\ Owners(row(i)) = {<<s, At(Q, s, i).id>> : s \in Seeds}
        /\ Owners(Average(M, group(i), group(i))) = {<<s, At(M, s, group(i)).id>> : s \in Seeds}
    BY <2>1, AverageOwners
  <2>7. {<<s, At(Q, s, i).id>> : s \in Seeds} = {<<s, At(M, s, group(i)).id>> : s \in Seeds}
    BY <1>1
  <2>8. At(Q, 1, i).hop \in Hops
    BY SomeSeed, AtRank
  <2>9. Average(M, group(i), group(i)) \in analysed
    BY <1>2, <2>1
  <2>10. b \in queues
    BY <2>3, <2>8, <2>9, QueuesAtHop
  <2>11. b = own(i)
    BY <2>3
  <2>q. QED BY <2>4, <2>5, <2>6, <2>7, <2>10, <2>11
<1> HIDE DEF rows, analysed, row
<1>6. \A r : r \in joins <=> \E i \in 1..Length(Q) : r = [sim |-> row(i), ana |-> own(i)]
  <2>1. ASSUME NEW r \in joins PROVE \E i \in 1..Length(Q) : r = [sim |-> row(i), ana |-> own(i)]
    <3>1. PICK a \in rows, b \in queues : SameFlow(a, b) /\ a.hop = b.hop /\ r = [sim |-> a, ana |-> b]
      BY InJoins
    <3>2. PICK i \in 1..Length(Q) : a = row(i)
      BY <1>2
    <3>3. PICK x \in analysed, hop \in Hops : b = AtHop(x, hop)
      BY <3>1, QueuesAtHop
    <3>4. PICK j \in 1..Length(M) : x = Average(M, j, j)
      BY <1>2
    <3>5. b.id = j /\ b.hop = hop
      BY <1>4, <3>3, <3>4
    <3>6. a.id = group(i) /\ a.hop = At(Q, 1, i).hop
      BY <1>3, <3>2 DEF row
    <3>7. j = group(i) /\ hop = At(Q, 1, i).hop
      BY <3>1, <3>5, <3>6 DEF SameFlow
    <3>q. QED BY <3>1, <3>2, <3>3, <3>4, <3>7
  <2>2. ASSUME NEW i \in 1..Length(Q), NEW r, r = [sim |-> row(i), ana |-> own(i)]
        PROVE  r \in joins
    <3>1. row(i) \in rows
      BY <1>2
    <3>2. PICK b : b = own(i)
      OBVIOUS
    <3>3. SameFlow(row(i), b) /\ row(i).hop = b.hop /\ b \in queues /\ r = [sim |-> row(i), ana |-> b]
      BY <1>5, <2>2, <3>2
    <3> HIDE DEF own, queues
    <3>q. QED BY <3>1, <3>3, InJoins
  <2>q. QED BY <2>1, <2>2
<1>7. ASSUME NEW i \in 1..Length(Q), NEW j \in 1..Length(Q), row(i) = row(j)
      PROVE  own(i) = own(j)
  <2>1. row(i).id = group(i) /\ row(i).hop = At(Q, 1, i).hop
    BY <1>3 DEF row
  <2>2. row(j).id = group(j) /\ row(j).hop = At(Q, 1, j).hop
    BY <1>3 DEF row
  <2>3. group(i) = group(j) /\ At(Q, 1, i).hop = At(Q, 1, j).hop
    BY <1>7, <2>1, <2>2
  <2>q. QED BY <2>3
<1> HIDE DEF own, joins
<1>8. EachMeetsItself(joins, rows)
  <2>1. ASSUME NEW r \in joins PROVE Owners(r.sim) = Owners(r.ana)
    <3>1. PICK i \in 1..Length(Q) : r = [sim |-> row(i), ana |-> own(i)]
      BY <1>6
    <3>q. QED BY <1>5, <3>1
  <2>2. ASSUME NEW x \in rows PROVE \E r \in joins : r.sim = x
    <3>1. PICK i \in 1..Length(Q) : x = row(i)
      BY <1>2
    <3>2. PICK r : r = [sim |-> row(i), ana |-> own(i)]
      OBVIOUS
    <3>q. QED BY <1>6, <3>1, <3>2
  <2>3. ASSUME NEW p \in joins, NEW q \in joins, p.sim = q.sim PROVE p = q
    <3>1. PICK i \in 1..Length(Q), j \in 1..Length(Q) :
            p = [sim |-> row(i), ana |-> own(i)] /\ q = [sim |-> row(j), ana |-> own(j)]
      BY <1>6
    <3>2. own(i) = own(j)
      BY <1>7, <2>3, <3>1
    <3>q. QED BY <2>3, <3>1, <3>2
  <2>q. QED BY <2>1, <2>2, <2>3 DEF EachMeetsItself
<1>q. QED BY <1>8 DEF rows, analysed, queues, joins

-------------------------------------------------------------------------------
(* The files of complete simulations.                                      *)

LEMMA InParts ==
  ASSUME NEW s \in Seeds, NEW r
  PROVE  /\ r \in MimicPart(s)
              <=> \E f \in sim[s].flows : /\ FirstHop \in DOMAIN f.size /\ f.size[FirstHop] # "odd"
                                          /\ r = Row(s, sim[s].round, f, FirstHop)
         /\ r \in EndToEndPart(s)
              <=> \E f \in sim[s].flows : /\ EndToEnd \in DOMAIN f.size /\ f.size[EndToEnd] # "odd"
                                          /\ r = Row(s, sim[s].round, f, EndToEnd)
         /\ r \in FlowQueuePart(s)
              <=> \E f \in sim[s].flows, hop \in Hops :
                     /\ hop \in DOMAIN f.size /\ f.size[hop] # "odd"
                     /\ r = Row(s, sim[s].round, f, hop)
PROOF
<1> DEFINE n == sim[s].round
           fs == sim[s].flows
<1>1. ASSUME NEW f, NEW place PROVE SizeOf(Row(s, n, f, place)) = {f.size[place]}
  <2>1. PICK m : m = [seed |-> s, round |-> n, flow |-> f.id, size |-> f.size[place], hop |-> place]
    OBVIOUS
  <2>2. Row(s, n, f, place).of = {m} /\ m.size = f.size[place]
    BY <2>1 DEF Row
  <2>q. QED BY <2>2 DEF SizeOf
<1> HIDE DEF n, fs
<1>2. ASSUME NEW place
      PROVE  r \in SplitBySize(RowsAt(s, [round |-> n, flows |-> fs], place))
               <=> \E f \in fs : /\ place \in DOMAIN f.size /\ f.size[place] # "odd"
                                 /\ r = Row(s, n, f, place)
  <2>1. r \in RowsAt(s, [round |-> n, flows |-> fs], place)
          <=> \E f \in fs : place \in DOMAIN f.size /\ r = Row(s, n, f, place)
    BY DEF RowsAt
  <2>2. \A f : "odd" \notin SizeOf(Row(s, n, f, place)) <=> f.size[place] # "odd"
    BY <1>1
  <2>q. QED BY <2>1, <2>2 DEF SplitBySize
<1>3. \A place : RowsAt(s, sim[s], place) = RowsAt(s, [round |-> n, flows |-> fs], place)
  BY DEF RowsAt, n, fs
<1>4. /\ r \in MimicPart(s) <=> r \in SplitBySize(RowsAt(s, [round |-> n, flows |-> fs], FirstHop))
      /\ r \in EndToEndPart(s)
           <=> r \in SplitBySize(RowsAt(s, [round |-> n, flows |-> fs], EndToEnd))
  BY <1>3 DEF MimicPart, EndToEndPart, MimicRows, EndToEndRows
<1>5. r \in FlowQueuePart(s)
        <=> \E hop \in Hops : r \in SplitBySize(RowsAt(s, [round |-> n, flows |-> fs], hop))
  <2>1. FlowQueueRows(s, sim[s]) = UNION {RowsAt(s, [round |-> n, flows |-> fs], hop) : hop \in Hops}
    BY <1>3 DEF FlowQueueRows
  <2>q. QED BY <2>1 DEF FlowQueuePart, SplitBySize
<1>q. QED BY <1>2, <1>4, <1>5 DEF n, fs

LEMMA RowColumns ==
  ASSUME NEW s, NEW n, NEW f, NEW place, NEW p, f.size[place] = f.size[p]
  PROVE  /\ Row(s, n, f, place).id = f.id /\ Row(s, n, f, place).hop = place
         /\ Group(Row(s, n, f, place)) = Group(Row(s, n, f, p))
PROOF
<1>1. ASSUME NEW h PROVE SizeOf(Row(s, n, f, h)) = {f.size[h]}
  <2>1. PICK m : m = [seed |-> s, round |-> n, flow |-> f.id, size |-> f.size[h], hop |-> h]
    OBVIOUS
  <2>2. Row(s, n, f, h).of = {m} /\ m.size = f.size[h]
    BY <2>1 DEF Row
  <2>q. QED BY <2>2 DEF SizeOf
<1>2. SizeOf(Row(s, n, f, place)) = SizeOf(Row(s, n, f, p))
  BY <1>1
<1>3. Class(Row(s, n, f, place)) = Class(Row(s, n, f, p))
  BY <1>2 DEF Class
<1>4. ASSUME NEW h
      PROVE  /\ Row(s, n, f, h).id = f.id /\ Row(s, n, f, h).hop = h
             /\ Row(s, n, f, h).client = f.client /\ Row(s, n, f, h).server = f.server
  BY DEF Row
<1>q. QED BY <1>3, <1>4 DEF Group

LEMMA CompleteTwins ==
  ASSUME CInv, \A s \in Seeds : sim[s] # None, Complete
  PROVE  /\ TwinFiles(EndToEnds, Mimics) /\ TwinFiles(FlowQueues, Mimics)
         /\ OneRowFiles(EndToEnds) /\ OneRowFiles(Mimics)
         /\ \A s \in Seeds : \A r \in FlowQueues[s] : r.hop \in Hops
PROOF
<1>1. ASSUME NEW s \in Seeds
      PROVE  /\ Twins(EndToEndPart(s), MimicPart(s)) /\ Twins(MimicPart(s), EndToEndPart(s))
             /\ Twins(FlowQueuePart(s), MimicPart(s)) /\ Twins(MimicPart(s), FlowQueuePart(s))
             /\ OneRowEach(EndToEndPart(s)) /\ OneRowEach(MimicPart(s))
             /\ \A r \in FlowQueuePart(s) : r.hop \in Hops
  <2> DEFINE n == sim[s].round
             fs == sim[s].flows
             row(f, place) == Row(s, n, f, place)
  <2>1. ASSUME NEW f \in fs
        PROVE  /\ EndToEnd \in DOMAIN f.size /\ FirstHop \in DOMAIN f.size
               /\ f.size[FirstHop] = f.size[EndToEnd]
               /\ \A hop \in DOMAIN f.size : f.size[hop] = f.size[FirstHop]
    BY DEF Complete
  <2>2. ASSUME NEW f \in fs, NEW place, f.size[place] = f.size[FirstHop]
        PROVE  /\ row(f, place).id = f.id /\ row(f, place).hop = place
               /\ Group(row(f, place)) = Group(row(f, FirstHop))
    BY <2>2, RowColumns
  <2>3. \A f, g \in fs : f.id = g.id => f = g
    BY WindowFlows DEF Unique
  <2>4. FirstHop \in Hops
    BY HopsAssumption
  <2>5. /\ \A r : r \in MimicPart(s)
                    <=> \E f \in fs : f.size[FirstHop] # "odd" /\ r = row(f, FirstHop)
        /\ \A r : r \in EndToEndPart(s)
                    <=> \E f \in fs : f.size[FirstHop] # "odd" /\ r = row(f, EndToEnd)
    BY <2>1, InParts
  <2>6. \A r : r \in FlowQueuePart(s)
                 <=> \E f \in fs, hop \in Hops : /\ hop \in DOMAIN f.size /\ f.size[hop] # "odd"
                                                 /\ r = row(f, hop)
    BY InParts
  <2> HIDE DEF n, fs, row
  <2>7. Twins(EndToEndPart(s), MimicPart(s)) /\ Twins(MimicPart(s), EndToEndPart(s))
    BY <2>1, <2>2, <2>5 DEF Twins
  <2>8. Twins(FlowQueuePart(s), MimicPart(s))
    <3>1. ASSUME NEW r \in FlowQueuePart(s)
          PROVE  \E b \in MimicPart(s) : r.id = b.id /\ Group(r) = Group(b)
      <4>1. PICK f \in fs, hop \in Hops : hop \in DOMAIN f.size /\ f.size[hop] # "odd" /\ r = row(f, hop)
        BY <2>6
      <4>2. f.size[hop] = f.size[FirstHop]
        BY <2>1, <4>1
      <4>3. row(f, FirstHop) \in MimicPart(s)
        BY <2>5, <4>1, <4>2
      <4>q. QED BY <2>2, <4>1, <4>2, <4>3
    <3>q. QED BY <3>1 DEF Twins
  <2>9. Twins(MimicPart(s), FlowQueuePart(s))
    BY <2>1, <2>4, <2>5, <2>6 DEF Twins
  <2>10. OneRowEach(EndToEndPart(s)) /\ OneRowEach(MimicPart(s))
    BY <2>1, <2>2, <2>3, <2>5 DEF OneRowEach
  <2>11. ASSUME NEW r \in FlowQueuePart(s) PROVE r.hop \in Hops
    <3>1. PICK f \in fs, hop \in Hops : hop \in DOMAIN f.size /\ r = row(f, hop)
      BY <2>6
    <3>2. f.size[hop] = f.size[FirstHop]
      BY <2>1, <3>1
    <3>q. QED BY <2>2, <3>1, <3>2
  <2>q. QED BY <2>7, <2>8, <2>9, <2>10, <2>11
<1>2. ASSUME NEW s \in Seeds
      PROVE  /\ Mimics[s] = MimicPart(s) /\ EndToEnds[s] = EndToEndPart(s)
             /\ FlowQueues[s] = FlowQueuePart(s)
  BY DEF Mimics, EndToEnds, FlowQueues
<1>q. QED BY <1>1, <1>2 DEF TwinFiles, OneRowFiles

LEMMA MergedReportMeets ==
  ASSUME CInv, \A s \in Seeds : sim[s] # None, Complete, AllAlike,
         NEW m, m = MergeSeeds(sim, NumSeeds), NEW tree,
         NEW report, report = Report(m.endToEnd, m.flowQueue, AnalyticalModel(m.mimic, tree))
  PROVE  /\ EachMeetsItself(report.flows, m.endToEnd)
         /\ OneOfAKind => EachMeetsItself(report.queues, m.flowQueue)
PROOF
<1> DEFINE A == AnalyticalModel(m.mimic, tree)
<1>1. /\ m.mimic = Averages(Mimics, Positions(Mimics), NumSeeds)
      /\ m.endToEnd = Averages(EndToEnds, Positions(EndToEnds), 1)
      /\ m.flowQueue = Averages(FlowQueues, Groups(FlowQueues), 1)
  BY MergedAverages DEF AllAlike
<1>2. /\ MergeFile(Mimics) /\ MergeFile(EndToEnds) /\ MergeFile(FlowQueues)
      /\ AlikeFiles(Mimics) /\ AlikeFiles(EndToEnds) /\ AlikeFiles(FlowQueues)
  BY PartsAreFiles, PartsAlike DEF AllAlike
<1>3. report.flows = JoinFlows(m.endToEnd, m.mimic) /\ report.queues = JoinQueues(m.flowQueue, A.queues)
  BY DEF Report, AnalyticalModel
<1>4. EachMeetsItself(report.flows, m.endToEnd)
  BY <1>1, <1>2, <1>3, CompleteTwins, SomeSeed, FlowsJoin
<1>5. ASSUME OneOfAKind PROVE EachMeetsItself(report.queues, m.flowQueue)
  <2>1. \A s \in Seeds : \A a, b \in Mimics[s] : Group(a) = Group(b) => a = b
    BY <1>5 DEF OneOfAKind, Mimics
  <2>2. A.queues = AnalyticalModel(Averages(Mimics, Positions(Mimics), NumSeeds), tree).queues
    BY <1>1
  <2> HIDE DEF A
  <2>q. QED BY <1>1, <1>2, <1>3, <2>1, <2>2, CompleteTwins, SomeSeed, QueuesJoin
<1>q. QED BY <1>4, <1>5

(***************************************************************************)
(* The merged files are numbered separately (functions.py), and joined by  *)
(* these numbers and the flows' ends.  For any number of seeds and any     *)
(* flows whose rows are complete: when the seeds' files are alike, each    *)
(* row of the averaged end_to_end_latency.csv meets the analysis of the    *)
(* very flows it averages, once, and so does each row of the flow log when *)
(* no two flows of a size class have the same client and server.           *)
(***************************************************************************)
THEOREM MergedReportJoins == Spec => MergedJoinsFlows
PROOF
<1> DEFINE Joined == pc = "join" /\ MergedDir \in ran /\ Complete /\ AllAlike =>
                       LET report == joined'[MergedDir] IN
                       /\ EachMeetsItself(report.flows, merged.files.endToEnd)
                       /\ OneOfAKind => EachMeetsItself(report.queues, merged.files.flowQueue)
<1>1. CInv /\ IInv /\ MergedAnalysed /\ [Next]_vars => [Joined]_vars
  <2> SUFFICES ASSUME CInv, IInv, MergedAnalysed, Next, vars' # vars,
                      pc = "join", MergedDir \in ran, Complete, AllAlike
               PROVE  LET report == joined'[MergedDir] IN
                      /\ EachMeetsItself(report.flows, merged.files.endToEnd)
                      /\ OneOfAKind => EachMeetsItself(report.queues, merged.files.flowQueue)
    OBVIOUS
  <2>1. JoinMerged
    BY DEF Next, SystemStep, UserStep, ScriptStep, WorkerStep, StartSimulations, CleanDir, Simulate,
           AttachHeaders, SimulationsEnd, Merge, AnalyseMerged, Train, Make, StartComparison,
           StartMake, EndMake, AnalyseSeed, JoinSeed, ComparisonsEnd, ComparisonFails, Collect
  <2>2. \A s \in Seeds : sim[s] # None
    BY DEF IInv, SimsAreOfThisRound
  <2>3. /\ merged.files = MergeSeeds(sim, NumSeeds)
        /\ built \in Nat /\ ana[MergedDir] = AnalyticalModel(merged.files.mimic, built)
    BY DEF MergedAnalysed
  <2>4. ana[MergedDir] # None
    <3>1. \A s \in Seeds : sim[s].round \in 1..MaxRounds /\ Unique(sim[s].flows)
      BY <2>2, WindowFlows
    <3>2. TypedRows(merged.files.mimic)
      BY <2>3, <3>1, MergeSeedsTyped
    <3>q. QED BY <2>3, <3>2, AnalysisTyped, NoneAssumption
  <2>5. MergedDir \in DOMAIN joined
    BY DEF IInv, Shape, Dirs
  <2>6. joined'[MergedDir]
          = Report(merged.files.endToEnd, merged.files.flowQueue, ana[MergedDir])
    BY <2>1, <2>4, <2>5 DEF JoinMerged
  <2>q. QED BY <2>2, <2>3, <2>6, MergedReportMeets
<1>2. Spec => [][Joined]_vars
  BY <1>1, CInvariant, IInvariant, MergedAnalysedInvariant, PTL DEF Spec
<1>q. QED BY <1>2 DEF MergedJoinsFlows

===============================================================================
