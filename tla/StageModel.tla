------------------------------ MODULE StageModel ------------------------------
(***************************************************************************)
(* The window loop of the analytical model (auto_oop/main.cpp, fattree.cpp *)
(* with use_mimic).  For each window the model reads the flows the         *)
(* simulator measured, splits them over their ECMP paths and computes the  *)
(* queues stage by stage: a queue's departures are the arrivals of the     *)
(* next stages' queues.  It then corrects each queue's latency with a      *)
(* regression tree, sums the latencies along the paths, prints one row per *)
(* flow, and clears everything for the next window.                        *)
(*                                                                         *)
(* The data of a queue are parallel vectors, filled by different functions *)
(* and joined by position.  The module keeps one sequence for the vectors  *)
(* that are always filled together, and in it what an element was computed *)
(* from instead of its number: the hazards are a vector out of step, a     *)
(* queue computed before all its arrivals are known and a remainder of an  *)
(* earlier window.                                                         *)
(*                                                                         *)
(* Queues of one stage are served in any order; the code's order is one.   *)
(***************************************************************************)
EXTENDS Integers, Sequences, FiniteSets

CONSTANTS
  Queues,      (* globalQueues                                             *)
  StageOf,     (* The stage that serves a queue, by its type.              *)
  NoQueue,     (* A stage that a path does not use (-1).                   *)
  Splits,      (* For each pair of hosts with a flow, its splits in order: *)
               (* functions from the stages 0..5 to queues.                *)
  Files,       (* Contents a window's file may have: sequences of lines    *)
               (* [sim, pair].  A missing file reads as <<>>.              *)
  Windows      (* Length of time_list; bounds the behaviours.              *)

Stages == 0..5

\* A line of a file: the simulator's id of a flow, its client and server.
Lines == [sim : Nat, pair : Nat \X Nat]

ASSUME FilesAssumption == Files \subseteq Seq(Lines)

ASSUME QueuesAssumption ==
  /\ NoQueue \notin Queues
  /\ StageOf \in [Queues -> Stages]
  /\ Windows \in Nat

ASSUME SplitsAssumption ==
  \A pair \in DOMAIN Splits :
    /\ Splits[pair] \in Seq([Stages -> Queues \cup {NoQueue}])
    /\ \A i \in 1..Len(Splits[pair]) :
         LET route == Splits[pair][i] IN
         /\ route[0] # NoQueue /\ route[5] # NoQueue
         /\ \A k \in Stages : route[k] # NoQueue => StageOf[route[k]] = k

VARIABLES
  window,     (* index into time_list                                      *)
  phase,      (* the function the loop is in                               *)
  stage,      (* the stage it computes                                     *)
  served,     (* the queues of this window that have been computed         *)
  files,      (* the contents of the files opened so far                   *)
  line,       (* the line of the window's file that is read next           *)
  flows,      (* globalFlowsV2                                             *)
  splits,     (* globalFlowSplitsV2                                        *)
  ids,        (* v_flowSplitIdV2 and v_flowIdV2 of each queue              *)
  args,       (* v_datarate, v_lambda, v_CA_sqr, v_CS_sqr, v_packet_size   *)
  rho,        (* v_rho                                                     *)
  lat,        (* v_link_latency, v_queue_latency_*, v_queue_occupancy_*    *)
  corr,       (* v_queue_correction_inf                                    *)
  rows        (* the rows of latency_per_flow.csv                          *)

vectors == <<ids, args, rho, lat, corr>>
vars == <<window, phase, stage, served, files, line, flows, splits, vectors, rows>>

-------------------------------------------------------------------------------

Empty == [q \in Queues |-> <<>>]

Init ==
  /\ window = 1 /\ phase = "load" /\ stage = 0
  /\ served = {} /\ files = <<>> /\ line = 1
  /\ flows = <<>> /\ splits = <<>>
  /\ ids = Empty /\ args = Empty /\ rho = Empty /\ lat = Empty /\ corr = Empty
  /\ rows = <<>>

\* Mutant: the queues keep what the last window left.
ClearQueueKept(vector) == vector

\* Mutant: the flows of the last window are forgotten only at the queues.
ResetFlowKept(table) == table

\* reset_flow and clear_queue_vector: what a window leaves to the next one.
ResetFlow(table) == <<>>
ClearQueue(vector) == [q \in Queues |-> <<>>]

\* The n-th of a set of positions.
Nth(positions, n) ==
  CHOOSE p \in positions : Cardinality({m \in positions : m <= p}) = n

\* Append value[i] to the vector of queue target[i], for each i in order.
Push(vector, target, value) ==
  [q \in Queues |->
     LET here == {i \in 1..Len(target) : target[i] = q}
     IN  vector[q] \o [n \in 1..Cardinality(here) |-> value[Nth(here, n)]]]

\* reset_flow, clear_queue_vector, and the file of the window is opened.
OpenWindow(file) ==
  /\ phase = "load" /\ window <= Windows
  /\ files' = Append(files, file) /\ line' = 1
  /\ flows' = ResetFlow(flows) /\ splits' = ResetFlow(splits)
  /\ ids' = ClearQueue(ids) /\ args' = ClearQueue(args)
  /\ rho' = ClearQueue(rho) /\ lat' = ClearQueue(lat) /\ corr' = ClearQueue(corr)
  /\ served' = {}
  /\ phase' = "read"
  /\ UNCHANGED <<window, stage, rows>>

(***************************************************************************)
(* load_traffic_file_mimic: a flow for each line, a split for each of its  *)
(* paths, queued at stage 0.  Lines of unknown pairs are ignored.          *)
(***************************************************************************)
ReadLine ==
  LET read == files[window][line]
      paths == Splits[read.pair]
      n == Len(paths)
  IN
  /\ phase = "read" /\ line <= Len(files[window])
  /\ line' = line + 1
  /\ IF read.pair \in DOMAIN Splits
     THEN /\ flows' = Append(flows, read)
          /\ splits' = splits \o [j \in 1..n |-> [flow |-> Len(flows) + 1, route |-> paths[j]]]
          /\ ids' = Push(ids, [j \in 1..n |-> paths[j][0]], [j \in 1..n |-> Len(splits) + j])
     ELSE UNCHANGED <<flows, splits, ids>>
  /\ UNCHANGED <<window, phase, stage, served, files, args, rho, lat, corr, rows>>

\* calc_lambda_CA_sqr_stage_0_mimic: the arrivals at the hosts' queues are
\* those of the trace.
Arrivals ==
  /\ phase = "read" /\ line > Len(files[window])
  /\ args' = [q \in Queues |->
       IF StageOf[q] = 0
       THEN args[q] \o [i \in 1..Len(ids[q]) |->
               [split |-> ids[q][i], share |-> ids[q][i], from |-> NoQueue]]
       ELSE args[q]]
  /\ phase' = "stages" /\ stage' = 0
  /\ UNCHANGED <<window, served, files, line, flows, splits, ids, rho, lat, corr, rows>>

-------------------------------------------------------------------------------

\* Mutants: stages are skipped; the search starts at the first stage.
NextQueueLast(route, k) == route[5]
NextQueueFromStart(route, k) ==
  route[CHOOSE j \in 0..5 \ {k} :
          route[j] # NoQueue /\ \A i \in 0..j - 1 : i = k \/ route[i] = NoQueue]

\* The first stage after k that the route uses.
NextQueue(route, k) ==
  route[CHOOSE j \in k + 1..5 : route[j] # NoQueue /\ \A i \in k + 1..j - 1 : route[i] = NoQueue]

\* Mutant: the last latency is forgotten.
ME_modelShort(q) ==
  /\ rho' = [rho EXCEPT ![q] = @ \o [i \in 1..Len(args[q]) |-> args[q][i].split]]
  /\ lat' = [lat EXCEPT ![q] = @ \o [r \in 1..Len(rho'[q]) - 1 |->
               [split |-> args[q][r].split, rho |-> rho'[q][r],
                load |-> {args[q][i].split : i \in 1..Len(args[q])}]]]

(***************************************************************************)
(* ME_model: an element of v_rho for each argument, then an element of the *)
(* latency vectors for each element of v_rho, from the arguments at the    *)
(* same position and from the load of all arrivals.                        *)
(***************************************************************************)
ME_model(q) ==
  /\ rho' = [rho EXCEPT ![q] = @ \o [i \in 1..Len(args[q]) |-> args[q][i].split]]
  /\ lat' = [lat EXCEPT ![q] = @ \o [r \in 1..Len(rho'[q]) |->
               [split |-> args[q][r].split, rho |-> rho'[q][r],
                load |-> {args[q][i].split : i \in 1..Len(args[q])}]]]

(***************************************************************************)
(* calc_stage_k_mimic, for one of its queues.  Arrivals at the next queue  *)
(* are the departures of this one: their rate is the split's own, its      *)
(* share in the queue's departures that of the argument at its position.   *)
(***************************************************************************)
Serve(q) ==
  LET n == Len(ids[q])
      target == [i \in 1..n |-> NextQueue(splits[ids[q][i]].route, stage)]
  IN
  /\ phase = "stages" /\ StageOf[q] = stage
  /\ q \notin served /\ ids[q] # <<>>
  /\ served' = served \cup {q}
  /\ ME_model(q)
  /\ IF stage < 5
     THEN /\ ids' = Push(ids, target, ids[q])
          /\ args' = Push(args, target,
                          [i \in 1..n |-> [split |-> ids[q][i],
                                            share |-> args[q][i].split, from |-> q]])
     ELSE UNCHANGED <<ids, args>>
  /\ UNCHANGED <<window, phase, stage, files, line, flows, splits, corr, rows>>

\* Empty queues add nothing to any vector.
NextStage ==
  /\ phase = "stages"
  /\ \A q \in Queues : StageOf[q] = stage /\ ids[q] # <<>> => q \in served
  /\ IF stage < 5
     THEN stage' = stage + 1 /\ UNCHANGED phase
     ELSE phase' = "correct" /\ UNCHANGED stage
  /\ UNCHANGED <<window, served, files, line, flows, splits, vectors, rows>>

-------------------------------------------------------------------------------

\* regression_tree_model: a correction for each id, from the features of the
\* flow's splits at this queue.
Correct ==
  /\ phase = "correct"
  /\ corr' = [q \in Queues |->
       IF args[q] = <<>> THEN corr[q]
       ELSE corr[q] \o [i \in 1..Len(ids[q]) |->
              [flow |-> splits[ids[q][i]].flow,
               features |-> {args[q][j].split : j \in
                  {n \in 1..Len(ids[q]) :
                     splits[ids[q][n]].flow = splits[ids[q][i]].flow}}]]]
  /\ phase' = "report"
  /\ UNCHANGED <<window, stage, served, files, line, flows, splits, ids, args, rho, lat, rows>>

\* Mutant: the results of whichever split came first.
PositionFirst(q, s) == 1

\* calc_flowSplit_latency_v2: the results at the first position of the split.
Position(q, s) ==
  CHOOSE i \in 1..Len(ids[q]) : ids[q][i] = s /\ \A j \in 1..i - 1 : ids[q][j] # s

\* The simulated latency stands for stage 0.
Terms(s) ==
  {[queue |-> q, latency |-> lat[q][Position(q, s)], correction |-> corr[q][Position(q, s)]] :
     q \in {p \in {splits[s].route[k] : k \in 1..5} \ {NoQueue} :
              \E i \in 1..Len(ids[p]) : ids[p][i] = s}}

SplitsOf(f) == {s \in 1..Len(splits) : splits[s].flow = f}

(***************************************************************************)
(* calc_flowSplit_latency_v2, calc_flow_latency_v2 and                     *)
(* print_latency_all_mimic; the loop goes on to the next time stamp.       *)
(***************************************************************************)
Report ==
  /\ phase = "report"
  /\ rows' = rows \o [f \in 1..Len(flows) |->
       [window |-> window, sim |-> flows[f].sim, pair |-> flows[f].pair,
        terms |-> [s \in SplitsOf(f) |-> Terms(s)]]]
  /\ window' = window + 1
  /\ phase' = "load"
  /\ UNCHANGED <<stage, served, files, line, flows, splits, vectors>>

Next ==
  \/ \E file \in Files : OpenWindow(file)
  \/ ReadLine
  \/ Arrivals
  \/ \E q \in Queues : Serve(q)
  \/ NextStage
  \/ Correct
  \/ Report

Spec == Init /\ [][Next]_vars

-------------------------------------------------------------------------------

(***************************************************************************)
(* The types of the variables.                                             *)
(***************************************************************************)
Id == 1..Len(splits)

TypeOK ==
  /\ window \in 1..Windows + 1
  /\ phase \in {"load", "read", "stages", "correct", "report"}
  /\ stage \in Stages /\ served \subseteq Queues
  /\ files \in Seq(Files) /\ line \in Nat \ {0}
  /\ flows \in Seq(Lines)
  /\ \A i \in 1..Len(flows) : flows[i].pair \in DOMAIN Splits
  /\ splits \in Seq([flow : 1..Len(flows), route : [Stages -> Queues \cup {NoQueue}]])
  /\ ids \in [Queues -> Seq(Id)]
  /\ args \in [Queues -> Seq([split : Id, share : Id, from : Queues \cup {NoQueue}])]
  /\ rho \in [Queues -> Seq(Id)]
  /\ lat \in [Queues -> Seq([split : Id, rho : Id, load : SUBSET Id])]
  /\ corr \in [Queues -> Seq([flow : 1..Len(flows), features : SUBSET Id])]

(***************************************************************************)
(* The parallel vectors of a queue are in step: position by position they  *)
(* hold the values of one split, and a computed queue has a result for     *)
(* each of its splits.                                                     *)
(***************************************************************************)
VectorsInStep ==
  \A q \in Queues :
    /\ phase \in {"stages", "correct", "report"} =>
         /\ Len(args[q]) = Len(ids[q])
         /\ \A i \in 1..Len(ids[q]) :
              args[q][i].split = ids[q][i] /\ args[q][i].share = ids[q][i]
    /\ phase \in {"stages", "correct", "report"} /\ q \in served =>
         /\ Len(rho[q]) = Len(ids[q]) /\ Len(lat[q]) = Len(ids[q])
         /\ \A i \in 1..Len(ids[q]) :
              lat[q][i].split = ids[q][i] /\ lat[q][i].rho = ids[q][i]

\* The queue before stage k on a route.
Previous(route, k) ==
  LET before == {j \in 0..k - 1 : route[j] # NoQueue}
  IN  IF before = {} THEN NoQueue
      ELSE route[CHOOSE j \in before : \A i \in before : i <= j]

(***************************************************************************)
(* A split is at a queue once if the queue is on its route and the queue   *)
(* before has been computed, and not at all otherwise; its arrivals there  *)
(* are the departures of the queue before.  No stage is skipped, none is   *)
(* entered twice, and no queue has splits of an earlier window.            *)
(***************************************************************************)
SplitsFollowTheirRoutes ==
  phase \in {"stages", "correct", "report"} =>
    \A q \in Queues, s \in Id :
      LET k == StageOf[q]
          here == {i \in 1..Len(ids[q]) : ids[q][i] = s}
          previous == Previous(splits[s].route, k)
          due == splits[s].route[k] = q /\ (k = 0 \/ previous \in served)
      IN  /\ Cardinality(here) = (IF due THEN 1 ELSE 0)
          /\ \A i \in here : args[q][i].from = previous

(***************************************************************************)
(* When a queue is computed all its arrivals are known: within the window  *)
(* nothing arrives at it afterwards.                                       *)
(***************************************************************************)
NothingArrivesLate ==
  [][phase # "load" => \A q \in served : ids'[q] = ids[q] /\ args'[q] = args[q]]_vars

\* What a split should add up: on each queue of its route but the first, the
\* result and the correction of itself.
Expected(s, q) ==
  /\ \E t \in Terms(s) : t.queue = q
  /\ \A t \in Terms(s) : t.queue = q =>
       /\ t.latency.split = s
       /\ t.latency.load = {r \in Id : splits[r].route[StageOf[q]] = q}
       /\ t.correction.flow = splits[s].flow
       /\ t.correction.features = {r \in SplitsOf(splits[s].flow) :
                                     splits[r].route[StageOf[q]] = q}

(***************************************************************************)
(* The latency of a flow adds up, for each of its splits, the result of    *)
(* each queue on the split's route: the split's own result, computed from  *)
(* the load of all splits that pass the queue, with the correction of the  *)
(* flow from the features of all its splits there.                         *)
(***************************************************************************)
LatencyIsOfItsRoute ==
  phase = "report" =>
    \A s \in Id : \A k \in 1..5 :
      splits[s].route[k] # NoQueue => Expected(s, splits[s].route[k])

\* Lines of unknown pairs are ignored.
Known(file) == SelectSeq(file, LAMBDA read : read.pair \in DOMAIN Splits)

\* How many splits of window w pass a queue, from its file alone.
Load(w, q) ==
  LET file == Known(files[w]) IN
  Cardinality(UNION {{<<i, j>> : j \in {n \in 1..Len(Splits[file[i].pair]) :
                                          Splits[file[i].pair][n][StageOf[q]] = q}} :
                       i \in 1..Len(file)})

\* The terms of a row's n-th split are those of the n-th path of its pair.
TermsOfPath(terms, path, w) ==
  /\ {t.queue : t \in terms} = {path[k] : k \in 1..5} \ {NoQueue}
  /\ \A t \in terms : Cardinality(t.latency.load) = Load(w, t.queue)

(***************************************************************************)
(* The report says of each window what its own file says, whatever the     *)
(* windows before it left in flows and queues and whether or not its file  *)
(* can be opened: one row for each line of a known pair, in their order,   *)
(* also when several flows join the same pair of hosts; in a row a split   *)
(* for each path of the pair, with a term for each queue of the path but   *)
(* the first, computed from as many splits as the window's lines send      *)
(* through this queue.                                                     *)
(***************************************************************************)
RowsAreLines ==
  LET RowsOf(w) == SelectSeq(rows, LAMBDA row : row.window = w) IN
  \A w \in 1..window - 1 :
    /\ Len(RowsOf(w)) = Len(Known(files[w]))
    /\ \A i \in 1..Len(RowsOf(w)) :
         LET row == RowsOf(w)[i]
             paths == Splits[row.pair]
         IN  /\ [sim |-> row.sim, pair |-> row.pair] = Known(files[w])[i]
             /\ Cardinality(DOMAIN row.terms) = Len(paths)
             /\ \A n \in 1..Len(paths) :
                  TermsOfPath(row.terms[Nth(DOMAIN row.terms, n)], paths[n], w)

===============================================================================
