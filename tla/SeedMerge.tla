------------------------------- MODULE SeedMerge ------------------------------
(***************************************************************************)
(* The data frames of the run scripts (utils/functions.py): the three      *)
(* files a simulation writes, the merge of these files over several random *)
(* seeds, the output of the analytical model, and the joins of both.       *)
(*                                                                         *)
(* A simulation is abstracted to the flows of its window, and each flow to *)
(* the rows it has in these files.  A row keeps the columns the scripts    *)
(* sort, group and join by; instead of its figures it keeps where they     *)
(* were measured ("of"), so that an average is the set of the measurements *)
(* it was taken over, and a missing value (NaN) is the empty set.  A frame *)
(* is the set of its rows, each with its index.                            *)
(***************************************************************************)
EXTENDS Integers, FiniteSets

CONSTANTS
  Hops,         (* the queues ECMP may use between a client and server      *)
  FirstHop      (* the one that every packet of a flow enters first         *)

ASSUME HopsAssumption ==
  Hops \subseteq Nat \ {0} /\ IsFiniteSet(Hops) /\ FirstHop \in Hops

EndToEnd == 0      \* the place of a row that is about the way from end to end
Places == {EndToEnd} \cup Hops

\* Mean packet size below, above and of exactly 70 bytes.
Sizes == {"ack", "data", "odd"}

\* A flow as a simulation has measured it: "size" is the size of its packets
\* in each of its rows, end to end (when two packets or more were sent) and at
\* each queue that packets have left.  Each row counts packets of its own, and
\* a flow may have any of them without the others.
Flows ==
  [id : Nat, client : Nat, server : Nat,
   size : UNION {[places -> Sizes] : places \in SUBSET Places}]

Row(seed, round, flow, place) ==
  [id |-> flow.id, client |-> flow.client, server |-> flow.server, hop |-> place,
   of |-> {[seed |-> seed, round |-> round, flow |-> flow.id,
            size |-> flow.size[place], hop |-> place]}]

Measurements == [seed : Nat, round : Nat, flow : Nat, size : Sizes, hop : Nat]

Rows == [id : Nat, client : Nat, server : Nat, hop : Nat, of : SUBSET Measurements]

-------------------------------------------------------------------------------
(* The files of a simulation [round, flows].  outputs_sim/mimic_*.txt has the *)
(* rows of a flow's first queue, end_to_end_latency.csv those from end to     *)
(* end, and flow_queue_log.csv those of all queues.                           *)

RowsAt(seed, sim, place) ==
  {Row(seed, sim.round, f, place) : f \in {g \in sim.flows : place \in DOMAIN g.size}}

MimicRows(seed, sim) == RowsAt(seed, sim, FirstHop)

EndToEndRows(seed, sim) == RowsAt(seed, sim, EndToEnd)

FlowQueueRows(seed, sim) == UNION {RowsAt(seed, sim, hop) : hop \in Hops}

-------------------------------------------------------------------------------
(* Sorting.                                                                *)

SizeOf(row) == {x.size : x \in row.of}

Class(row) == IF "ack" \in SizeOf(row) THEN 0 ELSE 1

\* Mutant: sorted by the flow ids of the simulation.
SortKeyById(row) == <<Class(row), row.id, row.client, row.server, row.hop>>

\* Acknowledgements come first, data after them.  Rows that agree in all columns
\* they are sorted by keep their order in the file, which is that of flow ids.
SortKey(row) == <<Class(row), row.client, row.server, row.hop, row.id>>

Precedes(a, b) ==
  LET k == SortKey(a)
      m == SortKey(b)
  IN  \E i \in 1..5 : k[i] < m[i] /\ \A j \in 1..i - 1 : k[j] = m[j]

\* Rows of exactly 70 bytes are in neither half.
SplitBySize(rows) == {r \in rows : "odd" \notin SizeOf(r)}

Rank(row, rows) == 1 + Cardinality({r \in rows : Precedes(r, row)})

\* The sorted frame of a seed: each row with its index.
Frame(seed, rows) ==
  {[seed |-> seed, index |-> Rank(r, rows), row |-> r] : r \in rows}

Group(row) == <<Class(row), row.client, row.server>>

\* The flow ids that the groups of the flow log get, acknowledgements first.
GroupId(row, rows) ==
  1 + Cardinality({Group(r) : r \in {q \in rows : Precedes(q, row) /\ Group(q) # Group(row)}})

WithId(x, id) == [x EXCEPT !.row.id = id]

\* Mutant: the flow ids of the simulation are kept.
RegroupedNot(frame) == frame

Regrouped(frame) ==
  {WithId(x, GroupId(x.row, {y.row : y \in frame})) : x \in frame}

-------------------------------------------------------------------------------
(* Merging.  "frames" has the rows of all seeds 1..n, with their indices.  *)

\* Mutant: the ids are the positions in the file, which start with 0.
NumberedFromZero(frames) == {WithId(x, x.index - 1) : x \in frames}

Numbered(frames) == {WithId(x, x.index) : x \in frames}

Aligned(x, frames) == {y \in frames : y.index = x.index}

OfSeed(k, frames) == {x \in frames : x.seed = k}

\* mean(axis=1) over the concatenated columns, which skips missing values.
\* Labels and length are those of the last seed.
MergeMeans(frames, n) ==
  {[x.row EXCEPT !.of = UNION {y.row.of : y \in Aligned(x, frames)}] : x \in OfSeed(n, frames)}

\* Sums that are aligned with the index of the first seed's frame, whose
\* labels they keep; a value that one seed misses is missing in the sum.
MergeSums(frames, n) ==
  {[x.row EXCEPT !.of = IF {y.seed : y \in Aligned(x, frames)} = 1..n
                        THEN UNION {y.row.of : y \in Aligned(x, frames)}
                        ELSE {}] : x \in OfSeed(1, frames)}

\* merge_seeds.  "sims" holds the simulation of each seed.
MergeSeeds(sims, n) ==
  LET Mimic(k) == Frame(k, SplitBySize(MimicRows(k, sims[k])))
      Latency(k) == Frame(k, SplitBySize(EndToEndRows(k, sims[k])))
      FlowQueue(k) == Regrouped(Frame(k, SplitBySize(FlowQueueRows(k, sims[k]))))
  IN  [mimic |-> MergeMeans(Numbered(UNION {Mimic(k) : k \in 1..n}), n),
       endToEnd |-> MergeSums(Numbered(UNION {Latency(k) : k \in 1..n}), n),
       flowQueue |-> MergeSums(UNION {FlowQueue(k) : k \in 1..n}, n)]

-------------------------------------------------------------------------------
(* The analytical model turns each row of a mimic file into a row of       *)
(* latency_per_flow.csv and one row of latency_per_queue.csv for each of   *)
(* the queues its splits may use.                                          *)

AnalyticalModel(mimic, tree) ==
  [flows |-> mimic, tree |-> tree,
   queues |-> UNION {{[r EXCEPT !.hop = hop] : hop \in Hops} : r \in mimic}]

Analyses == [flows : SUBSET Rows, tree : Nat, queues : SUBSET Rows]

SameFlow(sim, ana) ==
  sim.id = ana.id /\ sim.client = ana.client /\ sim.server = ana.server

\* merge_latency_per_flow and merge_latency_per_queue: inner joins.
JoinFlows(sim, ana) ==
  {[sim |-> p[1], ana |-> p[2]] : p \in {q \in sim \X ana : SameFlow(q[1], q[2])}}

JoinQueues(sim, ana) ==
  {[sim |-> p[1], ana |-> p[2]] :
     p \in {q \in sim \X ana : SameFlow(q[1], q[2]) /\ q[1].hop = q[2].hop}}

Meets(data, ack) == data.client = ack.server /\ data.server = ack.client

\* The .rtt file: data (70 bytes and more) with the reverse acknowledgements.
RoundTrips(joined) ==
  {[data |-> p[1], ack |-> p[2]] :
     p \in {q \in joined \X joined :
              /\ SizeOf(q[1].sim) \cap {"data", "odd"} # {}
              /\ SizeOf(q[2].sim) = {"ack"}
              /\ Meets(q[1].sim, q[2].sim)}}

Report(endToEnd, flowQueue, analysis) ==
  LET flows == JoinFlows(endToEnd, analysis.flows)
  IN  [flows |-> flows,
       queues |-> JoinQueues(flowQueue, analysis.queues),
       rtts |-> RoundTrips(flows),
       tree |-> analysis.tree]

===============================================================================
