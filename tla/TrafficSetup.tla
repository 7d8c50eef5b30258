------------------------------ MODULE TrafficSetup ----------------------------
(***************************************************************************)
(* How a simulation program turns a communication pattern or a traffic     *)
(* file into applications (src/scratch/dcn_fattree_finite_large_v3.cc,     *)
(* sections 03 to 05): who is client and server of whom, the packet sinks  *)
(* of the servers, the traffic sources of the clients, and which of the    *)
(* sources get their start and stop times.                                 *)
(***************************************************************************)
EXTENDS Integers, Sequences, FiniteSets

CONSTANTS
  NumNodes,   (* numNodes; k^3 / 4 in a fat tree                           *)
  Patterns,   (* The values communicationPattern may have.                 *)
  Files       (* The traffic files: sequences of lines [client, server].   *)

Nodes == 0..NumNodes - 1
Line == [client : Nat, server : Nat]

ASSUME NodesAssumption == NumNodes \in Nat \ {0} /\ NumNodes % 2 = 0

ASSUME FilesAssumption ==
  /\ Patterns \subseteq {"oneToOne", "oneToMany", "manyToOne", "custom"}
  /\ Files \subseteq Seq(Line)

VARIABLES
  pattern,       (* communicationPattern                                   *)
  file,          (* the traffic file                                       *)
  phase,         (* the loop the program is in                             *)
  i,             (* its counter: lines read, or the node                   *)
  clientServer,  (* status and peer of each node                           *)
  randomNode,
  sinks,         (* how many PacketSinks are installed on each node        *)
  app,           (* app[n]: the sources installed, [client, server]        *)
  appCount,
  timed          (* the n for which app[n] has got Start and Stop          *)

vars == <<pattern, file, phase, i, clientServer, randomNode, sinks, app,
          appCount, timed>>

-------------------------------------------------------------------------------

NotSet == 0
Client == 1
Server == 2

Status(n) == clientServer[n][1]
Peer(n) == clientServer[n][2]

Init ==
  /\ pattern \in Patterns
  /\ file \in IF pattern = "custom" THEN Files ELSE {<<>>}
  /\ phase = IF pattern = "custom" THEN "read" ELSE "assign"
  /\ i = 0
  /\ clientServer = [n \in Nodes |-> <<NotSet, 0>>]
  /\ randomNode = -1
  /\ sinks = [n \in Nodes |-> 0]
  /\ app = [n \in {} |-> 0]
  /\ appCount = 0
  /\ timed = {}

\* Mutant: only the first node is marked.
MarkFirstOnly(n, first, m, second) ==
  [x \in Nodes |-> IF x = n THEN first ELSE clientServer[x]]

\* Mark first, then second: a node that is both keeps the second mark.
Mark(n, first, m, second) ==
  [x \in Nodes |-> IF x = m THEN second ELSE IF x = n THEN first ELSE clientServer[x]]

InstallSource(n, client, server) ==
  app' = [x \in DOMAIN app \cup {n} |->
            IF x = n THEN [client |-> client, server |-> server] ELSE app[x]]

\* Mutant: a client never gets a sink.
NeedsSinkIfNotSet(n) == Status(n) = NotSet

NeedsSink(n) == Status(n) # Server

\* The custom pattern: a line of the file.  The program ends at a line that
\* names a node there is not.
InRange(line) == line.client < NumNodes /\ line.server < NumNodes

RefuseLine ==
  /\ phase = "read" /\ i < Len(file) /\ ~InRange(file[i + 1])
  /\ appCount' = appCount + 1
  /\ phase' = "exit"
  /\ UNCHANGED <<pattern, file, i, clientServer, randomNode, sinks, app, timed>>

ReadLine ==
  LET line == file[i + 1] IN
  /\ phase = "read" /\ i < Len(file) /\ InRange(line)
  /\ appCount' = appCount + 1
  /\ sinks' = IF NeedsSink(line.server)
              THEN [sinks EXCEPT ![line.server] = @ + 1] ELSE sinks
  /\ InstallSource(appCount + 1, line.client, line.server)
  /\ clientServer' = Mark(line.client, <<Client, line.server>>,
                          line.server, <<Server, line.client>>)
  /\ i' = i + 1
  /\ UNCHANGED <<pattern, file, phase, randomNode, timed>>

EndOfFile ==
  /\ phase = "read" /\ i = Len(file)
  /\ phase' = "start"
  /\ UNCHANGED <<pattern, file, i, clientServer, randomNode, sinks, app, appCount, timed>>

-------------------------------------------------------------------------------

\* Mutants: one node too many; a node that is a server.
DrawnPastEnd == Nodes \cup {NumNodes}
DrawnServer == {n \in Nodes \ {i} : Status(n) = Server}

\* The other patterns draw a node: again for each client until it is free
\* (oneToOne), or once.
Drawn ==
  IF pattern = "oneToOne" THEN {n \in Nodes \ {i} : Status(n) = NotSet}
  ELSE IF randomNode = -1 THEN Nodes
  ELSE {randomNode}

AssignNode ==
  /\ phase = "assign" /\ i < NumNodes
  /\ i' = i + 1
  /\ IF Status(i) > 0 THEN UNCHANGED <<clientServer, randomNode>>
     ELSE \E r \in Drawn :
       /\ randomNode' = r
       /\ clientServer' =
            CASE pattern = "oneToOne"  -> Mark(i, <<Client, r>>, r, <<Server, i>>)
              [] pattern = "manyToOne" -> Mark(i, <<Client, r>>, r, <<Server, -1>>)
              [] pattern = "oneToMany" -> Mark(i, <<Server, r>>, r, <<Client, i>>)
  /\ UNCHANGED <<pattern, file, phase, sinks, app, appCount, timed>>

AllAssigned ==
  /\ phase = "assign" /\ i = NumNodes
  /\ phase' = "install" /\ i' = 0
  /\ UNCHANGED <<pattern, file, clientServer, randomNode, sinks, app, appCount, timed>>

InstallNode ==
  /\ phase = "install" /\ i < NumNodes
  /\ i' = i + 1
  /\ sinks' = IF Status(i) = Server THEN [sinks EXCEPT ![i] = @ + 1] ELSE sinks
  /\ IF Status(i) = Server /\ pattern = "oneToMany"
     THEN InstallSource(i, Peer(i), i)
     ELSE IF Status(i) = Client /\ pattern # "oneToMany"
     THEN InstallSource(i, i, Peer(i))
     ELSE UNCHANGED app
  /\ UNCHANGED <<pattern, file, phase, clientServer, randomNode, appCount, timed>>

AllInstalled ==
  /\ phase = "install" /\ i = NumNodes
  /\ phase' = "start"
  /\ UNCHANGED <<pattern, file, i, clientServer, randomNode, sinks, app, appCount, timed>>

-------------------------------------------------------------------------------

\* for i = 0 .. appCount: app[i].Start and app[i].Stop.
StartApps ==
  /\ phase = "start"
  /\ timed' = (0..appCount) \cap DOMAIN app
  /\ phase' = "run"
  /\ UNCHANGED <<pattern, file, i, clientServer, randomNode, sinks, app, appCount>>

Next ==
  \/ ReadLine \/ RefuseLine \/ EndOfFile
  \/ AssignNode \/ AllAssigned
  \/ InstallNode \/ AllInstalled
  \/ StartApps

Spec == Init /\ [][Next]_vars
FairSpec == Spec /\ WF_vars(Next)

-------------------------------------------------------------------------------

(***************************************************************************)
(* The types of the variables.                                             *)
(***************************************************************************)
TypeOK ==
  /\ pattern \in Patterns /\ file \in Files \cup {<<>>}
  /\ phase \in {"read", "assign", "install", "start", "run", "exit"}
  /\ i \in Nat
  /\ clientServer \in [Nodes -> {NotSet, Client, Server} \X (Nodes \cup {-1})]
  /\ randomNode \in Nodes \cup {-1}
  /\ sinks \in [Nodes -> Nat]
  /\ \A n \in DOMAIN app : n \in Nat /\ app[n] \in [client : Nodes, server : Nodes]
  /\ appCount \in Nat
  /\ timed \subseteq DOMAIN app

\* oneToOne pairs all nodes: each is in exactly one source, as its client or as
\* its server, and nobody sends to itself.  The two other patterns make one
\* source for each node but one.
PatternIsComplete ==
  /\ pattern = "oneToOne" =>
       /\ \A n \in Nodes : Cardinality({k \in DOMAIN app :
            n = app[k].client \/ n = app[k].server}) = 1
       /\ \A k \in DOMAIN app : app[k].client # app[k].server
  /\ pattern \in {"oneToMany", "manyToOne"} => Cardinality(DOMAIN app) = NumNodes - 1

(***************************************************************************)
(* Whatever nodes are drawn and in whatever order the file names them:     *)
(* when the simulation starts, the pattern has all its sources, and the    *)
(* server of each of them has a sink.                                      *)
(***************************************************************************)
SourcesReachSinks ==
  phase = "run" =>
    /\ PatternIsComplete
    /\ \A n \in DOMAIN app : sinks[app[n].server] > 0

\* Lines of the same server follow each other, as in the generated synthetic
\* files; generate_traffic_mimic.py groups its lines by client instead.
Grouped ==
  \A m, n \in 1..Len(file) : m < n /\ file[m].server = file[n].server =>
    \A k \in m..n : file[k].server = file[n].server

(***************************************************************************)
(* No node gets a second sink, which would bind to the same address and    *)
(* port and abort the simulation, for a pattern and for a file that is     *)
(* grouped by server, although nodes are clients and servers at once.      *)
(***************************************************************************)
GroupedBindsOnce ==
  pattern # "custom" \/ Grouped => \A n \in Nodes : sinks[n] <= 1

(***************************************************************************)
(* The set-up ends: drawing free nodes never gets stuck, and only a file   *)
(* that names a node there is not keeps the simulation from running.       *)
(***************************************************************************)
SetupEnds ==
  LET refused == pattern = "custom" /\ \E n \in 1..Len(file) : ~InRange(file[n])
  IN  <>(phase = IF refused THEN "exit" ELSE "run")

===============================================================================
