-------------------------- MODULE TrafficSetupProofs --------------------------
(***************************************************************************)
(* Theorems about the set-up of the traffic, for any even number of nodes, *)
(* any nodes drawn and any traffic files: when the simulation starts, the  *)
(* pattern has all its sources and each of them reaches a sink, and no     *)
(* sink is installed twice unless the file names a server again after      *)
(* another one.                                                            *)
(*                                                                         *)
(* The patterns and the files go through different loops and have each     *)
(* their part of the invariant: Assigned and Installed, and FileRead.      *)
(***************************************************************************)
EXTENDS TrafficSetup, FiniteSetTheorems, TLAPS

-------------------------------------------------------------------------------

\* Each loop belongs to a pattern or to a file, and its counter is in its range.
Phases ==
  /\ pattern = "custom" => phase \in {"read", "start", "run", "exit"} /\ i <= Len(file)
  /\ pattern # "custom" => phase \in {"assign", "install", "start", "run"} /\ i <= NumNodes

\* The nodes the first loop is done with have their status.
StatusSet ==
  \A n \in Nodes :
    /\ phase = "assign" /\ n < i => Status(n) # NotSet
    /\ phase \in {"install", "start", "run"} => Status(n) # NotSet

\* oneToOne: the nodes that have a status are in pairs of a client and a server.
Paired ==
  pattern = "oneToOne" =>
    \A n \in Nodes : Status(n) # NotSet =>
      /\ Peer(n) \in Nodes \ {n} /\ Peer(Peer(n)) = n
      /\ {Status(n), Status(Peer(n))} = {Client, Server}

\* The other patterns have one node of the one kind, which was drawn first and
\* is the peer of all others.
Centred(centre, others) ==
  /\ randomNode = -1 => \A n \in Nodes : Status(n) = NotSet
  /\ randomNode # -1 => Status(randomNode) = centre
  /\ \A n \in Nodes \ {randomNode} : Status(n) # NotSet =>
       Status(n) = others /\ Peer(n) = randomNode

Assigned ==
  pattern # "custom" =>
    /\ StatusSet
    /\ Paired
    /\ pattern = "manyToOne" => Centred(Server, Client)
    /\ pattern = "oneToMany" => Centred(Client, Server)

\* The nodes the second loop is done with have their sink or their source.
Done(n) == phase \in {"start", "run"} \/ (phase = "install" /\ n < i)

Sends(n) == Status(n) = IF pattern = "oneToMany" THEN Server ELSE Client

Source(n) ==
  IF pattern = "oneToMany" THEN [client |-> Peer(n), server |-> n]
  ELSE [client |-> n, server |-> Peer(n)]

Installed ==
  pattern # "custom" =>
    /\ \A n \in Nodes : sinks[n] = IF Done(n) /\ Status(n) = Server THEN 1 ELSE 0
    /\ DOMAIN app = {n \in Nodes : Done(n) /\ Sends(n)}
    /\ \A n \in DOMAIN app : app[n] = Source(n)

\* A sink is on the servers of the lines read, and a node is still marked as a
\* server after its line, though a later one may mark it as a client.
FileRead ==
  pattern = "custom" =>
    /\ \A n \in Nodes : Status(n) = Server => sinks[n] > 0
    /\ \A k \in DOMAIN app : sinks[app[k].server] > 0
    /\ \A n \in Nodes : sinks[n] > 0 => \E m \in 1..i : file[m].server = n
    /\ i > 0 => Status(file[i].server) = Server
    /\ Grouped => \A n \in Nodes : sinks[n] <= 1

IInv == TypeOK /\ Phases /\ Assigned /\ Installed /\ FileRead

-------------------------------------------------------------------------------

LEMMA NodesAreNumbers == Nodes \subseteq Nat /\ 0 \in Nodes /\ -1 \notin Nodes
BY NodesAssumption DEF Nodes

\* A mark is a status and a peer.
Marks == {NotSet, Client, Server} \X (Nodes \cup {-1})

LEMMA MarkSets ==
  ASSUME TypeOK, NEW n \in Nodes, NEW first \in Marks, NEW m \in Nodes, NEW second \in Marks,
         clientServer' = Mark(n, first, m, second)
  PROVE  /\ clientServer' \in [Nodes -> Marks]
         /\ Status(m)' = second[1] /\ Peer(m)' = second[2]
         /\ n # m => Status(n)' = first[1] /\ Peer(n)' = first[2]
         /\ \A x \in Nodes \ {n, m} : Status(x)' = Status(x) /\ Peer(x)' = Peer(x)
BY DEF TypeOK, Mark, Marks, Status, Peer

-------------------------------------------------------------------------------

LEMMA InitHolds == Init => IInv
PROOF
<1> SUFFICES ASSUME Init PROVE IInv
  OBVIOUS
<1> USE NodesAssumption, FilesAssumption, NodesAreNumbers
<1>1. file \in Seq(Line) /\ Len(file) \in Nat
  BY DEF Init
<1>2. TypeOK
  BY DEF Init, TypeOK, NotSet, Client, Server
<1>3. Phases
  BY <1>1 DEF Init, Phases
<1>4. \A n \in Nodes : Status(n) = NotSet
  BY DEF Init, Status
<1>5. Assigned
  BY <1>4 DEF Init, Assigned, StatusSet, Paired, Centred
<1>6. Installed
  BY DEF Init, Installed, Done
<1>7. FileRead
  BY <1>4 DEF Init, FileRead, NotSet, Server
<1>q. QED BY <1>2, <1>3, <1>5, <1>6, <1>7 DEF IInv

-------------------------------------------------------------------------------

\* The peers of the nodes that have sources, as TypeOK wants them.
LEMMA SourcesAreLines ==
  ASSUME IInv, pattern # "custom", phase # "assign", NEW n \in Nodes, Sends(n)
  PROVE  Source(n) \in [client : Nodes, server : Nodes]
PROOF
<1>1. Status(n) # NotSet
  BY DEF IInv, Phases, Assigned, StatusSet
<1>2. pattern \in {"oneToOne", "oneToMany", "manyToOne"}
  BY FilesAssumption DEF IInv, TypeOK
<1>3. randomNode \in Nodes \/ pattern = "oneToOne"
  BY <1>1, <1>2 DEF IInv, TypeOK, Assigned, Centred
<1>4. Peer(n) \in Nodes
  <2>1. CASE pattern = "oneToOne"
    BY <1>1, <2>1 DEF IInv, Assigned, Paired
  <2>2. CASE pattern = "manyToOne"
    BY <1>1, <1>3, <2>2 DEF IInv, Assigned, Centred, Sends, Client, Server
  <2>3. CASE pattern = "oneToMany"
    BY <1>1, <1>3, <2>3 DEF IInv, Assigned, Centred, Sends, Client, Server
  <2>q. QED BY <1>2, <2>1, <2>2, <2>3
<1>q. QED BY <1>4 DEF Source

\* The node that the first loop has come to keeps its status, or a pattern
\* marks it and a node it draws.
LEMMA AssignNodeStep == IInv /\ AssignNode => IInv'
PROOF
<1> SUFFICES ASSUME IInv, AssignNode PROVE IInv'
  OBVIOUS
<1> USE NodesAssumption, NodesAreNumbers
<1>1. /\ pattern # "custom" /\ pattern' = pattern /\ phase' = phase /\ phase = "assign"
      /\ i \in Nodes /\ i' = i + 1 /\ i' <= NumNodes
      /\ pattern \in {"oneToOne", "oneToMany", "manyToOne"}
  BY FilesAssumption DEF IInv, TypeOK, Phases, AssignNode, Nodes
<1>2. Phases'
  BY <1>1 DEF Phases
<1>3. FileRead'
  BY <1>1 DEF FileRead
<1>4. Installed'
  <2>1. \A n \in Nodes : sinks[n] = 0 /\ sinks' = sinks
    BY <1>1 DEF IInv, Installed, Done, AssignNode
  <2>2. DOMAIN app = {} /\ app' = app
    BY <1>1 DEF IInv, Installed, Done, AssignNode
  <2>q. QED BY <1>1, <2>1, <2>2 DEF Installed, Done
<1>5. CASE Status(i) > 0
  <2>1. UNCHANGED <<clientServer, randomNode>>
    BY <1>5 DEF AssignNode
  <2>2. TypeOK'
    <3>1. UNCHANGED <<pattern, file, phase, sinks, app, appCount, timed>>
      BY DEF AssignNode
    <3>2. i' \in Nat
      BY <1>1
    <3>q. QED BY <2>1, <3>1, <3>2 DEF IInv, TypeOK
  <2>3. \A n \in Nodes : Status(n)' = Status(n) /\ Peer(n)' = Peer(n)
    BY <2>1 DEF Status, Peer
  <2>4. \A n \in Nodes : n < i + 1 => n < i \/ n = i
    BY <1>1
  <2>5. StatusSet'
    BY <1>1, <1>5, <2>3, <2>4 DEF IInv, Assigned, StatusSet, NotSet
  <2>6. Paired' /\ (pattern = "manyToOne" => Centred(Server, Client)')
          /\ (pattern = "oneToMany" => Centred(Client, Server)')
    BY <1>1, <2>1, <2>3 DEF IInv, Assigned, Paired, Centred, Status, Peer
  <2>q. QED BY <1>1, <1>2, <1>3, <1>4, <2>2, <2>5, <2>6 DEF IInv, Assigned
<1>6. CASE ~(Status(i) > 0)
  <2>1. Status(i) = NotSet
    BY <1>1, <1>6 DEF IInv, TypeOK, Status, NotSet, Client, Server
  <2>2. PICK r \in Drawn :
          /\ randomNode' = r
          /\ clientServer' =
               CASE pattern = "oneToOne"  -> Mark(i, <<Client, r>>, r, <<Server, i>>)
                 [] pattern = "manyToOne" -> Mark(i, <<Client, r>>, r, <<Server, -1>>)
                 [] pattern = "oneToMany" -> Mark(i, <<Server, r>>, r, <<Client, i>>)
    BY <1>6 DEF AssignNode
  <2>3. r \in Nodes
    BY DEF Drawn, IInv, TypeOK
  <2>4. PICK c \in Nodes : c = i
    BY <1>1
  <2> DEFINE first == <<IF pattern = "oneToMany" THEN Server ELSE Client, r>>
             second == <<IF pattern = "oneToMany" THEN Client ELSE Server,
                         IF pattern = "manyToOne" THEN -1 ELSE c>>
  <2>5. PICK fm, sm : fm = first /\ sm = second
    OBVIOUS
  <2>6. /\ clientServer' = Mark(c, fm, r, sm)
        /\ fm \in Marks /\ sm \in Marks
    BY <1>1, <2>2, <2>3, <2>4, <2>5 DEF Marks
  <2>7. /\ fm[1] # NotSet /\ sm[1] # NotSet
        /\ fm[2] = r /\ (pattern # "manyToOne" => sm[2] = c)
        /\ {fm[1], sm[1]} = {Client, Server}
        /\ pattern = "manyToOne" => fm[1] = Client /\ sm[1] = Server
        /\ pattern = "oneToMany" => fm[1] = Server /\ sm[1] = Client
    BY <2>5 DEF NotSet, Client, Server
  <2> HIDE DEF first, second
  <2>8. /\ clientServer' \in [Nodes -> Marks]
        /\ Status(r)' = sm[1] /\ Peer(r)' = sm[2]
        /\ c # r => Status(c)' = fm[1] /\ Peer(c)' = fm[2]
        /\ \A x \in Nodes \ {c, r} : Status(x)' = Status(x) /\ Peer(x)' = Peer(x)
    BY <2>3, <2>6, MarkSets DEF IInv
  <2>9. TypeOK'
    <3>1. clientServer' \in [Nodes -> {NotSet, Client, Server} \X (Nodes \cup {-1})]
      BY <2>8 DEF Marks
    <3>2. UNCHANGED <<pattern, file, phase, sinks, app, appCount, timed>>
      BY DEF AssignNode
    <3>3. randomNode' \in Nodes /\ i' \in Nat
      BY <1>1, <2>2, <2>3
    <3>q. QED BY <3>1, <3>2, <3>3 DEF IInv, TypeOK
  <2>10. StatusSet'
    <3> SUFFICES ASSUME NEW n \in Nodes, n < i' PROVE Status(n)' # NotSet
      BY <1>1 DEF StatusSet
    <3>1. CASE n \in {c, r}
      BY <2>7, <2>8, <3>1
    <3>2. CASE n \notin {c, r}
      <4>1. n < i
        BY <1>1, <2>4, <3>2
      <4>2. Status(n) # NotSet
        BY <1>1, <4>1 DEF IInv, Assigned, StatusSet
      <4>q. QED BY <2>8, <3>2, <4>2
    <3>q. QED BY <3>1, <3>2
  <2>11. Paired'
    <3> SUFFICES ASSUME pattern = "oneToOne", NEW n \in Nodes, Status(n)' # NotSet
                 PROVE  /\ Peer(n)' \in Nodes \ {n} /\ Peer(Peer(n))' = n
                        /\ {Status(n)', Status(Peer(n))'} = {Client, Server}
      BY <1>1 DEF Paired
    <3>1. c # r /\ Status(r) = NotSet
      BY <2>4 DEF Drawn
    <3>2. CASE n = c
      BY <1>1, <2>3, <2>7, <2>8, <3>1, <3>2 DEF Status, Peer
    <3>3. CASE n = r
      <4>1. Status(n)' = sm[1] /\ Peer(n)' = c
        BY <1>1, <2>7, <2>8, <3>3
      <4>2. Status(Peer(n))' = fm[1] /\ Peer(Peer(n))' = r
        BY <2>7, <2>8, <3>1, <4>1 DEF Status, Peer
      <4>q. QED BY <2>3, <2>7, <3>1, <3>3, <4>1, <4>2
    <3>4. CASE n \notin {c, r}
      <4>1. Status(n)' = Status(n) /\ Peer(n)' = Peer(n) /\ Status(n) # NotSet
        BY <2>8, <3>4
      <4>2. /\ Peer(n) \in Nodes \ {n} /\ Peer(Peer(n)) = n
            /\ {Status(n), Status(Peer(n))} = {Client, Server}
        BY <1>1, <4>1 DEF IInv, Assigned, Paired
      <4>3. Peer(n) \notin {c, r}
        BY <2>1, <2>4, <3>1, <4>2 DEF NotSet, Client, Server
      <4>4. PICK m \in Nodes \ {c, r} : m = Peer(n)
        BY <4>2, <4>3
      <4>5. Status(m)' = Status(m) /\ Peer(m)' = Peer(m)
        BY <2>8, <4>4
      <4>6. Peer(n)' = m /\ Peer(Peer(n))' = Peer(m)' /\ Status(Peer(n))' = Status(m)'
        BY <4>1, <4>4 DEF Peer, Status
      <4>q. QED BY <4>1, <4>2, <4>4, <4>5, <4>6
    <3>q. QED BY <3>2, <3>3, <3>4
  <2>12. ASSUME NEW centre, NEW others, pattern # "oneToOne", Centred(centre, others),
                centre = sm[1], others = fm[1]
         PROVE  Centred(centre, others)'
    <3>1. randomNode = -1 \/ randomNode = r
      BY <2>12 DEF Drawn, IInv, TypeOK
    <3>2. ASSUME NEW n \in Nodes \ {r}, Status(n)' # NotSet
          PROVE  Status(n)' = others /\ Peer(n)' = r
      <4>1. CASE n = c
        BY <2>7, <2>8, <2>12, <3>2, <4>1
      <4>2. CASE n # c
        BY <2>8, <2>12, <3>1, <3>2, <4>2 DEF Centred
      <4>q. QED BY <4>1, <4>2
    <3>3. Status(randomNode)' = centre /\ randomNode' # -1
      BY <2>2, <2>3, <2>8, <2>12 DEF Status
    <3>q. QED BY <2>2, <3>2, <3>3 DEF Centred, Status, Peer
  <2>13. /\ pattern = "manyToOne" => Centred(Server, Client)'
         /\ pattern = "oneToMany" => Centred(Client, Server)'
    BY <1>1, <2>7, <2>12 DEF IInv, Assigned
  <2>14. Assigned'
    BY <1>1, <2>10, <2>11, <2>13 DEF Assigned
  <2>q. QED BY <1>2, <1>3, <1>4, <2>9, <2>14 DEF IInv
<1>q. QED BY <1>5, <1>6

LEMMA AllAssignedStep == IInv /\ AllAssigned => IInv'
PROOF
<1> SUFFICES ASSUME IInv, AllAssigned PROVE IInv'
  OBVIOUS
<1> USE NodesAssumption, NodesAreNumbers
<1>1. /\ pattern # "custom" /\ pattern' = pattern /\ phase = "assign" /\ phase' = "install"
      /\ i = NumNodes /\ i' = 0
      /\ UNCHANGED <<file, clientServer, randomNode, sinks, app, appCount, timed>>
  BY DEF IInv, Phases, AllAssigned
<1>2. TypeOK' /\ Phases'
  BY <1>1 DEF IInv, TypeOK, Phases
<1>3. StatusSet'
  <2>1. \A n \in Nodes : n < i
    BY <1>1 DEF Nodes
  <2>q. QED BY <1>1, <2>1 DEF IInv, Assigned, StatusSet, Status
<1>4. Assigned'
  BY <1>1, <1>3 DEF IInv, Assigned, Paired, Centred, Status, Peer
<1>5. Installed'
  <2>1. \A n \in Nodes : ~Done(n) /\ ~Done(n)'
    BY <1>1 DEF Done, Nodes
  <2>2. (\A n \in Nodes : sinks'[n] = 0) /\ DOMAIN app' = {}
    BY <1>1, <2>1 DEF IInv, Installed
  <2>q. QED BY <2>1, <2>2 DEF Installed
<1>6. FileRead'
  BY <1>1 DEF FileRead
<1>q. QED BY <1>2, <1>4, <1>5, <1>6 DEF IInv

LEMMA InstallNodeStep == IInv /\ InstallNode => IInv'
PROOF
<1> SUFFICES ASSUME IInv, InstallNode PROVE IInv'
  OBVIOUS
<1> USE NodesAssumption, NodesAreNumbers
<1>1. /\ pattern # "custom" /\ pattern' = pattern /\ phase = "install" /\ phase' = phase
      /\ i \in Nodes /\ i' = i + 1 /\ i' <= NumNodes
      /\ UNCHANGED <<file, clientServer, randomNode, appCount, timed>>
  BY DEF IInv, TypeOK, Phases, InstallNode, Nodes
<1>2. Status(i) \in {Client, Server}
  BY <1>1 DEF IInv, TypeOK, Assigned, StatusSet, Status
<1>3. app' = IF Sends(i)
             THEN [x \in DOMAIN app \cup {i} |-> IF x = i THEN Source(i) ELSE app[x]]
             ELSE app
  BY <1>2 DEF InstallNode, InstallSource, Sends, Source, Client, Server
<1>4. sinks' = IF Status(i) = Server THEN [sinks EXCEPT ![i] = @ + 1] ELSE sinks
  BY DEF InstallNode
<1>5. Phases' /\ FileRead'
  BY <1>1 DEF IInv, Phases, FileRead
<1>6. Assigned'
  BY <1>1 DEF IInv, Assigned, StatusSet, Paired, Centred, Status, Peer
<1>7. \A n \in Nodes : /\ Done(n)' <=> Done(n) \/ n = i
                       /\ ~Done(i)
  BY <1>1 DEF Done, Nodes
<1>8. \A n \in Nodes : Status(n)' = Status(n) /\ Sends(n)' = Sends(n) /\ Source(n)' = Source(n)
  BY <1>1 DEF Sends, Source, Status, Peer
<1>9. TypeOK'
  <2>1. Sends(i) => Source(i) \in [client : Nodes, server : Nodes]
    BY <1>1, SourcesAreLines
  <2>2. \A n \in DOMAIN app' : n \in Nat /\ app'[n] \in [client : Nodes, server : Nodes]
    BY <1>1, <1>3, <2>1 DEF IInv, TypeOK
  <2>3. timed' \subseteq DOMAIN app'
    BY <1>1, <1>3 DEF IInv, TypeOK
  <2>4. sinks' \in [Nodes -> Nat]
    BY <1>1, <1>4 DEF IInv, TypeOK
  <2>5. /\ UNCHANGED <<pattern, file, clientServer, randomNode, appCount>>
        /\ phase' = "install" /\ i' \in Nat
    BY <1>1
  <2>q. QED BY <2>2, <2>3, <2>4, <2>5 DEF IInv, TypeOK
<1>10. Installed'
  <2>1. \A n \in Nodes : sinks'[n] = IF Done(n)' /\ Status(n)' = Server THEN 1 ELSE 0
    BY <1>1, <1>4, <1>7, <1>8 DEF IInv, TypeOK, Installed
  <2>2. DOMAIN app' = {n \in Nodes : Done(n)' /\ Sends(n)'}
    BY <1>1, <1>3, <1>7, <1>8 DEF IInv, Installed
  <2>3. \A n \in DOMAIN app' : app'[n] = Source(n)'
    <3>1. \A n \in DOMAIN app : n \in Nodes /\ app[n] = Source(n)
      BY <1>1 DEF IInv, Installed
    <3>q. QED BY <1>1, <1>3, <1>8, <3>1
  <2>q. QED BY <2>1, <2>2, <2>3 DEF Installed
<1>q. QED BY <1>5, <1>6, <1>9, <1>10 DEF IInv

LEMMA AllInstalledStep == IInv /\ AllInstalled => IInv'
PROOF
<1> SUFFICES ASSUME IInv, AllInstalled PROVE IInv'
  OBVIOUS
<1> USE NodesAssumption, NodesAreNumbers
<1>1. /\ pattern # "custom" /\ pattern' = pattern /\ phase = "install" /\ phase' = "start"
      /\ i = NumNodes /\ i' = i
      /\ UNCHANGED <<file, clientServer, randomNode, sinks, app, appCount, timed>>
  BY DEF IInv, Phases, AllInstalled
<1>2. TypeOK' /\ Phases' /\ FileRead'
  BY <1>1 DEF IInv, TypeOK, Phases, FileRead
<1>3. Assigned'
  BY <1>1 DEF IInv, Assigned, StatusSet, Paired, Centred, Status, Peer
<1>4. \A n \in Nodes : Done(n) /\ Done(n)'
  BY <1>1 DEF Done, Nodes
<1>5. \A n \in Nodes : Status(n)' = Status(n) /\ Sends(n)' = Sends(n) /\ Source(n)' = Source(n)
  BY <1>1 DEF Sends, Source, Status, Peer
<1>6. Installed'
  BY <1>1, <1>4, <1>5 DEF IInv, Installed
<1>q. QED BY <1>2, <1>3, <1>6 DEF IInv

-------------------------------------------------------------------------------

\* A line gets a source, and its server a sink unless it is marked as one; in a
\* grouped file a server that has a sink is then that of the line before.
LEMMA ReadLineStep == IInv /\ ReadLine => IInv'
PROOF
<1> SUFFICES ASSUME IInv, ReadLine PROVE IInv'
  OBVIOUS
<1> USE NodesAssumption, NodesAreNumbers
<1>1. /\ pattern = "custom" /\ pattern' = pattern /\ phase = "read" /\ phase' = phase
      /\ file' = file /\ file \in Seq(Line) /\ Len(file) \in Nat
      /\ i \in Nat /\ i < Len(file) /\ i' = i + 1
      /\ UNCHANGED <<randomNode, timed>>
  BY FilesAssumption DEF IInv, TypeOK, Phases, ReadLine
<1>2. PICK line \in Line : line = file[i + 1]
  BY <1>1
<1>3. PICK c \in Nodes, d \in Nodes : c = line.client /\ d = line.server
  BY <1>2 DEF ReadLine, InRange, Line, Nodes
<1>4. /\ appCount' = appCount + 1
      /\ sinks' = IF Status(d) # Server THEN [sinks EXCEPT ![d] = @ + 1] ELSE sinks
      /\ app' = [x \in DOMAIN app \cup {appCount + 1} |->
                   IF x = appCount + 1 THEN [client |-> c, server |-> d] ELSE app[x]]
      /\ clientServer' = Mark(c, <<Client, d>>, d, <<Server, c>>)
  BY <1>2, <1>3 DEF ReadLine, NeedsSink, InstallSource
<1>5. Phases' /\ Assigned' /\ Installed'
  BY <1>1 DEF Phases, Assigned, Installed
<1>6. /\ clientServer' \in [Nodes -> Marks]
      /\ Status(d)' = Server
      /\ \A n \in Nodes \ {d} : Status(n)' = Server => Status(n) = Server
  <2>1. <<Client, d>> \in Marks /\ <<Server, c>> \in Marks
    BY DEF Marks
  <2>2. PICK fm \in Marks, sm \in Marks : fm = <<Client, d>> /\ sm = <<Server, c>>
    BY <2>1
  <2>3. clientServer' = Mark(c, fm, d, sm)
    BY <1>4, <2>2
  <2>4. /\ clientServer' \in [Nodes -> Marks]
        /\ Status(d)' = sm[1] /\ Peer(d)' = sm[2]
        /\ c # d => Status(c)' = fm[1] /\ Peer(c)' = fm[2]
        /\ \A x \in Nodes \ {c, d} : Status(x)' = Status(x) /\ Peer(x)' = Peer(x)
    BY <2>3, MarkSets DEF IInv
  <2>5. fm[1] = Client /\ sm[1] = Server
    BY <2>2
  <2>q. QED BY <2>4, <2>5 DEF Client, Server
<1>7. sinks \in [Nodes -> Nat] /\ sinks' \in [Nodes -> Nat]
  BY <1>4 DEF IInv, TypeOK
<1>8. TypeOK'
  <2>1. clientServer' \in [Nodes -> {NotSet, Client, Server} \X (Nodes \cup {-1})]
    BY <1>6 DEF Marks
  <2>2. \A n \in DOMAIN app' : n \in Nat /\ app'[n] \in [client : Nodes, server : Nodes]
    BY <1>4 DEF IInv, TypeOK
  <2>3. timed' \subseteq DOMAIN app' /\ appCount' \in Nat
    BY <1>1, <1>4 DEF IInv, TypeOK
  <2>4. /\ UNCHANGED <<pattern, file, randomNode>>
        /\ phase' = "read" /\ i' \in Nat
    BY <1>1
  <2>q. QED BY <1>7, <2>1, <2>2, <2>3, <2>4 DEF IInv, TypeOK
<1>9. FileRead'
  <2>1. /\ \A n \in Nodes : Status(n) = Server => sinks[n] > 0
        /\ \A k \in DOMAIN app : sinks[app[k].server] > 0
        /\ \A n \in Nodes : sinks[n] > 0 => \E m \in 1..i : file[m].server = n
        /\ i > 0 => Status(file[i].server) = Server
        /\ Grouped => \A n \in Nodes : sinks[n] <= 1
    BY <1>1 DEF IInv, FileRead
  <2>2. /\ sinks'[d] > 0
        /\ \A n \in Nodes : sinks'[n] >= sinks[n] /\ (n # d => sinks'[n] = sinks[n])
    <3>1. d \in Nodes /\ \A n \in Nodes : sinks[n] \in Nat
      BY <1>7
    <3>2. \A n \in Nodes : sinks'[n] = IF n = d /\ Status(d) # Server THEN sinks[n] + 1
                                       ELSE sinks[n]
      BY <1>4, <1>7
    <3>3. sinks'[d] > 0
      <4>1. CASE Status(d) = Server
        BY <2>1, <3>1, <3>2, <4>1
      <4>2. CASE Status(d) # Server
        BY <3>1, <3>2, <4>2
      <4>q. QED BY <4>1, <4>2
    <3>4. ASSUME NEW n \in Nodes
          PROVE  sinks'[n] >= sinks[n] /\ (n # d => sinks'[n] = sinks[n])
      BY <3>1, <3>2, <3>4
    <3>q. QED BY <3>3, <3>4
  <2>3. \A n \in Nodes : Status(n)' = Server => sinks'[n] > 0
    BY <1>6, <1>7, <2>1, <2>2
  <2>4. \A k \in DOMAIN app' : sinks'[app'[k].server] > 0
    <3>1. \A k \in DOMAIN app : app[k].server \in Nodes
      BY DEF IInv, TypeOK
    <3>q. QED BY <1>4, <1>7, <2>1, <2>2, <3>1
  <2>5. \A n \in Nodes : sinks'[n] > 0 => \E m \in 1..i + 1 : file[m].server = n
    BY <1>1, <1>2, <1>3, <2>1, <2>2
  <2>6. Status(file[i].server)' = Server
    <3>1. file'[i'].server = d
      BY <1>1, <1>2, <1>3
    <3>q. QED BY <1>6, <3>1 DEF Status
  <2>7. ASSUME Grouped PROVE \A n \in Nodes : sinks'[n] <= 1
    <3>1. ASSUME sinks[d] > 0 PROVE Status(d) = Server
      <4>1. PICK m \in 1..i : file[m].server = d
        BY <2>1, <3>1
      <4>2. file[i].server = d
        <5>1. m \in 1..Len(file) /\ i + 1 \in 1..Len(file) /\ m < i + 1 /\ i \in m..i + 1
          BY <1>1
        <5>q. QED BY <1>2, <1>3, <2>7, <4>1, <5>1 DEF Grouped
      <4>q. QED BY <1>1, <2>1, <4>2
    <3>2. \A n \in Nodes : sinks[n] \in Nat /\ sinks[n] <= 1
      BY <1>7, <2>1, <2>7
    <3>3. sinks'[d] <= 1
      <4>1. CASE Status(d) = Server
        BY <1>4, <3>2, <4>1
      <4>2. CASE Status(d) # Server
        <5>1. sinks[d] = 0 /\ sinks'[d] = sinks[d] + 1
          BY <1>4, <1>7, <3>1, <3>2, <4>2
        <5>q. QED BY <5>1
      <4>q. QED BY <4>1, <4>2
    <3>q. QED BY <2>2, <3>2, <3>3
  <2>8. Grouped' <=> Grouped
    BY <1>1 DEF Grouped
  <2>q. QED BY <1>1, <2>3, <2>4, <2>5, <2>6, <2>7, <2>8 DEF FileRead
<1>q. QED BY <1>5, <1>8, <1>9 DEF IInv

LEMMA RefuseLineStep == IInv /\ RefuseLine => IInv'
PROOF
<1> SUFFICES ASSUME IInv, RefuseLine PROVE IInv'
  OBVIOUS
<1>1. /\ pattern = "custom" /\ phase' = "exit" /\ appCount' = appCount + 1
      /\ UNCHANGED <<pattern, file, i, clientServer, randomNode, sinks, app, timed>>
  BY DEF IInv, Phases, RefuseLine
<1>2. TypeOK' /\ Phases' /\ Assigned' /\ Installed'
  BY <1>1 DEF IInv, TypeOK, Phases, Assigned, Installed
<1>3. FileRead'
  BY <1>1 DEF IInv, FileRead, Grouped, Status
<1>q. QED BY <1>2, <1>3 DEF IInv

LEMMA EndOfFileStep == IInv /\ EndOfFile => IInv'
PROOF
<1> SUFFICES ASSUME IInv, EndOfFile PROVE IInv'
  OBVIOUS
<1>1. /\ pattern = "custom" /\ phase' = "start"
      /\ UNCHANGED <<pattern, file, i, clientServer, randomNode, sinks, app, appCount, timed>>
  BY DEF IInv, Phases, EndOfFile
<1>2. TypeOK' /\ Phases' /\ Assigned' /\ Installed'
  BY <1>1 DEF IInv, TypeOK, Phases, Assigned, Installed
<1>3. FileRead'
  BY <1>1 DEF IInv, FileRead, Grouped, Status
<1>q. QED BY <1>2, <1>3 DEF IInv

LEMMA StartAppsStep == IInv /\ StartApps => IInv'
PROOF
<1> SUFFICES ASSUME IInv, StartApps PROVE IInv'
  OBVIOUS
<1>1. /\ phase = "start" /\ phase' = "run" /\ timed' \subseteq DOMAIN app
      /\ UNCHANGED <<pattern, file, i, clientServer, randomNode, sinks, app, appCount>>
  BY DEF StartApps
<1>2. TypeOK' /\ Phases'
  BY <1>1 DEF IInv, TypeOK, Phases
<1>3. Assigned'
  BY <1>1 DEF IInv, Assigned, StatusSet, Paired, Centred, Status, Peer
<1>4. /\ \A n \in Nodes : Done(n) /\ Done(n)'
      /\ \A n \in Nodes : Status(n)' = Status(n) /\ Sends(n)' = Sends(n) /\ Source(n)' = Source(n)
  BY <1>1 DEF Done, Sends, Source, Status, Peer
<1>5. Installed'
  BY <1>1, <1>4 DEF IInv, Installed
<1>6. FileRead'
  BY <1>1 DEF IInv, FileRead, Grouped, Status
<1>q. QED BY <1>2, <1>3, <1>5, <1>6 DEF IInv

LEMMA StepsKeep == IInv /\ [Next]_vars => IInv'
PROOF
<1> SUFFICES ASSUME IInv, [Next]_vars PROVE IInv'
  OBVIOUS
<1>1. CASE UNCHANGED vars
  <2> USE <1>1 DEF vars
  <2>1. TypeOK' /\ Phases'
    BY DEF IInv, TypeOK, Phases
  <2>2. Assigned'
    BY DEF IInv, Assigned, StatusSet, Paired, Centred, Status, Peer
  <2>3. \A n \in Nodes : /\ Status(n)' = Status(n) /\ Done(n)' = Done(n)
                         /\ Sends(n)' = Sends(n) /\ Source(n)' = Source(n)
    BY DEF Done, Sends, Source, Status, Peer
  <2>4. Installed'
    BY <2>3 DEF IInv, Installed
  <2>5. FileRead'
    BY DEF IInv, FileRead, Grouped, Status
  <2>q. QED BY <2>1, <2>2, <2>4, <2>5 DEF IInv
<1>q. QED BY <1>1, AssignNodeStep, AllAssignedStep, InstallNodeStep, AllInstalledStep,
             ReadLineStep, RefuseLineStep, EndOfFileStep, StartAppsStep DEF Next

\* The inductive invariant of the set-up.
THEOREM SetupInvariant == Spec => []IInv
BY InitHolds, StepsKeep, PTL DEF Spec

-------------------------------------------------------------------------------

(***************************************************************************)
(* The variables keep their types; each source has a client and a server.  *)
(***************************************************************************)
THEOREM TypeCorrect == Spec => []TypeOK
BY SetupInvariant, PTL DEF IInv

(***************************************************************************)
(* No node gets a second sink, for a pattern, or for a file that is        *)
(* grouped by server.                                                      *)
(***************************************************************************)
THEOREM BindsOnce == Spec => []GroupedBindsOnce
PROOF
<1>1. IInv => GroupedBindsOnce
  <2> SUFFICES ASSUME IInv, pattern # "custom" \/ Grouped, NEW n \in Nodes
               PROVE  sinks[n] <= 1
    BY DEF GroupedBindsOnce
  <2>1. CASE pattern # "custom"
    BY <2>1 DEF IInv, Installed
  <2>2. CASE pattern = "custom"
    BY <2>2 DEF IInv, FileRead
  <2>q. QED BY <2>1, <2>2
<1>q. QED BY <1>1, SetupInvariant, PTL

\* When the loops are done, the sources of a pattern are those of its nodes that
\* send, and their servers are marked as servers.
LEMMA PatternSources ==
  ASSUME IInv, pattern # "custom", phase = "run"
  PROVE  /\ pattern \in {"oneToOne", "oneToMany", "manyToOne"}
         /\ \A n \in Nodes : Status(n) \in {Client, Server} /\ Status(n) # NotSet
         /\ DOMAIN app = {n \in Nodes : Sends(n)}
         /\ \A n \in DOMAIN app : app[n] = Source(n)
BY FilesAssumption DEF IInv, TypeOK, Assigned, StatusSet, Status, Installed, Done

\* oneToOne: a node is in the source of its own or of its peer.
LEMMA OneSourceEach ==
  ASSUME IInv, pattern = "oneToOne", phase = "run", NEW n \in Nodes
  PROVE  Cardinality({k \in DOMAIN app : n = app[k].client \/ n = app[k].server}) = 1
PROOF
<1>1. /\ \A k \in Nodes : Status(k) \in {Client, Server}
      /\ DOMAIN app = {k \in Nodes : Status(k) = Client}
      /\ \A k \in DOMAIN app : app[k].client = k /\ app[k].server = Peer(k)
  BY PatternSources DEF Sends, Source
<1>2. \A k \in Nodes : /\ Peer(k) \in Nodes \ {k} /\ Peer(Peer(k)) = k
                       /\ {Status(k), Status(Peer(k))} = {Client, Server}
  BY PatternSources DEF IInv, Assigned, Paired
<1>3. PICK sender \in Nodes : sender = IF Status(n) = Client THEN n ELSE Peer(n)
  BY <1>2
<1>4. {k \in DOMAIN app : n = app[k].client \/ n = app[k].server} = {sender}
  <2>1. ASSUME NEW k \in DOMAIN app, n = k \/ n = Peer(k) PROVE k = sender
    BY <1>1, <1>2, <1>3, <2>1 DEF Client, Server
  <2>2. sender \in DOMAIN app /\ (n = sender \/ n = Peer(sender))
    BY <1>1, <1>2, <1>3 DEF Client, Server
  <2>q. QED BY <1>1, <2>1, <2>2
<1>q. QED BY <1>4, FS_Singleton

(***************************************************************************)
(* When the simulation starts, a pattern has all its sources, and the      *)
(* server of each source has a sink, also those of a file, whatever nodes  *)
(* are drawn and whatever nodes the lines name again.                      *)
(***************************************************************************)
THEOREM SourcesReach == Spec => []SourcesReachSinks
PROOF
<1> USE NodesAssumption, NodesAreNumbers
<1>1. ASSUME IInv, phase = "run", NEW n \in DOMAIN app
      PROVE  sinks[app[n].server] > 0
  <2>1. CASE pattern = "custom"
    BY <1>1, <2>1 DEF IInv, FileRead
  <2>2. CASE pattern # "custom"
    <3>1. /\ pattern \in {"oneToOne", "oneToMany", "manyToOne"}
          /\ n \in Nodes /\ Sends(n) /\ app[n] = Source(n)
          /\ \A k \in Nodes : Status(k) \in {Client, Server} /\ Status(k) # NotSet
      BY <1>1, <2>2, PatternSources
    <3>2. app[n].server \in Nodes /\ Status(app[n].server) = Server
      <4>1. CASE pattern = "oneToMany"
        BY <3>1, <4>1 DEF Sends, Source
      <4>2. CASE pattern = "oneToOne"
        <5>1. Status(n) # NotSet
          BY <3>1
        <5>2. Peer(n) \in Nodes /\ {Status(n), Status(Peer(n))} = {Client, Server}
          BY <1>1, <3>1, <4>2, <5>1 DEF IInv, Assigned, Paired
        <5>q. QED BY <3>1, <4>2, <5>2 DEF Sends, Source
      <4>3. CASE pattern = "manyToOne"
        <5>1. Centred(Server, Client) /\ randomNode \in Nodes \cup {-1}
          BY <1>1, <2>2, <4>3 DEF IInv, TypeOK, Assigned
        <5>2. Status(n) = Client /\ Status(n) # NotSet
          BY <3>1, <4>3 DEF Sends, NotSet, Client
        <5>3. randomNode # -1
          BY <3>1, <5>1, <5>2 DEF Centred
        <5>4. Status(randomNode) = Server /\ randomNode \in Nodes /\ n # randomNode
          BY <5>1, <5>2, <5>3 DEF Centred, Client, Server
        <5>5. Peer(n) = randomNode
          BY <3>1, <5>1, <5>2, <5>4 DEF Centred
        <5>q. QED BY <3>1, <4>3, <5>4, <5>5 DEF Source
      <4>q. QED BY <3>1, <4>1, <4>2, <4>3
    <3>3. PICK m \in Nodes : m = app[n].server /\ Status(m) = Server
      BY <3>2
    <3>4. sinks[m] = 1
      BY <1>1, <2>2, <3>3 DEF IInv, Installed, Done
    <3>q. QED BY <3>3, <3>4
  <2>q. QED BY <2>1, <2>2
<1>2. ASSUME IInv, phase = "run", pattern = "oneToOne", NEW k \in DOMAIN app
      PROVE  app[k].client # app[k].server
  <2>1. k \in Nodes /\ app[k] = Source(k) /\ Status(k) # NotSet
    <3>1. pattern # "custom"
      BY <1>2
    <3>2. /\ DOMAIN app = {n \in Nodes : Sends(n)}
          /\ \A n \in DOMAIN app : app[n] = Source(n)
          /\ \A n \in Nodes : Status(n) # NotSet
      BY <1>2, <3>1, PatternSources
    <3>q. QED BY <1>2, <3>2
  <2>2. Peer(k) # k
    BY <1>2, <2>1 DEF IInv, Assigned, Paired
  <2>q. QED BY <1>2, <2>1, <2>2 DEF Source
<1>3. ASSUME IInv, phase = "run", pattern \in {"oneToMany", "manyToOne"}
      PROVE  Cardinality(DOMAIN app) = NumNodes - 1
  <2>1. /\ DOMAIN app = {n \in Nodes : Sends(n)}
        /\ \A n \in Nodes : Status(n) # NotSet
    BY <1>3, PatternSources
  <2>2. PICK centre, others :
          /\ Centred(centre, others) /\ centre # others
          /\ \A n \in Nodes : Sends(n) <=> Status(n) = others
    BY <1>3 DEF IInv, Assigned, Sends, Client, Server
  <2>3. randomNode \in Nodes
    BY <1>3, <2>1, <2>2 DEF IInv, TypeOK, Centred
  <2>4. DOMAIN app = Nodes \ {randomNode}
    <3>1. randomNode # -1
      BY <2>3
    <3>2. ~Sends(randomNode)
      BY <2>2, <2>3, <3>1 DEF Centred
    <3>3. \A n \in Nodes \ {randomNode} : Sends(n)
      BY <2>1, <2>2 DEF Centred
    <3>q. QED BY <2>1, <3>2, <3>3
  <2>5. IsFiniteSet(Nodes) /\ Cardinality(Nodes) = NumNodes
    <3>1. 0 \in Int /\ NumNodes - 1 \in Int /\ ~(0 > NumNodes - 1)
      OBVIOUS
    <3>2. IsFiniteSet(0..NumNodes - 1) /\ Cardinality(0..NumNodes - 1) = (NumNodes - 1) - 0 + 1
      BY <3>1, FS_Interval
    <3>q. QED BY <3>2 DEF Nodes
  <2>q. QED BY <2>3, <2>4, <2>5, FS_RemoveElement
<1>4. IInv => SourcesReachSinks
  BY <1>1, <1>2, <1>3, OneSourceEach DEF SourcesReachSinks, PatternIsComplete
<1>q. QED BY <1>4, SetupInvariant, PTL

===============================================================================
