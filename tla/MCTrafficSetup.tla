---------------------------- MODULE MCTrafficSetup ----------------------------
EXTENDS TrafficSetup

Lines(nodes) == [client : nodes, server : nodes]
FilesOf(lines, length) == UNION {[1..n -> lines] : n \in 0..length}

\* All files of at most four lines between three of the nodes 0 to 3, and
\* shorter ones that also name node 4.
ShortFiles == FilesOf(Lines(0..2), 4) \cup FilesOf(Lines({1, 3, 4}), 2)

AllPatterns == {"oneToOne", "oneToMany", "manyToOne", "custom"}

===============================================================================
