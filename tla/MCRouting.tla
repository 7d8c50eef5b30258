------------------------------- MODULE MCRouting ------------------------------
(***************************************************************************)
(* The three-level tree of 4-port switches, the one of 2-port switches     *)
(* asked for by the name of the help text, and two-level trees: the        *)
(* default one (8 ports, 16 hosts), smaller ones, one whose hosts do not   *)
(* fill the edge switches, and three that create() or link() refuses       *)
(* (too many edge switches, an odd number of them, too few hosts).         *)
(***************************************************************************)
EXTENDS Routing

SomeTrees ==
  {[topology |-> "L3", K |-> 4], [topology |-> "L2Custom", K |-> 2, N |-> 2]} \cup
  {[topology |-> "L2custom", K |-> kn[1], N |-> kn[2]] :
     kn \in {<<8, 16>>, <<4, 4>>, <<6, 6>>, <<8, 10>>, <<4, 8>>, <<8, 12>>, <<8, 3>>}}

===============================================================================
