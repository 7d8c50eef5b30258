------------------------------ MODULE PacketFates -----------------------------
(***************************************************************************)
(* What a packet monitor promises: a packet is seen once, and then either  *)
(* received or lost, once; the counters of its flow follow.                *)
(***************************************************************************)
EXTENDS Naturals, FiniteSets

CONSTANTS Packets, Flows, FlowOf

VARIABLES
  fate,       (* "unseen", "open", "received" or "lost", of each packet    *)
  count       (* tx, rx and lost packets of each flow                      *)

fvars == <<fate, count>>

OfFlow(S, f) == {p \in S : FlowOf[p] = f}

FInit ==
  /\ fate = [p \in Packets |-> "unseen"]
  /\ count = [f \in Flows |-> [tx |-> 0, rx |-> 0, lost |-> 0]]

See(p) ==
  /\ fate[p] = "unseen"
  /\ fate' = [fate EXCEPT ![p] = "open"]
  /\ count' = [count EXCEPT ![FlowOf[p]].tx = @ + 1]

Receive(p) ==
  /\ fate[p] = "open"
  /\ fate' = [fate EXCEPT ![p] = "received"]
  /\ count' = [count EXCEPT ![FlowOf[p]].rx = @ + 1]

\* A drop loses one packet, a check for overdue packets any number.
Lose(S) ==
  /\ \A p \in S : fate[p] = "open"
  /\ fate' = [p \in Packets |-> IF p \in S THEN "lost" ELSE fate[p]]
  /\ count' = [f \in Flows |->
                 [tx |-> count[f].tx, rx |-> count[f].rx,
                  lost |-> count[f].lost + Cardinality(OfFlow(S, f))]]

FNext ==
  \/ \E p \in Packets : See(p) \/ Receive(p)
  \/ \E S \in SUBSET Packets : Lose(S)

FSpec == FInit /\ [][FNext]_fvars

===============================================================================
