----------------------------- MODULE MCLogWindows -----------------------------
(***************************************************************************)
(* Instances of LogWindows for TLC: the leads of the two logs.             *)
(***************************************************************************)
EXTENDS LogWindows

FlowLogKinds == {"update", "analytical", "print"}
FlowLogLead == [update |-> 2, analytical |-> 1, print |-> 0]

MimicLogKinds == {"update", "print"}
MimicLogLead == [update |-> 1, print |-> 0]

===============================================================================
