----------------------------- MODULE WindowReport -----------------------------
(***************************************************************************)
(* What a per-flow log promises to the reader of its report: every packet  *)
(* counted after the warm-up belongs to exactly one window, a closed       *)
(* window is reported (or skipped for having too few packets) before the   *)
(* next one is closed, and windows are reported in order.                  *)
(***************************************************************************)
EXTENDS Naturals

CONSTANT MinPackets      (* Windows with fewer packets are skipped.        *)

VARIABLES
  open,        (* packets of the open window                               *)
  closed,      (* the closed, not yet reported window: [full, packets]     *)
  delivered,   (* packets in reported windows                              *)
  skipped      (* packets in skipped windows                               *)

avars == <<open, closed, delivered, skipped>>

None == [full |-> FALSE, packets |-> 0]

AInit == open = 0 /\ closed = None /\ delivered = 0 /\ skipped = 0

Count ==
  /\ open' = open + 1
  /\ UNCHANGED <<closed, delivered, skipped>>

Close ==
  /\ ~closed.full
  /\ closed' = [full |-> TRUE, packets |-> open]
  /\ open' = 0
  /\ UNCHANGED <<delivered, skipped>>

Publish ==
  /\ closed.full
  /\ closed' = None
  /\ IF closed.packets >= MinPackets
     THEN delivered' = delivered + closed.packets /\ UNCHANGED skipped
     ELSE skipped' = skipped + closed.packets /\ UNCHANGED delivered
  /\ UNCHANGED open

ANext == Count \/ Close \/ Publish

ASpec == AInit /\ [][ANext]_avars

===============================================================================
