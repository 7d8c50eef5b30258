----------------------------- MODULE MCRunScripts -----------------------------
(***************************************************************************)
(* Windows of data flows and acknowledgements between hosts 1 and 2: the   *)
(* same flows with other ids; several of one client and server, one whose  *)
(* rows are of different sizes and flows that lack a row, because one      *)
(* packet was sent, none has left the first queue, or all that did had     *)
(* done so before; and a window after which the mimic file is missing.     *)
(***************************************************************************)
EXTENDS RunScripts

Queues == {1, 2}

Flow(id, client, server, size) == [id |-> id, client |-> client, server |-> server, size |-> size]

All(size) == [place \in {0, 1, 2} |-> size]
Single(size) == [place \in {1, 2} |-> size]
Undeparted(size) == [place \in {0} |-> size]
Mixed == [place \in {0, 1, 2} |-> <<"odd", "data", "ack">>[place + 1]]
Later(size) == [place \in {2} |-> size]

Full == {Flow(1, 1, 2, All("data")), Flow(2, 2, 1, All("ack")),
         Flow(3, 2, 1, All("data")), Flow(4, 1, 2, All("ack"))}
Reordered == {Flow(1, 2, 1, All("data")), Flow(2, 1, 2, All("ack")),
              Flow(3, 1, 2, All("data")), Flow(4, 2, 1, All("ack"))}
Doubled == {Flow(1, 1, 2, All("data")), Flow(2, 2, 1, Mixed), Flow(3, 1, 2, All("data")),
            Flow(4, 2, 1, Undeparted("data")), Flow(5, 2, 1, Later("ack"))}
SingleAck == {Flow(1, 1, 2, All("data")), Flow(2, 2, 1, All("ack")),
              Flow(3, 2, 1, All("data")), Flow(4, 1, 2, Single("ack"))}
NoneDeparted == {Flow(1, 1, 2, Undeparted("data")), Flow(2, 2, 1, Later("ack"))}

ManyWindows == <<{Full, Reordered, NoneDeparted}, {Doubled}>>
PlainWindows == <<{Full}>>
SingleWindows == <<{SingleAck}>>

===============================================================================
