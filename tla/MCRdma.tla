------------------------------- MODULE MCRdma ------------------------------
(* Two processes send to a third: one with two threads on one connection,    *)
(* where an array grows between two messages, the other a control message.   *)
(* The first connection may be rejected once. Each link has one context of   *)
(* a kind, and the receiver two indices.                                     *)
EXTENDS Rdma

CONSTANTS p1, p2, p3, t1, t2, t3

link12 == [src |-> p1, dst |-> p2]
link32 == [src |-> p3, dst |-> p2]
NoControl == [cmd |-> "EMPTY", node |-> <<>>, barrier_group |-> 0, msg_sig |-> 0]
Response == [cmd |-> "BARRIER", node |-> <<>>, barrier_group |-> 7, msg_sig |-> 0]
(* A push has number 1, a pull number 2, a barrier none.                     *)
Meta(ts, pull, control, bytes) ==
  [head |-> 0, app_id |-> 0, customer_id |-> 1, timestamp |-> ts, sender |-> kEmpty, recver |-> 0,
   request |-> ts # kEmpty, push |-> ts = 1, pull |-> pull, simple_app |-> FALSE, body |-> "",
   data_type |-> <<1>>, control |-> control, data_size |-> bytes, priority |-> 0]
Array(p, n) == [control |-> FALSE, head |-> Meta(n, n = 2, NoControl, n), meta |-> 2, bytes |-> n,
                arrays |-> 1, data |-> {[at |-> p, len |-> n]}]
Control == [control |-> TRUE, head |-> Meta(kEmpty, FALSE, Response, 0), meta |-> 1, bytes |-> 0,
            arrays |-> 0, data |-> {}]

MCProc == {p1, p2, p3}
MCLink == {link12, link32}
MCThread == {t1, t2, t3}
MCVia == [t \in MCThread |-> IF t = t3 THEN link32 ELSE link12]
MCOutbox == [t \in MCThread |-> CASE t = t1 -> <<Array(1, 1)>>
                                  [] t = t2 -> <<Array(1, 2)>>
                                  [] t = t3 -> <<Control>>]
MCMaxRejects == [l \in MCLink |-> IF l = link12 THEN 1 ELSE 0]
MCPlace == {0, 30}
=============================================================================
