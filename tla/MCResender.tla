---------------------------- MODULE MCResender ----------------------------
(* A worker (id 9) sends a request to a server (id 8) and the server sends   *)
(* the worker an answer.  The server has its resender; the worker creates    *)
(* its own at any moment, the first included.                                *)
EXTENDS Resender

Request(n, t) == [app |-> 0, customer |-> 0, from |-> n, to |-> 8, ts |-> t, request |-> 1]
Answer(n, t) == [app |-> 0, customer |-> 0, from |-> 8, to |-> n, ts |-> t, request |-> 0]

MCNode == {8, 9}
MCMsg == {Request(9, 0), Answer(9, 0)}
MCUp == {8}
=============================================================================
