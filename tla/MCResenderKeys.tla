-------------------------- MODULE MCResenderKeys --------------------------
(* Two customers of one worker process (id 9) each send the first request of *)
(* their own tracker to the server (id 8), as the threads of the             *)
(* multi-worker test do.                                                     *)
EXTENDS Resender

Request(c) == [app |-> 0, customer |-> c, from |-> 9, to |-> 8, ts |-> 0, request |-> 1]

MCNode == {8, 9}
MCMsg == {Request(0), Request(1)}
=============================================================================
