---------------------------- MODULE MCMembership ----------------------------
(* A server, a worker process with two customers, whose address sorts first, *)
(* and a worker with one; a process that may replace a worker and one that   *)
(* may replace the server.                                                   *)
EXTENDS Membership

CONSTANTS sv, w1, w2, l1, l2

MCProc == {sv, w1, w2, l1, l2}
MCLate == {l1, l2}
MCRole == [p \in MCProc |-> IF p \in {sv, l2} THEN "server" ELSE "worker"]
MCAddr == [p \in MCProc |->
             CASE p = w1 -> 0 [] p = sv -> 1 [] p = w2 -> 2 [] p = l1 -> 3 [] p = l2 -> 4]
MCThreads == [p \in MCProc |-> IF p = w1 THEN 2 ELSE 1]
=============================================================================
