----------------------------- MODULE MCRecovery -----------------------------
(* A server and a worker; two processes that may replace the worker, one     *)
(* after the other.                                                          *)
EXTENDS Membership

CONSTANTS sv, wk, l1, l2

MCProc == {sv, wk, l1, l2}
MCLate == {l1, l2}
MCRole == [p \in MCProc |-> IF p = sv THEN "server" ELSE "worker"]
MCAddr == [p \in MCProc |-> CASE p = sv -> 0 [] p = wk -> 1 [] p = l1 -> 2 [] p = l2 -> 3]
MCThreads == [p \in MCProc |-> 1]
=============================================================================
