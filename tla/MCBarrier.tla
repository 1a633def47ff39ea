----------------------------- MODULE MCBarrier -----------------------------
(* Two servers' worth of roles, a worker process with two customer threads   *)
(* and one with a single thread; the groups the code calls Barrier on: all   *)
(* nodes (Start, Finalize), the workers (worker.cpp), and one that overlaps. *)
EXTENDS Barrier

CONSTANTS sched, server, w1, w2

MCProc == {sched, server, w1, w2}
MCRole == [p \in MCProc |->
             IF p = sched THEN "scheduler" ELSE IF p = server THEN "server" ELSE "worker"]
MCCustomers == [p \in MCProc |-> IF p = w1 THEN {0, 1} ELSE {0}]
MCGroup == {{"scheduler", "server", "worker"}, {"worker"}}
=============================================================================
