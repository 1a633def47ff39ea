---------------------------- MODULE MCBarrierIds ----------------------------
(* One worker process whose two customers carry the ids 0 and 2: unique, as  *)
(* customer.h:38 and kv_app.h:94 ask, but not contiguous.                    *)
EXTENDS Barrier

CONSTANTS sched, w1

MCProc == {sched, w1}
MCRole == [p \in MCProc |-> IF p = sched THEN "scheduler" ELSE "worker"]
MCCustomers == [p \in MCProc |-> IF p = w1 THEN {0, 2} ELSE {0}]
MCGroup == {{"worker"}}
=============================================================================
