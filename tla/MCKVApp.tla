------------------------------ MODULE MCKVApp ------------------------------
(* Two servers with a key each.  A thread of one process pulls a key twice   *)
(* while a thread of another process pushes both keys twice.                 *)
EXTENDS KVApp

CONSTANTS w1, w2, c1, c2, ka, kb

MCWorker == {w1, w2}
MCCaller == {c1, c2}
MCUses == [c \in MCCaller |-> IF c = c1 THEN w1 ELSE w2]
MCKey == {ka, kb}
MCHome == [k \in MCKey |-> IF k = ka THEN 0 ELSE 1]
Push == [kind |-> "push", keys |-> {ka, kb}]
Pull == [kind |-> "pull", keys |-> {ka}]
MCRequest == [w \in MCWorker |-> IF w = w1 THEN {Pull} ELSE {Push}]
MCMaxRequests == [w \in MCWorker |-> 2]
=============================================================================
