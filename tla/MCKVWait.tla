------------------------------ MODULE MCKVWait -----------------------------
(* Two threads share one KVWorker, ask it for requests that involve no, one  *)
(* or both servers, and wait for their own and for each other's.             *)
EXTENDS KVApp

CONSTANTS kw, c1, c2, ka, kb

MCWorker == {kw}
MCCaller == {c1, c2}
MCUses == [c \in MCCaller |-> kw]
MCKey == {ka, kb}
MCHome == [k \in MCKey |-> IF k = ka THEN 0 ELSE 1]
MCRequest == [x \in MCWorker |-> {[kind |-> "push", keys |-> {}], [kind |-> "push", keys |-> {ka}],
                                  [kind |-> "push", keys |-> {ka, kb}],
                                  [kind |-> "pull", keys |-> {ka, kb}]}]
MCMaxRequests == [x \in MCWorker |-> 2]
=============================================================================
