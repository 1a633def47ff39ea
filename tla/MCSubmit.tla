------------------------------ MODULE MCSubmit -----------------------------
EXTENDS Submit
CONSTANTS sch, srv, w1, w2, r1, r2, r3, r4
MCProc == {sch, srv, w1, w2}
MCRole == [p \in MCProc |-> CASE p = sch -> "scheduler" [] p = srv -> "server" [] OTHER -> "worker"]
MCCustomers == [p \in MCProc |-> IF p = w1 THEN {0, 1} ELSE {0}]
MCGroup == {All, Workers}
MCSlave == {r1, r2, r3, r4}
MCHost == [x \in MCSlave |-> IF x = r1 THEN 2 ELSE 1]
=============================================================================
