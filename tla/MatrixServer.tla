---------------------------- MODULE MatrixServer ----------------------------
(* What a server keeps of matrices and answers about them: the handle        *)
(* KVServerMLHandle of include/ps/kv_app.h, as operators on its store, a     *)
(* map from keys to parts of matrices (MatrixMeta_ and MatrixValue_). A part *)
(* has the rows and columns of its meta data, which end before endRow and    *)
(* endCol, and its values row by row. Values are integers.                   *)
EXTENDS Integers, Sequences, Functions

Width(p) == p.meta.endCol - p.meta.startCol
Height(p) == p.meta.endRow - p.meta.startRow
Row(p) == p.meta.startRow .. (p.meta.endRow - 1)
Col(p) == p.meta.startCol .. (p.meta.endCol - 1)

Total(s) == SumFunction(s)
Dot(s, t) == SumFunction([i \in DOMAIN s |-> s[i] * t[i]])
Plus(s, t) == [i \in DOMAIN s |-> s[i] + t[i]]

Put(f, x, v) == [y \in DOMAIN f \cup {x} |-> IF y = x THEN v ELSE f[y]]

(* The meta data of a key the server does not have name no matrix.           *)
Held(st, k) == k \in DOMAIN st
Holds(st, k, m) == Held(st, k) /\ st[k].meta.matrix = m

----------------------------------------------------------------------------
(* handlePush. A slice has the key of one part: a matrix has at most one on  *)
(* a server. PushAll does not look at the matrix, PushRow compares its       *)
(* length with that of the whole part and adds from the part's start.        *)
PushFails(st, q) ==
  \/ q.op = "PushAll" /\ Held(st, q.key) /\ Len(q.vals) # Len(st[q.key].vals)
  \/ /\ q.op = "PushRow"
     /\ \/ ~ Held(st, q.key)
        \/ q.row \notin Row(st[q.key])
        \/ Len(q.vals) # Len(st[q.key].vals)

(* Mutant: what is pushed to a part replaces it. *)
PushedOver(st, q) == Put(st, q.key, [meta |-> q.meta, vals |-> q.vals])

Pushed(st, q) ==
  IF Held(st, q.key) THEN [st EXCEPT ![q.key].vals = Plus(@, q.vals)]
  ELSE Put(st, q.key, [meta |-> q.meta, vals |-> q.vals])

----------------------------------------------------------------------------
(* The pull functions, on parts.                                             *)

pullall(p, q) == p.vals

getrow(p, q) ==
  LET start == (q.row - p.meta.startRow) * Width(p) IN SubSeq(p.vals, start + 1, start + Width(p))

rowsum(p, q) == <<Total(getrow(p, q))>>

Column(p, c) ==
  [i \in 1 .. Height(p) |-> p.vals[(c - p.meta.startCol) + (i - 1) * Width(p) + 1]]

getcol(p, q) == Column(p, q.col)
colsum(p, q) == <<Total(Column(p, q.col))>>
rowdot(p, p2, q) == <<Dot(getrow(p, q), getrow(p2, [row |-> q.row2]))>>
coldot(p, p2, q) == <<Dot(Column(p, q.col), Column(p2, q.col2))>>

(* handlePull and what it CHECKs: the matrix at the key, and the range of    *)
(* rows or columns.                                                          *)
PullFails(st, q) ==
  \/ ~ Holds(st, q.key, q.matrix)
  \/ q.op \in {"GetRow", "RowSum", "RowDot"} /\ q.row \notin Row(st[q.key])
  \/ q.op \in {"GetCol", "ColSum", "ColDot"} /\ q.col \notin Col(st[q.key])
  \/ q.op \in {"RowDot", "ColDot"} /\ ~ Holds(st, q.key2, q.matrix2)
  \/ q.op = "RowDot" /\ (q.row2 \notin Row(st[q.key2]) \/ Width(st[q.key]) # Width(st[q.key2]))
  \/ q.op = "ColDot" /\ (q.col2 \notin Col(st[q.key2]) \/ Height(st[q.key]) # Height(st[q.key2]))

handlePull(st, q) ==
  LET p == st[q.key] IN
  CASE q.op = "PullAll" -> pullall(p, q)
    [] q.op = "GetRow" -> getrow(p, q)
    [] q.op = "RowSum" -> rowsum(p, q)
    [] q.op = "GetCol" -> getcol(p, q)
    [] q.op = "ColSum" -> colsum(p, q)
    [] q.op = "RowDot" -> rowdot(p, st[q.key2], q)
    [] q.op = "ColDot" -> coldot(p, st[q.key2], q)
=============================================================================
