------------------------------- MODULE Matrix -------------------------------
(* The matrix layer: Client (include/psf/client/client.h) with its Partition *)
(* (psf/Partition/RowPartition.h), which deals the rows of a matrix out to   *)
(* the servers, names the parts by keys, and asks a KVWorker to push and to  *)
(* pull; the slicer and the callback of that KVWorker; and the handles of    *)
(* the servers (module MatrixServer). Requests, responses and Wait are those *)
(* of KVApp; here a slice is on its way, is served, and its response is in.  *)
(*                                                                           *)
(* Each client calls and waits, as algorithm/DistML/worker.cpp does. A       *)
(* client pulls only what it has pushed before: the functions that look up   *)
(* the server of a matrix or row return nothing for others.                  *)
EXTENDS MatrixServer, FiniteSets, SequencesExt

CONSTANTS
  Client,
  NumServers,  \* num_servers_
  MaxKey,      \* kMaxKey
  Matrix,
  Shape,       \* the meta data of each matrix as a whole
  Calls,       \* what clients may call: records with the fields below
  MaxCalls,    \* bound on the number of calls
  None

Server == 0 .. NumServers - 1
Rows(m) == Shape[m].startRow .. (Shape[m].endRow - 1)
Cols(m) == Shape[m].startCol .. (Shape[m].endCol - 1)
ElePerCol(m) == Shape[m].endRow - Shape[m].startRow
ElePerRow(m) == Shape[m].endCol - Shape[m].startCol

\* ColDot says of its two matrices: "same for matrix2"
ASSUME MatrixAssumption ==
  /\ NumServers \in Nat \ {0}
  /\ IsFiniteSet(Matrix) /\ MaxKey \in Nat /\ MaxKey \div NumServers >= Cardinality(Matrix)
  /\ \A m \in Matrix :
       /\ Shape[m] \in [matrix : {m}, startRow : Int, endRow : Int, startCol : Int, endCol : Int]
       /\ ElePerCol(m) > 0 /\ ElePerRow(m) > 0
  /\ \A x \in Calls :
       /\ x.matrix \in Matrix
       /\ x.op \in {"PushAll", "PushRow"} => x.vals \in Seq(Int)
       /\ x.op = "PushAll" => Len(x.vals) = ElePerRow(x.matrix) * ElePerCol(x.matrix)
       /\ x.op = "PushRow" => Len(x.vals) = ElePerRow(x.matrix)
       /\ x.op \in {"GetRow", "RowSum", "PushRow"} => x.row \in Rows(x.matrix)
       /\ x.op = "ColDot" => /\ x.matrix2 \in Matrix /\ ElePerCol(x.matrix) = ElePerCol(x.matrix2)
                            /\ x.col \in Cols(x.matrix) /\ x.col2 \in Cols(x.matrix2)
       /\ x.op \notin {"PushAll", "PushRow"} =>
            x.op \in {"PullAll", "GetRow", "RowSum", "ColDot"} /\ x.fresh \in BOOLEAN
  /\ MaxCalls \in Nat /\ None \notin Calls

VARIABLES
  client,   \* per client: globalId, matrixToKey, matrixRowToKey, and of its
            \* partition MatrixToPS and MatrixToRowToPS; the caller's vectors
            \* vals and lens; and the CHECK that ended it
  asked,    \* per client: its call that has not returned, or None; the slices that wait
            \* to be served, the responses, and what was done when it was asked
  store,    \* per server: MatrixMeta_ and MatrixValue_
  ended,    \* the servers that a CHECK has ended
  applied,  \* per server: the pushes it has served (history)
  log       \* per client: its calls and their results (history)

Idle == [call |-> None, todo |-> <<>>, got |-> {}, before |-> {}]
Busy(c) == asked[c].call # None

vars == <<client, asked, store, ended, applied, log>>

Init ==
  /\ client = [c \in Client |-> [globalId |-> 0, keys |-> <<>>, rowKeys |-> <<>>, toPS |-> <<>>,
                                 rowPS |-> <<>>, vals |-> <<>>, lens |-> <<>>, ended |-> FALSE]]
  /\ asked = [c \in Client |-> Idle]
  /\ store = [s \in Server |-> <<>>]
  /\ ended = {}
  /\ applied = [s \in Server |-> {}]
  /\ log = [c \in Client |-> <<>>]

----------------------------------------------------------------------------
(* RowPartition: how many rows a server gets, from which row on.             *)

RowNum(m, i) ==
  (ElePerCol(m) \div NumServers) + (IF i < ElePerCol(m) % NumServers THEN 1 ELSE 0)

RealSize(m) == Cardinality({i \in Server : RowNum(m, i) # 0})

StartPos(m) ==
  LET at[i \in Server] == IF i = 0 THEN Shape[m].startRow ELSE at[i - 1] + RowNum(m, i - 1)
  IN  at

(* Mutant: endRow is the last row of the part. *)
PartMetaShort(m, i) ==
  [Shape[m] EXCEPT !.startRow = StartPos(m)[i], !.endRow = StartPos(m)[i] + RowNum(m, i) - 1]

PartMeta(m, i) ==
  [Shape[m] EXCEPT !.startRow = StartPos(m)[i], !.endRow = StartPos(m)[i] + RowNum(m, i)]

PartLens(m) == [i \in 1 .. RealSize(m) |-> RowNum(m, i - 1) * ElePerRow(m)]

(* The servers of a matrix are appended again by every PushAll.              *)
RowPartition(cl, m) ==
  LET new == [i \in 1 .. RealSize(m) |-> i - 1]
      old == IF m \in DOMAIN cl.toPS THEN cl.toPS[m] ELSE <<>>
  IN  [cl EXCEPT
         !.toPS = Put(@, m, old \o new),
         !.rowPS = Put(@, m, [r \in Rows(m) |->
                     CHOOSE i \in Server : r \in StartPos(m)[i] .. (StartPos(m)[i] + RowNum(m, i) - 1)])]

----------------------------------------------------------------------------
(* GetServerKeyRanges, findKey, findRowKey and the slicer.                   *)

RangeBegin(i) == (MaxKey \div NumServers) * i
RangeEnd(i) == (MaxKey \div NumServers) * (i + 1)

(* Mutant: the number is not raised. *)
FindKeyStays(cl, m) ==
  IF m \in DOMAIN cl.keys THEN cl
  ELSE [cl EXCEPT
    !.keys = Put(@, m, [i \in DOMAIN cl.toPS[m] |-> RangeBegin(cl.toPS[m][i]) + cl.globalId]),
    !.rowKeys = Put(@, m, [r \in DOMAIN cl.rowPS[m] |-> RangeBegin(cl.rowPS[m][r]) + cl.globalId])]

(* Mutant: the number is raised before the keys of the rows are made. *)
FindKeyEarly(cl, m) ==
  IF m \in DOMAIN cl.keys THEN cl
  ELSE [cl EXCEPT
    !.keys = Put(@, m, [i \in DOMAIN cl.toPS[m] |-> RangeBegin(cl.toPS[m][i]) + cl.globalId]),
    !.rowKeys = Put(@, m, [r \in DOMAIN cl.rowPS[m] |-> RangeBegin(cl.rowPS[m][r]) + cl.globalId + 1]),
    !.globalId = @ + 1]

(* The next number of this client goes to the next matrix that it pushes.    *)
FindKey(cl, m) ==
  IF m \in DOMAIN cl.keys THEN cl
  ELSE [cl EXCEPT
    !.keys = Put(@, m, [i \in DOMAIN cl.toPS[m] |-> RangeBegin(cl.toPS[m][i]) + cl.globalId]),
    !.rowKeys = Put(@, m, [r \in DOMAIN cl.rowPS[m] |-> RangeBegin(cl.rowPS[m][r]) + cl.globalId]),
    !.globalId = @ + 1]

(* A row that is not known gets the key 0 from the map.                      *)
FindRowKey(cl, m, r) == IF m \in DOMAIN cl.rowKeys THEN cl.rowKeys[m][r] ELSE 0

(* Where the keys of each server begin: a lower_bound for each range.        *)
Positions(keys) ==
  LET LowerBound(from, k) == from + Cardinality({j \in (from + 1) .. Len(keys) : keys[j] < k})
      pos[i \in 0 .. NumServers] ==
        IF i = 0 THEN LowerBound(0, RangeBegin(0)) ELSE LowerBound(pos[i - 1], RangeEnd(i - 1))
  IN  pos

(* The slices: what goes to a server of a request with these keys, of which  *)
(* each comes with one q. At most one falls into each range.                 *)
DefaultSlicer(keys, qs) ==
  LET pos == Positions(keys)
  IN  [s \in {t \in Server : pos[t + 1] > pos[t]} |->
         [q |-> qs[pos[s] + 1], front |-> keys[pos[s] + 1]]]

----------------------------------------------------------------------------
(* Push and Pull of Client.                                                  *)

PushAllSlices(cl, x) ==
  LET lens == PartLens(x.matrix)
      begin(i) == Total(SubSeq(lens, 1, i - 1))
  IN  DefaultSlicer(cl.keys[x.matrix],
        [i \in DOMAIN lens |->
           [op |-> "PushAll", key |-> cl.keys[x.matrix][i], meta |-> PartMeta(x.matrix, i - 1),
            vals |-> SubSeq(x.vals, begin(i) + 1, begin(i) + lens[i])]])

PushRowSlices(cl, x) ==
  LET key == FindRowKey(cl, x.matrix, x.row)
  IN  DefaultSlicer(<<key>>, <<[op |-> "PushRow", key |-> key, row |-> x.row, vals |-> x.vals]>>)

(* GetRow and RowSum: the first key of the range is only the address.        *)
RowSlices(cl, x) ==
  DefaultSlicer(<<RangeBegin(cl.rowPS[x.matrix][x.row])>>,
    <<[op |-> x.op, matrix |-> x.matrix, row |-> x.row, key |-> FindRowKey(cl, x.matrix, x.row)]>>)

(* PullAll has a request for every entry of MatrixToPS, and for those beyond *)
(* the keys it reads past the end of keys; the slicer leaves them out.       *)
PullAllSlices(cl, x) ==
  DefaultSlicer(cl.keys[x.matrix],
    [i \in DOMAIN cl.toPS[x.matrix] |->
       [op |-> "PullAll", matrix |-> x.matrix,
        key |-> IF i \in DOMAIN cl.keys[x.matrix] THEN cl.keys[x.matrix][i] ELSE None]])

ColDotSlices(cl, x) ==
  DefaultSlicer(cl.keys[x.matrix],
    [i \in DOMAIN cl.keys[x.matrix] |->
       [op |-> "ColDot", matrix |-> x.matrix, matrix2 |-> x.matrix2, col |-> x.col, col2 |-> x.col2,
        key |-> cl.keys[x.matrix][i], key2 |-> cl.keys[x.matrix2][i]]])

Push == {x \in Calls : x.op \in {"PushAll", "PushRow"}}
Pull == Calls \ Push
CallOf(p) == IF p[2] <= Len(log[p[1]]) THEN log[p[1]][p[2]].call ELSE asked[p[1]].call

(* The pushes that have been asked, and those that have returned.            *)
Returned == {p \in UNION {{c} \X DOMAIN log[c] : c \in Client} : CallOf(p) \in Push}
Begun == Returned \cup {<<c, Len(log[c]) + 1>> : c \in {d \in Client : asked[d].call \in Push}}

NumCalls ==
  SumFunction([c \in Client |-> Len(log[c])]) + Cardinality({c \in Client : Busy(c)})

(* What clients call after a CHECK has ended a server is not followed.        *)
CanCall(c) == ended = {} /\ ~ Busy(c) /\ ~ client[c].ended /\ NumCalls < MaxCalls

Request(c, x, cl, slices) ==
  /\ client' = [client EXCEPT ![c] = cl]
  /\ asked' = [asked EXCEPT ![c] = [call |-> x, todo |-> slices, got |-> {}, before |-> Returned]]
  /\ UNCHANGED <<store, ended, applied, log>>

PushAll(c) ==
  \E x \in Push :
    /\ x.op = "PushAll" /\ CanCall(c)
    /\ LET cl == FindKey(RowPartition(client[c], x.matrix), x.matrix)
       IN  Request(c, x, cl, PushAllSlices(cl, x))

PushRow(c) ==
  \E x \in Push :
    /\ x.op = "PushRow" /\ CanCall(c)
    /\ Request(c, x, client[c], PushRowSlices(client[c], x))

(* What the caller's vectors hold before the call stays in them unless they  *)
(* are new.                                                                  *)
Vectors(cl, x) == IF x.fresh THEN [cl EXCEPT !.vals = <<>>, !.lens = <<>>] ELSE cl

PullMatrix(c) ==
  \E x \in Pull :
    /\ CanCall(c)
    /\ x.matrix \in DOMAIN client[c].toPS
    /\ x.op = "ColDot" => x.matrix2 \in DOMAIN client[c].toPS
    /\ Request(c, x, Vectors(client[c], x),
         CASE x.op = "PullAll" -> PullAllSlices(client[c], x)
           [] x.op = "ColDot" -> ColDotSlices(client[c], x)
           [] OTHER -> RowSlices(client[c], x))

----------------------------------------------------------------------------
(* A server serves a slice; a failed CHECK ends it.                          *)
Serve(s, c) ==
  /\ s \notin ended
  /\ Busy(c) /\ s \in DOMAIN asked[c].todo
  /\ LET x == asked[c].call
         sl == asked[c].todo[s]
         answer == [asked[c] EXCEPT
           !.todo = Restrict(@, DOMAIN @ \ {s}),
           !.got = @ \cup {[front |-> sl.front, vals |-> IF x \in Pull THEN handlePull(store[s], sl.q) ELSE <<>>]}]
     IN  IF (x \in Push /\ PushFails(store[s], sl.q)) \/ (x \in Pull /\ PullFails(store[s], sl.q))
         THEN ended' = ended \cup {s} /\ UNCHANGED <<asked, store, applied>>
         ELSE /\ asked' = [asked EXCEPT ![c] = answer]
              /\ store' = IF x \in Push THEN [store EXCEPT ![s] = Pushed(@, sl.q)] ELSE store
              /\ applied' = IF x \in Push
                            THEN [applied EXCEPT ![s] = @ \cup {<<c, Len(log[c]) + 1>>}] ELSE applied
              /\ ended' = ended
  /\ UNCHANGED <<client, log>>

(* Mutant: the comparison is the wrong way round. *)
MergedBackwards(got) ==
  LET sorted == SetToSortSeq(got, LAMBDA r, t : r.front > t.front)
  IN  FlattenSeq([i \in DOMAIN sorted |-> sorted[i].vals])

(* The responses in the order of their first keys.                           *)
Merged(got) ==
  LET sorted == SetToSortSeq(got, LAMBDA r, t : r.front < t.front)
  IN  FlattenSeq([i \in DOMAIN sorted |-> sorted[i].vals])

(* AddPullMLCB: what the callback does with the vectors. PullAll adds to     *)
(* lens, GetRow overwrites it.                                               *)
Filled(cl, x, got) ==
  LET all == Merged(got)
      old == IF cl.lens = <<>> THEN <<0>> ELSE cl.lens
  IN  CASE x.op = "PullAll" -> [cl EXCEPT !.vals = all, !.lens = <<old[1] + Len(all)>>]
        [] x.op = "GetRow" -> [cl EXCEPT !.vals = all, !.lens = <<Len(all)>>]
        [] x.op \in {"RowSum", "ColDot"} -> [cl EXCEPT !.vals = <<Total(all)>>, !.lens = <<1>>]

Return(c) ==
  /\ Busy(c) /\ asked[c].todo = <<>>
  /\ LET x == asked[c].call
         cl == IF x \in Pull THEN Filled(client[c], x, asked[c].got) ELSE client[c]
         fits == x \in Push \/ client[c].vals = <<>> \/ Len(client[c].vals) = Len(cl.vals)
     IN  IF ~ fits
         THEN client' = [client EXCEPT ![c].ended = TRUE] /\ UNCHANGED <<asked, log>>
         ELSE /\ client' = [client EXCEPT ![c] = cl]
              /\ asked' = [asked EXCEPT ![c] = Idle]
              /\ log' = [log EXCEPT ![c] = Append(@,
                   [call |-> x, before |-> asked[c].before, begun |-> Begun,
                    vals |-> cl.vals, lens |-> cl.lens])]
  /\ UNCHANGED <<store, ended, applied>>

Next ==
  \E c \in Client :
    PushAll(c) \/ PushRow(c) \/ PullMatrix(c) \/ Return(c) \/ \E s \in Server : Serve(s, c)

Spec == Init /\ [][Next]_vars

----------------------------------------------------------------------------
AllKeys == 0 .. (RangeEnd(NumServers - 1) - 1)

TypeOK ==
  /\ \A c \in Client :
       /\ client[c].globalId = Cardinality(DOMAIN client[c].keys)
       /\ \A m \in DOMAIN client[c].keys :
            /\ client[c].keys[m] \in [1 .. RealSize(m) -> AllKeys]
            /\ client[c].rowKeys[m] \in [Rows(m) -> AllKeys]
            /\ client[c].rowPS[m] \in [Rows(m) -> Server]
  /\ \A c \in Client : DOMAIN asked[c].todo \subseteq Server
  /\ \A s \in Server : DOMAIN store[s] \subseteq RangeBegin(s) .. (RangeEnd(s) - 1)
  /\ ended \subseteq Server

(* Clients agree when no key of one names a part of another matrix for the   *)
(* other, and no row was pushed to a matrix that its client had not pushed.  *)
KeysOf(c, m) == {client[c].keys[m][i] : i \in DOMAIN client[c].keys[m]}
Known(p) ==
  \E i \in 1 .. (p[2] - 1) :
    LET x == log[p[1]][i].call IN x.op = "PushAll" /\ x.matrix = CallOf(p).matrix
Stray == \E p \in Begun : CallOf(p).op = "PushRow" /\ ~ Known(p)
ClientsAgree ==
  /\ ~ Stray
  /\ \A c, d \in Client : \A m \in DOMAIN client[c].keys, n \in DOMAIN client[d].keys :
       m # n => KeysOf(c, m) \cap KeysOf(d, n) = {}

(* The reference: an element of a matrix after a set of pushes.              *)
Entry(p, r, k) ==
  LET x == CallOf(p)
      m == x.matrix
  IN  IF x.op = "PushAll"
      THEN x.vals[(r - Shape[m].startRow) * ElePerRow(m) + (k - Shape[m].startCol) + 1]
      ELSE IF x.row = r THEN x.vals[k - Shape[m].startCol + 1] ELSE 0
At(m, pushes, r, k) ==
  SumFunction([p \in {q \in pushes : CallOf(q).matrix = m} |-> Entry(p, r, k)])

(* What a server's functions read from a part, by row, by column, as sums    *)
(* and as products, is what the matrix has there after the pushes that the   *)
(* server has served, wherever the part begins: as long as clients agree, no *)
(* push goes to another matrix, row or column.                               *)
ReadsAreSums ==
  ClientsAgree => \A s \in Server : \A key \in DOMAIN store[s] :
    LET p == store[s][key]
        m == p.meta.matrix
        v(r, k) == At(m, applied[s], r, k)
        Read(q) == handlePull(store[s], q)
    IN  /\ \A r \in Row(p) :
             /\ Read([op |-> "GetRow", key |-> key, row |-> r])
                  = [j \in 1 .. Width(p) |-> v(r, p.meta.startCol + j - 1)]
             /\ Read([op |-> "RowSum", key |-> key, row |-> r]) = <<SumFunction([k \in Col(p) |-> v(r, k)])>>
             /\ \A r2 \in Row(p) : Read([op |-> "RowDot", key |-> key, key2 |-> key, row |-> r, row2 |-> r2])
                  = <<SumFunction([k \in Col(p) |-> v(r, k) * v(r2, k)])>>
        /\ \A k \in Col(p) :
             /\ Read([op |-> "GetCol", key |-> key, col |-> k])
                  = [j \in 1 .. Height(p) |-> v(p.meta.startRow + j - 1, k)]
             /\ Read([op |-> "ColSum", key |-> key, col |-> k]) = <<SumFunction([r \in Row(p) |-> v(r, k)])>>
             /\ \A k2 \in Col(p) : Read([op |-> "ColDot", key |-> key, key2 |-> key, col |-> k, col2 |-> k2])
                  = <<SumFunction([r \in Row(p) |-> v(r, k) * v(r, k2)])>>

(* Whoever has pushed a matrix finds each of its rows: the server that the   *)
(* partition names has a part with the row at the key that findRowKey gives, *)
(* and the slicer sends the key of every part to the server that is to have  *)
(* it.                                                                       *)
RowsFound ==
  ClientsAgree => \A c \in Client : \A m \in DOMAIN client[c].keys :
    /\ \A i \in DOMAIN client[c].keys[m] :
         LET pos == Positions(client[c].keys[m])
             s == client[c].toPS[m][i]
         IN  pos[s] < i /\ i <= pos[s + 1]
    /\ ~ Busy(c) \/ asked[c].call \in Pull => \A r \in Rows(m) :
         LET s == client[c].rowPS[m][r]
             key == client[c].rowKeys[m][r]
         IN  Holds(store[s], key, m) /\ r \in Row(store[s][key])

(* A client's last pull returned what the whole matrix holds: its elements   *)
(* in row order, each server's rows after a set of pushes that has all which *)
(* had returned when the pull was asked and none that began later; and lens  *)
(* tells the size, in new vectors. Servers may differ in what else they had  *)
(* seen.                                                                     *)
Between(e) == {e.before \cup x : x \in SUBSET (e.begun \ e.before)}
Result(e) ==
  LET x == e.call
      m == x.matrix
      own(s) == Row([meta |-> PartMeta(m, s)])
  IN  CASE x.op = "PullAll" ->
             /\ Len(e.vals) = ElePerCol(m) * ElePerRow(m)
             /\ \A s \in 0 .. RealSize(m) - 1 : \E S \in Between(e) : \A r \in own(s), k \in Cols(m) :
                  e.vals[(r - Shape[m].startRow) * ElePerRow(m) + (k - Shape[m].startCol) + 1] = At(m, S, r, k)
        [] x.op = "GetRow" ->
             \E S \in Between(e) : e.vals = [j \in 1 .. ElePerRow(m) |-> At(m, S, x.row, Shape[m].startCol + j - 1)]
        [] x.op = "RowSum" ->
             \E S \in Between(e) : e.vals = <<SumFunction([k \in Cols(m) |-> At(m, S, x.row, k)])>>
        [] x.op = "ColDot" ->
             \E f \in [0 .. RealSize(m) - 1 -> Between(e)] : e.vals = <<SumFunction([r \in Rows(m) |->
               LET S == f[CHOOSE s \in DOMAIN f : r \in own(s)]
                   r2 == r - Shape[m].startRow + Shape[x.matrix2].startRow
               IN  At(m, S, r, x.col) * At(x.matrix2, S, r2, x.col2)])>>
ResultsRight ==
  ClientsAgree => \A c \in Client :
    log[c] # <<>> /\ Last(log[c]).call \in Pull =>
      /\ Result(Last(log[c]))
      /\ Last(log[c]).call.fresh => Last(log[c]).lens = <<Len(Last(log[c]).vals)>>

(* A CHECK ends a server only when clients disagree about keys, or when a    *)
(* row is pushed to a part that has several; and a client only when it gives *)
(* Pull vectors of another size.                                             *)
EndsHaveCauses ==
  /\ ended # {} =>
       \/ ~ ClientsAgree
       \/ \E p \in Begun : LET x == CallOf(p) IN
            x.op = "PushRow" /\ RowNum(x.matrix, client[p[1]].rowPS[x.matrix][x.row]) > 1
  /\ \A c \in Client : client[c].ended => ~ asked[c].call.fresh
=============================================================================
