------------------------------ MODULE Requests -----------------------------
(* What requests and responses look like as messages: the arrays that        *)
(* KVWorker::Send and KVServer::Response put into one and that               *)
(* KVServer::Process and KVWorker::Process take out again by their number    *)
(* and place, the CHECKs on the way, and the messages of SimpleApp, which    *)
(* both classes are. How a message travels is module Wire's; what a server   *)
(* does with the pairs is KVApp's and MatrixServer's.                        *)
EXTENDS Wire

CONSTANTS
  Val,    \* the values
  NoKey   \* -1 as a Key, which is unsigned

psfType == {"PushAll", "PullAll", "PushRow", "GetRow", "RowSum", "ColSum",
            "GetCol", "IncRow", "IncCol", "RowDot", "ColDot", "Other"}

ServerMatrixMeta ==
  [type : psfType, matrixId : Int, partId : Int, startRow : Int, endRow : Int,
   startCol : Int, endCol : Int, rowIndex : Int]

ReqMatrixMeta ==
  [type : psfType, matrixId : Int, matrixId2 : Int, key : Nat, key2 : Nat,
   rowIndex : Int, rowIndex2 : Int, colIndex : Int, colIndex2 : Int,
   startRow : Int, endRow : Int, startCol : Int, endCol : Int]

KVPairs ==
  [keys : Seq(Nat), vals : Seq(Val), lens : Seq(Int),
   matrixmeta : Seq(ServerMatrixMeta), reqmatrixmeta : Seq(ReqMatrixMeta)]

(* What a server's handle is told of a request; as an argument of Send, what *)
(* is asked, with the server in place of the sender.                         *)
KVMeta == [cmd : Int, push : BOOLEAN, pull : BOOLEAN, sender : Int,
           timestamp : Int, customer_id : Int]

----------------------------------------------------------------------------
(* Asking. *)

(* The pairs that KVWorker's functions make of their arguments. Those that   *)
(* ps-lite has for keys and values alone do not compile here when used.      *)
ZPush(keys, vals, lens, metas) ==
  [keys |-> keys, vals |-> vals, lens |-> lens, matrixmeta |-> metas, reqmatrixmeta |-> <<>>]
Pull(keys, metas) ==
  [keys |-> keys, vals |-> <<>>, lens |-> <<>>, matrixmeta |-> <<>>, reqmatrixmeta |-> metas]

(* What of them goes to the server that has the keys from i + 1 to j, whose  *)
(* values are those from "from" + 1 to "to": arrays that are empty stay so.  *)
Part(s, i, j) == IF s = <<>> THEN <<>> ELSE SubSeq(s, i + 1, j)
Segment(kvs, i, j, from, to) ==
  [keys |-> SubSeq(kvs.keys, i + 1, j), vals |-> SubSeq(kvs.vals, from + 1, to),
   lens |-> Part(kvs.lens, i, j), matrixmeta |-> Part(kvs.matrixmeta, i, j),
   reqmatrixmeta |-> Part(kvs.reqmatrixmeta, i, j)]

(* What pushAll and pullAll of algorithm/DistML/worker.cpp ask for. An array *)
(* has at most two sizes, as pushAll CHECKs; with a single one it is a row.  *)
Ele_size(shape) ==
  CASE Len(shape) = 0 -> 1 [] Len(shape) = 1 -> shape[1] [] OTHER -> shape[1] * shape[2]

GenServerMatrixMeta(matrixId, shape) ==
  [type |-> "PushAll", matrixId |-> matrixId, partId |-> 0, startRow |-> 0, startCol |-> 0,
   endRow |-> CASE Len(shape) = 0 -> -1 [] Len(shape) = 1 -> 1 [] OTHER -> shape[1],
   endCol |-> CASE Len(shape) = 0 -> -1 [] Len(shape) = 1 -> shape[1] [] OTHER -> shape[2],
   rowIndex |-> -1]

GenReqMatrixMeta(matrixId) ==
  [type |-> "PullAll", matrixId |-> matrixId, matrixId2 |-> -1, key |-> NoKey, key2 |-> NoKey,
   rowIndex |-> -1, rowIndex2 |-> -1, colIndex |-> -1, colIndex2 |-> -1,
   startRow |-> -1, endRow |-> -1, startCol |-> -1, endCol |-> -1]

----------------------------------------------------------------------------
(* Making messages. *)

(* GetDataType and the sizes of the elements, by the array they are in.      *)
DataType == [keys |-> 8, vals |-> 9, lens |-> 3, matrixmeta |-> 11, reqmatrixmeta |-> 12]
DataSize(kvs) ==
  8 * Len(kvs.keys) + 4 * Len(kvs.vals) + 4 * Len(kvs.lens)
    + 32 * Len(kvs.matrixmeta) + 64 * Len(kvs.reqmatrixmeta)

(* The arrays that are added, in this order; none at all without keys.       *)
AddData(names, kvs, f) == IF kvs[f] = <<>> THEN names ELSE Append(names, f)
Arrays(kvs) ==
  IF kvs.keys = <<>> THEN <<>>
  ELSE AddData(AddData(
         AddData(<<"keys", "vals">>, kvs, "lens"), kvs, "matrixmeta"), kvs, "reqmatrixmeta")

NoControl == [cmd |-> "EMPTY", node |-> <<>>, barrier_group |-> 0, msg_sig |-> 0]

(* KVWorker::Send makes the request, KVServer::Response the answer, which    *)
(* goes back to the customer that asked and has no meta data of a matrix.    *)
MessageOf(app, priority, m, request, kvs) ==
  LET names == Arrays(kvs) IN
  [meta |-> [head |-> m.cmd, app_id |-> app, customer_id |-> m.customer_id,
             timestamp |-> m.timestamp, sender |-> kEmpty, recver |-> m.sender,
             request |-> request, push |-> m.push, pull |-> m.pull, simple_app |-> FALSE,
             body |-> "", data_type |-> [i \in DOMAIN names |-> DataType[names[i]]],
             control |-> NoControl, data_size |-> IF names = <<>> THEN 0 ELSE DataSize(kvs),
             priority |-> priority],
   data |-> [i \in DOMAIN names |-> kvs[names[i]]]]

Send(app, priority, m, kvs) == MessageOf(app, priority, m, TRUE, kvs)
Response(app, req, res) == MessageOf(app, 0, req, FALSE, res)

----------------------------------------------------------------------------
(* Reading them. *)

(* KVServer::Process. Lengths are there if there are more than three arrays; *)
(* the one after them is of either kind of meta data, by the flags.          *)
ServerReads(msg) ==
  LET n == Len(msg.data)
      At(i) == IF n = 0 THEN <<>> ELSE msg.data[i]
      t == IF n > 3 THEN 4 ELSE 3
  IN  [keys |-> At(1), vals |-> At(2), lens |-> IF n > 3 THEN At(3) ELSE <<>>,
       matrixmeta |-> IF msg.meta.push THEN At(t) ELSE <<>>,
       reqmatrixmeta |-> IF msg.meta.pull THEN At(t) ELSE <<>>]

ServerChecks(msg) ==
  LET p == ServerReads(msg) IN
  msg.data # <<>> =>
    /\ Len(msg.data) >= 3
    /\ Len(msg.data) > 3 => Len(p.lens) = Len(p.keys)
    /\ msg.meta.push => Len(p.matrixmeta) = Len(p.keys)
    /\ msg.meta.pull => Len(p.reqmatrixmeta) = Len(p.keys)

(* KVServerMLHandle. *)
HandleChecks(msg) ==
  LET p == ServerReads(msg) IN
  IF ~ msg.meta.pull
    THEN Len(p.lens) = Len(p.keys) /\ Len(p.matrixmeta) = Len(p.keys)
    ELSE Len(p.reqmatrixmeta) = Len(p.keys)

ServerMeta(msg) ==
  [cmd |-> msg.meta.head, push |-> msg.meta.push, pull |-> msg.meta.pull,
   sender |-> msg.meta.sender, timestamp |-> msg.meta.timestamp,
   customer_id |-> msg.meta.customer_id]

(* KVWorker::Process keeps what a pull is answered with.                     *)
WorkerReads(msg) ==
  LET n == Len(msg.data) IN
  [keys |-> msg.data[1], vals |-> msg.data[2],
   lens |-> IF n > 2 THEN msg.data[3] ELSE <<>>,
   matrixmeta |-> <<>>,
   reqmatrixmeta |-> IF n > 3 THEN msg.data[4] ELSE <<>>]
WorkerChecks(msg) == msg.meta.pull => Len(msg.data) >= 2

----------------------------------------------------------------------------
(* SimpleApp: a number and a string to each node of a group, and back.       *)

SimpleData == [head : Int, body : String, sender : Int, timestamp : Int, customer_id : Int]

SimpleMessage(app, recver, request, d) ==
  [meta |-> [head |-> d.head, app_id |-> app, customer_id |-> d.customer_id,
             timestamp |-> d.timestamp, sender |-> kEmpty, recver |-> recver,
             request |-> request, push |-> FALSE, pull |-> FALSE, simple_app |-> TRUE,
             body |-> d.body, data_type |-> <<>>, control |-> NoControl,
             data_size |-> 0, priority |-> 0],
   data |-> <<>>]

SimpleRequest(app, nodes, d) == {SimpleMessage(app, r, TRUE, d) : r \in nodes}
SimpleResponse(app, d, body) == SimpleMessage(app, d.sender, FALSE, [d EXCEPT !.body = body])

(* SimpleApp::Process: which handle is called, and what with.                *)
SimpleProcess(msg) ==
  [handle |-> IF msg.meta.request THEN "request_handle_" ELSE "response_handle_",
   data   |-> [head |-> msg.meta.head, body |-> msg.meta.body, sender |-> msg.meta.sender,
               timestamp |-> msg.meta.timestamp, customer_id |-> msg.meta.customer_id]]
=============================================================================
