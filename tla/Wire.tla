-------------------------------- MODULE Wire -------------------------------
(* What a message becomes on its way: the meta data as a protocol buffer     *)
(* (Van::PackMeta, PackMetaPB and UnpackMeta) and, over TCP, the message as  *)
(* the frames of one ZMQ message (ZMQVan::SendMsg, RecvMsg, GetNodeID).      *)
(* A protocol buffer is a function on the names of the fields that were set; *)
(* reading another one gives its default.                                    *)
EXTENDS Integers, Sequences, SequencesExt

CONSTANT kEmpty   \* Meta::kEmpty, which is Node::kEmpty

(* The empty string is one of STRING, which the provers do not know.         *)
String == STRING \cup {""}

Command == {"EMPTY", "TERMINATE", "ADD_NODE", "BARRIER", "ACK", "HEARTBEAT"}

Node == [role : Int, id : Int, hostname : STRING, port : Int,
         is_recovery : BOOLEAN, customer_id : Int]

(* A group belongs to a barrier, a signature to an acknowledgement, nodes to *)
(* a command; elsewhere nobody sets or reads them, and they count as 0.      *)
Control ==
  {c \in [cmd : Command, node : Seq(Node), barrier_group : Int, msg_sig : Int] :
     /\ c.cmd # "BARRIER" => c.barrier_group = 0
     /\ c.cmd # "ACK" => c.msg_sig = 0
     /\ c.cmd = "EMPTY" => c.node = <<>>}

Meta == [head : Int, app_id : Int, customer_id : Int, timestamp : Int,
         sender : Int, recver : Int, request : BOOLEAN, push : BOOLEAN,
         pull : BOOLEAN, simple_app : BOOLEAN, body : String,
         data_type : Seq(Int), control : Control, data_size : Int, priority : Int]

----------------------------------------------------------------------------
Field(pb, f, default) == IF f \in DOMAIN pb THEN pb[f] ELSE default

PackNode(n) ==
  [f \in {"role", "id", "hostname", "port", "is_recovery", "customer_id"} |-> n[f]]
UnpackNode(p) ==
  [role |-> p["role"], id |-> Field(p, "id", kEmpty), hostname |-> Field(p, "hostname", ""),
   port |-> Field(p, "port", 0), is_recovery |-> Field(p, "is_recovery", FALSE),
   customer_id |-> Field(p, "customer_id", 0)]

PackControl(c) ==
  [f \in {"cmd", "node"} \cup (IF c.cmd = "BARRIER" THEN {"barrier_group"} ELSE {})
                         \cup (IF c.cmd = "ACK" THEN {"msg_sig"} ELSE {}) |->
     IF f = "node" THEN [i \in DOMAIN c.node |-> PackNode(c.node[i])] ELSE c[f]]
UnpackControl(p) ==
  [cmd |-> p["cmd"], node |-> [i \in DOMAIN p["node"] |-> UnpackNode(p["node"][i])],
   barrier_group |-> Field(p, "barrier_group", 0), msg_sig |-> Field(p, "msg_sig", 0)]

(* The fields that both of the packing functions set.                        *)
PackedFields(m) ==
  {"head", "request", "push", "simple_app", "priority", "customer_id", "data_type"}
    \cup (IF m.app_id # kEmpty THEN {"app_id"} ELSE {})
    \cup (IF m.timestamp # kEmpty THEN {"timestamp"} ELSE {})
    \cup (IF m.body # "" THEN {"body"} ELSE {})
    \cup (IF m.control.cmd # "EMPTY" THEN {"control"} ELSE {})
Packed(m, F) == [f \in F |-> IF f = "control" THEN PackControl(m.control) ELSE m[f]]

PackMeta(m) == Packed(m, PackedFields(m) \cup {"pull"})
PackMetaPB(m) == Packed(m, PackedFields(m) \cup {"data_size"})

(* What UnpackMeta makes of a message that RecvMsg has begun with its sender *)
(* and receiver. Nothing reads data_size back.                               *)
UnpackMeta(pb, sender, recver) ==
  [head |-> Field(pb, "head", 0),
   app_id |-> Field(pb, "app_id", kEmpty),
   customer_id |-> Field(pb, "customer_id", 0),
   timestamp |-> Field(pb, "timestamp", kEmpty),
   sender |-> sender,
   recver |-> recver,
   request |-> Field(pb, "request", FALSE),
   push |-> Field(pb, "push", FALSE),
   pull |-> Field(pb, "pull", FALSE),
   simple_app |-> Field(pb, "simple_app", FALSE),
   body |-> Field(pb, "body", ""),
   data_type |-> Field(pb, "data_type", <<>>),
   control |-> IF "control" \in DOMAIN pb THEN UnpackControl(pb["control"])
               ELSE [cmd |-> "EMPTY", node |-> <<>>, barrier_group |-> 0, msg_sig |-> 0],
   data_size |-> 0,
   priority |-> Field(pb, "priority", 0)]

----------------------------------------------------------------------------
(* ZMQVan::SendMsg: a frame for the meta data and one for each array, all    *)
(* but the last flagged ZMQ_SNDMORE.                                         *)
SendMsg(msg) ==
  [i \in 1 .. Len(msg.data) + 1 |->
     [part |-> IF i = 1 THEN PackMeta(msg.meta) ELSE msg.data[i - 1],
      more |-> i # Len(msg.data) + 1]]

(* ZMQ_IDENTITY of a socket: "ps" and the digits of the id, if Connect knew  *)
(* it; otherwise the library makes one up, which starts with a zero byte.    *)
Identity(digits) == IF digits = <<>> THEN <<"\\0">> ELSE <<"p", "s">> \o digits

(* The ROUTER socket puts the sender's identity before the frames (external).*)
Routed(identity, frames) == <<[part |-> identity, more |-> TRUE]>> \o frames

GetNodeID(buf) ==
  IF Len(buf) > 2 /\ buf[1] = "p" /\ buf[2] = "s" /\ \A i \in 3 .. Len(buf) : buf[i] \in 0 .. 9
    THEN FoldLeft(LAMBDA id, d : id * 10 + d, 0, SubSeq(buf, 3, Len(buf)))
    ELSE kEmpty

(* ZMQVan::RecvMsg reads frames up to the first, from the second on, that    *)
(* says that no more follow.                                                 *)
LastFrame(frames) ==
  CHOOSE i \in 2 .. Len(frames) : ~ frames[i].more /\ \A j \in 2 .. i - 1 : frames[j].more
RecvMsg(frames, me) ==
  [meta |-> UnpackMeta(frames[2].part, GetNodeID(frames[1].part), me),
   data |-> [i \in 1 .. LastFrame(frames) - 2 |-> frames[i + 2].part]]
=============================================================================
