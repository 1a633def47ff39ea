-------------------------------- MODULE Rdma -------------------------------
(* IBVerbsVan, the RDMA transport of src/ibverbs_van.h. A message goes from  *)
(* the process that sends it to the other by rendezvous: START announces its *)
(* sizes, the receiver takes a buffer and answers REPLY, the sender writes   *)
(* the message into the buffer, and the write's immediate value tells the    *)
(* receiver which buffer it was. Each process polls one completion queue in  *)
(* one thread.                                                               *)
(*                                                                           *)
(* A link is a connection that one process has opened to another: an entry   *)
(* of endpoints_ at its source and one of incoming_ at its target. Of the    *)
(* verbs library the model assumes what reliable connections give: a queue   *)
(* pair carries its work requests in order and once until one fails, each    *)
(* consumes a posted receive at the other side and waits until there is one  *)
(* (rnr_retry_count 7), and its completion is in the sender's queue by the   *)
(* time the receiver could answer. Buffers are read when the request is      *)
(* carried, not when it is posted.                                           *)
EXTENDS Mempool, Sequences, FiniteSets

CONSTANTS
  Proc,        \* the processes
  Link,        \* records [src, dst]
  Thread,      \* the threads that call SendMsg
  Via,         \* the link a thread sends on
  Outbox,      \* the messages a thread sends, in turn
  Depth,       \* kStartDepth and kWriteDepth
  MaxEntries,  \* the entries of an AddressPool, kMaxEntries
  MaxRejects,  \* how often a link's connection attempts may be rejected
  None

kEmpty == 2147483647
W == INSTANCE Wire

(* A message has its meta data and their bytes when packed, the number of    *)
(* its data arrays and their bytes in all; for a data message also the       *)
(* addresses of the arrays with their sizes, of which empty ones are left    *)
(* out.                                                                      *)
Body == [control : BOOLEAN, head : W!Meta, meta : Nat \ {0}, bytes : Nat, arrays : Nat,
         data : SUBSET [at : Nat, len : Nat \ {0}]]

ASSUME RdmaAssumption ==
  /\ Link \subseteq [src : Proc, dst : Proc]
  /\ Via \in [Thread -> Link]
  /\ Outbox \in [Thread -> Seq(Body)]
  /\ Depth \in Nat \ {0} /\ MaxEntries \in Nat \ {0} /\ MaxRejects \in [Link -> Nat]
  /\ None \notin Nat

Msg == UNION {{<<t, k>> : k \in 1 .. Len(Outbox[t])} : t \in Thread}
BodyOf(m) == Outbox[m[1]][m[2]]
LinkOf(m) == Via[m[1]]

RxDepth == 2 * Depth
ReplyDepth == RxDepth
Contexts(n) == [i \in 1 .. n |-> i]
InlineLen(b) == IF b.control THEN b.meta + b.bytes ELSE b.meta

VARIABLES
  node,       \* per process: listening, its completion queue, its pool and what is
              \* in the blocks, allocated_mr_, the AddressPool, recv_buffers_, the
              \* Blocks of delivered messages, and the CHECK that ended it
  out,        \* per link, at the source: status, free contexts, their buffers,
              \* posted receives and posted work requests
  inc,        \* per link, at the target: the same of the Endpoint in incoming_
  thread,     \* per thread: where in SendMsg, which message, which write context
  bufs,       \* the MessageBuffer of each message that has one
  posted,     \* per link, the messages in the order of their STARTs (history)
  delivered   \* per link, what RecvMsg returned (history)

vars == <<node, out, inc, thread, bufs, posted, delivered>>

Alive(n) == node[n].ended = None

(* The indices of a new AddressPool: all of them. *)
AddressPool == Contexts(MaxEntries)

(* A process's pool and completion queue are made by InitContext, when its   *)
(* first connection is; nothing uses them before.                            *)
InitContext ==
  [listening |-> FALSE, cq |-> <<>>, pool |-> NewPool, mem |-> <<>>, mr |-> <<>>,
   free |-> AddressPool, table |-> <<>>, recv |-> <<>>, blocks |-> <<>>, ended |-> None]

(* A new Endpoint has no context on any of its queues yet. One in endpoints_ *)
(* never uses its reply contexts, one in incoming_ never the other two kinds.*)
Endpoint ==
  [status |-> "idle", rejects |-> 0, start |-> <<>>, write |-> <<>>,
   startBuf |-> <<>>, writeBuf |-> <<>>, rx |-> 0, sq |-> <<>>]
IncomingEndpoint == [reply |-> <<>>, replyBuf |-> <<>>, rx |-> 0, sq |-> <<>>]

Init ==
  /\ node = [n \in Proc |-> InitContext]
  /\ out = [l \in Link |-> Endpoint]
  /\ inc = [l \in Link |-> IncomingEndpoint]
  /\ thread = [t \in Thread |-> [pc |-> "idle", next |-> 1, write |-> None]]
  /\ bufs = <<>>
  /\ posted = [l \in Link |-> <<>>]
  /\ delivered = [l \in Link |-> <<>>]

(* A map with one entry set or removed. *)
Put(f, x, v) == [y \in DOMAIN f \cup {x} |-> IF y = x THEN v ELSE f[y]]
Drop(f, x) == [y \in DOMAIN f \ {x} |-> f[y]]

Fail(n, why) == node' = [node EXCEPT ![n].ended = why]

----------------------------------------------------------------------------
(* Connections. *)

Bind(n) ==
  /\ ~ node[n].listening
  /\ node' = [node EXCEPT ![n].listening = TRUE]
  /\ UNCHANGED <<out, inc, thread, bufs, posted, delivered>>

(* Endpoint::Init: the receives of a new queue pair are posted and every     *)
(* context is put onto its queue, also when an earlier attempt has done so.  *)
InitEndpoint(e) ==
  [e EXCEPT !.rx = RxDepth, !.start = @ \o Contexts(Depth), !.write = @ \o Contexts(Depth)]

(* A turn of the loop in Connect, the first or one after a rejection, whose  *)
(* caller then waits for the outcome.                                        *)
Connect(l) ==
  /\ node[l.src].listening
  /\ out[l].status \in {"idle", "rejected"}
  /\ out' = [out EXCEPT ![l].status = "connecting"]
  /\ UNCHANGED <<node, inc, thread, bufs, posted, delivered>>

(* The address has been resolved by then, and rdma_connect follows.          *)
OnRouteResolved(l) ==
  /\ out[l].status = "connecting"
  /\ out' = [out EXCEPT ![l] = [InitEndpoint(@) EXCEPT !.status = "requested"]]
  /\ UNCHANGED <<node, inc, thread, bufs, posted, delivered>>

(* The other process does not listen yet, or its queue is full. *)
OnRejected(l) ==
  /\ out[l].status = "requested"
  /\ out[l].rejects < MaxRejects[l]
  /\ ~ node[l.dst].listening
  /\ out' = [out EXCEPT ![l].status = "rejected", ![l].rejects = @ + 1]
  /\ UNCHANGED <<node, inc, thread, bufs, posted, delivered>>

OnConnectRequest(l) ==
  /\ out[l].status = "requested"
  /\ node[l.dst].listening
  /\ inc' = [inc EXCEPT ![l].reply = Contexts(ReplyDepth), ![l].rx = RxDepth]
  /\ out' = [out EXCEPT ![l].status = "accepted"]
  /\ UNCHANGED <<node, thread, bufs, posted, delivered>>

OnConnected(l) ==
  /\ out[l].status = "accepted"
  /\ out' = [out EXCEPT ![l].status = "connected"]
  /\ UNCHANGED <<node, inc, thread, bufs, posted, delivered>>

----------------------------------------------------------------------------
(* SendMsg. *)

(* The message buffer: meta data, and a control message's data with it, are  *)
(* copied into a block of the pool; a data array is registered unless its    *)
(* address has been before, with whatever size it had then.                  *)
Prepare(t) ==
  LET l == Via[t]
      m == <<t, thread[t].next>>
      b == BodyOf(m)
      new == {d \in b.data : d.at \notin DOMAIN node[l.src].mr}
  IN  /\ thread[t].pc = "idle"
      /\ thread[t].next <= Len(Outbox[t])
      /\ out[l].status = "connected"
      /\ \E a \in Alloc(node[l.src].pool, InlineLen(b)) :
           /\ node' = [node EXCEPT ![l.src].pool = a.pool,
                                   ![l.src].mr = [x \in DOMAIN @ \cup {d.at : d \in new} |->
                                      IF x \in DOMAIN @ THEN @[x] ELSE (CHOOSE d \in new : d.at = x).len]]
           /\ bufs' = Put(bufs, m, [inline |-> a.addr, write |-> None])
      /\ thread' = [thread EXCEPT ![t].pc = "prepared"]
      /\ UNCHANGED <<out, inc, posted, delivered>>

(* free_write_ctx.WaitAndPop: it waits while the queue is empty. *)
TakeWriteContext(t) ==
  LET l == Via[t] IN
  /\ thread[t].pc = "prepared"
  /\ out[l].write # <<>>
  /\ thread' = [thread EXCEPT ![t].pc = "reserved", ![t].write = Head(out[l].write)]
  /\ out' = [out EXCEPT ![l].write = Tail(@)]
  /\ UNCHANGED <<node, inc, bufs, posted, delivered>>

(* free_start_ctx.WaitAndPop, filling in START and posting it. *)
PostStart(t) ==
  LET l == Via[t]
      m == <<t, thread[t].next>>
      i == Head(out[l].start)
  IN  /\ thread[t].pc = "reserved"
      /\ out[l].start # <<>>
      /\ bufs' = [bufs EXCEPT ![m].write = thread[t].write]
      /\ out' = [out EXCEPT ![l].start = Tail(@), ![l].startBuf = Put(@, i, m),
                            ![l].sq = Append(@, [op |-> "start", ctx |-> i])]
      /\ posted' = [posted EXCEPT ![l] = Append(@, m)]
      /\ thread' = [thread EXCEPT ![t] = [pc |-> "idle", next |-> @.next + 1, write |-> None]]
      /\ UNCHANGED <<node, inc, delivered>>

----------------------------------------------------------------------------
(* The network carries the next work request of a queue pair (external). *)

Complete(n, e) == [n EXCEPT !.cq = Append(@, e)]
(* Completions at both ends, which may be one process. *)
CompleteBoth(f, n1, e1, n2, e2) ==
  [n \in Proc |-> LET r == IF n = n1 THEN Complete(f[n], e1) ELSE f[n]
                  IN  IF n = n2 THEN Complete(r, e2) ELSE r]

(* The registered sizes cover the arrays of a message. *)
Registered(m) ==
  \A d \in BodyOf(m).data : node[LinkOf(m).src].mr[d.at] >= d.len

(* A queue pair whose request failed is in the error state and carries no    *)
(* more; the completion that says so ends its process when it is polled.     *)
Broken(l) == \E i \in DOMAIN node[l.src].cq : node[l.src].cq[i] = [op |-> "error", link |-> l]

CarryStart(l) ==
  LET w == Head(out[l].sq) IN
  /\ out[l].sq # <<>> /\ w.op = "start" /\ inc[l].rx > 0
  /\ out' = [out EXCEPT ![l].sq = Tail(@)]
  /\ inc' = [inc EXCEPT ![l].rx = @ - 1]
  /\ node' = CompleteBoth(node,
       l.dst, [op |-> "recv start", link |-> l, msg |-> out[l].startBuf[w.ctx]],
       l.src, [op |-> "sent start", link |-> l, ctx |-> w.ctx])
  /\ UNCHANGED <<thread, bufs, posted, delivered>>

CarryWrite(l) ==
  LET w == Head(out[l].sq) IN
  /\ out[l].sq # <<>> /\ w.op = "write"
  /\ out' = [out EXCEPT ![l].sq = Tail(@)]
  /\ IF Registered(w.msg)
     THEN /\ inc[l].rx > 0
          /\ inc' = [inc EXCEPT ![l].rx = @ - 1]
          /\ node' = CompleteBoth([node EXCEPT ![l.dst].mem = Put(@, w.to, w.msg)],
               l.dst, [op |-> "written", link |-> l, idx |-> w.idx],
               l.src, [op |-> "wrote", link |-> l, ctx |-> w.ctx])
     ELSE /\ node' = [node EXCEPT ![l.src] = Complete(@, [op |-> "error", link |-> l])]
          /\ inc' = inc
  /\ UNCHANGED <<thread, bufs, posted, delivered>>

CarryReply(l) ==
  LET w == Head(inc[l].sq) IN
  /\ inc[l].sq # <<>> /\ out[l].rx > 0
  /\ inc' = [inc EXCEPT ![l].sq = Tail(@)]
  /\ out' = [out EXCEPT ![l].rx = @ - 1]
  /\ node' = CompleteBoth(node,
       l.src, [op |-> "recv reply", link |-> l, reply |-> inc[l].replyBuf[w.ctx]],
       l.dst, [op |-> "sent reply", link |-> l, ctx |-> w.ctx])
  /\ UNCHANGED <<thread, bufs, posted, delivered>>

----------------------------------------------------------------------------
(* PollCQ, one completion at a time. *)

Polls(n, op) == node[n].cq # <<>> /\ Head(node[n].cq).op = op
Polled(n) == [node[n] EXCEPT !.cq = Tail(@)]

(* Mutant: the context goes into the queue of the other kind. *)
PollSentWrong(n) ==
  LET e == Head(node[n].cq) IN
  /\ \/ /\ Polls(n, "sent start")
        /\ out' = [out EXCEPT ![e.link].write = Append(@, e.ctx)]
        /\ inc' = inc
     \/ /\ Polls(n, "sent reply")
        /\ inc' = [inc EXCEPT ![e.link].reply = Append(@, e.ctx)]
        /\ out' = out
  /\ node' = [node EXCEPT ![n] = Polled(n)]
  /\ UNCHANGED <<thread, bufs, posted, delivered>>

PollSent(n) ==
  LET e == Head(node[n].cq) IN
  /\ \/ /\ Polls(n, "sent start")
        /\ out' = [out EXCEPT ![e.link].start = Append(@, e.ctx)]
        /\ inc' = inc
     \/ /\ Polls(n, "sent reply")
        /\ inc' = [inc EXCEPT ![e.link].reply = Append(@, e.ctx)]
        /\ out' = out
  /\ node' = [node EXCEPT ![n] = Polled(n)]
  /\ UNCHANGED <<thread, bufs, posted, delivered>>

PollError(n) ==
  /\ Polls(n, "error")
  /\ Fail(n, "wc.status")
  /\ UNCHANGED <<out, inc, thread, bufs, posted, delivered>>

(* Mutant: the index stays in the queue. *)
StoreAddressShared(p, ctx) == [p EXCEPT !.table = Put(@, Head(p.free), ctx)]

(* AddressPool: an index for a buffer context, and the context for an index. *)
StoreAddress(p, ctx) == [p EXCEPT !.free = Tail(@), !.table = Put(@, Head(p.free), ctx)]
GetAddressAndRelease(p, idx) == [p EXCEPT !.free = Append(@, idx), !.table = Drop(@, idx)]

(* Mutant: the receive is posted twice. *)
PollStartRepost(n) ==
  LET e == Head(node[n].cq)
      l == e.link
      b == BodyOf(e.msg)
      i == Head(inc[l].reply)
      idx == Head(node[n].free)
  IN  /\ Polls(n, "recv start")
      /\ inc[l].reply # <<>>
      /\ IF node[n].free = <<>>
         THEN Fail(n, "table_[idx]") /\ inc' = inc
         ELSE \E a \in Alloc(node[n].pool, b.meta + b.bytes) :
                /\ node' = [node EXCEPT ![n] =
                     StoreAddress([Polled(n) EXCEPT !.pool = a.pool], [addr |-> a.addr, msg |-> e.msg])]
                /\ inc' = [inc EXCEPT
                     ![l].reply = Tail(@), ![l].rx = @ + 2,
                     ![l].replyBuf = Put(@, i, [to |-> a.addr, msg |-> e.msg, idx |-> idx]),
                     ![l].sq = Append(@, [op |-> "reply", ctx |-> i])]
      /\ UNCHANGED <<out, thread, bufs, posted, delivered>>

(* A START: a buffer for the message, a reply context, which the thread      *)
(* waits for, an index, the REPLY, and the receive is posted again. Taking   *)
(* an index when there is none is undefined: the queue gives an old one, and *)
(* all are in use.                                                           *)
PollStart(n) ==
  LET e == Head(node[n].cq)
      l == e.link
      b == BodyOf(e.msg)
      i == Head(inc[l].reply)
      idx == Head(node[n].free)
  IN  /\ Polls(n, "recv start")
      /\ inc[l].reply # <<>>
      /\ IF node[n].free = <<>>
         THEN Fail(n, "table_[idx]") /\ inc' = inc
         ELSE \E a \in Alloc(node[n].pool, b.meta + b.bytes) :
                /\ node' = [node EXCEPT ![n] =
                     StoreAddress([Polled(n) EXCEPT !.pool = a.pool], [addr |-> a.addr, msg |-> e.msg])]
                /\ inc' = [inc EXCEPT
                     ![l].reply = Tail(@), ![l].rx = @ + 1,
                     ![l].replyBuf = Put(@, i, [to |-> a.addr, msg |-> e.msg, idx |-> idx]),
                     ![l].sq = Append(@, [op |-> "reply", ctx |-> i])]
      /\ UNCHANGED <<out, thread, bufs, posted, delivered>>

(* A REPLY: the write, with the context that SendMsg has reserved. A message *)
(* buffer that has been deleted still names a block of the pool that is no   *)
(* longer handed out, and using it ends in a failed CHECK sooner or later.   *)
PollReply(n) ==
  LET e == Head(node[n].cq)
      l == e.link
      m == e.reply.msg
      i == bufs[m].write
  IN  /\ Polls(n, "recv reply")
      /\ IF m \notin DOMAIN bufs
         THEN Fail(n, "deleted") /\ out' = out
         ELSE /\ node' = [node EXCEPT ![n] = Polled(n)]
              /\ out' = [out EXCEPT ![l].rx = @ + 1, ![l].writeBuf = Put(@, i, m),
                                    ![l].sq = Append(@, [op |-> "write", ctx |-> i, to |-> e.reply.to,
                                                         idx |-> e.reply.idx, msg |-> m])]
      /\ UNCHANGED <<inc, thread, bufs, posted, delivered>>

(* Mutant: the block of the meta data is not freed. *)
PollWroteKeeps(n) ==
  LET e == Head(node[n].cq)
      l == e.link
      m == out[l].writeBuf[e.ctx]
  IN  /\ Polls(n, "wrote")
      /\ IF m \notin DOMAIN bufs
         THEN Fail(n, "deleted") /\ UNCHANGED <<out, bufs>>
         ELSE /\ node' = [node EXCEPT ![n] = Polled(n)]
              /\ bufs' = Drop(bufs, m)
              /\ out' = [out EXCEPT ![l].write = Append(@, e.ctx)]
      /\ UNCHANGED <<inc, thread, posted, delivered>>

(* Mutant: the write context is not given back. *)
PollWroteLoses(n) ==
  LET e == Head(node[n].cq)
      l == e.link
      m == out[l].writeBuf[e.ctx]
  IN  /\ Polls(n, "wrote")
      /\ IF m \notin DOMAIN bufs
         THEN Fail(n, "deleted") /\ UNCHANGED <<out, bufs>>
         ELSE /\ node' = [node EXCEPT ![n] = [Polled(n) EXCEPT !.pool = Free(@, bufs[m].inline)]]
              /\ bufs' = Drop(bufs, m)
              /\ out' = out
      /\ UNCHANGED <<inc, thread, posted, delivered>>

(* The write is done: the message buffer whose address is in the context is  *)
(* freed and the context with it.                                            *)
PollWrote(n) ==
  LET e == Head(node[n].cq)
      l == e.link
      m == out[l].writeBuf[e.ctx]
  IN  /\ Polls(n, "wrote")
      /\ IF m \notin DOMAIN bufs
         THEN Fail(n, "deleted") /\ UNCHANGED <<out, bufs>>
         ELSE /\ node' = [node EXCEPT ![n] = [Polled(n) EXCEPT !.pool = Free(@, bufs[m].inline)]]
              /\ bufs' = Drop(bufs, m)
              /\ out' = [out EXCEPT ![l].write = Append(@, e.ctx)]
      /\ UNCHANGED <<inc, thread, posted, delivered>>

(* The other side's write is done: the buffer goes to RecvMsg. *)
PollWritten(n) ==
  LET e == Head(node[n].cq) IN
  /\ Polls(n, "written")
  /\ IF e.idx \notin DOMAIN node[n].table
     THEN Fail(n, "ptr") /\ inc' = inc
     ELSE /\ node' = [node EXCEPT ![n] =
               [GetAddressAndRelease(Polled(n), e.idx) EXCEPT
                  !.recv = Append(@, [link |-> e.link, ctx |-> node[n].table[e.idx]])]]
          /\ inc' = [inc EXCEPT ![e.link].rx = @ + 1]
  /\ UNCHANGED <<out, thread, bufs, posted, delivered>>

----------------------------------------------------------------------------
(* RecvMsg: the message is read from the buffer (and not looked at again, so *)
(* the model forgets it) and its meta data, which SendMsg packs with         *)
(* PackMetaPB, unpacked; arrays of data keep the buffer until all are        *)
(* released, without any it is freed at once.                                *)
Received(l, m) == W!UnpackMeta(W!PackMetaPB(BodyOf(m).head), l.src, l.dst)
RecvMsg(n) ==
  LET r == Head(node[n].recv)
      a == r.ctx.addr
      arrays == BodyOf(r.ctx.msg).arrays
      body == IF a \in DOMAIN node[n].mem THEN node[n].mem[a] ELSE None
  IN  /\ node[n].recv # <<>>
      /\ delivered' = [delivered EXCEPT ![r.link] =
           Append(@, [body |-> body, lens |-> r.ctx.msg,
                      head |-> IF a \in DOMAIN node[n].mem THEN Received(r.link, body) ELSE None])]
      /\ node' = [node EXCEPT ![n].recv = Tail(@), ![n].mem = Drop(@, a),
                              ![n].blocks = IF arrays > 0 THEN Put(@, a, arrays) ELSE @,
                              ![n].pool = IF arrays > 0 THEN @ ELSE Free(@, a)]
      /\ UNCHANGED <<out, inc, thread, bufs, posted>>

(* An array of a delivered message is dropped by whoever has it: Release. *)
Release(n) ==
  /\ \E a \in DOMAIN node[n].blocks :
       node' = [node EXCEPT
         ![n].blocks = IF @[a] = 1 THEN Drop(@, a) ELSE Put(@, a, @[a] - 1),
         ![n].pool = IF node[n].blocks[a] = 1 THEN Free(@, a) ELSE @]
  /\ UNCHANGED <<out, inc, thread, bufs, posted, delivered>>

----------------------------------------------------------------------------
PollCQ(n) == PollSent(n) \/ PollError(n) \/ PollStart(n) \/ PollReply(n) \/ PollWrote(n) \/ PollWritten(n)
PollEvents(l) ==
  OnRouteResolved(l) \/ OnRejected(l) \/ OnConnectRequest(l) \/ OnConnected(l)
Send(t) == Prepare(t) \/ TakeWriteContext(t) \/ PostStart(t)
Carry(l) == ~ Broken(l) /\ (CarryStart(l) \/ CarryWrite(l) \/ CarryReply(l))

(* A failed CHECK ends its process; what others do then is not followed. *)
Next ==
  /\ \A n \in Proc : Alive(n)
  /\ \/ \E n \in Proc : Bind(n) \/ PollCQ(n) \/ RecvMsg(n) \/ Release(n)
     \/ \E l \in Link : Connect(l) \/ PollEvents(l) \/ Carry(l)
     \/ \E t \in Thread : Send(t)

Spec == Init /\ [][Next]_vars

(* Every step uses up something - a message, a work request, a completion, an *)
(* attempt - so it is enough that the system as a whole does not stop while  *)
(* some thread, or the network, can go on.                                   *)
FairSpec == Spec /\ WF_vars(Next)

----------------------------------------------------------------------------
TypeOK ==
  /\ \A n \in Proc :
       /\ node[n].listening \in BOOLEAN
       /\ node[n].pool \in Pool
       /\ node[n].free \in Seq(1 .. MaxEntries)
       /\ DOMAIN node[n].table \subseteq 1 .. MaxEntries
       /\ node[n].ended \in {None, "wc.status", "table_[idx]", "deleted", "ptr"}
  /\ \A l \in Link :
       /\ out[l].status \in {"idle", "connecting", "requested", "accepted", "connected", "rejected"}
       /\ out[l].start \in Seq(1 .. Depth) /\ out[l].write \in Seq(1 .. Depth)
       /\ out[l].rx \in 0 .. RxDepth /\ inc[l].rx \in 0 .. RxDepth
       /\ inc[l].reply \in Seq(1 .. ReplyDepth)
  /\ DOMAIN bufs \subseteq Msg
  /\ \A t \in Thread : thread[t].pc \in {"idle", "prepared", "reserved"}

(* SimpleMempool: whatever is allocated and freed by senders, the poller and *)
(* the holders of delivered arrays, blocks never overlap, none is lost, and  *)
(* the key sent to the writer is that of the region the block lies in.       *)
PoolsSound == \A n \in Proc : PoolSound(node[n].pool) /\ KeysRight(node[n].pool)

(* The owners of a process's blocks: the buffers of messages being sent,     *)
(* those waiting to be written, to be read, and the delivered ones.          *)
Owners(n) ==
  {<<"send", m, bufs[m].inline>> : m \in {x \in DOMAIN bufs : LinkOf(x).src = n}} \cup
  {<<"table", i, node[n].table[i].addr>> : i \in DOMAIN node[n].table} \cup
  {<<"recv", i, node[n].recv[i].ctx.addr>> : i \in DOMAIN node[n].recv} \cup
  {<<"block", None, a>> : a \in DOMAIN node[n].blocks}

(* SendMsg, PollCQ, RecvMsg and Block together free every block once: in any *)
(* state each block in use has one owner, and each owner's block is in use.  *)
BlocksHaveOneOwner ==
  \A n \in Proc :
    /\ \A o \in Owners(n) : IsUsed(node[n].pool, o[3])
    /\ Cardinality(Owners(n)) = Cardinality(node[n].pool.used)

Sound(l) == out[l].rejects = 0

(* The contexts of a link at work: START work requests and their completions *)
(* and the write contexts that threads and message buffers hold.             *)
StartsBusy(l) == {i \in DOMAIN out[l].sq : out[l].sq[i].op = "start"}
StartsDone(l) ==
  LET cq == node[l.src].cq IN {i \in DOMAIN cq : cq[i].op = "sent start" /\ cq[i].link = l}
WritesReserved(l) == {t \in Thread : Via[t] = l /\ thread[t].pc = "reserved"}
WritesHeld(l) == {m \in DOMAIN bufs : LinkOf(m) = l /\ bufs[m].write # None}

(* SendMsg takes the reserved context first "to avoid deadlock". As long as  *)
(* no attempt to connect was rejected, no context is in two hands or lost;   *)
(* whoever has a write context finds a start context at once; and the one    *)
(* thread that could give reply contexts back never waits for one.           *)
ContextsSuffice ==
  \A l \in Link : Sound(l) /\ out[l].status = "connected" =>
    /\ Len(out[l].start) + Cardinality(StartsBusy(l)) + Cardinality(StartsDone(l)) = Depth
    /\ Len(out[l].write) + Cardinality(WritesReserved(l)) + Cardinality(WritesHeld(l)) = Depth
    /\ WritesReserved(l) # {} => out[l].start # <<>>
    /\ Polls(l.dst, "recv start") /\ Head(node[l.dst].cq).link = l => inc[l].reply # <<>>

(* The meta data a handler may read at the other side: all that was sent but *)
(* pull, which PackMetaPB forgets, and the size.                             *)
Arrives(l, head) ==
  [head EXCEPT !.sender = l.src, !.recver = l.dst, !.pull = FALSE, !.data_size = 0]

(* What RecvMsg returns from a link are the messages of its STARTs, in that  *)
(* order and once, each with the bytes of the message the lengths belong to: *)
(* no write goes into the buffer of another message, and what PackMetaPB and *)
(* UnpackMeta change of the meta data is the flag of pulls alone.            *)
DeliveredInOrder ==
  \A l \in Link : Sound(l) =>
    /\ Len(delivered[l]) <= Len(posted[l])
    /\ \A i \in DOMAIN delivered[l] :
         delivered[l][i] = [body |-> posted[l][i], lens |-> posted[l][i],
                            head |-> Arrives(l, BodyOf(posted[l][i]).head)]

(* An array at an address that was registered with a smaller size.           *)
Grows(n) ==
  \E m1, m2 \in Msg : LinkOf(m1).src = n /\ LinkOf(m2).src = n /\
    \E d1 \in BodyOf(m1).data, d2 \in BodyOf(m2).data : d1.at = d2.at /\ d1.len < d2.len

(* A CHECK of the van fails only for one of three causes: an address whose   *)
(* registration is smaller than the array that is at it now, contexts that a *)
(* rejected attempt left in the queues twice, or more messages under way to  *)
(* a process than its address pool has entries.                              *)
EndsHaveCauses ==
  \A n \in Proc :
    /\ node[n].ended # "ptr"
    /\ node[n].ended = "wc.status" => Grows(n)
    /\ node[n].ended = "deleted" => \E l \in Link : n \in {l.src, l.dst} /\ ~ Sound(l)
    /\ node[n].ended = "table_[idx]" =>
         Cardinality({l \in Link : l.dst = n}) * Depth > MaxEntries
            \/ \E l \in Link : l.dst = n /\ ~ Sound(l)

(* Every message that a thread is to send is in the end returned by RecvMsg, *)
(* whichever order contexts, receives, buffers and indices come back in:     *)
(* nobody waits for a context that only the waiting thread could give back.  *)
(* Only a failed CHECK or contexts that are in a queue twice prevent it.     *)
Arrived(m) == \E i \in DOMAIN delivered[LinkOf(m)] : delivered[LinkOf(m)][i].body = m
MessagesArrive ==
  <>(\/ \E n \in Proc : ~ Alive(n)
     \/ \A m \in Msg : Arrived(m) \/ ~ Sound(LinkOf(m)))
=============================================================================
