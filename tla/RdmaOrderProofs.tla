-------------------------- MODULE RdmaOrderProofs --------------------------
(***************************************************************************)
(* RecvMsg returns the messages of a link in the order in which SendMsg    *)
(* posted them, each once and whole, for any processes, links, threads,    *)
(* messages and depths of module Rdma.  The postings of a later queue of   *)
(* RdmaLanesProofs are earlier ones and none is missing between them and   *)
(* those delivered, so the buffer that RecvMsg takes holds the next one.   *)
(* That the buffer still holds what was written, and the table entry and   *)
(* the contexts still stand for that message, is the rest of Ordered.      *)
(***************************************************************************)
EXTENDS RdmaLanesProofs

(* The network takes a reply of the target.                                 *)
LEMMA ReplyPopped ==
  ASSUME RdmaAssumption, Typed, NEW l \in Link, NEW w, w = Head(inc[l].sq), inc[l].sq # <<>>,
         inc'[l].sq = Tail(inc[l].sq), inc'[l].replyBuf = inc[l].replyBuf, NEW c, c = inc[l].replyBuf[w.ctx]
  PROVE  Leaves(3, l, c.msg) /\ Leaves(13, l, <<c.idx, c.to, c.msg>>) /\ Leaves(22, l, w.ctx)
<1>1. {3, 13, 22} = IncLanes
  BY DEF IncLanes
<1>2. PICK y : y = inc[l].replyBuf
  OBVIOUS
<1>3. LookupAt(3, l) = y /\ LookupAt(13, l) = y
  BY <1>2, Lookups
<1>4. PICK m, v : m = c.msg /\ v = <<c.idx, c.to, c.msg>> /\ c = y[w.ctx]
  BY <1>2
<1>5. Val(3, l, w, y) = {m} /\ Val(13, l, w, y) = {v} /\ Val(22, l, w, y) = {w.ctx}
  BY ONLY <1>4 DEF Val
<1>6. Leaves(3, l, m)
  BY <1>1, <1>3, <1>5, IncPopped
<1>7. Leaves(13, l, v)
  BY <1>1, <1>3, <1>5, IncPopped
<1>8. Leaves(22, l, w.ctx)
  <2>1. Val(22, l, w, LookupAt(22, l)) = {w.ctx}
    BY DEF Val
  <2>2. QED
    BY <1>1, <2>1, IncPopped
<1>9. QED
  BY <1>4, <1>6, <1>7, <1>8

(* A reply is carried: the message it is for is at the source again.        *)
LEMMA OrderedCarryReply ==
  ASSUME RdmaAssumption, Typed, Ordered, NEW l \in Link, CarryReply(l)
  PROVE  Ordered'
<1>1. PICK w : w = Head(inc[l].sq) /\ inc[l].sq # <<>>
  BY DEF CarryReply
<1>2. PICK e1, e2, c : /\ c = inc[l].replyBuf[w.ctx]
                       /\ e1 = [op |-> "sent reply", link |-> l, ctx |-> w.ctx]
                       /\ e2 = [op |-> "recv reply", link |-> l, reply |-> c]
  OBVIOUS
<1>3. node' = CompleteBoth(node, l.src, e2, l.dst, e1) /\ UNCHANGED <<posted, delivered>>
  BY <1>1, <1>2 DEF CarryReply
<1>4. Completes(l, l.src, e2, l.dst, e1) /\ Carried(l, e1, e2)
  <2>1. \A n \in Proc : "cq" \in DOMAIN node[n]
    BY DEF Typed, Nodes, NodeAt
  <2>2. QED
    BY <2>1, <1>2, <1>3, CompletesBoth DEF Carried
<1>5. \A n \in Proc : node'[n].table = node[n].table /\ node'[n].recv = node[n].recv /\ node'[n].mem = node[n].mem
  <2>1. \A n \in Proc : {"table", "recv", "mem"} \subseteq DOMAIN node[n]
    BY DEF Typed, Nodes, NodeAt
  <2>2. QED
    BY <2>1, <1>3, BothKeep
<1>6. /\ inc'[l].sq = Tail(inc[l].sq) /\ inc'[l].replyBuf = inc[l].replyBuf /\ inc'[l].reply = inc[l].reply
      /\ out'[l].sq = out[l].sq /\ out'[l].startBuf = out[l].startBuf /\ out'[l].start = out[l].start
      /\ out'[l].rejects = out[l].rejects
      /\ \A q \in Link \ {l} : out'[q] = out[q] /\ inc'[q] = inc[q]
  BY DEF CarryReply, Typed, Outs, OutAt, Incs, IncAt
<1>7. \A q \in Link \ {l} : Alone(q)
  <2>1. e1.op \in {"recv start", "written", "sent reply"} /\ e2.op \in {"sent start", "wrote", "recv reply"}
    BY <1>2
  <2>2. \A n \in Proc : node'[n].table = node[n].table /\ node'[n].recv = node[n].recv
    BY <1>5
  <2>3. ASSUME NEW q \in Link \ {l} PROVE Alone(q)
    BY <2>1, <2>2, <1>3, <1>4, <1>6, CarryElsewhere
  <2>4. QED
    BY <2>3
<1>8. PICK m, v : m = c.msg /\ v = <<c.idx, c.to, c.msg>>
  OBVIOUS
<1>9. Leaves(3, l, m) /\ Leaves(13, l, v) /\ Leaves(22, l, w.ctx)
  BY <1>1, <1>2, <1>6, <1>8, ReplyPopped
<1>10. /\ Enters(4, l, m) /\ Enters(14, l, v) /\ Enters(23, l, w.ctx)
       /\ Stays(2, l) /\ Stays(6, l) /\ Stays(16, l) /\ Stays(33, l)
  <2>1. e1.op = "sent reply" /\ e1.ctx = w.ctx /\ e2.op = "recv reply" /\ e2.reply = c
    BY <1>2
  <2>2. e1.op \in {"recv start", "written", "sent reply"} /\ e2.op \in {"sent start", "wrote", "recv reply"}
    BY <2>1
  <2>3. \A n \in Proc : node'[n].table = node[n].table
    BY <1>5
  <2>4. /\ Enters(23, l, e1.ctx) /\ Stays(2, l) /\ Stays(6, l) /\ Stays(16, l)
        /\ Enters(4, l, e2.reply.msg) /\ Enters(14, l, <<e2.reply.idx, e2.reply.to, e2.reply.msg>>)
        /\ Stays(33, l)
    BY <2>1, <2>2, <2>3, <1>4, Completed
  <2>5. QED
    BY <2>1, <2>4, <1>8
<1>11. \A k \in Lanes \ {3, 13, 22, 4, 14, 23} : Stays(k, l)
  <2>1. ASSUME NEW k \in OutLanes \cup {7, 31, 21} PROVE Stays(k, l)
    <3>1. k \in Lanes /\ k \notin IncLanes /\ k \notin SrcLanes /\ k \notin DstLanes
      BY LaneKinds, LaneGroups DEF IncLanes, SrcLanes, DstLanes
    <3>2. l.dst \in Proc
      BY LaneTypes
    <3>3. QED
      BY <3>1, <3>2, <1>5, <1>6, LaneRest
  <2>2. \A k \in IncLanes \cup SrcLanes \cup DstLanes : k \in {3, 13, 22, 4, 14, 23} \/ Stays(k, l)
    BY <1>10 DEF IncLanes, SrcLanes, DstLanes
  <2>3. QED
    BY <2>1, <2>2, LaneGroups
<1>12. OwnContexts(l) /\ Orderly(l) /\ OwnEntries(l.dst) /\ OwnBuffers(l.dst) /\ l.dst \in Proc /\ l \in To(l.dst)
  BY LaneTypes DEF Ordered, To
<1>13. (Sound(l)' => Sound(l)) /\ (Faults(l) # {} => Faults(l)' # {})
  BY <1>4, <1>6, FaultsCompleted DEF Sound
<1>14. OwnContexts(l)'
  <2>1. 22 \in Answers /\ 23 \in Answers /\ 22 # 23
        /\ (Answers \cup Starts) \ {22, 23} \subseteq Lanes \ {3, 13, 22, 4, 14, 23}
    BY DEF Starts, Answers, Lanes
  <2>2. QED
    BY <2>1, <1>9, <1>10, <1>11, <1>12, <1>13, AnswersMove
<1>15. Orderly(l)'
  <2>1. Len(delivered[l]) \in Nat
    BY DEF Ordered, Histories
  <2>2. 3 \in 1 .. 6 /\ 4 = 3 + 1 /\ 3 # 5 /\ Stages \ {3, 4} \subseteq Lanes \ {3, 13, 22, 4, 14, 23}
    BY DEF Stages, Lanes
  <2>3. QED
    BY <2>1, <2>2, <1>3, <1>9, <1>10, <1>11, <1>12, <1>13, OrderlyMoves
<1>16. /\ \A q \in To(l.dst), k \in Entries : q # l \/ k \notin {13, 14} => Stays(k, q)
       /\ \A q \in To(l.dst) : Stays(16, q)
  <2>1. Entries \subseteq Lanes /\ Entries \ {13, 14} \subseteq Lanes \ {3, 13, 22, 4, 14, 23}
        /\ 16 \in Entries \ {13, 14}
    BY DEF Entries, Lanes
  <2>2. QED
    BY <2>1, <1>7, <1>11 DEF To, Alone
<1>17. OwnEntries(l.dst)'
  <2>1. 13 \in Entries /\ 14 \in Entries /\ 13 # 14
    BY DEF Entries
  <2>2. QED
    BY <2>1, <1>5, <1>9, <1>10, <1>12, <1>16, EntriesMove
<1>18. OwnBuffers(l.dst)'
  BY <1>5, <1>12, <1>16, BuffersStay
<1>19. Histories'
  BY <1>3, HistoriesKept DEF Ordered
<1>20. \A n \in Proc : Untouched(n)
  BY <1>5 DEF Untouched
<1>21. QED
  BY <1>7, <1>14, <1>15, <1>17, <1>18, <1>19, <1>20, OrderedLink

----------------------------------------------------------------------------
(* Completions polled.                                                       *)

(* The written completions behind the first find the entry they found.       *)
Searched(n) ==
  \A i \in DOMAIN Tail(node[n].cq) :
    Tail(node[n].cq)[i].op = "written" =>
      node'[n].table[Tail(node[n].cq)[i].idx] = node[n].table[Tail(node[n].cq)[i].idx]

(* What the polled completion was about leaves its lanes.                    *)
LEMMA HeadPolled ==
  ASSUME RdmaAssumption, Typed, NEW n \in Proc, NEW e, Takes(n, e), Searched(n), NEW l \in Link, l = e.link
  PROVE  /\ e.op = "recv start" => /\ Leaves(2, l, e.msg)
                                   /\ \A k \in (SrcLanes \cup DstLanes) \ {2} : Stays(k, l)
         /\ e.op = "sent reply" => /\ Leaves(23, l, e.ctx)
                                   /\ \A k \in (SrcLanes \cup DstLanes) \ {23} : Stays(k, l)
         /\ e.op = "sent start" => /\ Leaves(33, l, e.ctx)
                                   /\ \A k \in (SrcLanes \cup DstLanes) \ {33} : Stays(k, l)
         /\ e.op = "wrote" => \A k \in SrcLanes \cup DstLanes : Stays(k, l)
<1>0. e.link = l
  OBVIOUS
<1>1. e \in EventAt(n, thread, out)
  BY PolledAt DEF Takes
<1>2. /\ e.op \in {"recv start", "written", "sent reply"} => l.dst = n
      /\ e.op \in {"sent start", "recv reply", "wrote"} => l.src = n
  <2>1. /\ e.op = "recv start" \/ e.op = "written" \/ e.op = "sent reply" => e.link.dst = n
        /\ e.op = "sent start" \/ e.op = "recv reply" \/ e.op = "wrote" \/ e.op = "error" => e.link.src = n
    BY ONLY <1>1, EventEnds
  <2>2. QED
    BY <2>1
<1>3. /\ {2, 6, 16, 23} = DstLanes /\ {4, 14, 33} = SrcLanes
      /\ \A k \in DstLanes : k \notin SrcLanes
  BY DEF DstLanes, SrcLanes
<1>4. ASSUME NEW k \in SrcLanes \cup DstLanes
      PROVE  /\ Val(k, l, e, LookupAt(k, l)) = {} => Stays(k, l)
             /\ \A v : /\ Val(k, l, e, LookupAt(k, l)) = {v}
                       /\ IF k \in SrcLanes THEN l.src = n ELSE l.dst = n
                       => Leaves(k, l, v)
  BY OnePolled DEF Searched
<1>5. /\ e.op \notin {"recv reply", "sent start"} => \A k \in SrcLanes : Stays(k, l)
      /\ e.op \notin {"recv start", "written", "sent reply"} => \A k \in DstLanes : Stays(k, l)
  <2>1. ASSUME NEW k \in SrcLanes, e.op \notin {"recv reply", "sent start"} PROVE Stays(k, l)
    <3>1. Val(k, l, e, LookupAt(k, l)) = {}
      BY <2>1, ValuesSrc
    <3>2. QED
      BY <3>1, <1>4
  <2>2. ASSUME NEW k \in DstLanes, e.op \notin {"recv start", "written", "sent reply"} PROVE Stays(k, l)
    <3>1. Val(k, l, e, LookupAt(k, l)) = {}
      BY <2>2, ValuesDst
    <3>2. QED
      BY <3>1, <1>4
  <2>3. QED
    BY <2>1, <2>2
<1>6. ASSUME e.op = "recv start"
      PROVE  Leaves(2, l, e.msg) /\ \A k \in (SrcLanes \cup DstLanes) \ {2} : Stays(k, l)
  <2>1. \A x : Val(2, l, e, x) = {e.msg} /\ Val(6, l, e, x) = {} /\ Val(16, l, e, x) = {} /\ Val(23, l, e, x) = {}
    <3>1. ASSUME NEW x
          PROVE  Val(2, l, e, x) = {e.msg} /\ Val(6, l, e, x) = {} /\ Val(16, l, e, x) = {} /\ Val(23, l, e, x) = {}
      BY ONLY <1>0, <1>6, ValuesCame
    <3>2. QED
      BY <3>1
  <2>2. Leaves(2, l, e.msg)
    BY <2>1, <1>2, <1>3, <1>4, <1>6
  <2>3. Stays(6, l)
    BY <2>1, <1>3, <1>4
  <2>4. Stays(16, l)
    BY <2>1, <1>3, <1>4
  <2>5. Stays(23, l)
    BY <2>1, <1>3, <1>4
  <2>6. \A k \in SrcLanes : Stays(k, l)
    <3>1. e.op \notin {"recv reply", "sent start"}
      BY <1>6
    <3>2. QED
      BY <3>1, <1>5
  <2>7. QED
    BY <2>2, <2>3, <2>4, <2>5, <2>6, <1>3
<1>7. ASSUME e.op = "sent reply"
      PROVE  Leaves(23, l, e.ctx) /\ \A k \in (SrcLanes \cup DstLanes) \ {23} : Stays(k, l)
  <2>1. \A x : Val(2, l, e, x) = {} /\ Val(6, l, e, x) = {} /\ Val(16, l, e, x) = {} /\ Val(23, l, e, x) = {e.ctx}
    BY ONLY <1>0, <1>7, ValuesEach
  <2>2. Leaves(23, l, e.ctx)
    BY <2>1, <1>2, <1>3, <1>4, <1>7
  <2>3. Stays(2, l)
    BY <2>1, <1>3, <1>4
  <2>4. Stays(6, l)
    BY <2>1, <1>3, <1>4
  <2>5. Stays(16, l)
    BY <2>1, <1>3, <1>4
  <2>6. \A k \in SrcLanes : Stays(k, l)
    <3>1. e.op \notin {"recv reply", "sent start"}
      BY <1>7
    <3>2. QED
      BY <3>1, <1>5
  <2>7. QED
    BY <2>2, <2>3, <2>4, <2>5, <2>6, <1>3
<1>8. ASSUME e.op = "sent start"
      PROVE  Leaves(33, l, e.ctx) /\ \A k \in (SrcLanes \cup DstLanes) \ {33} : Stays(k, l)
  <2>1. \A x : Val(4, l, e, x) = {} /\ Val(14, l, e, x) = {} /\ Val(33, l, e, x) = {e.ctx}
    <3>1. ASSUME NEW x PROVE Val(4, l, e, x) = {} /\ Val(14, l, e, x) = {} /\ Val(33, l, e, x) = {e.ctx}
      BY ONLY <1>0, <1>8, ValuesSent
    <3>2. QED
      BY <3>1
  <2>2. Leaves(33, l, e.ctx)
    BY <2>1, <1>2, <1>3, <1>4, <1>8
  <2>3. Stays(4, l)
    BY <2>1, <1>3, <1>4
  <2>4. Stays(14, l)
    BY <2>1, <1>3, <1>4
  <2>5. \A k \in DstLanes : Stays(k, l)
    BY <1>5, <1>8
  <2>6. QED
    BY <2>2, <2>3, <2>4, <2>5, <1>3
<1>9. ASSUME e.op = "wrote" PROVE \A k \in SrcLanes \cup DstLanes : Stays(k, l)
  BY <1>3, <1>5, <1>9
<1>10. QED
  BY <1>6, <1>7, <1>8, <1>9

(* The same of a REPLY, and of the completion of the other side's write.     *)
LEMMA ReplyPolled ==
  ASSUME RdmaAssumption, Typed, NEW n \in Proc, NEW e, Takes(n, e), Searched(n), NEW l \in Link, l = e.link,
         e.op = "recv reply", NEW c, c = e.reply
  PROVE  /\ Leaves(4, l, c.msg) /\ Leaves(14, l, <<c.idx, c.to, c.msg>>)
         /\ \A k \in (SrcLanes \cup DstLanes) \ {4, 14} : Stays(k, l)
<1>0. e.link = l
  OBVIOUS
<1>1. e \in EventAt(n, thread, out)
  BY PolledAt DEF Takes
<1>2. l.src = n
  <2>1. /\ e.op = "recv start" \/ e.op = "written" \/ e.op = "sent reply" => e.link.dst = n
        /\ e.op = "sent start" \/ e.op = "recv reply" \/ e.op = "wrote" \/ e.op = "error" => e.link.src = n
    BY ONLY <1>1, EventEnds
  <2>2. QED
    BY <2>1
<1>3. {2, 6, 16, 23} = DstLanes /\ {4, 14, 33} = SrcLanes
  BY DEF DstLanes, SrcLanes
<1>4. ASSUME NEW k \in SrcLanes \cup DstLanes
      PROVE  /\ Val(k, l, e, LookupAt(k, l)) = {} => Stays(k, l)
             /\ \A v : /\ Val(k, l, e, LookupAt(k, l)) = {v}
                       /\ IF k \in SrcLanes THEN l.src = n ELSE l.dst = n
                       => Leaves(k, l, v)
  BY OnePolled DEF Searched
<1>5. ASSUME NEW k \in DstLanes PROVE Stays(k, l)
  <2>1. Val(k, l, e, LookupAt(k, l)) = {}
    BY ValuesDst
  <2>2. QED
    BY <2>1, <1>4
<1>6. \A x : Val(4, l, e, x) = {c.msg} /\ Val(14, l, e, x) = {<<c.idx, c.to, c.msg>>} /\ Val(33, l, e, x) = {}
  <2>1. IsReply(l, e, c)
    BY DEF IsReply
  <2>2. ASSUME NEW x PROVE Val(4, l, e, x) = {c.msg} /\ Val(14, l, e, x) = {<<c.idx, c.to, c.msg>>} /\ Val(33, l, e, x) = {}
    BY ONLY <2>1, ValuesReply
  <2>3. QED
    BY <2>2
<1>7. Leaves(4, l, c.msg)
  BY <1>2, <1>3, <1>4, <1>6
<1>8. Leaves(14, l, <<c.idx, c.to, c.msg>>)
  BY <1>2, <1>3, <1>4, <1>6
<1>9. Stays(33, l)
  BY <1>2, <1>3, <1>4, <1>6
<1>10. QED
  BY <1>3, <1>5, <1>7, <1>8, <1>9

(* The target polls the completion of a write: the entry it names and its   *)
(* message leave their lanes.                                               *)
LEMMA WrittenPolled ==
  ASSUME RdmaAssumption, Typed, NEW n \in Proc, NEW e, Takes(n, e), Searched(n), NEW l \in Link, l = e.link,
         e.op = "written", NEW c, c = node[n].table[e.idx]
  PROVE  /\ Leaves(6, l, c.msg) /\ Leaves(16, l, <<e.idx, c.addr, c.msg>>)
         /\ \A k \in (SrcLanes \cup DstLanes) \ {6, 16} : Stays(k, l)
<1>0. e.link = l
  OBVIOUS
<1>1. e \in EventAt(n, thread, out)
  BY PolledAt DEF Takes
<1>2. l.dst = n
  <2>1. /\ e.op = "recv start" \/ e.op = "written" \/ e.op = "sent reply" => e.link.dst = n
        /\ e.op = "sent start" \/ e.op = "recv reply" \/ e.op = "wrote" \/ e.op = "error" => e.link.src = n
    BY ONLY <1>1, EventEnds
  <2>2. QED
    BY <2>1
<1>3. {2, 6, 16, 23} = DstLanes /\ {4, 14, 33} = SrcLanes /\ \A k \in DstLanes : k \notin SrcLanes
  BY DEF DstLanes, SrcLanes
<1>4. ASSUME NEW k \in SrcLanes \cup DstLanes
      PROVE  /\ Val(k, l, e, LookupAt(k, l)) = {} => Stays(k, l)
             /\ \A v : /\ Val(k, l, e, LookupAt(k, l)) = {v}
                       /\ IF k \in SrcLanes THEN l.src = n ELSE l.dst = n
                       => Leaves(k, l, v)
  BY OnePolled DEF Searched
<1>5. ASSUME NEW k \in SrcLanes PROVE Stays(k, l)
  <2>1. Val(k, l, e, LookupAt(k, l)) = {}
    BY ValuesSrc
  <2>2. QED
    BY <2>1, <1>4
<1>6. PICK x, i, a, m : x = node[n].table /\ i = e.idx /\ a = x[e.idx].addr /\ m = x[e.idx].msg
  OBVIOUS
<1>7. Val(6, l, e, x) = {m} /\ Val(16, l, e, x) = {<<i, a, m>>}
  <2>1. e.op = "written"
    OBVIOUS
  <2>2. QED
    BY ONLY <1>0, <1>6, <2>1, ValuesWrite
<1>8. \A k \in {2, 23} : Val(k, l, e, LookupAt(k, l)) = {}
  <2>1. e.op = "written"
    OBVIOUS
  <2>2. ASSUME NEW y PROVE Val(2, l, e, y) = {} /\ Val(23, l, e, y) = {}
    <3>1. PICK b, f : b = y[e.idx].addr /\ f = y[e.idx].msg
      OBVIOUS
    <3>2. QED
      BY ONLY <1>0, <1>6, <2>1, <3>1, ValuesWrite
  <2>3. QED
    BY <2>2
<1>9. LookupAt(6, l) = x /\ LookupAt(16, l) = x
  BY <1>2, <1>6, Lookups
<1>10. Leaves(6, l, m)
  BY <1>2, <1>3, <1>4, <1>7, <1>9
<1>11. Leaves(16, l, <<i, a, m>>)
  BY <1>2, <1>3, <1>4, <1>7, <1>9
<1>12. Stays(2, l) /\ Stays(23, l)
  BY <1>3, <1>4, <1>8
<1>13. QED
  BY <1>3, <1>5, <1>6, <1>10, <1>11, <1>12

(* The other links.                                                          *)
LEMMA PollElsewhere ==
  ASSUME RdmaAssumption, Typed, NEW n \in Proc, NEW e, Takes(n, e), Searched(n), e.op # "error",
         NEW q \in Link, q # e.link, out'[q] = out[q], inc'[q] = inc[q], posted'[q] = posted[q],
         delivered'[q] = delivered[q], q.dst = n => Stays(7, q)
  PROVE  Alone(q)
<1>1. q.src \in Proc /\ q.dst \in Proc
  BY LaneTypes
<1>2. ASSUME NEW k \in Lanes PROVE Stays(k, q)
  <2>1. CASE k \in SrcLanes \cup DstLanes
    BY <2>1, OnePolled DEF Searched
  <2>2. CASE k \notin SrcLanes \cup DstLanes /\ (k # 7 \/ q.dst # n)
    <3>1. k = 7 => node'[q.dst].recv = node[q.dst].recv
      BY <2>2, <1>1 DEF Takes
    <3>2. QED
      BY <2>2, <3>1, LaneRest
  <2>3. QED
    BY <2>1, <2>2
<1>3. Faults(q) # {} => Faults(q)' # {}
  BY FaultsTaken
<1>4. QED
  BY <1>2, <1>3 DEF Alone, Sound
(* A step that takes a completion and leaves the tables and buffers alone.   *)
LEMMA PolledAlone ==
  ASSUME Typed, NEW n \in Proc, node[n].cq # <<>>, NEW r, node' = [node EXCEPT ![n] = r],
         r.cq = Polled(n).cq, r.table = node[n].table, r.recv = node[n].recv, r.mem = node[n].mem
  PROVE  Takes(n, Head(node[n].cq)) /\ Searched(n) /\ \A p \in Proc : Untouched(p)
<1>1. Takes(n, Head(node[n].cq))
  BY TakesRecord
<1>2. DOMAIN node = Proc
  BY DEF Typed, Nodes
<1>3. node'[n] = r /\ \A p \in Proc \ {n} : node'[p] = node[p]
  BY <1>2
<1>4. \A p \in Proc : Untouched(p)
  BY <1>3 DEF Untouched
<1>5. Searched(n)
  BY <1>3 DEF Searched
<1>6. QED
  BY <1>1, <1>4, <1>5

(* A context is put into its queue or taken from it.                         *)
LEMMA ContextMoves ==
  ASSUME RdmaAssumption, Typed, NEW l \in Link, NEW c
  PROVE  /\ out'[l].start = Append(out[l].start, c) => Enters(31, l, c)
         /\ inc'[l].reply = Append(inc[l].reply, c) => Enters(21, l, c)
         /\ out[l].start # <<>> /\ out'[l].start = Tail(out[l].start) => Leaves(31, l, Head(out[l].start))
         /\ inc[l].reply # <<>> /\ inc'[l].reply = Tail(inc[l].reply) => Leaves(21, l, Head(inc[l].reply))
<1>1. 31 \in Lanes /\ 21 \in Lanes
  BY DEF Lanes, Starts, Answers
<1>2. /\ QueueAt(31, l) = out[l].start /\ QueueAt(31, l)' = out'[l].start
      /\ QueueAt(21, l) = inc[l].reply /\ QueueAt(21, l)' = inc'[l].reply
  BY <1>1, QueueIs
<1>3. ASSUME NEW k \in {31, 21}
      PROVE  /\ QueueAt(k, l)' = Append(QueueAt(k, l), c) => Enters(k, l, c)
             /\ QueueAt(k, l) # <<>> /\ QueueAt(k, l)' = Tail(QueueAt(k, l)) => Leaves(k, l, Head(QueueAt(k, l)))
  <2>1. PICK T : QueueAt(k, l) \in Seq(T)
    BY <1>1, LaneTypes
  <2>2. \A d, x : Val(k, l, d, x) = {d}
    <3>1. ASSUME NEW d, NEW x PROVE Val(31, l, d, x) = {d} /\ Val(21, l, d, x) = {d}
      BY ValuesOut
    <3>2. QED
      BY <3>1
  <2>3. /\ \A i \in DOMAIN QueueAt(k, l) :
              Val(k, l, QueueAt(k, l)[i], LookupAt(k, l)') = Val(k, l, QueueAt(k, l)[i], LookupAt(k, l))
        /\ \A i \in DOMAIN Tail(QueueAt(k, l)) :
              Val(k, l, Tail(QueueAt(k, l))[i], LookupAt(k, l)') = Val(k, l, Tail(QueueAt(k, l))[i], LookupAt(k, l))
        /\ Val(k, l, c, LookupAt(k, l)') = {c}
        /\ Val(k, l, Head(QueueAt(k, l)), LookupAt(k, l)) = {Head(QueueAt(k, l))}
    BY <2>2
  <2>4. QueueAt(k, l)' = Append(QueueAt(k, l), c) => Enters(k, l, c)
    BY <2>1, <2>3, LaneAppended
  <2>5. QueueAt(k, l) # <<>> /\ QueueAt(k, l)' = Tail(QueueAt(k, l)) => Leaves(k, l, Head(QueueAt(k, l)))
    BY <2>1, <2>3, LanePopped
  <2>6. QED
    BY <2>4, <2>5
<1>4. QED
  BY <1>2, <1>3

(* A context that was sent is free again.                                   *)
LEMMA OrderedPollSent ==
  ASSUME RdmaAssumption, Typed, Ordered, NEW n \in Proc, PollSent(n)
  PROVE  Ordered'
<1>1. PICK e, l : e = Head(node[n].cq) /\ l = e.link
  OBVIOUS
<1>2. /\ node[n].cq # <<>> /\ node' = [node EXCEPT ![n] = Polled(n)] /\ UNCHANGED <<posted, delivered>>
      /\ e.op \in {"sent start", "sent reply"}
  BY <1>1 DEF PollSent, Polls
<1>3. Takes(n, e) /\ Searched(n) /\ \A p \in Proc : Untouched(p)
  <2>1. Polled(n).table = node[n].table /\ Polled(n).recv = node[n].recv /\ Polled(n).mem = node[n].mem
    BY <1>2, PolledAt
  <2>2. QED
    BY <2>1, <1>1, <1>2, PolledAlone
<1>4. l \in Link /\ l.dst \in Proc
  <2>1. e \in EventAt(n, thread, out)
    BY <1>1, <1>2, PolledAt
  <2>2. l \in Link
    BY <2>1, <1>1, EventFacts, ZenonT(40)
  <2>3. QED
    BY <2>2, LaneTypes
<1>5. \/ /\ e.op = "sent start" /\ inc' = inc
         /\ out' = [out EXCEPT ![l].start = Append(@, e.ctx)]
      \/ /\ e.op = "sent reply" /\ out' = out
         /\ inc' = [inc EXCEPT ![l].reply = Append(@, e.ctx)]
  BY <1>1 DEF PollSent, Polls
<1>6. /\ e.op = "sent start" => inc' = inc /\ out'[l].start = Append(out[l].start, e.ctx)
      /\ e.op = "sent reply" => out' = out /\ inc'[l].reply = Append(inc[l].reply, e.ctx)
      /\ out'[l].sq = out[l].sq /\ out'[l].startBuf = out[l].startBuf /\ out'[l].rejects = out[l].rejects
      /\ inc'[l].sq = inc[l].sq /\ inc'[l].replyBuf = inc[l].replyBuf
      /\ \A q \in Link \ {l} : out'[q] = out[q] /\ inc'[q] = inc[q]
  <2>1. /\ DOMAIN out = Link /\ DOMAIN inc = Link
        /\ {"sq", "startBuf", "rejects", "start"} \subseteq DOMAIN out[l]
        /\ {"sq", "replyBuf", "reply"} \subseteq DOMAIN inc[l]
    BY <1>4 DEF Typed, Outs, OutAt, Incs, IncAt
  <2>2. CASE e.op = "sent start"
    <3>1. inc' = inc /\ out' = [out EXCEPT ![l].start = Append(@, e.ctx)] /\ e.op # "sent reply"
      BY <2>2, <1>5
    <3>2. QED
      BY ONLY <2>1, <2>2, <3>1, <1>4
  <2>3. CASE e.op = "sent reply"
    <3>1. out' = out /\ inc' = [inc EXCEPT ![l].reply = Append(@, e.ctx)] /\ e.op # "sent start"
      BY <2>3, <1>5
    <3>2. QED
      BY ONLY <2>1, <2>3, <3>1, <1>4
  <2>4. QED
    BY <2>2, <2>3, <1>2
<1>7. ASSUME NEW q \in Link \ {l} PROVE Alone(q)
  <2>1. e.op # "error" /\ q # e.link /\ posted'[q] = posted[q] /\ delivered'[q] = delivered[q]
    BY <1>1, <1>2
  <2>2. Stays(7, q)
    <3>1. 7 \in Lanes /\ q.dst \in Proc
      BY LaneTypes DEF Lanes, Stages
    <3>2. node'[q.dst].recv = node[q.dst].recv
      BY <3>1, <1>3 DEF Untouched
    <3>3. 7 # 1 /\ 7 # 31 /\ 7 # 21 /\ 7 \notin OutLanes /\ 7 \notin IncLanes /\ 7 \notin SrcLanes /\ 7 \notin DstLanes
      BY DEF OutLanes, IncLanes, SrcLanes, DstLanes
    <3>4. QED
      BY <3>1, <3>2, <3>3, LaneRest
  <2>3. QED
    BY <2>1, <2>2, <1>3, <1>6, PollElsewhere
<1>8. \A k \in OutLanes \cup IncLanes \cup {7} : Stays(k, l)
  <2>1. ASSUME NEW k \in OutLanes \cup IncLanes \cup {7} PROVE Stays(k, l)
    <3>1. k \in Lanes /\ k \notin SrcLanes /\ k \notin DstLanes /\ k # 31 /\ k # 21
      BY LaneKinds, LaneGroups DEF OutLanes, IncLanes, SrcLanes, DstLanes
    <3>2. QED
      BY <3>1, <1>3, <1>4, <1>6, LaneRest DEF Untouched
  <2>2. QED
    BY <2>1
<1>9. OwnContexts(l) /\ Orderly(l) /\ OwnEntries(l.dst) /\ OwnBuffers(l.dst)
  BY <1>4 DEF Ordered
<1>10. (Sound(l)' => Sound(l)) /\ (Faults(l) # {} => Faults(l)' # {})
  BY <1>2, <1>3, <1>4, <1>6, FaultsTaken DEF Sound
<1>11. /\ \A k \in (SrcLanes \cup DstLanes) \ {33, 23} : Stays(k, l)
       /\ OwnContexts(l)'
  <2>1. CASE e.op = "sent start"
    <3>1. Leaves(33, l, e.ctx) /\ \A k \in (SrcLanes \cup DstLanes) \ {33} : Stays(k, l)
      BY <2>1, <1>1, <1>3, <1>4, HeadPolled
    <3>2. Enters(31, l, e.ctx)
      BY <2>1, <1>4, <1>6, ContextMoves
    <3>3. Stays(21, l)
      <4>1. 21 \in Lanes /\ 21 # 7 /\ 21 # 31 /\ 21 # 1
            /\ 21 \notin OutLanes /\ 21 \notin IncLanes /\ 21 \notin SrcLanes /\ 21 \notin DstLanes
        BY DEF Lanes, Answers, OutLanes, IncLanes, SrcLanes, DstLanes
      <4>2. inc'[l].reply = inc[l].reply
        BY <2>1, <1>6
      <4>3. QED
        BY <4>1, <4>2, LaneRest
    <3>4. /\ 33 \in Starts /\ 31 \in Starts /\ 33 # 31
          /\ (Answers \cup Starts) \ {33, 31} \subseteq (OutLanes \cup IncLanes \cup {7, 21} \cup ((SrcLanes \cup DstLanes) \ {33}))
      BY DEF Starts, Answers, OutLanes, IncLanes, SrcLanes, DstLanes
    <3>5. \A k \in (Answers \cup Starts) \ {33, 31} : Stays(k, l)
      BY <3>1, <3>3, <3>4, <1>8
    <3>6. QED
      BY <3>1, <3>2, <3>4, <3>5, <1>9, <1>10, StartsMove
  <2>2. CASE e.op = "sent reply"
    <3>1. Leaves(23, l, e.ctx) /\ \A k \in (SrcLanes \cup DstLanes) \ {23} : Stays(k, l)
      BY <2>2, <1>1, <1>3, <1>4, HeadPolled
    <3>2. Enters(21, l, e.ctx)
      BY <2>2, <1>4, <1>6, ContextMoves
    <3>3. Stays(31, l)
      <4>1. 31 \in Lanes /\ 31 # 7 /\ 31 # 21 /\ 31 # 1
            /\ 31 \notin OutLanes /\ 31 \notin IncLanes /\ 31 \notin SrcLanes /\ 31 \notin DstLanes
        BY DEF Lanes, Starts, OutLanes, IncLanes, SrcLanes, DstLanes
      <4>2. out'[l].start = out[l].start
        BY <2>2, <1>6
      <4>3. QED
        BY <4>1, <4>2, LaneRest
    <3>4. /\ 23 \in Answers /\ 21 \in Answers /\ 23 # 21
          /\ (Answers \cup Starts) \ {23, 21} \subseteq (OutLanes \cup IncLanes \cup {7, 31} \cup ((SrcLanes \cup DstLanes) \ {23}))
      BY DEF Starts, Answers, OutLanes, IncLanes, SrcLanes, DstLanes
    <3>5. \A k \in (Answers \cup Starts) \ {23, 21} : Stays(k, l)
      BY <3>1, <3>3, <3>4, <1>8
    <3>6. QED
      BY <3>1, <3>2, <3>4, <3>5, <1>9, <1>10, AnswersMove
  <2>3. QED
    BY <2>1, <2>2, <1>2
<1>12. \A k \in Stages \cup Entries : Stays(k, l)
  <2>1. Stages \cup Entries \subseteq OutLanes \cup IncLanes \cup {7} \cup ((SrcLanes \cup DstLanes) \ {33, 23})
    BY DEF Stages, Entries, OutLanes, IncLanes, SrcLanes, DstLanes
  <2>2. QED
    BY <2>1, <1>8, <1>11
<1>13. Orderly(l)'
  BY <1>2, <1>9, <1>10, <1>12, OrderlyStays
<1>14. OwnEntries(l.dst)' /\ OwnBuffers(l.dst)'
  <2>1. \A q \in To(l.dst), k \in Entries : Stays(k, q)
    BY <1>7, <1>12, LaneGroups DEF To, Alone
  <2>2. \A q \in To(l.dst) : Stays(16, q)
    BY <2>1, LaneGroups
  <2>3. node'[l.dst].table = node[l.dst].table /\ node'[l.dst].recv = node[l.dst].recv /\ node'[l.dst].mem = node[l.dst].mem
    BY <1>3, <1>4 DEF Untouched
  <2>4. QED
    BY <2>1, <2>2, <2>3, <1>9, EntriesStay, BuffersStay
<1>15. Histories'
  BY <1>2, HistoriesKept DEF Ordered
<1>16. QED
  BY <1>3, <1>4, <1>7, <1>11, <1>13, <1>14, <1>15, OrderedLink

(* What leaves a link's sq, backlog and so on alone keeps their lanes.       *)
LEMMA OthersStay ==
  ASSUME RdmaAssumption, Typed, NEW l \in Link, \A p \in Proc : Untouched(p),
         out'[l].start = out[l].start, inc'[l].reply = inc[l].reply,
         inc'[l].sq = inc[l].sq, inc'[l].replyBuf = inc[l].replyBuf
  PROVE  \A k \in IncLanes \cup {7, 31, 21} : Stays(k, l)
<1>1. l.dst \in Proc
  BY LaneTypes
<1>2. ASSUME NEW k \in IncLanes \cup {7, 31, 21} PROVE Stays(k, l)
  <2>1. k \in Lanes /\ k \notin OutLanes /\ k \notin SrcLanes /\ k \notin DstLanes /\ k # 1
    BY LaneKinds, LaneGroups DEF OutLanes, IncLanes, SrcLanes, DstLanes
  <2>2. QED
    BY <2>1, <1>1, LaneRest DEF Untouched
<1>3. QED
  BY <1>2

(* The links other than that of the completion, when no buffer moves.        *)
LEMMA PollPlain ==
  ASSUME RdmaAssumption, Typed, NEW n \in Proc, NEW e, Takes(n, e), Searched(n), \A p \in Proc : Untouched(p),
         e.op # "error", UNCHANGED <<posted, delivered>>,
         NEW q \in Link, q # e.link, out'[q] = out[q], inc'[q] = inc[q]
  PROVE  Alone(q)
<1>1. 7 \in Lanes /\ q.dst \in Proc
  BY LaneTypes DEF Lanes, Stages
<1>2. node'[q.dst].recv = node[q.dst].recv
  BY <1>1 DEF Untouched
<1>3. 7 # 1 /\ 7 # 31 /\ 7 # 21 /\ 7 \notin OutLanes /\ 7 \notin IncLanes /\ 7 \notin SrcLanes /\ 7 \notin DstLanes
  BY DEF OutLanes, IncLanes, SrcLanes, DstLanes
<1>4. Stays(7, q)
  BY <1>1, <1>2, <1>3, LaneRest
<1>5. QED
  BY <1>4, PollElsewhere

(* The source polls the completion of a write: no lane reads it.            *)
LEMMA OrderedPollWrote ==
  ASSUME RdmaAssumption, Typed, Ordered, NEW n \in Proc, PollWrote(n)
  PROVE  Ordered'
<1>1. PICK e, l, m : e = Head(node[n].cq) /\ l = e.link /\ m = out[l].writeBuf[e.ctx]
  OBVIOUS
<1>2. node[n].cq # <<>> /\ e.op = "wrote" /\ UNCHANGED <<inc, posted, delivered>>
  BY <1>1 DEF PollWrote, Polls
<1>3. CASE m \notin DOMAIN bufs
  <2>1. Fail(n, "deleted") /\ UNCHANGED <<out, inc, posted, delivered>>
    BY <1>1, <1>3 DEF PollWrote
  <2>2. QED
    BY <2>1, OrderedFail
<1>4. CASE m \in DOMAIN bufs
  <2>1. PICK r : r = [Polled(n) EXCEPT !.pool = Free(@, bufs[m].inline)]
    OBVIOUS
  <2>2. node' = [node EXCEPT ![n] = r] /\ out' = [out EXCEPT ![l].write = Append(@, e.ctx)]
    BY <1>1, <1>4, <2>1 DEF PollWrote
  <2>3. r.cq = Polled(n).cq /\ r.table = node[n].table /\ r.recv = node[n].recv /\ r.mem = node[n].mem
    <3>1. /\ {"cq", "table", "recv", "mem"} \subseteq DOMAIN Polled(n)
          /\ Polled(n).table = node[n].table /\ Polled(n).recv = node[n].recv /\ Polled(n).mem = node[n].mem
      BY <1>2, PolledAt DEF NodeAt
    <3>2. QED
      BY <2>1, <3>1
  <2>4. Takes(n, e) /\ Searched(n) /\ \A p \in Proc : Untouched(p)
    BY <1>1, <1>2, <2>2, <2>3, PolledAlone
  <2>5. l \in Link
    <3>1. e \in EventAt(n, thread, out)
      BY <1>1, <1>2, PolledAt
    <3>2. QED
      BY <3>1, <1>1, EventFacts
  <2>6. /\ out'[l].sq = out[l].sq /\ out'[l].startBuf = out[l].startBuf /\ out'[l].rejects = out[l].rejects
        /\ out'[l].start = out[l].start
        /\ \A q \in Link \ {l} : out'[q] = out[q]
    BY <2>2, <2>5 DEF Typed, Outs, OutAt
  <2>7. ASSUME NEW q \in Link \ {l} PROVE Alone(q)
    BY <1>1, <1>2, <2>4, <2>6, PollPlain
  <2>8. ASSUME NEW k \in Lanes PROVE Stays(k, l)
    <3>1. \A j \in SrcLanes \cup DstLanes : Stays(j, l)
      BY <1>1, <1>2, <2>4, <2>5, HeadPolled
    <3>2. \A j \in IncLanes \cup {7, 31, 21} : Stays(j, l)
      BY <1>2, <2>4, <2>5, <2>6, OthersStay
    <3>3. ASSUME NEW j \in OutLanes PROVE Stays(j, l)
      <4>1. j \in Lanes /\ j \notin IncLanes /\ j \notin SrcLanes /\ j \notin DstLanes /\ j # 7 /\ j # 31 /\ j # 21
        BY LaneKinds DEF OutLanes
      <4>2. QED
        BY <4>1, <2>6, LaneRest
    <3>4. QED
      BY <3>1, <3>2, <3>3, LaneGroups
  <2>9. Alone(l)
    <3>1. (Sound(l)' => Sound(l)) /\ (Faults(l) # {} => Faults(l)' # {})
      BY <1>2, <2>4, <2>5, <2>6, FaultsTaken DEF Sound
    <3>2. QED
      BY <3>1, <1>2, <2>8 DEF Alone
  <2>10. \A q \in Link : Alone(q)
    BY <2>7, <2>9
  <2>11. QED
    BY <1>2, <2>4, <2>10, OrderedStill
<1>5. QED
  BY <1>3, <1>4

(* The REPLY's message and entry go from the completion to the write.        *)
LEMMA WriteAppended ==
  ASSUME RdmaAssumption, Typed, NEW l \in Link, NEW w, w.op = "write", NEW m, m = w.msg,
         NEW x, x = <<w.idx, w.to, w.msg>>,
         out'[l].sq = Append(out[l].sq, w), out'[l].startBuf = out[l].startBuf
  PROVE  Enters(5, l, m) /\ Enters(15, l, x) /\ Stays(1, l) /\ Stays(32, l)
<1>1. {1, 5, 15, 32} = OutLanes
  BY DEF OutLanes
<1>2. \A y : Val(1, l, w, y) = {} /\ Val(5, l, w, y) = {m} /\ Val(15, l, w, y) = {x} /\ Val(32, l, w, y) = {}
  <2>1. ASSUME NEW y
        PROVE Val(1, l, w, y) = {} /\ Val(5, l, w, y) = {m} /\ Val(15, l, w, y) = {x} /\ Val(32, l, w, y) = {}
    BY ValuesOut
  <2>2. QED
    BY <2>1
<1>3. Enters(5, l, m)
  BY <1>1, <1>2, OutAppended, ZenonT(40)
<1>4. Enters(15, l, x)
  BY <1>1, <1>2, OutAppended, ZenonT(40)
<1>5. Stays(1, l)
  BY <1>1, <1>2, OutAppended
<1>6. Stays(32, l)
  BY <1>1, <1>2, OutAppended, ZenonT(40)
<1>7. QED
  BY <1>3, <1>4, <1>5, <1>6

(* The source gets a reply and posts the write: the message goes to the     *)
(* next stage.                                                              *)
LEMMA OrderedPollReply ==
  ASSUME RdmaAssumption, Typed, Ordered, NEW n \in Proc, PollReply(n)
  PROVE  Ordered'
<1>1. PICK e, l, c, m : e = Head(node[n].cq) /\ l = e.link /\ c = e.reply /\ m = c.msg
  OBVIOUS
<1>2. node[n].cq # <<>> /\ e.op = "recv reply" /\ UNCHANGED <<inc, posted, delivered>>
  BY <1>1 DEF PollReply, Polls
<1>3. CASE m \notin DOMAIN bufs
  <2>1. Fail(n, "deleted") /\ UNCHANGED <<out, inc, posted, delivered>>
    BY <1>1, <1>3 DEF PollReply
  <2>2. QED
    BY <2>1, OrderedFail
<1>4. CASE m \in DOMAIN bufs
  <2>1. PICK w, x : /\ w = [op |-> "write", ctx |-> bufs[m].write, to |-> c.to, idx |-> c.idx, msg |-> m]
                    /\ x = <<c.idx, c.to, c.msg>>
    OBVIOUS
  <2>2. /\ node' = [node EXCEPT ![n] = Polled(n)]
        /\ out' = [out EXCEPT ![l].rx = @ + 1, ![l].writeBuf = Put(@, bufs[m].write, m), ![l].sq = Append(@, w)]
    BY <1>1, <1>4, <2>1 DEF PollReply
  <2>3. Takes(n, e) /\ Searched(n) /\ \A p \in Proc : Untouched(p)
    <3>1. Polled(n).table = node[n].table /\ Polled(n).recv = node[n].recv /\ Polled(n).mem = node[n].mem
      BY <1>2, PolledAt
    <3>2. QED
      BY <3>1, <1>1, <1>2, <2>2, PolledAlone
  <2>4. l \in Link /\ l.dst \in Proc /\ l \in To(l.dst)
    <3>1. e \in EventAt(n, thread, out)
      BY <1>1, <1>2, PolledAt
    <3>2. l \in Link
      BY <3>1, <1>1, EventFacts
    <3>3. QED
      BY <3>2, LaneTypes DEF To
  <2>5. /\ out'[l].sq = Append(out[l].sq, w) /\ out'[l].startBuf = out[l].startBuf
        /\ out'[l].rejects = out[l].rejects /\ out'[l].start = out[l].start
        /\ \A q \in Link \ {l} : out'[q] = out[q]
    BY <2>2, <2>4 DEF Typed, Outs, OutAt
  <2>6. \A q \in Link \ {l} : Alone(q)
    <3>1. ASSUME NEW q \in Link \ {l} PROVE Alone(q)
      BY <1>1, <1>2, <2>3, <2>5, PollPlain
    <3>2. QED
      BY <3>1
  <2>7. /\ Leaves(4, l, m) /\ Leaves(14, l, x)
        /\ \A k \in (SrcLanes \cup DstLanes) \ {4, 14} : Stays(k, l)
    BY <1>1, <1>2, <2>1, <2>3, <2>4, ReplyPolled
  <2>8. Enters(5, l, m) /\ Enters(15, l, x) /\ Stays(1, l) /\ Stays(32, l)
    <3>1. w.op = "write" /\ m = w.msg /\ x = <<w.idx, w.to, w.msg>>
      BY <1>1, <2>1
    <3>2. QED
      BY <3>1, <2>4, <2>5, WriteAppended
  <2>9. \A k \in Lanes \ {4, 14, 5, 15} : Stays(k, l)
    <3>1. \A k \in IncLanes \cup {7, 31, 21} : Stays(k, l)
      BY <1>2, <2>3, <2>4, <2>5, OthersStay
    <3>2. QED
      BY <3>1, <2>7, <2>8, LaneGroups DEF OutLanes
  <2>10. OwnContexts(l) /\ Orderly(l) /\ OwnEntries(l.dst) /\ OwnBuffers(l.dst)
    BY <2>4 DEF Ordered
  <2>11. (Sound(l)' => Sound(l)) /\ (Faults(l) # {} => Faults(l)' # {})
    BY <1>2, <2>3, <2>4, <2>5, FaultsTaken DEF Sound
  <2>12. OwnContexts(l)'
    <3>1. Answers \cup Starts \subseteq Lanes \ {4, 14, 5, 15}
      BY DEF Answers, Starts, Lanes
    <3>2. QED
      BY <3>1, <2>9, <2>10, <2>11, ContextsStay
  <2>13. Orderly(l)'
    <3>1. Len(delivered[l]) \in Nat
      BY <2>4 DEF Ordered, Histories
    <3>2. 4 \in 1 .. 6 /\ 5 = 4 + 1 /\ 4 # 5 /\ Stages \ {4, 5} \subseteq Lanes \ {4, 14, 5, 15}
      BY DEF Stages, Lanes
    <3>3. QED
      BY <3>1, <3>2, <1>2, <2>7, <2>8, <2>9, <2>10, <2>11, OrderlyMoves
  <2>14. /\ \A q \in To(l.dst), k \in Entries : q # l \/ k \notin {14, 15} => Stays(k, q)
         /\ \A q \in To(l.dst) : Stays(16, q)
    <3>1. Entries \subseteq Lanes /\ Entries \ {14, 15} \subseteq Lanes \ {4, 14, 5, 15} /\ 16 \in Entries \ {14, 15}
      BY DEF Entries, Lanes
    <3>2. QED
      BY <3>1, <2>6, <2>9, ZenonT(40) DEF To, Alone
  <2>15. node'[l.dst].table = node[l.dst].table /\ node'[l.dst].recv = node[l.dst].recv /\ node'[l.dst].mem = node[l.dst].mem
    BY <2>3, <2>4 DEF Untouched
  <2>16. OwnEntries(l.dst)'
    <3>1. 14 \in Entries /\ 15 \in Entries /\ 14 # 15
      BY DEF Entries
    <3>2. QED
      BY <3>1, <2>4, <2>7, <2>8, <2>10, <2>14, <2>15, EntriesMove
  <2>17. OwnBuffers(l.dst)'
    BY <2>4, <2>10, <2>14, <2>15, BuffersStay
  <2>18. Histories'
    BY <1>2, HistoriesKept DEF Ordered
  <2>19. QED
    BY <2>3, <2>4, <2>6, <2>12, <2>13, <2>16, <2>17, <2>18, OrderedLink
<1>5. QED
  BY <1>3, <1>4

(* What an element stands for is in the lane.                                *)
LEMMA HeldAt ==
  ASSUME NEW k, NEW l, NEW q, q = QueueAt(k, l), NEW i \in DOMAIN q, NEW v, Val(k, l, q[i], LookupAt(k, l)) = {v}
  PROVE  v \in Held(LaneAt(k, l))
<1>1. PICK x : x = LookupAt(k, l)
  OBVIOUS
<1>2. LaneAt(k, l) = [j \in DOMAIN q |-> Val(k, l, q[j], x)]
  BY <1>1 DEF LaneAt, Lane
<1>3. LaneAt(k, l)[i] = {v} /\ i \in DOMAIN LaneAt(k, l)
  BY <1>1, <1>2
<1>4. QED
  BY <1>3 DEF Held

(* The index of a finished write is in the table.                            *)
LEMMA WrittenFound ==
  ASSUME RdmaAssumption, Typed, Ordered, NEW n \in Proc, NEW i \in DOMAIN node[n].cq, node[n].cq[i].op = "written"
  PROVE  /\ node[n].cq[i].link \in To(n) /\ node[n].cq[i].idx \in DOMAIN node[n].table
         /\ LET e == node[n].cq[i] IN
            <<e.idx, node[n].table[e.idx].addr, node[n].table[e.idx].msg>> \in Held(LaneAt(16, e.link))
<1>1. PICK e, l, x : e = node[n].cq[i] /\ l = e.link /\ x = node[n].table
  OBVIOUS
<1>2. e \in EventAt(n, thread, out)
  BY <1>1 DEF Typed, Nodes, NodeAt
<1>3. l \in Link /\ l.dst = n
  <2>1. l \in Link
    BY <1>1, <1>2, EventFacts
  <2>2. e.op = "recv start" \/ e.op = "written" \/ e.op = "sent reply" => e.link.dst = n
    BY ONLY <1>2, EventEnds
  <2>3. QED
    BY <2>1, <2>2, <1>1
<1>4. 16 \in Lanes /\ 16 \in DstLanes /\ 16 \in Entries /\ l \in To(n)
  BY <1>3 DEF Lanes, Entries, DstLanes, To
<1>5. QueueAt(16, l) = node[n].cq /\ LookupAt(16, l) = x
  BY <1>1, <1>3, <1>4, QueueIs, Lookups
<1>6. PICK k, a, m : k = e.idx /\ a = x[e.idx].addr /\ m = x[e.idx].msg
  OBVIOUS
<1>7. Val(16, l, e, x) = {<<k, a, m>>}
  <2>1. e.link = l /\ e.op = "written"
    BY <1>1
  <2>2. QED
    BY ONLY <1>6, <2>1, ValuesWrite
<1>8. <<k, a, m>> \in Held(LaneAt(16, l))
  BY <1>1, <1>5, <1>7, HeldAt
<1>9. k \in DOMAIN x
  <2>1. OwnEntries(n)
    BY DEF Ordered
  <2>2. Entry(<<k, a, m>>, node[n].table)
    BY <2>1, <1>4, <1>8, EntryOnce
  <2>3. QED
    BY <2>2, <1>1 DEF Entry
<1>10. QED
  BY <1>1, <1>4, <1>6, <1>8, <1>9

(* A context in its queue is in no request.                                  *)
LEMMA ContextFree ==
  ASSUME RdmaAssumption, Typed, NEW l \in Link, OwnContexts(l)
  PROVE  /\ inc[l].reply # <<>> => \A j \in DOMAIN inc[l].sq : inc[l].sq[j].ctx # Head(inc[l].reply)
         /\ Sound(l) /\ out[l].start # <<>> =>
              \A j \in DOMAIN out[l].sq : out[l].sq[j].op = "start" => out[l].sq[j].ctx # Head(out[l].start)
<1>1. /\ QueueAt(21, l) = inc[l].reply /\ QueueAt(22, l) = inc[l].sq
      /\ QueueAt(31, l) = out[l].start /\ QueueAt(32, l) = out[l].sq
  <2>1. {21, 22, 31, 32} \subseteq Lanes /\ 22 \in IncLanes /\ 32 \in OutLanes
    BY DEF Lanes, Answers, Starts, IncLanes, OutLanes
  <2>2. QED
    BY <2>1, QueueIs
<1>2. inc[l].reply \in Seq(1 .. ReplyDepth) /\ out[l].start \in Seq(1 .. Depth)
  BY LaneTypes DEF OutAt, IncAt
<1>3. /\ DOMAIN AnswerLanes(l) = Answers /\ \A k \in Answers : AnswerLanes(l)[k] = LaneAt(k, l)
      /\ DOMAIN StartLanes(l) = Starts /\ \A k \in Starts : StartLanes(l)[k] = LaneAt(k, l)
      /\ 21 \in Answers /\ 22 \in Answers /\ 31 \in Starts /\ 32 \in Starts
  BY DEF AnswerLanes, StartLanes, Answers, Starts
<1>4. ASSUME inc[l].reply # <<>>, NEW j \in DOMAIN inc[l].sq PROVE inc[l].sq[j].ctx # Head(inc[l].reply)
  <2>1. PICK c, w : c = Head(inc[l].reply) /\ w = inc[l].sq[j]
    OBVIOUS
  <2>2. 1 \in DOMAIN inc[l].reply /\ inc[l].reply[1] = c
    BY <1>2, <1>4, <2>1
  <2>3. Val(21, l, c, LookupAt(21, l)) = {c} /\ Val(22, l, w, LookupAt(22, l)) = {w.ctx}
    BY ValuesOut
  <2>4. c \in Held(LaneAt(21, l))
    BY <1>1, <2>2, <2>3, HeldAt
  <2>5. w.ctx \in Held(LaneAt(22, l))
    BY <1>1, <1>4, <2>1, <2>3, HeldAt, ZenonT(40)
  <2>6. Held(LaneAt(21, l)) \cap Held(LaneAt(22, l)) = {}
    BY <1>3 DEF OwnContexts, Separate
  <2>7. QED
    BY <2>1, <2>4, <2>5, <2>6
<1>5. ASSUME Sound(l), out[l].start # <<>>, NEW j \in DOMAIN out[l].sq, out[l].sq[j].op = "start"
      PROVE  out[l].sq[j].ctx # Head(out[l].start)
  <2>1. PICK c, w : c = Head(out[l].start) /\ w = out[l].sq[j]
    OBVIOUS
  <2>2. 1 \in DOMAIN out[l].start /\ out[l].start[1] = c
    BY <1>2, <1>5, <2>1
  <2>3. w.op = "start"
    BY <1>5, <2>1
  <2>4. Val(31, l, c, LookupAt(31, l)) = {c} /\ Val(32, l, w, LookupAt(32, l)) = {w.ctx}
    BY <2>3, ValuesOut
  <2>5. c \in Held(LaneAt(31, l))
    BY <1>1, <2>2, <2>4, HeldAt
  <2>6. w.ctx \in Held(LaneAt(32, l))
    BY <1>1, <1>5, <2>1, <2>4, HeldAt, ZenonT(40)
  <2>7. Held(LaneAt(31, l)) \cap Held(LaneAt(32, l)) = {}
    BY <1>3, <1>5 DEF OwnContexts, Separate
  <2>8. QED
    BY <2>1, <2>5, <2>6, <2>7
<1>6. QED
  BY <1>4, <1>5

(* The START's message goes into the answer.                                 *)
LEMMA ReplyAppended ==
  ASSUME RdmaAssumption, Typed, NEW l \in Link, OwnContexts(l), inc[l].reply # <<>>,
         NEW i, i = Head(inc[l].reply), NEW r, NEW w, w.ctx = i, inc'[l].reply = Tail(inc[l].reply),
         inc'[l].sq = Append(inc[l].sq, w), inc'[l].replyBuf = Put(inc[l].replyBuf, i, r)
  PROVE  /\ Leaves(21, l, i) /\ Enters(22, l, i) /\ Enters(3, l, r.msg)
         /\ Enters(13, l, <<r.idx, r.to, r.msg>>)
<1>1. Leaves(21, l, i)
  BY ContextMoves
<1>2. \A j \in DOMAIN inc[l].sq : inc'[l].replyBuf[inc[l].sq[j].ctx] = inc[l].replyBuf[inc[l].sq[j].ctx]
  <2>1. ASSUME NEW j \in DOMAIN inc[l].sq
        PROVE  inc'[l].replyBuf[inc[l].sq[j].ctx] = inc[l].replyBuf[inc[l].sq[j].ctx]
    <3>1. inc[l].sq[j].ctx # i
      BY ContextFree
    <3>2. inc[l].sq[j].ctx \in DOMAIN inc[l].replyBuf
      <4>1. inc[l].sq \in Seq(ReplyAt(inc[l]))
        BY LaneTypes DEF IncAt
      <4>2. inc[l].sq[j] \in ReplyAt(inc[l])
        BY <4>1
      <4>3. QED
        BY <4>2 DEF ReplyAt
    <3>3. QED
      BY <3>1, <3>2, PutFacts
  <2>2. QED
    BY <2>1
<1>3. PICK y, m, x : y = inc'[l].replyBuf /\ m = r.msg /\ x = <<r.idx, r.to, r.msg>>
  OBVIOUS
<1>4. y[w.ctx] = r
  BY <1>3, PutFacts
<1>5. LookupAt(3, l)' = y /\ LookupAt(13, l)' = y
  BY <1>3, Lookups
<1>6. Val(3, l, w, y) = {m} /\ Val(13, l, w, y) = {x} /\ \A z : Val(22, l, w, z) = {i}
  BY <1>3, <1>4, ValuesOut
<1>7. 3 \in IncLanes /\ 13 \in IncLanes /\ 22 \in IncLanes
  BY DEF IncLanes
<1>8. Enters(22, l, i)
  BY <1>2, <1>6, <1>7, IncAppended
<1>9. Enters(3, l, m)
  BY <1>2, <1>5, <1>6, <1>7, IncAppended
<1>10. Enters(13, l, x)
  BY <1>2, <1>5, <1>6, <1>7, IncAppended
<1>11. QED
  BY <1>1, <1>3, <1>8, <1>9, <1>10

(* An index that is put into the table disturbs no finished write.           *)
LEMMA StoredSearched ==
  ASSUME RdmaAssumption, Typed, Ordered, NEW n \in Proc, node[n].cq # <<>>, NEW i, i \notin DOMAIN node[n].table,
         NEW v, node'[n].table = Put(node[n].table, i, v)
  PROVE  Searched(n)
<1>1. ASSUME NEW j \in DOMAIN Tail(node[n].cq), Tail(node[n].cq)[j].op = "written"
      PROVE  node'[n].table[Tail(node[n].cq)[j].idx] = node[n].table[Tail(node[n].cq)[j].idx]
  <2>1. PICK k : k = j + 1 /\ k \in DOMAIN node[n].cq /\ node[n].cq[k] = Tail(node[n].cq)[j]
    <3>1. PICK T : node[n].cq \in Seq(T)
      BY DEF Typed, Nodes, NodeAt
    <3>2. QED
      BY <1>1, <3>1
  <2>2. node[n].cq[k].idx \in DOMAIN node[n].table
    BY <1>1, <2>1, WrittenFound
  <2>3. QED
    BY <2>1, <2>2, PutFacts
<1>2. QED
  BY <1>1 DEF Searched

(* What a function gives when one value is put in it.                       *)
LEMMA PutGives ==
  ASSUME NEW f, NEW x, NEW v, NEW g, g = Put(f, x, v)
  PROVE  /\ x \in DOMAIN g /\ g[x] = v
         /\ \A y \in DOMAIN f : y # x => y \in DOMAIN g /\ g[y] = f[y]
BY DEF Put

(* The target gets a start message, makes an entry of its table and         *)
(* answers.                                                                 *)
LEMMA OrderedPollStart ==
  ASSUME RdmaAssumption, Typed, Kept, Ordered, NEW n \in Proc, PollStart(n)
  PROVE  Ordered'
<1>1. PICK e, l, i, idx, m : e = Head(node[n].cq) /\ l = e.link /\ i = Head(inc[l].reply) /\ idx = Head(node[n].free)
                             /\ m = e.msg
  OBVIOUS
<1>2. node[n].cq # <<>> /\ e.op = "recv start" /\ inc[l].reply # <<>> /\ UNCHANGED <<out, posted, delivered>>
  BY <1>1 DEF PollStart, Polls
<1>3. CASE node[n].free = <<>>
  <2>1. Fail(n, "table_[idx]") /\ UNCHANGED <<out, inc, posted, delivered>>
    BY <1>3 DEF PollStart
  <2>2. QED
    BY <2>1, OrderedFail
<1>4. CASE node[n].free # <<>>
  <2>1. PICK a : /\ node' = [node EXCEPT ![n] =
                      StoreAddress([Polled(n) EXCEPT !.pool = a.pool], [addr |-> a.addr, msg |-> e.msg])]
                 /\ inc' = [inc EXCEPT
                      ![l].reply = Tail(@), ![l].rx = @ + 1,
                      ![l].replyBuf = Put(@, i, [to |-> a.addr, msg |-> e.msg, idx |-> idx]),
                      ![l].sq = Append(@, [op |-> "reply", ctx |-> i])]
    BY <1>1, <1>4 DEF PollStart
  <2>2. PICK r, v, w, b, x : /\ r = StoreAddress([Polled(n) EXCEPT !.pool = a.pool], v)
                             /\ v = [addr |-> a.addr, msg |-> m] /\ w = [op |-> "reply", ctx |-> i]
                             /\ b = [to |-> a.addr, msg |-> m, idx |-> idx] /\ x = <<idx, a.addr, m>>
    OBVIOUS
  <2>3. r.cq = Polled(n).cq /\ r.recv = node[n].recv /\ r.mem = node[n].mem /\ r.table = Put(node[n].table, idx, v)
    <3>1. /\ {"cq", "table", "recv", "mem", "free"} \subseteq DOMAIN Polled(n) /\ Polled(n).table = node[n].table
          /\ Polled(n).recv = node[n].recv /\ Polled(n).mem = node[n].mem /\ Polled(n).free = node[n].free
      BY <1>2, PolledAt, ZenonT(40) DEF NodeAt
    <3>2. QED
      BY <1>1, <2>2, <3>1 DEF StoreAddress
  <2>4. node' = [node EXCEPT ![n] = r]
    BY <1>1, <2>1, <2>2
  <2>5. Takes(n, e)
    BY <1>1, <1>2, <2>3, <2>4, TakesRecord
  <2>6. /\ node'[n].table = Put(node[n].table, idx, v) /\ node'[n].recv = node[n].recv /\ node'[n].mem = node[n].mem
        /\ \A p \in Proc \ {n} : node'[p] = node[p]
    <3>1. DOMAIN node = Proc
      BY DEF Typed, Nodes
    <3>2. node'[n] = r /\ \A p \in Proc \ {n} : node'[p] = node[p]
      BY ONLY <3>1, <2>4
    <3>3. QED
      BY <3>2, <2>3
  <2>7. l \in Link /\ l.dst = n /\ l \in To(n)
    <3>1. e \in EventAt(n, thread, out)
      BY <1>1, <1>2, PolledAt
    <3>2. l \in Link
      BY <3>1, <1>1, EventFacts
    <3>3. e.op = "recv start" \/ e.op = "written" \/ e.op = "sent reply" => e.link.dst = n
      BY ONLY <3>1, EventEnds
    <3>4. QED
      BY <3>2, <3>3, <1>1, <1>2 DEF To
  <2>8. /\ inc'[l].reply = Tail(inc[l].reply) /\ inc'[l].sq = Append(inc[l].sq, w)
        /\ inc'[l].replyBuf = Put(inc[l].replyBuf, i, b)
        /\ \A q \in Link \ {l} : inc'[q] = inc[q]
    <3>1. DOMAIN inc = Link /\ {"reply", "sq", "replyBuf", "rx"} \subseteq DOMAIN inc[l]
      BY <2>7 DEF Typed, Incs, IncAt
    <3>2. inc' = [inc EXCEPT ![l].reply = Tail(@), ![l].rx = @ + 1, ![l].replyBuf = Put(@, i, b),
                             ![l].sq = Append(@, w)]
      BY <1>1, <2>1, <2>2
    <3>3. QED
      BY ONLY <3>1, <3>2, <2>7
  <2>9. idx \notin DOMAIN node[n].table
    <3>1. IndicesAt(node[n])
      BY DEF Kept, KeptAt
    <3>2. node[n].free \in Seq(1 .. MaxEntries)
      BY DEF Typed, Nodes, NodeAt
    <3>3. 1 \in DOMAIN node[n].free /\ node[n].free[1] = idx
      BY <1>1, <1>4, <3>2
    <3>4. QED
      BY <3>1, <3>3 DEF IndicesAt
  <2>10. Searched(n)
    BY <1>2, <2>6, <2>9, StoredSearched
  <2>11. OwnContexts(l) /\ Orderly(l) /\ OwnEntries(n) /\ OwnBuffers(n)
    BY <2>7 DEF Ordered
  <2>12. Leaves(2, l, m) /\ \A k \in (SrcLanes \cup DstLanes) \ {2} : Stays(k, l)
    BY <1>1, <1>2, <2>5, <2>7, <2>10, HeadPolled
  <2>13. Leaves(21, l, i) /\ Enters(22, l, i) /\ Enters(3, l, m) /\ Enters(13, l, x)
    <3>1. w.ctx = i /\ b.msg = m /\ b.to = a.addr /\ b.idx = idx
      BY <2>2
    <3>4. i = Head(inc[l].reply)
      BY <1>1
    <3>5. inc[l].reply # <<>>
      BY <1>2
    <3>2. Leaves(21, l, i) /\ Enters(22, l, i) /\ Enters(3, l, b.msg) /\ Enters(13, l, <<b.idx, b.to, b.msg>>)
      BY ONLY RdmaAssumption, Typed, <3>1, <3>4, <3>5, <2>7, <2>8, <2>11, ReplyAppended
    <3>3. QED
      BY <3>1, <3>2, <2>2
  <2>14. \A k \in OutLanes \cup {7, 31} : Stays(k, l)
    <3>1. ASSUME NEW k \in OutLanes \cup {7, 31} PROVE Stays(k, l)
      <4>1. k \in Lanes /\ k \notin IncLanes /\ k \notin SrcLanes /\ k \notin DstLanes /\ k # 21
        BY LaneKinds, LaneGroups DEF OutLanes, IncLanes, SrcLanes, DstLanes
      <4>2. QED
        BY <4>1, <1>2, <2>6, <2>7, LaneRest
    <3>2. QED
      BY <3>1
  <2>15. \A k \in Lanes \ {2, 3, 13, 21, 22} : Stays(k, l)
    BY <2>12, <2>14, LaneGroups DEF IncLanes
  <2>16. ASSUME NEW q \in Link \ {l} PROVE Alone(q)
    <3>1. e.op # "error" /\ q # e.link /\ posted'[q] = posted[q] /\ delivered'[q] = delivered[q]
      BY <1>1, <1>2
    <3>2. q.dst = n => Stays(7, q)
      <4>1. 7 \in Lanes /\ 7 # 1 /\ 7 # 31 /\ 7 # 21
            /\ 7 \notin OutLanes /\ 7 \notin IncLanes /\ 7 \notin SrcLanes /\ 7 \notin DstLanes
        BY DEF Lanes, Stages, OutLanes, IncLanes, SrcLanes, DstLanes
      <4>2. QED
        BY <4>1, <2>6, LaneRest
    <3>3. QED
      BY <3>1, <3>2, <1>2, <2>5, <2>8, <2>10, PollElsewhere
  <2>17. (Sound(l)' => Sound(l)) /\ (Faults(l) # {} => Faults(l)' # {})
    BY <1>2, <2>5, <2>7, FaultsTaken DEF Sound
  <2>18. OwnContexts(l)'
    <3>1. 21 \in Answers /\ 22 \in Answers /\ 21 # 22
          /\ (Answers \cup Starts) \ {21, 22} \subseteq Lanes \ {2, 3, 13, 21, 22}
      BY DEF Answers, Starts, Lanes
    <3>2. QED
      BY <3>1, <2>11, <2>13, <2>15, <2>17, AnswersMove
  <2>19. Orderly(l)'
    <3>1. Len(delivered[l]) \in Nat
      BY <2>7 DEF Ordered, Histories
    <3>2. 2 \in 1 .. 6 /\ 3 = 2 + 1 /\ 2 # 5 /\ Stages \ {2, 3} \subseteq Lanes \ {2, 3, 13, 21, 22}
      BY DEF Stages, Lanes
    <3>3. QED
      BY <3>1, <3>2, <1>2, <2>11, <2>12, <2>13, <2>15, <2>17, OrderlyMoves
  <2>20. /\ \A q \in To(n), k \in Entries : q # l \/ k # 13 => Stays(k, q)
         /\ \A q \in To(n) : Stays(16, q)
    <3>1. Entries \subseteq Lanes /\ Entries \ {13} \subseteq Lanes \ {2, 3, 13, 21, 22} /\ 16 \in Entries \ {13}
      BY DEF Entries, Lanes
    <3>2. QED
      BY <3>1, <2>15, <2>16 DEF To, Alone
  <2>21. OwnEntries(n)'
    <3>1. 13 \in Entries
      BY DEF Entries
    <3>2. x \notin Total(EntryLanes(n))
      <4>1. ~ Entry(x, node[n].table)
        BY <2>2, <2>9 DEF Entry
      <4>2. QED
        BY <4>1, <2>11 DEF OwnEntries
    <3>3. Separate(EntryLanes(n))' /\ Total(EntryLanes(n))' = Total(EntryLanes(n)) \cup {x}
      BY <3>1, <3>2, <2>7, <2>11, <2>13, <2>20, EntriesGain
    <3>6. node'[n].table = Put(node[n].table, idx, v)
      BY <2>6
    <3>4. ASSUME NEW y \in Total(EntryLanes(n)) \cup {x} PROVE Entry(y, node'[n].table)
      <4>1. CASE y = x
        <5>1. idx \in DOMAIN node'[n].table /\ node'[n].table[idx] = v
          BY ONLY <3>6, PutGives
        <5>2. QED
          BY <4>1, <5>1, <2>2 DEF Entry
      <4>2. CASE y # x
        <5>1. PICK j \in DOMAIN node[n].table : y = <<j, node[n].table[j].addr, node[n].table[j].msg>>
          BY <3>4, <4>2, <2>11 DEF OwnEntries, Entry
        <5>2. j \in DOMAIN node'[n].table /\ node'[n].table[j] = node[n].table[j]
          BY ONLY <3>6, <2>9, PutGives
        <5>3. QED
          BY <5>1, <5>2 DEF Entry
      <4>3. QED
        BY <4>1, <4>2
    <3>5. QED
      BY <3>3, <3>4 DEF OwnEntries
  <2>22. OwnBuffers(n)'
    BY <2>6, <2>11, <2>20, BuffersStay
  <2>23. Histories'
    BY <1>2, HistoriesKept DEF Ordered
  <2>24. \A p \in Proc \ {n} : Untouched(p)
    BY <2>6 DEF Untouched
  <2>25. QED
    BY <2>7, <2>16, <2>18, <2>19, <2>21, <2>22, <2>23, <2>24, OrderedLink
<1>5. QED
  BY <1>3, <1>4


(* Two finished writes have their own indices.                               *)
LEMMA WrittenDiffer ==
  ASSUME RdmaAssumption, Typed, Ordered, NEW n \in Proc, NEW i \in DOMAIN node[n].cq, node[n].cq[i].op = "written",
         NEW j \in DOMAIN node[n].cq, node[n].cq[j].op = "written", i # j
  PROVE  node[n].cq[i].idx # node[n].cq[j].idx
<1>1. PICK e, f, t : e = node[n].cq[i] /\ f = node[n].cq[j] /\ t = node[n].table
  OBVIOUS
<1>2. SUFFICES ASSUME e.idx = f.idx PROVE FALSE
  BY <1>1
<1>3. PICK x : x = <<e.idx, t[e.idx].addr, t[e.idx].msg>>
  OBVIOUS
<1>4. e.link \in To(n) /\ x \in Held(LaneAt(16, e.link))
  BY <1>1, <1>3, WrittenFound
<1>5. f.link \in To(n) /\ x \in Held(LaneAt(16, f.link))
  <2>1. x = <<f.idx, t[f.idx].addr, t[f.idx].msg>>
    BY <1>2, <1>3
  <2>2. QED
    BY <2>1, <1>1, WrittenFound
<1>6. OwnEntries(n) /\ 16 \in Entries /\ 16 \in Lanes /\ 16 \in DstLanes
  BY DEF Ordered, Entries, Lanes, DstLanes
<1>7. e.link = f.link
  BY <1>4, <1>5, <1>6, EntryOnce
<1>8. PICK l, u : l = e.link /\ u = LaneAt(16, l)
  OBVIOUS
<1>9. u = [k \in DOMAIN node[n].cq |-> Val(16, l, node[n].cq[k], t)]
  <2>1. l.dst = n
    BY <1>4, <1>8 DEF To
  <2>2. QueueAt(16, l) = node[n].cq /\ LookupAt(16, l) = t
    BY <2>1, <1>1, <1>6, QueueIn, Lookups
  <2>3. QED
    BY <2>2, <1>8 DEF LaneAt, Lane
<1>10. Val(16, l, e, t) = {x} /\ Val(16, l, f, t) = {x}
  <2>1. e.op = "written" /\ e.link = l /\ f.op = "written" /\ f.link = l
    BY <1>1, <1>7, <1>8
  <2>2. x = <<f.idx, t[f.idx].addr, t[f.idx].msg>>
    BY <1>2, <1>3
  <2>3. Val(16, l, e, t) = {x}
    BY ONLY <2>1, <1>3, ValuesOfArrivals DEF If
  <2>4. Val(16, l, f, t) = {x}
    BY ONLY <2>1, <2>2, ValuesOfArrivals DEF If
  <2>5. QED
    BY <2>3, <2>4
<1>11. i \in DOMAIN u /\ j \in DOMAIN u /\ u[i] = {x} /\ u[j] = {x}
  BY <1>1, <1>9, <1>10
<1>12. Once(u)
  <2>1. PICK F, p : F = EntryLanes(n) /\ p = <<16, l>>
    OBVIOUS
  <2>2. p \in DOMAIN F /\ F[p] = u
    BY <2>1, <1>4, <1>6, <1>8 DEF EntryLanes
  <2>3. Separate(F)
    BY <2>1, <1>6 DEF OwnEntries
  <2>4. QED
    BY <2>2, <2>3 DEF Separate
<1>13. QED
  BY <1>11, <1>12 DEF Once

(* The index of the first is given back: the others keep their entries.      *)
LEMMA ReleasedSearched ==
  ASSUME RdmaAssumption, Typed, Ordered, NEW n \in Proc, node[n].cq # <<>>, Head(node[n].cq).op = "written",
         node'[n].table = Drop(node[n].table, Head(node[n].cq).idx)
  PROVE  Searched(n)
<1>1. PICK T : node[n].cq \in Seq(T)
  BY DEF Typed, Nodes, NodeAt
<1>2. 1 \in DOMAIN node[n].cq /\ node[n].cq[1] = Head(node[n].cq)
  BY <1>1
<1>3. ASSUME NEW j \in DOMAIN Tail(node[n].cq), Tail(node[n].cq)[j].op = "written"
      PROVE  node'[n].table[Tail(node[n].cq)[j].idx] = node[n].table[Tail(node[n].cq)[j].idx]
  <2>1. PICK k : k = j + 1 /\ k # 1 /\ k \in DOMAIN node[n].cq /\ node[n].cq[k] = Tail(node[n].cq)[j]
    BY <1>1, <1>3
  <2>2. node[n].cq[k].idx \in DOMAIN node[n].table
    BY <1>3, <2>1, WrittenFound
  <2>3. node[n].cq[k].idx # node[n].cq[1].idx
    BY <1>2, <1>3, <2>1, WrittenDiffer
  <2>4. PICK f, g, x, y : f = node[n].table /\ g = node'[n].table /\ x = node[n].cq[1].idx /\ y = node[n].cq[k].idx
    OBVIOUS
  <2>5. g = Drop(f, x) /\ y # x /\ y \in DOMAIN f
    BY <1>2, <2>2, <2>3, <2>4
  <2>6. g[y] = f[y]
    BY ONLY <2>5 DEF Drop
  <2>7. QED
    BY <2>1, <2>4, <2>6
<1>4. QED
  BY <1>3 DEF Searched

(* The buffer of a finished write goes to RecvMsg.                           *)
LEMMA ReceivedAppended ==
  ASSUME RdmaAssumption, Typed, NEW n \in Proc, NEW l, NEW c, NEW y, y = [link |-> l, ctx |-> c],
         node'[n].recv = Append(node[n].recv, y)
  PROVE  /\ l \in To(n) => Enters(7, l, c.msg)
         /\ \A q \in To(n) : q # l => Stays(7, q)
<1>1. PICK m : m = c.msg
  OBVIOUS
<1>2. ASSUME NEW q \in To(n) PROVE (q = l => Enters(7, q, m)) /\ (q # l => Stays(7, q))
  <2>1. q \in Link /\ q.dst = n /\ 7 \in Lanes
    BY DEF To, Lanes, Stages
  <2>2. QueueAt(7, q) = node[n].recv /\ QueueAt(7, q)' = Append(node[n].recv, y)
    BY <2>1, QueueIs
  <2>3. PICK T : QueueAt(7, q) \in Seq(T)
    BY <2>1, LaneTypes
  <2>4. LookupAt(7, q) = <<>> /\ LookupAt(7, q)' = <<>>
    <3>1. 7 \notin {1, 3, 13, 6, 16}
      OBVIOUS
    <3>2. QED
      BY <3>1, LookupIs
  <2>5. QueueAt(7, q)' = Append(QueueAt(7, q), y)
    BY <2>2
  <2>6. /\ Val(7, q, y, LookupAt(7, q)') = {} => Stays(7, q)
        /\ \A v : Val(7, q, y, LookupAt(7, q)') = {v} => Enters(7, q, v)
    BY <2>3, <2>4, <2>5, LaneAppended
  <2>7. \A x : Val(7, q, y, x) = If(l = q, m)
    <3>1. y.link = l /\ y.ctx.msg = m
      BY <1>1
    <3>2. QED
      BY <3>1, ValuesOut
  <2>8. QED
    BY <2>6, <2>7 DEF If
<1>3. QED
  BY <1>1, <1>2

(* The target gets the report of a write and queues its buffer for RecvMsg. *)
LEMMA OrderedPollWritten ==
  ASSUME RdmaAssumption, Typed, Ordered, NEW n \in Proc, PollWritten(n)
  PROVE  Ordered'
<1>1. PICK e, l, c : e = Head(node[n].cq) /\ l = e.link /\ c = node[n].table[e.idx]
  OBVIOUS
<1>2. /\ node[n].cq # <<>> /\ e.op = "written" /\ UNCHANGED <<out, posted, delivered>>
  BY <1>1 DEF PollWritten, Polls
<1>3. l \in To(n) /\ e.idx \in DOMAIN node[n].table
  <2>1. PICK T : node[n].cq \in Seq(T)
    BY DEF Typed, Nodes, NodeAt
  <2>2. 1 \in DOMAIN node[n].cq /\ node[n].cq[1] = e
    BY <2>1, <1>1, <1>2
  <2>3. QED
    BY <2>2, <1>1, <1>2, WrittenFound
<1>4. l \in Link /\ l.dst = n
  BY <1>3 DEF To
<1>5. PICK y, r, x : /\ y = [link |-> l, ctx |-> c] /\ x = <<e.idx, c.addr, c.msg>>
                     /\ r = [GetAddressAndRelease(Polled(n), e.idx) EXCEPT !.recv = Append(@, y)]
  OBVIOUS
<1>6. node' = [node EXCEPT ![n] = r] /\ inc' = [inc EXCEPT ![l].rx = @ + 1]
  BY <1>1, <1>3, <1>5 DEF PollWritten
<1>7. /\ r.cq = Polled(n).cq /\ r.table = Drop(node[n].table, e.idx) /\ r.mem = node[n].mem
      /\ r.recv = Append(node[n].recv, y)
  <2>1. /\ {"cq", "table", "recv", "mem", "free"} \subseteq DOMAIN Polled(n) /\ Polled(n).table = node[n].table
        /\ Polled(n).recv = node[n].recv /\ Polled(n).mem = node[n].mem
    BY <1>2, PolledAt DEF NodeAt
  <2>2. QED
    BY <2>1, <1>5 DEF GetAddressAndRelease
<1>8. Takes(n, e)
  BY <1>1, <1>2, <1>6, <1>7, TakesRecord
<1>9. /\ node'[n].table = Drop(node[n].table, e.idx) /\ node'[n].mem = node[n].mem
      /\ node'[n].recv = Append(node[n].recv, y) /\ \A p \in Proc \ {n} : node'[p] = node[p]
  <2>1. DOMAIN node = Proc
    BY DEF Typed, Nodes
  <2>2. node'[n] = r /\ \A p \in Proc \ {n} : node'[p] = node[p]
    BY ONLY <2>1, <1>6
  <2>3. QED
    BY <2>2, <1>7
<1>10. /\ inc'[l].reply = inc[l].reply /\ inc'[l].sq = inc[l].sq /\ inc'[l].replyBuf = inc[l].replyBuf
       /\ \A q \in Link \ {l} : inc'[q] = inc[q]
  <2>1. DOMAIN inc = Link /\ {"reply", "sq", "replyBuf", "rx"} \subseteq DOMAIN inc[l]
    BY <1>4 DEF Typed, Incs, IncAt
  <2>2. QED
    BY ONLY <2>1, <1>4, <1>6
<1>11. Searched(n)
  BY <1>1, <1>2, <1>9, ReleasedSearched
<1>12. OwnContexts(l) /\ Orderly(l) /\ OwnEntries(n) /\ OwnBuffers(n)
  BY <1>4 DEF Ordered
<1>13. /\ Leaves(6, l, c.msg) /\ Leaves(16, l, x)
       /\ \A k \in (SrcLanes \cup DstLanes) \ {6, 16} : Stays(k, l)
  <2>1. /\ Leaves(6, l, c.msg) /\ Leaves(16, l, <<e.idx, c.addr, c.msg>>)
        /\ \A k \in (SrcLanes \cup DstLanes) \ {6, 16} : Stays(k, l)
    BY <1>1, <1>2, <1>4, <1>8, <1>11, WrittenPolled
  <2>2. QED
    BY <2>1, <1>5
<1>14. Enters(7, l, c.msg) /\ \A q \in To(n) : q # l => Stays(7, q)
  BY <1>3, <1>5, <1>9, ReceivedAppended
<1>15. \A k \in OutLanes \cup IncLanes \cup {31, 21} : Stays(k, l)
  <2>1. ASSUME NEW k \in OutLanes \cup IncLanes \cup {31, 21} PROVE Stays(k, l)
    <3>1. k \in Lanes /\ k \notin SrcLanes /\ k \notin DstLanes /\ k # 7
      BY LaneKinds, LaneGroups DEF OutLanes, IncLanes, SrcLanes, DstLanes
    <3>2. QED
      BY <3>1, <1>2, <1>10, LaneRest
  <2>2. QED
    BY <2>1
<1>16. \A k \in Lanes \ {6, 7, 16} : Stays(k, l)
  BY <1>13, <1>15, LaneGroups
<1>17. ASSUME NEW q \in Link \ {l} PROVE Alone(q)
  <2>1. e.op # "error" /\ q # e.link /\ posted'[q] = posted[q] /\ delivered'[q] = delivered[q]
    BY <1>1, <1>2
  <2>2. q.dst = n => Stays(7, q)
    BY <1>14 DEF To
  <2>3. QED
    BY <2>1, <2>2, <1>2, <1>8, <1>10, <1>11, PollElsewhere
<1>18. (Sound(l)' => Sound(l)) /\ (Faults(l) # {} => Faults(l)' # {})
  BY <1>2, <1>8, <1>4, FaultsTaken DEF Sound
<1>19. OwnContexts(l)'
  <2>1. Answers \cup Starts \subseteq Lanes \ {6, 7, 16}
    BY DEF Answers, Starts, Lanes
  <2>2. QED
    BY <2>1, <1>12, <1>16, <1>18, ContextsStay
<1>20. Orderly(l)'
  <2>1. Len(delivered[l]) \in Nat
    BY <1>4 DEF Ordered, Histories
  <2>2. 6 \in 1 .. 6 /\ 7 = 6 + 1 /\ 6 # 5 /\ Stages \ {6, 7} \subseteq Lanes \ {6, 7, 16}
    BY DEF Stages, Lanes
  <2>3. QED
    BY <2>1, <2>2, <1>2, <1>12, <1>13, <1>14, <1>16, <1>18, OrderlyMoves
<1>21. \A q \in To(n), k \in Entries : q # l \/ k # 16 => Stays(k, q)
  <2>1. Entries \subseteq Lanes /\ Entries \ {16} \subseteq Lanes \ {6, 7, 16}
    BY DEF Entries, Lanes
  <2>2. QED
    BY <2>1, <1>16, <1>17 DEF To, Alone
<1>22. OwnEntries(n)'
  <2>1. 16 \in Entries
    BY DEF Entries
  <2>2. /\ Separate(EntryLanes(n))' /\ Total(EntryLanes(n))' = Total(EntryLanes(n)) \ {x}
    BY <2>1, <1>3, <1>12, <1>13, <1>21, EntriesLose
  <2>3. ASSUME NEW z \in Total(EntryLanes(n)) \ {x} PROVE Entry(z, node'[n].table)
    <3>1. PICK j \in DOMAIN node[n].table : z = <<j, node[n].table[j].addr, node[n].table[j].msg>>
      BY <1>12 DEF OwnEntries, Entry
    <3>2. j # e.idx
      BY <3>1, <1>1, <1>5
    <3>3. j \in DOMAIN node'[n].table /\ node'[n].table[j] = node[n].table[j]
      <4>1. node'[n].table = Drop(node[n].table, e.idx)
        BY <1>9
      <4>2. QED
        BY ONLY <4>1, <3>2 DEF Drop
    <3>4. QED
      BY <3>1, <3>3 DEF Entry
  <2>4. QED
    BY <2>2, <2>3 DEF OwnEntries
<1>23. OwnBuffers(n)'
  <2>1. ASSUME NEW q \in To(n), NEW z \in Held(LaneAt(16, q))' PROVE Filled(n, z[2], z[3])'
    <3>1. z \in Held(LaneAt(16, q))
      <4>1. CASE q # l
        <5>1. Stays(16, q)
          BY <4>1, <1>21 DEF Entries
        <5>2. QED
          BY <5>1 DEF Stays, Alike
      <4>2. CASE q = l
        <5>1. PICK F, p : F = EntryLanes(n) /\ p = <<16, l>>
          OBVIOUS
        <5>2. p \in DOMAIN F /\ F[p] = LaneAt(16, l)
          BY <5>1, <1>3 DEF EntryLanes, Entries
        <5>3. Once(LaneAt(16, l))
          BY <5>1, <5>2, <1>12 DEF OwnEntries, Separate
        <5>4. QED
          BY <4>2, <5>3, <1>13 DEF Leaves, Loses
      <4>3. QED
        BY <4>1, <4>2
    <3>2. Filled(n, z[2], z[3])
      BY <3>1, <1>12 DEF OwnBuffers
    <3>3. QED
      BY <3>2, <1>9 DEF Filled
  <2>2. Filled(n, c.addr, c.msg)'
    <3>1. x \in Held(LaneAt(16, l)) /\ x[2] = c.addr /\ x[3] = c.msg
      BY <1>5, <1>13 DEF Leaves, Loses
    <3>2. Filled(n, c.addr, c.msg)
      BY <3>1, <1>3, <1>12 DEF OwnBuffers
    <3>3. QED
      BY <3>2, <1>9 DEF Filled
  <2>3. ASSUME NEW i \in DOMAIN node'[n].recv
        PROVE  /\ Filled(n, node[n].recv[i].ctx.addr, node[n].recv[i].ctx.msg)'
               /\ node'[n].recv[i].link \in To(n)
    <3>1. PICK T : node[n].recv \in Seq(T)
      BY DEF Typed, Nodes, NodeAt
    <3>2. CASE i \in DOMAIN node[n].recv
      <4>1. PICK z : z = node[n].recv[i].ctx
        OBVIOUS
      <4>2. node'[n].recv[i] = node[n].recv[i]
        BY <3>1, <3>2, <1>9
      <4>3. Filled(n, z.addr, z.msg)
        BY <4>1, <3>2, <1>12 DEF OwnBuffers
      <4>4. Filled(n, z.addr, z.msg)'
        BY <4>3, <1>9 DEF Filled
      <4>5. node[n].recv[i].link \in To(n)
        BY <3>2, <1>12 DEF OwnBuffers
      <4>6. QED
        BY <4>1, <4>2, <4>4, <4>5
    <3>3. CASE i \notin DOMAIN node[n].recv
      <4>1. node'[n].recv[i] = y
        BY <3>1, <3>3, <1>9
      <4>2. QED
        BY <4>1, <2>2, <1>3, <1>5
    <3>4. QED
      BY <3>2, <3>3
  <2>4. QED
    BY <2>1, <2>3 DEF OwnBuffers, To
<1>24. Histories'
  BY <1>2, HistoriesKept DEF Ordered
<1>25. \A p \in Proc \ {n} : Untouched(p)
  BY <1>9 DEF Untouched
<1>26. QED
  BY <1>4, <1>17, <1>19, <1>20, <1>22, <1>23, <1>24, <1>25, OrderedLink

----------------------------------------------------------------------------
(* RecvMsg.                                                                  *)

(* The meta data of a message arrive but for the flag of pulls, as over TCP. *)
LEMMA NodeArrives == ASSUME NEW n \in W!Node PROVE W!UnpackNode(W!PackNode(n)) = n
<1> DEFINE p == W!PackNode(n)
<1>1. DOMAIN p = {"role", "id", "hostname", "port", "is_recovery", "customer_id"}
  BY DEF W!PackNode
<1>2. /\ p["role"] = n.role /\ p["id"] = n.id /\ p["hostname"] = n.hostname
      /\ p["port"] = n.port /\ p["is_recovery"] = n.is_recovery
      /\ p["customer_id"] = n.customer_id
  BY DEF W!PackNode
<1> HIDE DEF p
<1>3. /\ W!Field(p, "id", kEmpty) = n.id /\ W!Field(p, "hostname", "") = n.hostname
      /\ W!Field(p, "port", 0) = n.port /\ W!Field(p, "is_recovery", FALSE) = n.is_recovery
      /\ W!Field(p, "customer_id", 0) = n.customer_id
  BY <1>1, <1>2 DEF W!Field
<1>4. W!UnpackNode(p) = [role |-> n.role, id |-> n.id, hostname |-> n.hostname, port |-> n.port,
                       is_recovery |-> n.is_recovery, customer_id |-> n.customer_id]
  BY <1>2, <1>3 DEF W!UnpackNode
<1>5. n = [role |-> n.role, id |-> n.id, hostname |-> n.hostname, port |-> n.port,
           is_recovery |-> n.is_recovery, customer_id |-> n.customer_id]
  BY DEF W!Node
<1>6. QED
  BY <1>4, <1>5 DEF p

(* The control record too.                                                   *)
LEMMA ControlArrives == ASSUME NEW c \in W!Control PROVE W!UnpackControl(W!PackControl(c)) = c
<1> DEFINE p == W!PackControl(c)
<1>1. /\ "cmd" \in DOMAIN p /\ "node" \in DOMAIN p
      /\ "barrier_group" \in DOMAIN p <=> c.cmd = "BARRIER"
      /\ "msg_sig" \in DOMAIN p <=> c.cmd = "ACK"
  BY DEF W!PackControl
<1>2. /\ p["cmd"] = c.cmd
      /\ p["node"] = [i \in DOMAIN c.node |-> W!PackNode(c.node[i])]
      /\ "barrier_group" \in DOMAIN p => p["barrier_group"] = c.barrier_group
      /\ "msg_sig" \in DOMAIN p => p["msg_sig"] = c.msg_sig
  BY DEF W!PackControl
<1> HIDE DEF p
<1>3. /\ c.node \in Seq(W!Node)
      /\ c.cmd # "BARRIER" => c.barrier_group = 0
      /\ c.cmd # "ACK" => c.msg_sig = 0
  BY DEF W!Control
<1>4. /\ W!Field(p, "barrier_group", 0) = c.barrier_group
      /\ W!Field(p, "msg_sig", 0) = c.msg_sig
  BY <1>1, <1>2, <1>3 DEF W!Field
<1>5. [i \in DOMAIN p["node"] |-> W!UnpackNode(p["node"][i])] = c.node
  <2>1. ASSUME NEW i \in DOMAIN c.node PROVE W!UnpackNode(p["node"][i]) = c.node[i]
    BY <1>2, <1>3, NodeArrives
  <2>2. DOMAIN p["node"] = DOMAIN c.node
    BY <1>2
  <2>3. QED
    BY <1>3, <2>1, <2>2
<1>6. W!UnpackControl(p) = [cmd |-> c.cmd, node |-> c.node,
                          barrier_group |-> c.barrier_group, msg_sig |-> c.msg_sig]
  BY <1>2, <1>4, <1>5 DEF W!UnpackControl
<1>7. c = [cmd |-> c.cmd, node |-> c.node,
           barrier_group |-> c.barrier_group, msg_sig |-> c.msg_sig]
  BY DEF W!Control
<1>8. QED
  BY <1>6, <1>7 DEF p

(* What PackMetaPB and UnpackMeta make of the meta data of a message.        *)
LEMMA HeadArrives ==
  ASSUME NEW m \in W!Meta, NEW l
  PROVE  W!UnpackMeta(W!PackMetaPB(m), l.src, l.dst) = Arrives(l, m)
<1>1. PICK pb, s, r : pb = W!PackMetaPB(m) /\ s = l.src /\ r = l.dst
  OBVIOUS
<1>2. /\ {"head", "request", "push", "simple_app", "priority", "customer_id", "data_type"}
           \subseteq DOMAIN pb
      /\ "app_id" \in DOMAIN pb <=> m.app_id # kEmpty
      /\ "timestamp" \in DOMAIN pb <=> m.timestamp # kEmpty
      /\ "body" \in DOMAIN pb <=> m.body # ""
      /\ "control" \in DOMAIN pb <=> m.control.cmd # "EMPTY"
      /\ "pull" \notin DOMAIN pb
  BY <1>1 DEF W!PackMetaPB, W!Packed, W!PackedFields
<1>3. /\ \A f \in DOMAIN pb \ {"control"} : pb[f] = m[f]
      /\ "control" \in DOMAIN pb => pb["control"] = W!PackControl(m.control)
  BY <1>1 DEF W!PackMetaPB, W!Packed
<1>4. /\ W!Field(pb, "head", 0) = m.head
      /\ W!Field(pb, "customer_id", 0) = m.customer_id
      /\ W!Field(pb, "request", FALSE) = m.request
      /\ W!Field(pb, "push", FALSE) = m.push
      /\ W!Field(pb, "simple_app", FALSE) = m.simple_app
      /\ W!Field(pb, "data_type", <<>>) = m.data_type
      /\ W!Field(pb, "priority", 0) = m.priority
  BY <1>2, <1>3 DEF W!Field
<1>5. /\ W!Field(pb, "app_id", kEmpty) = m.app_id
      /\ W!Field(pb, "timestamp", kEmpty) = m.timestamp
      /\ W!Field(pb, "body", "") = m.body
      /\ W!Field(pb, "pull", FALSE) = FALSE
  BY <1>2, <1>3 DEF W!Field
<1>6. (IF "control" \in DOMAIN pb THEN W!UnpackControl(pb["control"])
       ELSE [cmd |-> "EMPTY", node |-> <<>>, barrier_group |-> 0, msg_sig |-> 0]) = m.control
  <2>1. m.control \in W!Control
    BY DEF W!Meta
  <2>2. CASE m.control.cmd # "EMPTY"
    BY <1>2, <1>3, <2>1, <2>2, ControlArrives
  <2>3. CASE m.control.cmd = "EMPTY"
    <3>1. /\ m.control.node = <<>> /\ m.control.barrier_group = 0 /\ m.control.msg_sig = 0
      BY <2>1, <2>3 DEF W!Control
    <3>2. m.control = [cmd |-> m.control.cmd, node |-> m.control.node,
                       barrier_group |-> m.control.barrier_group, msg_sig |-> m.control.msg_sig]
      BY <2>1 DEF W!Control
    <3>3. QED
      BY <1>2, <2>3, <3>1, <3>2
  <2>4. QED
    BY <2>2, <2>3
<1>7. W!UnpackMeta(pb, s, r) =
        [head |-> m.head, app_id |-> m.app_id, customer_id |-> m.customer_id,
         timestamp |-> m.timestamp, sender |-> s, recver |-> r, request |-> m.request,
         push |-> m.push, pull |-> FALSE, simple_app |-> m.simple_app, body |-> m.body,
         data_type |-> m.data_type, control |-> m.control, data_size |-> 0,
         priority |-> m.priority]
  BY <1>4, <1>5, <1>6 DEF W!UnpackMeta
<1>8. Arrives(l, m) =
        [head |-> m.head, app_id |-> m.app_id, customer_id |-> m.customer_id,
         timestamp |-> m.timestamp, sender |-> s, recver |-> r, request |-> m.request,
         push |-> m.push, pull |-> FALSE, simple_app |-> m.simple_app, body |-> m.body,
         data_type |-> m.data_type, control |-> m.control, data_size |-> 0,
         priority |-> m.priority]
  <2>1. m = [head |-> m.head, app_id |-> m.app_id, customer_id |-> m.customer_id,
             timestamp |-> m.timestamp, sender |-> m.sender, recver |-> m.recver, request |-> m.request,
             push |-> m.push, pull |-> m.pull, simple_app |-> m.simple_app, body |-> m.body,
             data_type |-> m.data_type, control |-> m.control, data_size |-> m.data_size,
             priority |-> m.priority]
    BY DEF W!Meta
  <2>2. Arrives(l, m) = [m EXCEPT !.sender = s, !.recver = r, !.pull = FALSE, !.data_size = 0]
    BY <1>1 DEF Arrives
  <2>3. QED
    BY ONLY <2>1, <2>2
<1>9. QED
  BY <1>1, <1>7, <1>8

(* The first buffer leaves those to be read.                                 *)
LEMMA ReceivedTaken ==
  ASSUME RdmaAssumption, Typed, NEW n \in Proc, node[n].recv # <<>>, node'[n].recv = Tail(node[n].recv),
         NEW l, NEW m, l = Head(node[n].recv).link, m = Head(node[n].recv).ctx.msg
  PROVE  /\ l \in To(n) => Leaves(7, l, m)
         /\ \A q \in To(n) : q # l => Stays(7, q)
<1>1. PICK y : y = Head(node[n].recv)
  OBVIOUS
<1>2. ASSUME NEW q \in To(n) PROVE (q = l => Leaves(7, q, m)) /\ (q # l => Stays(7, q))
  <2>1. q \in Link /\ q.dst = n /\ 7 \in Lanes
    BY DEF To, Lanes, Stages
  <2>2. QueueAt(7, q) = node[n].recv /\ QueueAt(7, q)' = Tail(node[n].recv)
    <3>1. QueueAt(7, q) = node[q.dst].recv /\ QueueAt(7, q)' = node'[q.dst].recv
      BY <2>1, QueueIs
    <3>2. QED
      BY <3>1, <2>1
  <2>3. PICK T : QueueAt(7, q) \in Seq(T)
    BY <2>1, LaneTypes
  <2>4. LookupAt(7, q) = <<>> /\ LookupAt(7, q)' = <<>>
    <3>1. 7 \notin {1, 3, 13, 6, 16}
      OBVIOUS
    <3>2. QED
      BY <3>1, LookupIs
  <2>5. QueueAt(7, q) # <<>> /\ QueueAt(7, q)' = Tail(QueueAt(7, q)) /\ Head(QueueAt(7, q)) = y
    BY <1>1, <2>2
  <2>6. /\ Val(7, q, y, LookupAt(7, q)) = {} => Stays(7, q)
        /\ \A v : Val(7, q, y, LookupAt(7, q)) = {v} => Leaves(7, q, v)
    BY <2>3, <2>4, <2>5, LanePopped
  <2>7. \A x : Val(7, q, y, x) = If(l = q, m)
    <3>1. y.link = l /\ y.ctx.msg = m
      BY <1>1
    <3>2. QED
      BY <3>1, ValuesOut
  <2>8. QED
    BY <2>6, <2>7 DEF If
<1>3. QED
  BY <1>2

(* The buffer that is read is of no other message.                           *)
LEMMA BuffersTaken ==
  ASSUME Typed, Kept, NEW n \in Proc, OwnEntries(n), OwnBuffers(n), node[n].recv # <<>>,
         node'[n].recv = Tail(node[n].recv), node'[n].mem = Drop(node[n].mem, Head(node[n].recv).ctx.addr),
         \A q \in To(n) : Stays(16, q)
  PROVE  OwnBuffers(n)'
<1>1. PICK T : node[n].recv \in Seq(T)
  BY DEF Typed, Nodes, NodeAt
<1>2. PICK a, mem, more : a = Head(node[n].recv).ctx.addr /\ mem = node[n].mem /\ more = node'[n].mem
  OBVIOUS
<1>3. 1 \in DOMAIN node[n].recv /\ node[n].recv[1].ctx.addr = a
  BY <1>1, <1>2
<1>4. \A b, v : b # a /\ Filled(n, b, v) => Filled(n, b, v)'
  <2>1. more = Drop(mem, a)
    BY <1>2
  <2>2. \A b \in DOMAIN mem : b # a => b \in DOMAIN more /\ more[b] = mem[b]
    BY ONLY <2>1 DEF Drop
  <2>3. QED
    BY <2>2, <1>2 DEF Filled
<1>5. ASSUME NEW q \in To(n), NEW z \in Held(LaneAt(16, q))' PROVE Filled(n, z[2], z[3])'
  <2>1. z \in Held(LaneAt(16, q))
    BY DEF Stays, Alike
  <2>2. 16 \in Entries
    BY DEF Entries
  <2>3. Entry(z, node[n].table)
    BY <2>1, <2>2, EntryOnce
  <2>4. PICK j \in DOMAIN node[n].table : z = <<j, node[n].table[j].addr, node[n].table[j].msg>>
    BY <2>3 DEF Entry
  <2>5. node[n].table[j].addr # a
    BY <1>3, <2>4, AddressesApart
  <2>6. Filled(n, z[2], z[3])
    BY <2>1 DEF OwnBuffers
  <2>7. z[2] # a
    BY <2>4, <2>5
  <2>8. QED
    BY <1>4, <2>6, <2>7
<1>6. ASSUME NEW i \in DOMAIN node'[n].recv
      PROVE  /\ Filled(n, node[n].recv[i].ctx.addr, node[n].recv[i].ctx.msg)'
             /\ node'[n].recv[i].link \in To(n)
  <2>1. PICK k : k = i + 1 /\ k # 1 /\ k \in DOMAIN node[n].recv /\ node'[n].recv[i] = node[n].recv[k]
    BY <1>1
  <2>2. PICK z : z = node[n].recv[k]
    OBVIOUS
  <2>3. z.ctx.addr # a
    BY <1>3, <2>1, <2>2, AddressesDiffer
  <2>4. Filled(n, z.ctx.addr, z.ctx.msg) /\ z.link \in To(n)
    BY <2>1, <2>2 DEF OwnBuffers
  <2>5. Filled(n, z.ctx.addr, z.ctx.msg)'
    BY <1>4, <2>3, <2>4
  <2>6. QED
    BY <2>1, <2>2, <2>4, <2>5
<1>7. QED
  BY <1>5, <1>6 DEF OwnBuffers, To

(* RecvMsg returns the first message of the queue: the next one of its      *)
(* link.                                                                    *)
LEMMA OrderedRecvMsg ==
  ASSUME RdmaAssumption, Typed, Kept, Ordered, NEW n \in Proc, RecvMsg(n)
  PROVE  Ordered'
<1>1. PICK r, l, a, m : r = Head(node[n].recv) /\ l = r.link /\ a = r.ctx.addr /\ m = r.ctx.msg
  OBVIOUS
<1>2. OwnEntries(n) /\ OwnBuffers(n)
  BY DEF Ordered
<1>3. PICK T : node[n].recv \in Seq(T)
  BY DEF Typed, Nodes, NodeAt
<1>4. node[n].recv # <<>> /\ UNCHANGED <<out, inc, posted>>
  BY DEF RecvMsg
<1>5. 1 \in DOMAIN node[n].recv /\ node[n].recv[1] = r
  BY <1>1, <1>3, <1>4
<1>6. l \in To(n) /\ Filled(n, a, m)
  BY <1>1, <1>2, <1>5 DEF OwnBuffers
<1>7. l \in Link /\ l.dst = n
  BY <1>6 DEF To
<1>8. PICK y : y = [body |-> m, lens |-> m, head |-> Arrives(l, BodyOf(m).head)]
  OBVIOUS
<1>9. delivered' = [delivered EXCEPT ![l] = Append(@, y)]
  <2>1. m \in Msg
    <3>1. node[n].recv \in Seq([link : Link, ctx : [addr : Nat, msg : Msg]])
      BY DEF Typed, Nodes, NodeAt
    <3>2. r \in [link : Link, ctx : [addr : Nat, msg : Msg]]
      <4>1. PICK A, q : A = [link : Link, ctx : [addr : Nat, msg : Msg]] /\ q = node[n].recv
        OBVIOUS
      <4>2. q \in Seq(A) /\ 1 \in DOMAIN q
        BY <4>1, <3>1, <1>5
      <4>3. q[1] \in A
        BY ONLY <4>2
      <4>4. QED
        BY <4>1, <4>3, <1>5
    <3>3. QED
      BY <3>2, <1>1
  <2>2. Received(l, m) = Arrives(l, BodyOf(m).head)
    <3>1. BodyOf(m).head \in W!Meta
      BY <2>1, MsgFacts DEF Body
    <3>2. QED
      BY <3>1, HeadArrives DEF Received
  <2>3. a \in DOMAIN node[n].mem /\ node[n].mem[a] = m
    BY <1>6 DEF Filled
  <2>4. QED
    BY <1>1, <1>8, <2>2, <2>3 DEF RecvMsg
<1>10. /\ node'[n].recv = Tail(node[n].recv) /\ node'[n].mem = Drop(node[n].mem, a)
       /\ node'[n].cq = node[n].cq /\ node'[n].table = node[n].table
       /\ \A p \in Proc \ {n} : node'[p] = node[p]
  <2>1. DOMAIN node = Proc /\ {"recv", "mem", "blocks", "pool", "cq", "table"} \subseteq DOMAIN node[n]
    BY DEF Typed, Nodes, NodeAt
  <2>2. PICK b, p : node' = [node EXCEPT ![n].recv = Tail(@), ![n].mem = Drop(@, a), ![n].blocks = b, ![n].pool = p]
    BY <1>1 DEF RecvMsg
  <2>3. QED
    BY ONLY <2>1, <2>2
<1>11. Leaves(7, l, m) /\ \A q \in To(n) : q # l => Stays(7, q)
  BY <1>1, <1>4, <1>6, <1>10, ReceivedTaken
<1>12. ASSUME NEW q \in Link, NEW k \in Lanes, k # 7 \/ q # l PROVE Stays(k, q)
  <2>1. CASE k = 7 /\ q.dst = n
    BY <2>1, <1>11, <1>12 DEF To
  <2>2. CASE k # 7 \/ q.dst # n
    <3>1. q.src \in Proc /\ q.dst \in Proc
      BY LaneTypes
    <3>2. node'[q.src].cq = node[q.src].cq /\ node'[q.dst].cq = node[q.dst].cq
          /\ node'[q.dst].table = node[q.dst].table
      BY <3>1, <1>10
    <3>3. k = 7 => node'[q.dst].recv = node[q.dst].recv
      BY <2>2, <3>1, <1>10
    <3>4. QED
      BY <3>2, <3>3, <1>4, LaneRest
  <2>3. QED
    BY <2>1, <2>2
<1>13. ASSUME NEW q \in Link PROVE (Sound(q)' => Sound(q)) /\ Faults(q)' = Faults(q)
  <2>1. q.src \in Proc
    BY LaneTypes
  <2>2. node'[q.src].cq = node[q.src].cq
    BY <2>1, <1>10
  <2>3. QED
    BY <2>2, <1>4 DEF Sound, Faults
<1>14. DOMAIN delivered = Link /\ DOMAIN posted = Link
  BY DEF Ordered, Histories
<1>15. ASSUME NEW q \in Link \ {l} PROVE Alone(q)
  BY <1>4, <1>9, <1>12, <1>13, <1>14 DEF Alone
<1>16. PICK S, D : posted[l] \in Seq(S) /\ delivered[l] \in Seq(D)
  BY <1>7 DEF Ordered, Histories
<1>17. delivered'[l] = Append(delivered[l], y)
  BY <1>7, <1>9, <1>14
<1>18. OwnContexts(l) /\ Orderly(l)
  BY <1>7 DEF Ordered
<1>19. OwnContexts(l)'
  <2>1. Answers \cup Starts \subseteq Lanes /\ 7 \notin Answers \cup Starts
    BY DEF Answers, Starts, Lanes
  <2>2. QED
    BY <2>1, <1>7, <1>12, <1>13, <1>18, ContextsStay
<1>20. Orderly(l)'
  <2>1. Stages \subseteq Lanes
    BY LaneGroups
  <2>2. posted'[l] = posted[l]
    BY <1>4
  <2>3. \A k \in Stages \ {7} : Stays(k, l)
    BY <2>1, <1>7, <1>12
  <2>4. (Sound(l)' => Sound(l)) /\ (Faults(l) # {} => Faults(l)' # {})
    BY <1>7, <1>13
  <2>5. QED
    BY ONLY <2>2, <2>3, <2>4, <1>8, <1>11, <1>16, <1>17, <1>18, OrderlyEnds
<1>21. \A q \in To(n), k \in Entries : Stays(k, q)
  <2>1. Entries \subseteq Lanes /\ 7 \notin Entries
    BY DEF Entries, Lanes
  <2>2. QED
    BY <2>1, <1>12 DEF To
<1>22. OwnEntries(n)'
  BY <1>2, <1>10, <1>21, EntriesStay
<1>23. OwnBuffers(n)'
  <2>1. \A q \in To(n) : Stays(16, q)
    BY <1>21 DEF Entries
  <2>2. QED
    BY <2>1, <1>1, <1>2, <1>4, <1>10, BuffersTaken
<1>24. Histories'
  <2>1. ASSUME NEW q \in Link PROVE (\E A : posted'[q] \in Seq(A)) /\ (\E A : delivered'[q] \in Seq(A))
    <3>1. \E A : posted'[q] \in Seq(A)
      BY <1>4 DEF Ordered, Histories
    <3>2. CASE q # l
      BY <3>1, <3>2, <1>9, <1>14 DEF Ordered, Histories
    <3>3. CASE q = l
      <4>1. delivered[l] \in Seq(D \cup {y})
        BY <1>16, SeqMore
      <4>2. delivered'[l] \in Seq(D \cup {y})
        BY <4>1, <1>17
      <4>3. QED
        BY <4>2, <3>1, <3>3
    <3>4. QED
      BY <3>2, <3>3
  <2>2. DOMAIN posted' = Link /\ DOMAIN delivered' = Link
    BY <1>4, <1>9, <1>14
  <2>3. QED
    BY <2>1, <2>2 DEF Histories
<1>25. \A p \in Proc \ {n} : Untouched(p)
  BY <1>10 DEF Untouched
<1>26. QED
  BY <1>7, <1>15, <1>19, <1>20, <1>22, <1>23, <1>24, <1>25, OrderedLink

----------------------------------------------------------------------------
(* A START is posted.                                                        *)

(* The message goes into the new request, which takes the free context.      *)
LEMMA StartAppended ==
  ASSUME RdmaAssumption, Typed, NEW l \in Link, OwnContexts(l), out[l].start # <<>>,
         NEW i, i = Head(out[l].start), NEW m, NEW w, w.op = "start", w.ctx = i,
         out'[l].start = Tail(out[l].start), out'[l].sq = Append(out[l].sq, w),
         out'[l].startBuf = Put(out[l].startBuf, i, m)
  PROVE  /\ Leaves(31, l, i) /\ Enters(32, l, i) /\ Stays(5, l) /\ Stays(15, l)
         /\ Sound(l) => Enters(1, l, m)
<1>1. Leaves(31, l, i)
  BY ContextMoves
<1>2. PICK y : y = out'[l].startBuf
  OBVIOUS
<1>3. y[i] = m
  BY <1>2, PutGives
<1>4. /\ \A z : Val(32, l, w, z) = {i} /\ Val(5, l, w, z) = {} /\ Val(15, l, w, z) = {}
      /\ Val(1, l, w, y) = {m}
  BY <1>3, ValuesOut
<1>5. 1 \in OutLanes /\ 5 \in OutLanes /\ 15 \in OutLanes /\ 32 \in OutLanes /\ 5 # 1 /\ 15 # 1 /\ 32 # 1
  BY DEF OutLanes
<1>6. LookupAt(1, l)' = y
  BY <1>2, Lookups
<1>7. Enters(32, l, i)
  BY <1>4, <1>5, OutAppended
<1>8. Stays(5, l)
  BY <1>4, <1>5, OutAppended
<1>9. Stays(15, l)
  BY <1>4, <1>5, OutAppended
<1>10. ASSUME Sound(l) PROVE Enters(1, l, m)
  <2>1. ASSUME NEW j \in DOMAIN out[l].sq, out[l].sq[j].op = "start"
        PROVE  out'[l].startBuf[out[l].sq[j].ctx] = out[l].startBuf[out[l].sq[j].ctx]
    <3>1. PICK c, f : c = out[l].sq[j].ctx /\ f = out[l].startBuf
      OBVIOUS
    <3>2. c # i
      BY <1>10, <2>1, <3>1, ContextFree
    <3>3. c \in DOMAIN f
      <4>1. OutAt(l, out[l], thread)
        BY LaneTypes
      <4>2. out[l].sq \in Seq(OrderAt(l, out[l], thread))
        BY <4>1 DEF OutAt
      <4>3. out[l].sq[j] \in OrderAt(l, out[l], thread)
        BY <4>2
      <4>4. QED
        BY <4>3, <2>1, <3>1 DEF OrderAt
    <3>4. y = Put(f, i, m)
      BY <1>2, <3>1
    <3>5. y[c] = f[c]
      BY ONLY <3>2, <3>3, <3>4, PutGives
    <3>6. QED
      BY <1>2, <3>1, <3>5
  <2>2. QED
    BY <2>1, <1>4, <1>5, <1>6, OutAppended
<1>11. QED
  BY <1>1, <1>7, <1>8, <1>9, <1>10

(* SendMsg posts a message at the end of those of its link.                 *)
LEMMA OrderedPostStart ==
  ASSUME RdmaAssumption, Typed, Ordered, NEW t \in Thread, PostStart(t)
  PROVE  Ordered'
<1>1. PICK l, m, i, w : /\ l = Via[t] /\ m = <<t, thread[t].next>> /\ i = Head(out[l].start)
                        /\ w = [op |-> "start", ctx |-> i]
  OBVIOUS
<1>2. l \in Link
  BY <1>1 DEF RdmaAssumption
<1>3. l.src \in Proc /\ l.dst \in Proc
  BY <1>2, LaneTypes
<1>4. /\ out[l].start # <<>> /\ UNCHANGED <<node, inc, delivered>>
      /\ out' = [out EXCEPT ![l].start = Tail(@), ![l].startBuf = Put(@, i, m), ![l].sq = Append(@, w)]
      /\ posted' = [posted EXCEPT ![l] = Append(@, m)]
  BY <1>1 DEF PostStart
<1>5. /\ out'[l].start = Tail(out[l].start) /\ out'[l].sq = Append(out[l].sq, w)
      /\ out'[l].startBuf = Put(out[l].startBuf, i, m) /\ out'[l].rejects = out[l].rejects
      /\ \A q \in Link \ {l} : out'[q] = out[q]
  <2>1. DOMAIN out = Link /\ {"start", "startBuf", "sq", "rejects"} \subseteq DOMAIN out[l]
    BY <1>2 DEF Typed, Outs, OutAt
  <2>2. QED
    BY ONLY <2>1, <1>2, <1>4
<1>6. DOMAIN posted = Link /\ DOMAIN delivered = Link
  BY DEF Ordered, Histories
<1>7. posted'[l] = Append(posted[l], m) /\ \A q \in Link \ {l} : posted'[q] = posted[q]
  BY <1>2, <1>4, <1>6
<1>8. OwnContexts(l) /\ Orderly(l) /\ OwnEntries(l.dst) /\ OwnBuffers(l.dst)
  BY <1>2, <1>3 DEF Ordered
<1>9. /\ Leaves(31, l, i) /\ Enters(32, l, i) /\ Stays(5, l) /\ Stays(15, l)
      /\ Sound(l) => Enters(1, l, m)
  <2>1. w.op = "start" /\ w.ctx = i /\ i = Head(out[l].start) /\ out[l].start # <<>>
    BY <1>1, <1>4
  <2>2. QED
    BY ONLY RdmaAssumption, Typed, <2>1, <1>2, <1>5, <1>8, StartAppended
<1>10. \A k \in Lanes \ {1, 31, 32} : Stays(k, l)
  <2>1. ASSUME NEW k \in Lanes \ {1, 31, 32} PROVE Stays(k, l)
    <3>1. CASE k \in OutLanes
      BY <3>1, <1>9 DEF OutLanes
    <3>2. CASE k \notin OutLanes
      BY <3>2, <1>4, LaneRest
    <3>3. QED
      BY <3>1, <3>2
  <2>2. QED
    BY <2>1
<1>11. ASSUME NEW q \in Link \ {l} PROVE Alone(q)
  BY <1>4, <1>5, <1>7, AloneSame
<1>12. (Sound(l)' <=> Sound(l)) /\ Faults(l)' = Faults(l)
  BY <1>4, <1>5 DEF Sound, Faults
<1>13. OwnContexts(l)'
  <2>1. 31 \in Starts /\ 32 \in Starts /\ 31 # 32 /\ (Answers \cup Starts) \ {31, 32} \subseteq Lanes \ {1, 31, 32}
    BY DEF Answers, Starts, Lanes
  <2>2. QED
    BY <2>1, <1>8, <1>9, <1>10, <1>12, StartsMove
<1>14. PICK S, D : posted[l] \in Seq(S) /\ delivered[l] \in Seq(D)
  BY <1>2 DEF Ordered, Histories
<1>15. Orderly(l)'
  <2>1. Stages \ {1} \subseteq Lanes \ {1, 31, 32}
    BY DEF Stages, Lanes
  <2>2. delivered'[l] = delivered[l]
    BY <1>4
  <2>3. Sound(l)' => Enters(1, l, m)
    BY <1>9, <1>12
  <2>4. (Sound(l)' => Sound(l)) /\ (Faults(l) # {} => Faults(l)' # {})
    BY <1>12
  <2>5. \A k \in Stages \ {1} : Stays(k, l)
    BY <2>1, <1>10
  <2>6. QED
    BY ONLY <2>2, <2>3, <2>4, <2>5, <1>7, <1>8, <1>14, OrderlyStarts
<1>16. \A q \in To(l.dst), k \in Entries : Stays(k, q)
  <2>1. Entries \subseteq Lanes \ {1, 31, 32}
    BY DEF Entries, Lanes
  <2>2. QED
    BY <2>1, <1>10, <1>11 DEF To, Alone
<1>17. OwnEntries(l.dst)'
  BY <1>4, <1>8, <1>16, EntriesStay
<1>18. OwnBuffers(l.dst)'
  <2>1. \A q \in To(l.dst) : Stays(16, q)
    BY <1>16 DEF Entries
  <2>2. QED
    BY <2>1, <1>4, <1>8, BuffersStay
<1>19. Histories'
  <2>1. ASSUME NEW q \in Link PROVE (\E A : posted'[q] \in Seq(A)) /\ (\E A : delivered'[q] \in Seq(A))
    <3>1. \E A : delivered'[q] \in Seq(A)
      BY <1>4 DEF Ordered, Histories
    <3>2. CASE q # l
      BY <3>1, <3>2, <1>7 DEF Ordered, Histories
    <3>3. CASE q = l
      <4>1. posted[l] \in Seq(S \cup {m})
        BY <1>14, SeqMore
      <4>2. posted'[l] \in Seq(S \cup {m})
        BY <4>1, <1>7
      <4>3. QED
        BY <4>2, <3>1, <3>3
    <3>4. QED
      BY <3>2, <3>3
  <2>2. DOMAIN posted' = Link /\ DOMAIN delivered' = Link
    BY <1>4, <1>6
  <2>3. QED
    BY <2>1, <2>2 DEF Histories
<1>20. \A p \in Proc : Untouched(p)
  BY <1>4 DEF Untouched
<1>21. QED
  BY <1>2, <1>11, <1>13, <1>15, <1>17, <1>18, <1>19, <1>20, OrderedLink

----------------------------------------------------------------------------
(* The contexts of a new queue pair.                                         *)

(* They are each there once.                                                 *)
LEMMA ContextsOnce ==
  ASSUME NEW l, NEW k, k = 21 \/ k = 31, NEW n \in Nat, NEW q, q = Contexts(n), NEW x
  PROVE  Once(Lane(k, l, q, x))
<1>1. DOMAIN q = 1 .. n /\ \A i \in 1 .. n : q[i] = i
  BY DEF Contexts
<1>2. PICK u : u = Lane(k, l, q, x)
  OBVIOUS
<1>3. \A i \in 1 .. n : Val(k, l, q[i], x) = {q[i]}
  BY ValuesOut
<1>4. DOMAIN u = 1 .. n /\ \A i \in 1 .. n : u[i] = {i}
  BY <1>1, <1>2, <1>3 DEF Lane
<1>5. QED
  BY <1>2, <1>4 DEF Once

(* A link that nothing is under way on has none at work.                     *)
LEMMA QuietLanes ==
  ASSUME RdmaAssumption, NEW l \in Link, Quiet(l), NEW k \in {22, 23, 32, 33}
  PROVE  Held(LaneAt(k, l)) = {} /\ Once(LaneAt(k, l))
<1>1. PICK q, x : q = QueueAt(k, l) /\ x = LookupAt(k, l)
  OBVIOUS
<1>2. l.src \in Proc /\ l.dst \in Proc
  BY DEF RdmaAssumption
<1>3. \A i \in DOMAIN q : Val(k, l, q[i], x) = {}
  <2>1. CASE k = 22
    <3>1. q = inc[l].sq
      <4>1. QueueAt(22, l) = inc[l].sq
        BY QueueIn DEF IncLanes
      <4>2. QED
        BY <4>1, <1>1, <2>1
    <3>2. DOMAIN q = {}
      BY <3>1 DEF Quiet
    <3>3. QED
      BY <3>2
  <2>2. CASE k = 32
    <3>1. q = out[l].sq
      <4>1. QueueAt(32, l) = out[l].sq
        BY QueueIn DEF OutLanes
      <4>2. QED
        BY <4>1, <1>1, <2>2
    <3>2. DOMAIN q = {}
      BY <3>1 DEF Quiet
    <3>3. QED
      BY <3>2
  <2>3. CASE k = 23
    <3>1. q = node[l.dst].cq
      <4>1. QueueAt(23, l) = node[l.dst].cq
        BY QueueIn DEF DstLanes
      <4>2. QED
        BY <4>1, <1>1, <2>3
    <3>2. ASSUME NEW i \in DOMAIN q PROVE Val(k, l, q[i], x) = {}
      <4>1. q[i].link # l
        BY <1>2, <3>1 DEF Quiet
      <4>2. QED
        BY <2>3, <4>1, ValuesOfArrivals DEF If
    <3>3. QED
      BY <3>2
  <2>4. CASE k = 33
    <3>1. q = node[l.src].cq
      <4>1. QueueAt(33, l) = node[l.src].cq
        BY QueueIn DEF SrcLanes
      <4>2. QED
        BY <4>1, <1>1, <2>4
    <3>2. ASSUME NEW i \in DOMAIN q PROVE Val(k, l, q[i], x) = {}
      <4>1. q[i].link # l
        BY <1>2, <3>1 DEF Quiet
      <4>2. QED
        BY <2>4, <4>1, ValuesOfReplies DEF If
    <3>3. QED
      BY <3>2
  <2>5. QED
    BY <2>1, <2>2, <2>3, <2>4
<1>4. PICK u : u = LaneAt(k, l)
  OBVIOUS
<1>5. \A i \in DOMAIN u : u[i] = {}
  BY <1>1, <1>3, <1>4 DEF LaneAt, Lane
<1>6. QED
  BY <1>4, <1>5 DEF Held, Once

(* A step that only makes contexts.                                          *)
LEMMA OrderedContexts ==
  ASSUME RdmaAssumption, Typed, Ordered, NEW l \in Link, UNCHANGED <<node, posted, delivered>>,
         out'[l].sq = out[l].sq, out'[l].startBuf = out[l].startBuf, out'[l].rejects = out[l].rejects,
         inc'[l].sq = inc[l].sq, inc'[l].replyBuf = inc[l].replyBuf,
         \A q \in Link \ {l} : out'[q] = out[q] /\ inc'[q] = inc[q], OwnContexts(l)'
  PROVE  Ordered'
<1>1. ASSUME NEW k \in Lanes \ {21, 31} PROVE Stays(k, l)
  BY LaneRest
<1>2. ASSUME NEW q \in Link \ {l} PROVE Alone(q)
  BY AloneSame
<1>3. OwnContexts(l) /\ Orderly(l) /\ OwnEntries(l.dst) /\ OwnBuffers(l.dst)
  BY LaneTypes DEF Ordered
<1>4. (Sound(l)' => Sound(l)) /\ (Faults(l) # {} => Faults(l)' # {})
  BY DEF Sound, Faults
<1>5. Orderly(l)'
  <2>1. Stages \subseteq Lanes \ {21, 31}
    BY DEF Stages, Lanes
  <2>2. QED
    BY <2>1, <1>1, <1>3, <1>4, OrderlyStays
<1>6. \A q \in To(l.dst), k \in Entries : Stays(k, q)
  <2>1. Entries \subseteq Lanes \ {21, 31}
    BY DEF Entries, Lanes
  <2>2. QED
    BY <2>1, <1>1, <1>2 DEF To, Alone
<1>7. OwnEntries(l.dst)'
  BY <1>3, <1>6, EntriesStay
<1>8. OwnBuffers(l.dst)'
  <2>1. \A q \in To(l.dst) : Stays(16, q)
    BY <1>6 DEF Entries
  <2>2. QED
    BY <2>1, <1>3, BuffersStay
<1>9. Histories'
  BY HistoriesKept DEF Ordered
<1>10. \A p \in Proc : Untouched(p)
  BY DEF Untouched
<1>11. QED
  BY <1>2, <1>5, <1>7, <1>8, <1>9, <1>10, OrderedLink

(* The contexts of the source of a link are allocated, all free.            *)
LEMMA OrderedOnRouteResolved ==
  ASSUME RdmaAssumption, Typed, Receives, Supplied, Ordered, NEW l \in Link, OnRouteResolved(l)
  PROVE  Ordered'
<1>1. out[l].status = "connecting" /\ UNCHANGED <<node, inc, posted, delivered>>
  BY DEF OnRouteResolved
<1>2. /\ out'[l].sq = out[l].sq /\ out'[l].startBuf = out[l].startBuf /\ out'[l].rejects = out[l].rejects
      /\ out'[l].start = out[l].start \o Contexts(Depth)
      /\ \A q \in Link \ {l} : out'[q] = out[q]
  <2>1. DOMAIN out = Link /\ {"start", "startBuf", "sq", "rejects", "write", "rx", "status"} \subseteq DOMAIN out[l]
    BY DEF Typed, Outs, OutAt
  <2>2. out' = [out EXCEPT ![l] = [InitEndpoint(@) EXCEPT !.status = "requested"]]
    BY DEF OnRouteResolved
  <2>3. QED
    BY ONLY <2>1, <2>2, l \in Link DEF InitEndpoint
<1>3. Quiet(l)
  BY <1>1 DEF Receives, ReceivesAt
<1>4. OwnContexts(l)
  BY DEF Ordered
<1>5. \A k \in (Answers \cup Starts) \ {31} : Stays(k, l)
  <2>1. ASSUME NEW k \in (Answers \cup Starts) \ {31} PROVE Stays(k, l)
    <3>1. k \in Lanes /\ k # 31 /\ k # 7
      BY DEF Answers, Starts, Lanes
    <3>2. QED
      BY <3>1, <1>1, <1>2, LaneRest
  <2>2. QED
    BY <2>1
<1>6. Separate(AnswerLanes(l))'
  <2>1. PICK F, G : F = AnswerLanes(l) /\ G = AnswerLanes(l)'
    OBVIOUS
  <2>2. DOMAIN F = Answers /\ DOMAIN G = Answers
        /\ \A k \in Answers : F[k] = LaneAt(k, l) /\ G[k] = LaneAt(k, l)'
    BY <2>1 DEF AnswerLanes
  <2>3. \A k \in Answers : Alike(F[k], G[k])
    BY <2>2, <1>5 DEF Stays, Answers
  <2>4. Separate(F)
    BY <2>1, <1>4 DEF OwnContexts
  <2>5. Separate(G)
    BY <2>2, <2>3, <2>4, SeparateSame
  <2>6. QED
    BY <2>1, <2>5
<1>7. ASSUME Sound(l)' PROVE Separate(StartLanes(l))'
  <2>1. Sound(l)
    BY <1>2, <1>7 DEF Sound
  <2>2. out[l].start = <<>>
    BY <1>1, <2>1 DEF Supplied, SuppliedAt
  <2>3. Depth \in Nat /\ out'[l].start = Contexts(Depth)
    <3>1. Depth \in Nat
      BY DEF RdmaAssumption
    <3>2. PICK c : c = Contexts(Depth) /\ c \in Seq(1 .. Depth)
      BY Constants
    <3>3. QED
      BY <1>2, <2>2, <3>1, <3>2
  <2>4. 31 \in Lanes /\ 31 \in Starts /\ Starts = {31, 32, 33}
    BY DEF Lanes, Starts
  <2>5. Once(LaneAt(31, l)')
    <3>1. PICK q, x : q = QueueAt(31, l)' /\ x = LookupAt(31, l)'
      OBVIOUS
    <3>2. q = Contexts(Depth)
      BY <2>3, <2>4, <3>1, QueueIs
    <3>3. LaneAt(31, l)' = Lane(31, l, q, x)
      BY <3>1 DEF LaneAt
    <3>4. QED
      BY <2>3, <3>2, <3>3, ContextsOnce
  <2>6. \A k \in {32, 33} : Held(LaneAt(k, l)') = {} /\ Once(LaneAt(k, l)')
    <3>1. ASSUME NEW k \in {32, 33} PROVE Held(LaneAt(k, l)') = {} /\ Once(LaneAt(k, l)')
      <4>1. Held(LaneAt(k, l)) = {} /\ Once(LaneAt(k, l))
        BY <1>3, QuietLanes
      <4>2. Alike(LaneAt(k, l), LaneAt(k, l)')
        BY <1>5, <2>4 DEF Stays
      <4>3. QED
        BY <4>1, <4>2 DEF Alike
    <3>2. QED
      BY <3>1
  <2>7. PICK G : G = StartLanes(l)'
    OBVIOUS
  <2>8. DOMAIN G = {31, 32, 33} /\ \A k \in {31, 32, 33} : G[k] = LaneAt(k, l)'
    BY <2>4, <2>7 DEF StartLanes
  <2>9. Separate(G)
    BY ONLY <2>5, <2>6, <2>8 DEF Separate
  <2>10. QED
    BY <2>7, <2>9
<1>8. OwnContexts(l)'
  BY <1>6, <1>7 DEF OwnContexts
<1>9. QED
  BY <1>1, <1>2, <1>8, OrderedContexts

(* The contexts of the target are allocated, all free.                      *)
LEMMA OrderedOnConnectRequest ==
  ASSUME RdmaAssumption, Typed, Receives, Ordered, NEW l \in Link, OnConnectRequest(l)
  PROVE  Ordered'
<1>1. out[l].status = "requested" /\ UNCHANGED <<node, posted, delivered>>
  BY DEF OnConnectRequest
<1>2. /\ out'[l].sq = out[l].sq /\ out'[l].startBuf = out[l].startBuf /\ out'[l].rejects = out[l].rejects
      /\ out'[l].start = out[l].start /\ \A q \in Link \ {l} : out'[q] = out[q]
  <2>1. DOMAIN out = Link /\ {"start", "startBuf", "sq", "rejects", "status"} \subseteq DOMAIN out[l]
    BY DEF Typed, Outs, OutAt
  <2>2. out' = [out EXCEPT ![l].status = "accepted"]
    BY DEF OnConnectRequest
  <2>3. QED
    BY ONLY <2>1, <2>2, l \in Link
<1>3. /\ inc'[l].sq = inc[l].sq /\ inc'[l].replyBuf = inc[l].replyBuf /\ inc'[l].reply = Contexts(ReplyDepth)
      /\ \A q \in Link \ {l} : inc'[q] = inc[q]
  <2>1. DOMAIN inc = Link /\ {"reply", "replyBuf", "sq", "rx"} \subseteq DOMAIN inc[l]
    BY DEF Typed, Incs, IncAt
  <2>2. inc' = [inc EXCEPT ![l].reply = Contexts(ReplyDepth), ![l].rx = RxDepth]
    BY DEF OnConnectRequest
  <2>3. QED
    BY ONLY <2>1, <2>2, l \in Link
<1>4. Quiet(l)
  BY <1>1 DEF Receives, ReceivesAt
<1>5. OwnContexts(l)
  BY DEF Ordered
<1>6. \A k \in (Answers \cup Starts) \ {21} : Stays(k, l)
  <2>1. ASSUME NEW k \in (Answers \cup Starts) \ {21} PROVE Stays(k, l)
    <3>1. k \in Lanes /\ k # 21 /\ k # 7
      BY DEF Answers, Starts, Lanes
    <3>2. QED
      BY <3>1, <1>1, <1>2, <1>3, LaneRest
  <2>2. QED
    BY <2>1
<1>7. ASSUME Sound(l)' PROVE Separate(StartLanes(l))'
  <2>1. PICK F, G : F = StartLanes(l) /\ G = StartLanes(l)'
    OBVIOUS
  <2>2. DOMAIN F = Starts /\ DOMAIN G = Starts
        /\ \A k \in Starts : F[k] = LaneAt(k, l) /\ G[k] = LaneAt(k, l)'
    BY <2>1 DEF StartLanes
  <2>3. \A k \in Starts : Alike(F[k], G[k])
    BY <2>2, <1>6 DEF Stays, Starts
  <2>4. Separate(F)
    BY <2>1, <1>2, <1>5, <1>7 DEF OwnContexts, Sound
  <2>5. Separate(G)
    BY <2>2, <2>3, <2>4, SeparateSame
  <2>6. QED
    BY <2>1, <2>5
<1>8. Separate(AnswerLanes(l))'
  <2>1. ReplyDepth \in Nat
    BY Constants
  <2>2. 21 \in Lanes /\ 21 \in Answers /\ Answers = {21, 22, 23}
    BY DEF Lanes, Answers
  <2>3. Once(LaneAt(21, l)')
    <3>1. PICK q, x : q = QueueAt(21, l)' /\ x = LookupAt(21, l)'
      OBVIOUS
    <3>2. q = Contexts(ReplyDepth)
      BY <1>3, <2>2, <3>1, QueueIs
    <3>3. LaneAt(21, l)' = Lane(21, l, q, x)
      BY <3>1 DEF LaneAt
    <3>4. QED
      BY <2>1, <3>2, <3>3, ContextsOnce
  <2>4. \A k \in {22, 23} : Held(LaneAt(k, l)') = {} /\ Once(LaneAt(k, l)')
    <3>1. ASSUME NEW k \in {22, 23} PROVE Held(LaneAt(k, l)') = {} /\ Once(LaneAt(k, l)')
      <4>1. Held(LaneAt(k, l)) = {} /\ Once(LaneAt(k, l))
        BY <1>4, QuietLanes
      <4>2. Alike(LaneAt(k, l), LaneAt(k, l)')
        BY <1>6, <2>2 DEF Stays
      <4>3. QED
        BY <4>1, <4>2 DEF Alike
    <3>2. QED
      BY <3>1
  <2>5. PICK G : G = AnswerLanes(l)'
    OBVIOUS
  <2>6. DOMAIN G = {21, 22, 23} /\ \A k \in {21, 22, 23} : G[k] = LaneAt(k, l)'
    BY <2>2, <2>5 DEF AnswerLanes
  <2>7. Separate(G)
    BY ONLY <2>3, <2>4, <2>6 DEF Separate
  <2>8. QED
    BY <2>5, <2>7
<1>9. OwnContexts(l)'
  BY <1>7, <1>8 DEF OwnContexts
<1>10. QED
  BY <1>1, <1>2, <1>3, <1>9, OrderedContexts

----------------------------------------------------------------------------
(* Every step keeps the messages of every link in order.                     *)
LEMMA OrderedNext ==
  ASSUME RdmaAssumption, Typed, Kept, Receives, Supplied, Ordered, Next
  PROVE  Ordered'
<1>1. ASSUME NEW n \in Proc, Bind(n) \/ PollCQ(n) \/ RecvMsg(n) \/ Release(n) PROVE Ordered'
  <2>1. CASE Bind(n)
    BY <2>1, OrderedConnections
  <2>2. CASE PollSent(n)
    BY <2>2, OrderedPollSent
  <2>3. CASE PollError(n)
    <3>1. Fail(n, "wc.status") /\ UNCHANGED <<out, inc, posted, delivered>>
      BY <2>3 DEF PollError
    <3>2. QED
      BY <3>1, OrderedFail
  <2>4. CASE PollStart(n)
    BY <2>4, OrderedPollStart
  <2>5. CASE PollReply(n)
    BY <2>5, OrderedPollReply
  <2>6. CASE PollWrote(n)
    BY <2>6, OrderedPollWrote
  <2>7. CASE PollWritten(n)
    BY <2>7, OrderedPollWritten
  <2>8. CASE RecvMsg(n)
    BY <2>8, OrderedRecvMsg
  <2>9. CASE Release(n)
    BY <2>9, OrderedRelease
  <2>10. QED
    BY <1>1, <2>1, <2>2, <2>3, <2>4, <2>5, <2>6, <2>7, <2>8, <2>9 DEF PollCQ
<1>2. ASSUME NEW l \in Link, Connect(l) \/ PollEvents(l) PROVE Ordered'
  <2>1. CASE Connect(l) \/ OnRejected(l) \/ OnConnected(l)
    BY <2>1, OrderedConnections
  <2>2. CASE OnRouteResolved(l)
    BY <2>2, OrderedOnRouteResolved
  <2>3. CASE OnConnectRequest(l)
    BY <2>3, OrderedOnConnectRequest
  <2>4. QED
    BY <1>2, <2>1, <2>2, <2>3 DEF PollEvents
<1>3. ASSUME NEW l \in Link, Carry(l) PROVE Ordered'
  <2>1. CASE CarryStart(l)
    BY <2>1, OrderedCarryStart
  <2>2. CASE CarryWrite(l)
    BY <1>3, <2>2, OrderedWriteCarried, OrderedWriteFails DEF Carry
  <2>3. CASE CarryReply(l)
    BY <2>3, OrderedCarryReply
  <2>4. QED
    BY <1>3, <2>1, <2>2, <2>3 DEF Carry
<1>4. ASSUME NEW t \in Thread, Send(t) PROVE Ordered'
  BY <1>4, OrderedPrepare, OrderedPostStart DEF Send
<1>5. QED
  BY <1>1, <1>2, <1>3, <1>4 DEF Next

(* A step that changes nothing.                                             *)
LEMMA OrderedUnchanged ==
  ASSUME RdmaAssumption, Ordered, UNCHANGED vars
  PROVE  Ordered'
<1>1. UNCHANGED <<node, out, inc, posted, delivered>>
  BY DEF vars
<1>2. ASSUME NEW q \in Link PROVE Alone(q)
  BY <1>1, AloneSame
<1>3. \A n \in Proc : Untouched(n)
  BY <1>1 DEF Untouched
<1>4. QED
  BY <1>1, <1>2, <1>3, OrderedStill

(* Among all interleavings of the threads that send, the network and the     *)
(* pollers, for all messages, depths, pools, failed writes and rejections of *)
(* other links: RecvMsg returns the messages of a link that connected        *)
(* without a rejection in the order of their STARTs, each once, with its own *)
(* bytes, for no write goes into the buffer of another message although all  *)
(* links share the table of indices; and what PackMetaPB and UnpackMeta      *)
(* change of the meta data is the flag of pulls alone.                       *)
THEOREM RdmaDeliveredInOrder ==
  PoolAssumption /\ RdmaAssumption /\ Spec => []DeliveredInOrder
<1> SUFFICES ASSUME PoolAssumption, RdmaAssumption PROVE Spec => []DeliveredInOrder
  OBVIOUS
<1> DEFINE Inductive == Typed /\ Kept /\ Receives /\ Supplied /\ Ordered
<1>1. Init => Inductive
  BY TypedInit, KeptInit, ReceivesInit, SuppliedInit, OrderedInit
<1>2. Inductive /\ [Next]_vars => Inductive'
  <2> SUFFICES ASSUME Typed, Kept, Receives, Supplied, Ordered, [Next]_vars
      PROVE  (Typed /\ Kept /\ Receives /\ Supplied)' /\ Ordered'
    OBVIOUS
  <2>1. (Typed /\ Kept /\ Receives /\ Supplied)'
    BY CountsStep
  <2>2. Ordered'
    BY OrderedNext, OrderedUnchanged
  <2>3. QED
    BY <2>1, <2>2
<1>3. Inductive => DeliveredInOrder
  BY DEF Ordered, Orderly, Returned, DeliveredInOrder
<1> HIDE DEF Inductive
<1>4. QED
  BY <1>1, <1>2, <1>3, PTL DEF Spec

=============================================================================
