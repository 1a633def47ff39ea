-------------------------- MODULE RdmaLanesProofs --------------------------
(* Proofs about what is on its way over a link of the RDMA transport, for    *)
(* any processes, links, threads, messages and depths. The first part,       *)
(* Supplied, counts the contexts of each kind in the queues, work requests   *)
(* and completions they pass through, and compares how many completions of   *)
(* two kinds a completion queue holds behind each of its places; with it the *)
(* contexts suffice.                                                         *)
(*                                                                           *)
(* The rest is about order. A message goes from SendMsg to RecvMsg by seven  *)
(* queues of two processes and a network: a start work request, its          *)
(* completion, a reply, its completion, a write, its completion and the      *)
(* queue of received buffers. A lane is what one such queue says of one      *)
(* link. The second part is about sequences alone: what a lane lists and     *)
(* holds, and what becomes of that when the queue gets an element or loses   *)
(* its first. The third states Ordered, the inductive invariant for          *)
(* DeliveredInOrder, shows what each kind of change of the queues does to    *)
(* the lanes, and proves that connecting, failing, releasing, and carrying   *)
(* start messages and writes preserve it. RdmaOrderProofs does the other     *)
(* steps.                                                                    *)
EXTENDS RdmaProofs

----------------------------------------------------------------------------
(* The contexts.                                                             *)

(* What a queue holds after a place.                                         *)
After(q, i) == [j \in 1 .. Len(q) - i |-> q[i + j]]

(* What a queue that grows holds behind a place.                             *)
LEMMA AfterAppend ==
  ASSUME NEW T, NEW q \in Seq(T), NEW e
  PROVE  /\ Len(Append(q, e)) = Len(q) + 1
         /\ \A i \in 0 .. Len(q) : After(q, i) \in Seq(T) /\ After(Append(q, e), i) = Append(After(q, i), e)
         /\ After(Append(q, e), Len(q) + 1) = <<>>
         /\ \A i \in 0 .. Len(q) + 1 : i \in 0 .. Len(q) \/ i = Len(q) + 1
<1> DEFINE Q == Append(q, e)
<1>1. /\ Len(q) \in Nat /\ q \in [1 .. Len(q) -> T]
      /\ Len(Q) = Len(q) + 1 /\ Q[Len(q) + 1] = e /\ \A j \in 1 .. Len(q) : Q[j] = q[j]
  OBVIOUS
<1> HIDE DEF Q
<1>2. ASSUME NEW i \in 0 .. Len(q) PROVE After(q, i) \in Seq(T) /\ After(Q, i) = Append(After(q, i), e)
  <2> DEFINE k == Len(q) - i
             a == After(q, i)
             b == After(Q, i)
  <2>1. k \in Nat /\ a \in [1 .. k -> T]
    BY <1>1 DEF After
  <2>2. a \in Seq(T) /\ Len(a) = k
    BY <2>1
  <2>3. b = [j \in 1 .. k + 1 |-> Q[i + j]]
    <3>1. Len(Q) - i = k + 1
      BY <1>1
    <3>2. QED
      BY <3>1 DEF After
  <2>4. \A j \in 1 .. k + 1 : b[j] = IF j = k + 1 THEN e ELSE a[j]
    <3>1. \A j \in 1 .. k : i + j \in 1 .. Len(q) /\ a[j] = q[i + j] /\ b[j] = Q[i + j]
      BY <1>1, <2>3 DEF After
    <3>2. i + (k + 1) = Len(q) + 1 /\ b[k + 1] = Q[i + (k + 1)]
      BY <1>1, <2>1, <2>3
    <3> HIDE DEF a, b, k
    <3>3. QED
      BY <1>1, <2>1, <3>1, <3>2
  <2> HIDE DEF a, b, k
  <2>5. b = Append(a, e)
    <3>1. PICK c : c = Append(a, e)
      OBVIOUS
    <3>2. a \in Seq(T \cup {e}) /\ \A s \in Seq(T \cup {e}) : s = [j \in DOMAIN s |-> s[j]]
      BY <2>2
    <3>3. c \in Seq(T \cup {e}) /\ Len(c) = k + 1 /\ c[k + 1] = e /\ \A j \in 1 .. k : c[j] = a[j]
      BY <2>1, <2>2, <3>1, <3>2
    <3>5. DOMAIN c = 1 .. k + 1 /\ c = [j \in DOMAIN c |-> c[j]]
      BY <3>2, <3>3
    <3>6. \A j \in 1 .. k + 1 : c[j] = IF j = k + 1 THEN e ELSE a[j]
      BY <2>1, <3>3
    <3>7. c = b
      BY <2>3, <2>4, <3>5, <3>6
    <3>8. QED
      BY <3>1, <3>7
  <2>6. QED
    BY <2>2, <2>5 DEF a, b
<1>3. After(Q, Len(q) + 1) = <<>>
  <2>1. 1 .. Len(Q) - (Len(q) + 1) = {}
    BY <1>1
  <2>2. QED
    BY <2>1 DEF After
<1>4. QED
  BY <1>1, <1>2, <1>3 DEF Q

(* The same of a queue that shrinks.                                         *)
LEMMA AfterTail ==
  ASSUME NEW T, NEW q \in Seq(T), q # <<>>
  PROVE  /\ Len(Tail(q)) = Len(q) - 1 /\ Tail(q) \in Seq(T)
         /\ After(q, 0) = q /\ After(q, 1) = Tail(q)
         /\ \A i \in 0 .. Len(Tail(q)) : i + 1 \in 0 .. Len(q) /\ After(Tail(q), i) = After(q, i + 1)
                                         /\ After(Tail(q), i) \in Seq(T)
         /\ \A i \in DOMAIN Tail(q) : i \in 0 .. Len(Tail(q)) /\ i + 1 \in DOMAIN q /\ Tail(q)[i] = q[i + 1]
<1> DEFINE z == Tail(q)
<1>0. /\ Len(q) \in Nat /\ Len(q) > 0 /\ q = [i \in 1 .. Len(q) |-> q[i]] /\ Len(z) = Len(q) - 1
      /\ z \in Seq(T) /\ DOMAIN q = 1 .. Len(q) /\ DOMAIN z = 1 .. Len(z)
      /\ \A i \in DOMAIN q : q[i] \in T
  OBVIOUS
<1>00. z = [i \in DOMAIN z |-> z[i]] /\ \A i \in DOMAIN z : z[i] = q[i + 1]
  <2>1. \A i \in DOMAIN z : z[i] = q[i + 1]
    OBVIOUS
  <2>2. \A s \in Seq(T) : s = [j \in DOMAIN s |-> s[j]]
    OBVIOUS
  <2>3. QED
    BY <1>0, <2>1, <2>2
<1> HIDE DEF z
<1>1. /\ Len(q) \in Nat /\ Len(q) > 0 /\ q = [i \in 1 .. Len(q) |-> q[i]] /\ Len(z) = Len(q) - 1
      /\ z \in Seq(T) /\ z = [i \in 1 .. Len(q) - 1 |-> q[i + 1]]
      /\ DOMAIN q = 1 .. Len(q) /\ DOMAIN z = 1 .. Len(z) /\ \A i \in DOMAIN q : q[i] \in T
  BY <1>0, <1>00
<1>2. After(q, 0) = q
  <2>1. Len(q) - 0 = Len(q) /\ \A j \in 1 .. Len(q) : 0 + j = j
    BY <1>1
  <2>2. QED
    BY <1>1, <2>1 DEF After
<1>3. After(q, 1) = z
  <2>1. \A j \in 1 .. Len(q) - 1 : 1 + j = j + 1
    BY <1>1
  <2>2. QED
    BY <1>1, <2>1 DEF After
<1>4. ASSUME NEW i \in 0 .. Len(z)
      PROVE  i + 1 \in 0 .. Len(q) /\ After(z, i) = After(q, i + 1) /\ After(z, i) \in Seq(T)
  <2>1. i + 1 \in 0 .. Len(q) /\ Len(z) - i = Len(q) - (i + 1) /\ Len(z) - i \in Nat
    BY <1>1
  <2>2. \A j \in 1 .. Len(z) - i : i + j \in 1 .. Len(q) - 1 /\ (i + j) + 1 = (i + 1) + j /\ i + j \in DOMAIN z
    BY <1>1
  <2>3. \A j \in 1 .. Len(z) - i : z[i + j] = q[(i + 1) + j] /\ z[i + j] \in T
    BY <1>1, <2>2
  <2>4. After(z, i) = After(q, i + 1) /\ After(z, i) \in [1 .. Len(z) - i -> T]
    BY <2>1, <2>3 DEF After
  <2>5. QED
    BY <2>1, <2>4
<1>5. \A i \in DOMAIN z : i \in 0 .. Len(z) /\ i + 1 \in DOMAIN q /\ z[i] = q[i + 1]
  BY <1>1
<1>6. QED
  BY <1>1, <1>2, <1>3, <1>4, <1>5 DEF z

(* The completions of the kinds a START, its answer and what follows at the  *)
(* sender make.                                                              *)
Came == {"recv start"}
Sent == {"sent start"}
Answered == {"sent reply"}
Following == {"recv reply", "wrote", "error"}

(* Behind any place of the sender's queue, no more STARTs are reported done  *)
(* than messages are with the receiver, on their way back, or reported there *)
(* behind that place: x is how many are with the receiver or being written.  *)
Behind(l, q, x) ==
  \A i \in 0 .. Len(q) : Tally(Sent, l, After(q, i)) <= x + Tally(Following, l, After(q, i))

(* When the receiver comes to a START, the replies that are posted, y of     *)
(* them, or carried but not reported before that START, and the STARTs up to *)
(* it, are of messages that had their write contexts at the same time.       *)
Ahead(l, q, y) ==
  \A i \in DOMAIN q : q[i].op = "recv start" /\ q[i].link = l =>
    y + Tally(Answered, l, After(q, i)) + Tally(Came, l, q) <= Depth + Tally(Came, l, After(q, i))

(* An empty queue counts nothing.                                            *)
LEMMA TallyEmpty == \A ops, l : Tally(ops, l, <<>>) = 0
BY TallyNone

(* A completion at the end of the sender's queue.                            *)
LEMMA BehindAppend ==
  ASSUME NEW T, NEW q \in Seq(T), NEW l, NEW e, NEW x \in Int, NEW y \in Nat, Behind(l, q, x),
         x + One(Sent, l, e) <= y + One(Following, l, e)
  PROVE  Behind(l, Append(q, e), y)
<1> DEFINE Q == Append(q, e)
<1>1. /\ Len(Q) = Len(q) + 1
      /\ \A i \in 0 .. Len(q) : After(q, i) \in Seq(T) /\ After(Q, i) = Append(After(q, i), e)
      /\ After(Q, Len(q) + 1) = <<>>
      /\ \A i \in 0 .. Len(q) + 1 : i \in 0 .. Len(q) \/ i = Len(q) + 1
  BY AfterAppend
<1> HIDE DEF Q
<1>2. ASSUME NEW i \in 0 .. Len(q)
      PROVE  Tally(Sent, l, After(Q, i)) <= y + Tally(Following, l, After(Q, i))
  <2>1. PICK a : a = After(q, i) /\ a \in Seq(T) /\ After(Q, i) = Append(a, e)
    BY <1>1
  <2>2. /\ Tally(Sent, l, a) \in Nat /\ Tally(Sent, l, Append(a, e)) = Tally(Sent, l, a) + One(Sent, l, e)
        /\ Tally(Following, l, a) \in Nat
        /\ Tally(Following, l, Append(a, e)) = Tally(Following, l, a) + One(Following, l, e)
    BY <2>1, TallyAppend
  <2>3. Tally(Sent, l, a) <= x + Tally(Following, l, a)
    BY <2>1 DEF Behind
  <2>4. One(Sent, l, e) \in Nat /\ One(Following, l, e) \in Nat
    BY DEF One
  <2>5. QED
    BY <2>1, <2>2, <2>3, <2>4
<1>3. Tally(Sent, l, After(Q, Len(q) + 1)) <= y + Tally(Following, l, After(Q, Len(q) + 1))
  BY <1>1, TallyEmpty
<1>4. QED
  <2>1. \A i \in 0 .. Len(Q) : i \in 0 .. Len(q) \/ i = Len(q) + 1
    BY <1>1
  <2>2. Behind(l, Q, y)
    BY <1>2, <1>3, <2>1 DEF Behind
  <2>3. QED
    BY <2>2 DEF Q

(* The first completion of the sender's queue is taken.                      *)
LEMMA BehindTail ==
  ASSUME NEW T, NEW q \in Seq(T), q # <<>>, NEW l, NEW x \in Int, NEW y \in Int, Behind(l, q, x), x <= y
  PROVE  Behind(l, Tail(q), y)
<1>1. ASSUME NEW i \in 0 .. Len(Tail(q))
      PROVE  Tally(Sent, l, After(Tail(q), i)) <= y + Tally(Following, l, After(Tail(q), i))
  <2>1. PICK a : a = After(q, i + 1) /\ a \in Seq(T) /\ After(Tail(q), i) = a /\ i + 1 \in 0 .. Len(q)
    BY AfterTail
  <2>2. Tally(Sent, l, a) <= x + Tally(Following, l, a)
    BY <2>1 DEF Behind
  <2>3. Tally(Sent, l, a) \in Nat /\ Tally(Following, l, a) \in Nat
    BY <2>1, TallyAppend
  <2>4. QED
    BY <2>1, <2>2, <2>3
<1>2. QED
  BY <1>1 DEF Behind

(* A completion at the end of the receiver's queue.                          *)
LEMMA AheadAppend ==
  ASSUME NEW T, NEW q \in Seq(T), NEW l, NEW e, NEW x \in Int, NEW y \in Int, Ahead(l, q, x),
         y + One(Answered, l, e) <= x, Depth \in Nat,
         One(Came, l, e) = 1 => y + Tally(Came, l, q) + 1 <= Depth
  PROVE  Ahead(l, Append(q, e), y)
<1> DEFINE Q == Append(q, e)
<1>1. /\ Len(Q) = Len(q) + 1
      /\ \A i \in 0 .. Len(q) : After(q, i) \in Seq(T) /\ After(Q, i) = Append(After(q, i), e)
      /\ After(Q, Len(q) + 1) = <<>>
      /\ \A i \in 0 .. Len(q) + 1 : i \in 0 .. Len(q) \/ i = Len(q) + 1
  BY AfterAppend
<1>2. /\ \A i \in DOMAIN q : i \in 0 .. Len(q) /\ Q[i] = q[i]
      /\ \A i \in DOMAIN Q : i \in DOMAIN q \/ i = Len(q) + 1
      /\ Q[Len(q) + 1] = e
  OBVIOUS
<1>3. /\ Tally(Came, l, q) \in Nat /\ Tally(Came, l, Q) = Tally(Came, l, q) + One(Came, l, e)
      /\ One(Came, l, e) \in Nat /\ One(Answered, l, e) \in Nat
  BY TallyAppend DEF One
<1> HIDE DEF Q
<1>4. ASSUME NEW i \in DOMAIN q, Q[i].op = "recv start", Q[i].link = l
      PROVE  y + Tally(Answered, l, After(Q, i)) + Tally(Came, l, Q) <= Depth + Tally(Came, l, After(Q, i))
  <2>1. PICK a : a = After(q, i) /\ a \in Seq(T) /\ After(Q, i) = Append(a, e)
    BY <1>1, <1>2
  <2>2. /\ Tally(Answered, l, a) \in Nat /\ Tally(Came, l, a) \in Nat
        /\ Tally(Answered, l, Append(a, e)) = Tally(Answered, l, a) + One(Answered, l, e)
        /\ Tally(Came, l, Append(a, e)) = Tally(Came, l, a) + One(Came, l, e)
    BY <2>1, TallyAppend
  <2>3. x + Tally(Answered, l, a) + Tally(Came, l, q) <= Depth + Tally(Came, l, a)
    BY <1>2, <1>4, <2>1 DEF Ahead
  <2>4. \A n, m, c, o, p : n \in Nat /\ m \in Nat /\ c \in Nat /\ o \in Nat /\ p \in Nat /\ y + p <= x
          /\ x + n + c <= Depth + m => y + (n + p) + (c + o) <= Depth + (m + o)
    OBVIOUS
  <2>5. y + (Tally(Answered, l, a) + One(Answered, l, e)) + (Tally(Came, l, q) + One(Came, l, e))
          <= Depth + (Tally(Came, l, a) + One(Came, l, e))
    BY <1>3, <2>2, <2>3, <2>4
  <2>6. QED
    BY <1>3, <2>1, <2>2, <2>5
<1>5. ASSUME e.op = "recv start", e.link = l
      PROVE  y + Tally(Answered, l, <<>>) + Tally(Came, l, Q) <= Depth + Tally(Came, l, <<>>)
  <2>1. One(Came, l, e) = 1
    BY <1>5 DEF One, Came
  <2>2. QED
    BY <1>3, <2>1, TallyEmpty
<1>6. Ahead(l, Q, y)
  <2> SUFFICES ASSUME NEW i \in DOMAIN Q, Q[i].op = "recv start", Q[i].link = l
               PROVE  y + Tally(Answered, l, After(Q, i)) + Tally(Came, l, Q)
                        <= Depth + Tally(Came, l, After(Q, i))
    BY DEF Ahead
  <2>1. CASE i \in DOMAIN q
    BY <1>4, <2>1
  <2>2. CASE i = Len(q) + 1
    BY <1>1, <1>2, <1>5, <2>2
  <2>3. QED
    BY <1>2, <2>1, <2>2
<1>7. QED
  BY <1>6 DEF Q

(* The first completion of the receiver's queue is taken.                    *)
LEMMA AheadTail ==
  ASSUME NEW T, NEW q \in Seq(T), q # <<>>, NEW l, NEW x \in Int, NEW y \in Int, Ahead(l, q, x),
         y <= x + One(Came, l, Head(q)), Depth \in Nat
  PROVE  Ahead(l, Tail(q), y)
<1> DEFINE z == Tail(q)
<1>1. /\ \A i \in 0 .. Len(z) : After(z, i) = After(q, i + 1) /\ After(z, i) \in Seq(T)
      /\ \A i \in DOMAIN z : i \in 0 .. Len(z) /\ i + 1 \in DOMAIN q /\ z[i] = q[i + 1]
      /\ z \in Seq(T)
  BY AfterTail
<1>2. Tally(Came, l, q) = Tally(Came, l, z) + One(Came, l, Head(q))
  BY TallyTail
<1> HIDE DEF z
<1>3. Tally(Came, l, z) \in Nat /\ One(Came, l, Head(q)) \in Nat
  BY <1>1, TallyAppend DEF One
<1>4. ASSUME NEW i \in DOMAIN z, z[i].op = "recv start", z[i].link = l
      PROVE  y + Tally(Answered, l, After(z, i)) + Tally(Came, l, z) <= Depth + Tally(Came, l, After(z, i))
  <2>1. PICK a : a = After(q, i + 1) /\ a \in Seq(T) /\ After(z, i) = a
    BY <1>1
  <2>2. x + Tally(Answered, l, a) + Tally(Came, l, q) <= Depth + Tally(Came, l, a)
    BY <1>1, <1>4, <2>1 DEF Ahead
  <2>3. Tally(Answered, l, a) \in Nat /\ Tally(Came, l, a) \in Nat
    BY <2>1, TallyAppend
  <2>4. \A n, m, c, o : n \in Nat /\ m \in Nat /\ c \in Nat /\ o \in Nat /\ y <= x + o
          /\ x + n + (c + o) <= Depth + m => y + n + c <= Depth + m
    OBVIOUS
  <2>5. QED
    BY <1>2, <1>3, <2>1, <2>2, <2>3, <2>4
<1>5. QED
  BY <1>4 DEF Ahead, z

(* How many of a link's requests and completions of each kind there are.     *)
CameAt(l) == Tally(Came, l, node[l.dst].cq)
SentAt(l) == Tally(Sent, l, node[l.src].cq)
AnsweredAt(l) == Tally(Answered, l, node[l.dst].cq)
FollowingAt(l) == Tally(Following, l, node[l.src].cq)

(* The messages that the receiver has or is being sent, and all that hold a  *)
(* write context; and the contexts of a link, wherever they are.             *)
Between(l) == CameAt(l) + Len(inc[l].sq) + Orders("write", out[l].sq)
Underway(l) == Orders("start", out[l].sq) + Between(l) + FollowingAt(l)
StartContexts(l) == Len(out[l].start) + Orders("start", out[l].sq) + SentAt(l)
WriteContexts(l) ==
  Len(out[l].write) + Cardinality(WritesReserved(l)) + Cardinality(WritesHeld(l))
ReplyContexts(l) == Len(inc[l].reply) + Len(inc[l].sq) + AnsweredAt(l)

SuppliedAt(l) ==
  /\ IsFiniteSet(WritesReserved(l)) /\ IsFiniteSet(WritesHeld(l))
  /\ Cardinality(WritesHeld(l)) = Underway(l)
  /\ Behind(l, node[l.src].cq, Between(l))
  /\ out[l].status \in {"accepted", "connected"} => ReplyContexts(l) = ReplyDepth
  /\ Sound(l) => Ahead(l, node[l.dst].cq, Len(inc[l].sq))
  /\ Sound(l) => IF out[l].status \in {"idle", "connecting"}
                 THEN out[l].start = <<>> /\ out[l].write = <<>>
                 ELSE StartContexts(l) = Depth /\ WriteContexts(l) = Depth

(* A message buffer has no write context until its START is posted, and is   *)
(* there from its making until then.                                         *)
Unset ==
  /\ \A m \in DOMAIN bufs : m[2] = thread[m[1]].next => bufs[m].write = None
  /\ \A t \in Thread : thread[t].pc # "idle" => <<t, thread[t].next>> \in DOMAIN bufs

Supplied == Unset /\ \A l \in Link : SuppliedAt(l)

(* A link keeps its contexts when a step moves them from one place to the    *)
(* next.                                                                     *)
LEMMA SuppliedStep ==
  ASSUME NEW l \in Link, SuppliedAt(l),
         out'[l].status = out[l].status, out'[l].rejects = out[l].rejects,
         IsFiniteSet(WritesReserved(l))', IsFiniteSet(WritesHeld(l))',
         Cardinality(WritesHeld(l))' = Underway(l)',
         Behind(l, node'[l.src].cq, Between(l)'),
         Sound(l) => Ahead(l, node'[l.dst].cq, Len(inc'[l].sq)),
         ReplyContexts(l)' = ReplyContexts(l), StartContexts(l)' = StartContexts(l),
         WriteContexts(l)' = WriteContexts(l),
         \/ out[l].status = "connected"
         \/ out'[l].start = out[l].start /\ out'[l].write = out[l].write
  PROVE  SuppliedAt(l)'
<1>1. Sound(l)' <=> Sound(l)
  BY DEF Sound
<1>2. Behind(l, node[l.src].cq, Between(l))' <=> Behind(l, node'[l.src].cq, Between(l)')
  BY DEF Behind
<1>3. Ahead(l, node[l.dst].cq, Len(inc[l].sq))' <=> Ahead(l, node'[l.dst].cq, Len(inc'[l].sq))
  BY DEF Ahead
<1>4. QED
  BY <1>1, <1>2, <1>3 DEF SuppliedAt

(* What is counted are natural numbers.                                      *)
LEMMA Counts ==
  ASSUME RdmaAssumption, Typed, NEW l \in Link
  PROVE  /\ Len(out[l].start) \in Nat /\ Len(out[l].write) \in Nat
         /\ Len(inc[l].reply) \in Nat /\ Len(inc[l].sq) \in Nat
         /\ Orders("start", out[l].sq) \in Nat /\ Orders("write", out[l].sq) \in Nat
         /\ CameAt(l) \in Nat /\ SentAt(l) \in Nat /\ AnsweredAt(l) \in Nat /\ FollowingAt(l) \in Nat
<1>1. l.src \in Proc /\ l.dst \in Proc
  BY DEF RdmaAssumption
<1>2. Nodes /\ OutAt(l, out[l], thread) /\ IncAt(l, inc[l], thread)
  BY DEF Typed, Outs, Incs
<1>3. ASSUME NEW n \in Proc, NEW ops PROVE Tally(ops, l, node[n].cq) \in Nat
  <2>1. PICK q, T : q = node[n].cq /\ q \in Seq(T)
    BY <1>2 DEF Nodes, NodeAt
  <2>2. QED
    BY <2>1, TallyAppend
<1>4. ASSUME NEW op PROVE Orders(op, out[l].sq) \in Nat
  <2>1. PICK q, T : q = out[l].sq /\ q \in Seq(T)
    BY <1>2 DEF OutAt
  <2>2. QED
    BY <2>1, OrdersChange
<1>5. /\ Len(out[l].start) \in Nat /\ Len(out[l].write) \in Nat
      /\ Len(inc[l].reply) \in Nat /\ Len(inc[l].sq) \in Nat
  <2>1. \A T : \A q \in Seq(T) : Len(q) \in Nat
    OBVIOUS
  <2>2. out[l].start \in Seq(1 .. Depth) /\ out[l].write \in Seq(1 .. Depth)
    BY <1>2 DEF OutAt
  <2>3. inc[l].reply \in Seq(1 .. ReplyDepth) /\ inc[l].sq \in Seq(ReplyAt(inc[l]))
    BY <1>2 DEF IncAt
  <2>4. QED
    BY <2>1, <2>2, <2>3
<1>6. QED
  BY <1>1, <1>3, <1>4, <1>5 DEF CameAt, SentAt, AnsweredAt, FollowingAt

(* A queue changed by completions of other links.                            *)
Unseen(k, p, q) ==
  /\ \A ops \in {Came, Sent, Answered, Following} : Tally(ops, k, q) = Tally(ops, k, p)
  /\ \A x \in Nat : Behind(k, p, x) => Behind(k, q, x)
  /\ \A y \in Nat : Ahead(k, p, y) => Ahead(k, q, y)

(* A completion of another link at the end of a queue does not change what a *)
(* link sees of it.                                                          *)
LEMMA UnseenAppend ==
  ASSUME RdmaAssumption, NEW T, NEW q \in Seq(T), NEW k, NEW e, e.link # k
  PROVE  Unseen(k, q, Append(q, e))
<1>1. \A ops : One(ops, k, e) = 0
  BY DEF One
<1>2. ASSUME NEW ops PROVE Tally(ops, k, Append(q, e)) = Tally(ops, k, q)
  <2>1. Tally(ops, k, q) \in Nat /\ Tally(ops, k, Append(q, e)) = Tally(ops, k, q) + One(ops, k, e)
    BY TallyAppend
  <2>2. QED
    BY <1>1, <2>1
<1>3. ASSUME NEW x \in Nat, Behind(k, q, x) PROVE Behind(k, Append(q, e), x)
  <2>1. x + One(Sent, k, e) <= x + One(Following, k, e) /\ x \in Int
    BY <1>1
  <2>2. QED
    BY <1>3, <2>1, BehindAppend
<1>4. ASSUME NEW y \in Nat, Ahead(k, q, y) PROVE Ahead(k, Append(q, e), y)
  <2>1. y + One(Answered, k, e) <= y /\ y \in Int /\ One(Came, k, e) # 1 /\ Depth \in Nat
    BY <1>1, Constants
  <2>2. QED
    BY <1>4, <2>1, AheadAppend
<1>5. QED
  BY <1>2, <1>3, <1>4 DEF Unseen

(* Nor does taking one of another link from its head.                        *)
LEMMA UnseenTail ==
  ASSUME RdmaAssumption, NEW T, NEW q \in Seq(T), q # <<>>, NEW k, Head(q).link # k
  PROVE  Unseen(k, q, Tail(q))
<1>1. \A ops : One(ops, k, Head(q)) = 0
  BY DEF One
<1>2. ASSUME NEW ops PROVE Tally(ops, k, Tail(q)) = Tally(ops, k, q)
  <2>1. Tally(ops, k, q) = Tally(ops, k, Tail(q)) + One(ops, k, Head(q))
    BY TallyTail
  <2>2. Tail(q) \in Seq(T)
    BY AfterTail
  <2>3. Tally(ops, k, Tail(q)) \in Nat
    BY <2>2, TallyAppend
  <2>4. QED
    BY <1>1, <2>1, <2>3
<1>3. ASSUME NEW x \in Nat, Behind(k, q, x) PROVE Behind(k, Tail(q), x)
  BY <1>3, BehindTail
<1>4. ASSUME NEW y \in Nat, Ahead(k, q, y) PROVE Ahead(k, Tail(q), y)
  <2>1. y <= y + One(Came, k, Head(q)) /\ Depth \in Nat
    BY <1>1, Constants
  <2>2. QED
    BY <1>4, <2>1, AheadTail
<1>5. QED
  BY <1>2, <1>3, <1>4 DEF Unseen

(* Nor do the two completions of a request of another link.                  *)
LEMMA UnseenBoth ==
  ASSUME RdmaAssumption, NEW T, NEW q \in Seq(T), NEW k, NEW n, NEW n1, NEW n2, NEW e1, NEW e2,
         e1.link # k, e2.link # k
  PROVE  Unseen(k, q, Both(q, n, n1, e1, n2, e2))
<1>1. ASSUME NEW U, NEW r \in Seq(U), NEW e, e.link # k, NEW m PROVE Unseen(k, r, Longer(m, n, r, e))
  <2>1. Unseen(k, r, r)
    BY DEF Unseen
  <2>2. Unseen(k, r, Append(r, e))
    BY <1>1, UnseenAppend
  <2>3. QED
    BY <2>1, <2>2 DEF Longer
<1>2. PICK r : r = Longer(n1, n, q, e1)
  OBVIOUS
<1>3. r \in Seq(T \cup {e1}) /\ Unseen(k, q, r)
  BY <1>1, <1>2, LongerTyped
<1>4. Unseen(k, r, Longer(n2, n, r, e2))
  <2>1. PICK U : r \in Seq(U)
    BY <1>3
  <2>2. QED
    BY <1>1, <2>1
<1>5. Unseen(k, q, Longer(n2, n, r, e2))
  BY <1>3, <1>4 DEF Unseen
<1>6. QED
  BY <1>2, <1>5 DEF Both

(* A link that a step does not concern keeps its contexts.                   *)
LEMMA SuppliedUnseen ==
  ASSUME RdmaAssumption, Typed, NEW k \in Link, SuppliedAt(k),
         Unseen(k, node[k.src].cq, node'[k.src].cq), Unseen(k, node[k.dst].cq, node'[k.dst].cq),
         out'[k].status = out[k].status, out'[k].rejects = out[k].rejects, out'[k].sq = out[k].sq,
         out'[k].start = out[k].start, out'[k].write = out[k].write,
         inc'[k].reply = inc[k].reply, inc'[k].sq = inc[k].sq,
         WritesReserved(k)' = WritesReserved(k), WritesHeld(k)' = WritesHeld(k)
  PROVE  SuppliedAt(k)'
<1>1. /\ CameAt(k)' = CameAt(k) /\ SentAt(k)' = SentAt(k)
      /\ AnsweredAt(k)' = AnsweredAt(k) /\ FollowingAt(k)' = FollowingAt(k)
  BY DEF CameAt, SentAt, AnsweredAt, FollowingAt, Unseen
<1>2. /\ Between(k)' = Between(k) /\ Underway(k)' = Underway(k) /\ StartContexts(k)' = StartContexts(k)
      /\ WriteContexts(k)' = WriteContexts(k) /\ ReplyContexts(k)' = ReplyContexts(k)
  BY <1>1 DEF Between, Underway, StartContexts, WriteContexts, ReplyContexts
<1>3. Between(k) \in Nat /\ Len(inc[k].sq) \in Nat
  BY Counts DEF Between
<1>4. Behind(k, node'[k.src].cq, Between(k)')
  BY <1>2, <1>3 DEF SuppliedAt, Unseen
<1>5. Sound(k) => Ahead(k, node'[k.dst].cq, Len(inc'[k].sq))
  BY <1>3 DEF SuppliedAt, Unseen
<1>6. /\ IsFiniteSet(WritesReserved(k))' /\ IsFiniteSet(WritesHeld(k))'
      /\ Cardinality(WritesHeld(k))' = Underway(k)'
  BY <1>2 DEF SuppliedAt
<1>7. QED
  BY <1>2, <1>4, <1>5, <1>6, SuppliedStep

(* An empty queue has no completions and no work requests.                   *)
LEMMA NothingQueued ==
  ASSUME NEW l
  PROVE  /\ \A ops : Tally(ops, l, <<>>) = 0 /\ \A op : Orders(op, <<>>) = 0
         /\ \A x \in Nat : Behind(l, <<>>, x) /\ Ahead(l, <<>>, x)
<1>1. \A op : Orders(op, <<>>) = 0
  <2>1. \A op : {i \in DOMAIN <<>> : <<>>[i].op = op} = {}
    OBVIOUS
  <2>2. QED
    BY <2>1, FS_EmptySet DEF Orders
<1>2. ASSUME NEW x \in Nat PROVE Behind(l, <<>>, x)
  <2>1. ASSUME NEW i \in 0 .. Len(<<>>) PROVE After(<<>>, i) = <<>>
    BY DEF After
  <2>2. QED
    BY <2>1, TallyEmpty DEF Behind
<1>3. \A x \in Nat : Ahead(l, <<>>, x)
  <2>1. DOMAIN <<>> = {}
    OBVIOUS
  <2>2. QED
    BY <2>1, Zenon DEF Ahead
<1>4. QED
  BY <1>1, <1>2, <1>3, TallyEmpty

(* No link has a context before it begins to connect.                        *)
LEMMA SuppliedInit == ASSUME RdmaAssumption, Init PROVE Supplied
<1>1. DOMAIN bufs = {} /\ \A t \in Thread : thread[t].pc = "idle"
  BY DEF Init
<1>2. ASSUME NEW l \in Link PROVE SuppliedAt(l)
  <2>1. l.src \in Proc /\ l.dst \in Proc
    BY DEF RdmaAssumption
  <2>2. WritesReserved(l) = {} /\ WritesHeld(l) = {}
    BY <1>1 DEF WritesReserved, WritesHeld
  <2>3. node[l.src].cq = <<>> /\ node[l.dst].cq = <<>>
    BY <2>1 DEF Init, InitContext
  <2>4. /\ out[l].sq = <<>> /\ inc[l].sq = <<>> /\ out[l].status = "idle"
        /\ out[l].start = <<>> /\ out[l].write = <<>>
    BY DEF Init, Endpoint, IncomingEndpoint
  <2>5. CameAt(l) = 0 /\ FollowingAt(l) = 0 /\ Orders("start", out[l].sq) = 0 /\ Orders("write", out[l].sq) = 0
    BY <2>3, <2>4, NothingQueued DEF CameAt, FollowingAt
  <2>6. Len(inc[l].sq) = 0
    BY <2>4
  <2>7. Between(l) = 0 /\ Underway(l) = 0
    BY <2>5, <2>6 DEF Between, Underway
  <2>8. Behind(l, node[l.src].cq, Between(l)) /\ Ahead(l, node[l.dst].cq, Len(inc[l].sq))
    <3>1. 0 \in Nat /\ \A x \in Nat : Behind(l, <<>>, x) /\ Ahead(l, <<>>, x)
      BY NothingQueued
    <3>2. Behind(l, <<>>, 0) /\ Ahead(l, <<>>, 0)
      BY <3>1
    <3>3. QED
      BY <2>3, <2>6, <2>7, <3>2
  <2>9. /\ IsFiniteSet(WritesReserved(l)) /\ IsFiniteSet(WritesHeld(l))
        /\ Cardinality(WritesHeld(l)) = Underway(l)
    BY <2>2, <2>7, FS_EmptySet
  <2>10. QED
    BY <2>4, <2>8, <2>9 DEF SuppliedAt
<1>3. QED
  BY <1>1, <1>2 DEF Supplied, Unset

(* A step that concerns one link.                                            *)
LEMMA SuppliedOneLink ==
  ASSUME RdmaAssumption, Typed, Supplied, NEW l \in Link, Unset', SuppliedAt(l)',
         \A k \in Link \ {l} : /\ out'[k] = out[k] /\ inc'[k] = inc[k]
                               /\ WritesReserved(k)' = WritesReserved(k)
                               /\ WritesHeld(k)' = WritesHeld(k),
         \A n \in Proc : \A k \in Link \ {l} : Unseen(k, node[n].cq, node'[n].cq)
  PROVE  Supplied'
<1>1. ASSUME NEW k \in Link \ {l} PROVE SuppliedAt(k)'
  <2>1. k.src \in Proc /\ k.dst \in Proc /\ SuppliedAt(k)
    BY DEF RdmaAssumption, Supplied
  <2>2. /\ Unseen(k, node[k.src].cq, node'[k.src].cq) /\ Unseen(k, node[k.dst].cq, node'[k.dst].cq)
        /\ out'[k] = out[k] /\ inc'[k] = inc[k]
        /\ WritesReserved(k)' = WritesReserved(k) /\ WritesHeld(k)' = WritesHeld(k)
    BY <2>1
  <2>3. QED
    BY <2>1, <2>2, SuppliedUnseen
<1>2. QED
  BY <1>1 DEF Supplied

(* A step that concerns none.                                                *)
LEMMA SuppliedSame ==
  ASSUME RdmaAssumption, Typed, Supplied, Unset', UNCHANGED <<out, inc>>,
         \A n \in Proc : node'[n].cq = node[n].cq,
         \A k \in Link : WritesReserved(k)' = WritesReserved(k) /\ WritesHeld(k)' = WritesHeld(k)
  PROVE  Supplied'
<1>1. ASSUME NEW k \in Link PROVE SuppliedAt(k)'
  <2>1. k.src \in Proc /\ k.dst \in Proc /\ SuppliedAt(k)
    BY DEF RdmaAssumption, Supplied
  <2>2. Unseen(k, node[k.src].cq, node'[k.src].cq) /\ Unseen(k, node[k.dst].cq, node'[k.dst].cq)
    BY <2>1 DEF Unseen
  <2>3. QED
    BY <2>1, <2>2, SuppliedUnseen
<1>2. QED
  BY <1>1 DEF Supplied

(* The holders of write contexts only change with threads and buffers.       *)
LEMMA HoldersSame ==
  ASSUME Supplied, UNCHANGED <<thread, bufs>>
  PROVE  Unset' /\ \A k \in Link : WritesReserved(k)' = WritesReserved(k) /\ WritesHeld(k)' = WritesHeld(k)
BY DEF Supplied, Unset, WritesReserved, WritesHeld

(* A failed CHECK leaves the contexts where they are.                        *)
LEMMA SuppliedFail ==
  ASSUME RdmaAssumption, Typed, Supplied, NEW n \in Proc, NEW why, Fail(n, why),
         UNCHANGED <<out, inc, thread, bufs>>
  PROVE  Supplied'
<1>1. \A k \in Proc : node'[k].cq = node[k].cq
  BY DEF Typed, Nodes, NodeAt, Fail
<1>2. QED
  BY <1>1, HoldersSame, SuppliedSame

(* A larger allowance.                                                       *)
LEMMA BehindMore ==
  ASSUME NEW T, NEW q \in Seq(T), NEW l, NEW x \in Int, NEW y \in Int, Behind(l, q, x), x <= y
  PROVE  Behind(l, q, y)
<1>1. ASSUME NEW i \in 0 .. Len(q)
      PROVE  Tally(Sent, l, After(q, i)) <= y + Tally(Following, l, After(q, i))
  <2>1. PICK a : a = After(q, i) /\ a \in Seq(T)
    BY AfterAppend
  <2>2. Tally(Sent, l, a) \in Nat /\ Tally(Following, l, a) \in Nat
    BY <2>1, TallyAppend
  <2>3. Tally(Sent, l, a) <= x + Tally(Following, l, a)
    BY <2>1 DEF Behind
  <2>4. QED
    BY <2>1, <2>2, <2>3
<1>2. QED
  BY <1>1 DEF Behind

(* Fewer replies before a START.                                             *)
LEMMA AheadLess ==
  ASSUME NEW T, NEW q \in Seq(T), NEW l, NEW x \in Int, NEW y \in Int, Ahead(l, q, x), y <= x, Depth \in Nat
  PROVE  Ahead(l, q, y)
<1>1. ASSUME NEW i \in DOMAIN q, q[i].op = "recv start", q[i].link = l
      PROVE  y + Tally(Answered, l, After(q, i)) + Tally(Came, l, q) <= Depth + Tally(Came, l, After(q, i))
  <2>0. i \in 0 .. Len(q)
    OBVIOUS
  <2>1. PICK a : a = After(q, i) /\ a \in Seq(T)
    BY <2>0, AfterAppend
  <2>2. Tally(Answered, l, a) \in Nat /\ Tally(Came, l, a) \in Nat /\ Tally(Came, l, q) \in Nat
    BY <2>1, TallyAppend
  <2>3. x + Tally(Answered, l, a) + Tally(Came, l, q) <= Depth + Tally(Came, l, a)
    BY <1>1, <2>1 DEF Ahead
  <2>4. QED
    BY <2>1, <2>2, <2>3
<1>2. QED
  BY <1>1 DEF Ahead

(* The sender's queue when a completion may have been put into it.           *)
LEMMA BehindLonger ==
  ASSUME NEW T, NEW q \in Seq(T), NEW l, NEW e, NEW m, NEW n, NEW x \in Int, NEW y \in Nat,
         Behind(l, q, x), x + Gain(m, n, Sent, l, e) <= y + Gain(m, n, Following, l, e)
  PROVE  Behind(l, Longer(m, n, q, e), y)
<1>1. CASE n = m
  <2>1. x + One(Sent, l, e) <= y + One(Following, l, e)
    BY <1>1 DEF Gain
  <2>2. Behind(l, Append(q, e), y)
    BY <2>1, BehindAppend
  <2>3. QED
    BY <1>1, <2>2 DEF Longer
<1>2. CASE n # m
  <2>1. x <= y /\ y \in Int
    BY <1>2 DEF Gain
  <2>2. Behind(l, q, y)
    BY <2>1, BehindMore
  <2>3. QED
    BY <1>2, <2>2 DEF Longer
<1>3. QED
  BY <1>1, <1>2

(* The sender's queue after the two completions of a request.                *)
LEMMA BehindBoth ==
  ASSUME NEW T, NEW q \in Seq(T), NEW l, NEW n, NEW n1, NEW n2, NEW e1, NEW e2,
         NEW x \in Int, NEW y \in Nat, NEW z \in Nat, Behind(l, q, x),
         x + Gain(n1, n, Sent, l, e1) <= z + Gain(n1, n, Following, l, e1),
         z + Gain(n2, n, Sent, l, e2) <= y + Gain(n2, n, Following, l, e2)
  PROVE  Behind(l, Both(q, n, n1, e1, n2, e2), y)
<1>1. PICK r, U : r = Longer(n1, n, q, e1) /\ r \in Seq(U)
  BY LongerTyped
<1>2. Behind(l, r, z)
  BY <1>1, BehindLonger
<1>3. z \in Int
  OBVIOUS
<1>4. Behind(l, Longer(n2, n, r, e2), y)
  BY <1>1, <1>2, <1>3, BehindLonger
<1>5. QED
  BY <1>1, <1>4 DEF Both

(* The receiver's queue when a completion may have been put into it.         *)
LEMMA AheadLonger ==
  ASSUME NEW T, NEW q \in Seq(T), NEW l, NEW e, NEW m, NEW n, NEW x \in Int, NEW y \in Int,
         Ahead(l, q, x), y + Gain(m, n, Answered, l, e) <= x, Depth \in Nat,
         Gain(m, n, Came, l, e) = 1 => y + Tally(Came, l, q) + 1 <= Depth
  PROVE  Ahead(l, Longer(m, n, q, e), y)
<1>1. CASE n = m
  <2>1. y + One(Answered, l, e) <= x /\ (One(Came, l, e) = 1 => y + Tally(Came, l, q) + 1 <= Depth)
    BY <1>1 DEF Gain
  <2>2. Ahead(l, Append(q, e), y)
    BY <2>1, AheadAppend
  <2>3. QED
    BY <1>1, <2>2 DEF Longer
<1>2. CASE n # m
  <2>1. y <= x
    BY <1>2 DEF Gain
  <2>2. Ahead(l, q, y)
    BY <2>1, AheadLess
  <2>3. QED
    BY <1>2, <2>2 DEF Longer
<1>3. QED
  BY <1>1, <1>2

(* The receiver's queue after the two completions of a request.              *)
LEMMA AheadBoth ==
  ASSUME NEW T, NEW q \in Seq(T), NEW l, NEW n, NEW n1, NEW n2, NEW e1, NEW e2,
         NEW x \in Int, NEW y \in Int, Ahead(l, q, x), Depth \in Nat,
         y + Gain(n1, n, Answered, l, e1) + Gain(n2, n, Answered, l, e2) <= x,
         Gain(n1, n, Came, l, e1) = 1 => x + Tally(Came, l, q) + 1 <= Depth,
         Gain(n1, n, Came, l, e1) = 1 => Gain(n1, n, Answered, l, e1) = 0,
         Gain(n2, n, Came, l, e2) = 0
  PROVE  Ahead(l, Both(q, n, n1, e1, n2, e2), y)
<1>1. PICK r, U : r = Longer(n1, n, q, e1) /\ r \in Seq(U)
  BY LongerTyped
<1>2. /\ Gain(n1, n, Answered, l, e1) \in {0, 1} /\ Gain(n2, n, Answered, l, e2) \in {0, 1}
      /\ Gain(n1, n, Came, l, e1) \in {0, 1}
  BY DEF Gain, One
<1>3. PICK z \in Int : z = x - Gain(n1, n, Answered, l, e1)
  BY <1>2
<1>4. z + Gain(n1, n, Answered, l, e1) <= x /\ y + Gain(n2, n, Answered, l, e2) <= z
  BY <1>2, <1>3
<1>5. Gain(n1, n, Came, l, e1) = 1 => z + Tally(Came, l, q) + 1 <= Depth
  BY <1>3
<1>6. Ahead(l, r, z)
  BY <1>1, <1>4, <1>5, AheadLonger
<1>7. Gain(n2, n, Came, l, e2) = 1 => y + Tally(Came, l, r) + 1 <= Depth
  OBVIOUS
<1>8. Ahead(l, Longer(n2, n, r, e2), y)
  BY <1>1, <1>4, <1>6, <1>7, AheadLonger
<1>9. QED
  BY <1>1, <1>8 DEF Both

(* What the queues count after a carried request.                            *)
LEMMA CountsCompleted ==
  ASSUME Typed, NEW l, NEW n1, NEW n2, NEW e1, NEW e2, Completes(l, n1, e1, n2, e2), NEW n \in Proc, NEW ops
  PROVE  /\ Tally(ops, l, node[n].cq) \in Nat
         /\ Tally(ops, l, node'[n].cq) =
              Tally(ops, l, node[n].cq) + Gain(n1, n, ops, l, e1) + Gain(n2, n, ops, l, e2)
<1>1. PICK q, T : q = node[n].cq /\ q \in Seq(T)
  BY DEF Typed, Nodes, NodeAt
<1>2. node'[n].cq = Both(q, n, n1, e1, n2, e2)
  BY <1>1 DEF Completes
<1>3. /\ Tally(ops, l, q) \in Nat
      /\ Tally(ops, l, Both(q, n, n1, e1, n2, e2)) =
           Tally(ops, l, q) + Gain(n1, n, ops, l, e1) + Gain(n2, n, ops, l, e2)
  BY <1>1, BothTally
<1>4. QED
  BY <1>1, <1>2, <1>3

(* A step of the network: a START goes from the work requests to both        *)
(* queues (a), a write to what follows at the sender (b), a reply to both    *)
(* queues (c).                                                               *)
Moves(l, n1, e1, n2, e2, a, b, c) ==
  /\ UNCHANGED <<thread, bufs>> /\ \A k \in Link \ {l} : out'[k] = out[k] /\ inc'[k] = inc[k]
  /\ out'[l].status = out[l].status /\ out'[l].rejects = out[l].rejects
  /\ out'[l].start = out[l].start /\ out'[l].write = out[l].write /\ inc'[l].reply = inc[l].reply
  /\ Completes(l, n1, e1, n2, e2)
  /\ a \in {0, 1} /\ b \in {0, 1} /\ c \in {0, 1}
  /\ Orders("start", out'[l].sq) = Orders("start", out[l].sq) - a
  /\ Orders("write", out'[l].sq) = Orders("write", out[l].sq) - b
  /\ Len(inc'[l].sq) = Len(inc[l].sq) - c
  /\ Gain(n1, l.dst, Came, l, e1) + Gain(n2, l.dst, Came, l, e2) = a
  /\ Gain(n1, l.src, Sent, l, e1) + Gain(n2, l.src, Sent, l, e2) = a
  /\ Gain(n1, l.dst, Answered, l, e1) + Gain(n2, l.dst, Answered, l, e2) = c
  /\ Gain(n1, l.src, Following, l, e1) + Gain(n2, l.src, Following, l, e2) = b + c

(* No context is lost on the way.                                            *)
LEMMA SuppliedCarried ==
  ASSUME RdmaAssumption, Typed, Supplied, NEW l \in Link, out[l].status = "connected",
         NEW n1, NEW n2, NEW e1, NEW e2, NEW a, NEW b, NEW c, Moves(l, n1, e1, n2, e2, a, b, c),
         Behind(l, node'[l.src].cq, Between(l) + a - b - c),
         Sound(l) => Ahead(l, node'[l.dst].cq, Len(inc[l].sq) - c)
  PROVE  Supplied'
<1> USE DEF Moves
<1>1. l.src \in Proc /\ l.dst \in Proc /\ SuppliedAt(l)
  BY DEF RdmaAssumption, Supplied
<1>2. Unset' /\ \A k \in Link : WritesReserved(k)' = WritesReserved(k) /\ WritesHeld(k)' = WritesHeld(k)
  BY HoldersSame
<1>3. \A n, ops, m1, m2, f1, f2 : Gain(m1, n, ops, l, f1) \in Nat /\ Gain(m2, n, ops, l, f2) \in Nat
  BY DEF Gain, One
<1>4. /\ Len(out[l].start) \in Nat /\ Len(out[l].write) \in Nat
      /\ Len(inc[l].reply) \in Nat /\ Len(inc[l].sq) \in Nat
      /\ Orders("start", out[l].sq) \in Nat /\ Orders("write", out[l].sq) \in Nat
      /\ CameAt(l) \in Nat /\ SentAt(l) \in Nat /\ AnsweredAt(l) \in Nat /\ FollowingAt(l) \in Nat
  BY Counts
<1>5. ASSUME NEW n \in Proc, NEW ops, NEW s, Gain(n1, n, ops, l, e1) + Gain(n2, n, ops, l, e2) = s
      PROVE  Tally(ops, l, node'[n].cq) = Tally(ops, l, node[n].cq) + s
  <2>1. PICK g, h : g = Gain(n1, n, ops, l, e1) /\ h = Gain(n2, n, ops, l, e2)
    OBVIOUS
  <2>2. /\ Tally(ops, l, node[n].cq) \in Nat
        /\ Tally(ops, l, node'[n].cq) = Tally(ops, l, node[n].cq) + g + h
    BY <2>1, CountsCompleted
  <2>3. g \in Nat /\ h \in Nat /\ g + h = s
    BY <1>3, <1>5, <2>1
  <2>4. \A t \in Nat : t + g + h = t + (g + h)
    BY <2>3
  <2>5. QED
    BY <2>2, <2>3, <2>4
<1>6. CameAt(l)' = CameAt(l) + a
  <2>1. Tally(Came, l, node'[l.dst].cq) = Tally(Came, l, node[l.dst].cq) + a
    BY <1>1, <1>5
  <2>2. QED
    BY <2>1 DEF CameAt
<1>7. SentAt(l)' = SentAt(l) + a
  <2>1. Tally(Sent, l, node'[l.src].cq) = Tally(Sent, l, node[l.src].cq) + a
    BY <1>1, <1>5
  <2>2. QED
    BY <2>1 DEF SentAt
<1>8. AnsweredAt(l)' = AnsweredAt(l) + c
  <2>1. Tally(Answered, l, node'[l.dst].cq) = Tally(Answered, l, node[l.dst].cq) + c
    BY <1>1, <1>5
  <2>2. QED
    BY <2>1 DEF AnsweredAt
<1>9. FollowingAt(l)' = FollowingAt(l) + (b + c)
  <2>1. Tally(Following, l, node'[l.src].cq) = Tally(Following, l, node[l.src].cq) + (b + c)
    BY <1>1, <1>5
  <2>2. QED
    BY <2>1 DEF FollowingAt
<1>10. /\ Between(l)' = Between(l) + a - b - c /\ Underway(l)' = Underway(l)
       /\ StartContexts(l)' = StartContexts(l) /\ ReplyContexts(l)' = ReplyContexts(l)
  <2>1. PICK o, w, n, m, k, f, d, u, v :
          /\ o = Orders("start", out[l].sq) /\ w = Orders("write", out[l].sq) /\ n = Len(inc[l].sq)
          /\ k = CameAt(l) /\ m = SentAt(l) /\ d = AnsweredAt(l) /\ f = FollowingAt(l)
          /\ u = Len(out[l].start) /\ v = Len(inc[l].reply)
    OBVIOUS
  <2>2. /\ o \in Nat /\ w \in Nat /\ n \in Nat /\ k \in Nat /\ m \in Nat /\ d \in Nat /\ f \in Nat
        /\ u \in Nat /\ v \in Nat
    BY <1>4, <2>1
  <2>3. /\ Between(l) = k + n + w /\ Underway(l) = o + (k + n + w) + f
        /\ StartContexts(l) = u + o + m /\ ReplyContexts(l) = v + n + d
    BY <2>1 DEF Between, Underway, StartContexts, ReplyContexts
  <2>4. /\ Between(l)' = (k + a) + (n - c) + (w - b)
        /\ Underway(l)' = (o - a) + ((k + a) + (n - c) + (w - b)) + (f + (b + c))
        /\ StartContexts(l)' = u + (o - a) + (m + a) /\ ReplyContexts(l)' = v + (n - c) + (d + c)
    BY <1>6, <1>7, <1>8, <1>9, <2>1 DEF Between, Underway, StartContexts, ReplyContexts
  <2>5. QED
    BY <2>2, <2>3, <2>4
<1>11. WriteContexts(l)' = WriteContexts(l)
  BY <1>2 DEF WriteContexts
<1>12. /\ IsFiniteSet(WritesReserved(l))' /\ IsFiniteSet(WritesHeld(l))'
       /\ Cardinality(WritesHeld(l))' = Underway(l)'
  BY <1>1, <1>2, <1>10 DEF SuppliedAt
<1>13. Behind(l, node'[l.src].cq, Between(l)')
  BY <1>10
<1>14. Sound(l) => Ahead(l, node'[l.dst].cq, Len(inc'[l].sq))
  OBVIOUS
<1>15. SuppliedAt(l)'
  BY <1>1, <1>10, <1>11, <1>12, <1>13, <1>14, SuppliedStep
<1>16. \A n \in Proc : \A k \in Link \ {l} : Unseen(k, node[n].cq, node'[n].cq)
  <2>1. ASSUME NEW n \in Proc, NEW k \in Link \ {l} PROVE Unseen(k, node[n].cq, node'[n].cq)
    <3>1. PICK q, T : q = node[n].cq /\ q \in Seq(T)
      BY DEF Typed, Nodes, NodeAt
    <3>2. node'[n].cq = Both(q, n, n1, e1, n2, e2) /\ e1.link # k /\ e2.link # k
      BY <3>1 DEF Completes
    <3>3. Unseen(k, q, Both(q, n, n1, e1, n2, e2))
      BY <3>1, <3>2, UnseenBoth
    <3>4. QED
      BY <3>1, <3>2, <3>3
  <2>2. QED
    BY <2>1
<1>17. QED
  BY <1>2, <1>15, <1>16, SuppliedOneLink

(* What is behind at the sender after a request is carried.                  *)
LEMMA BehindCompleted ==
  ASSUME Typed, NEW l, NEW n1, NEW n2, NEW e1, NEW e2, Completes(l, n1, e1, n2, e2), l.src \in Proc,
         NEW x \in Int, NEW y \in Nat, NEW z \in Nat, Behind(l, node[l.src].cq, x),
         x + Gain(n1, l.src, Sent, l, e1) <= z + Gain(n1, l.src, Following, l, e1),
         z + Gain(n2, l.src, Sent, l, e2) <= y + Gain(n2, l.src, Following, l, e2)
  PROVE  Behind(l, node'[l.src].cq, y)
<1>1. PICK q, T : q = node[l.src].cq /\ q \in Seq(T)
  BY DEF Typed, Nodes, NodeAt
<1>2. PICK n : n = l.src
  OBVIOUS
<1>3. Behind(l, Both(q, n, n1, e1, n2, e2), y)
  BY <1>1, <1>2, BehindBoth
<1>4. node'[l.src].cq = Both(q, n, n1, e1, n2, e2)
  BY <1>1, <1>2 DEF Completes
<1>5. QED
  BY <1>3, <1>4

(* What is ahead at the receiver after a request is carried.                 *)
LEMMA AheadCompleted ==
  ASSUME Typed, NEW l, NEW n1, NEW n2, NEW e1, NEW e2, Completes(l, n1, e1, n2, e2), l.dst \in Proc,
         NEW x \in Int, NEW y \in Int, Ahead(l, node[l.dst].cq, x), Depth \in Nat,
         y + Gain(n1, l.dst, Answered, l, e1) + Gain(n2, l.dst, Answered, l, e2) <= x,
         Gain(n1, l.dst, Came, l, e1) = 1 => x + CameAt(l) + 1 <= Depth,
         Gain(n1, l.dst, Came, l, e1) = 1 => Gain(n1, l.dst, Answered, l, e1) = 0,
         Gain(n2, l.dst, Came, l, e2) = 0
  PROVE  Ahead(l, node'[l.dst].cq, y)
<1>1. PICK q, T : q = node[l.dst].cq /\ q \in Seq(T)
  BY DEF Typed, Nodes, NodeAt
<1>2. PICK n : n = l.dst
  OBVIOUS
<1>3. Gain(n1, n, Came, l, e1) = 1 => x + Tally(Came, l, q) + 1 <= Depth
  BY <1>1, <1>2 DEF CameAt
<1>4. Ahead(l, Both(q, n, n1, e1, n2, e2), y)
  BY <1>1, <1>2, <1>3, AheadBoth
<1>5. node'[l.dst].cq = Both(q, n, n1, e1, n2, e2)
  BY <1>1, <1>2 DEF Completes
<1>6. QED
  BY <1>4, <1>5

(* What the network carries goes from one place to the next.                 *)
LEMMA SuppliedCarry ==
  ASSUME RdmaAssumption, Typed, Receives, Supplied, NEW l \in Link, Carry(l)
  PROVE  Supplied'
<1>0. /\ Outs /\ Incs /\ OutAt(l, out[l], thread) /\ IncAt(l, inc[l], thread) /\ SuppliedAt(l)
      /\ l.src \in Proc /\ l.dst \in Proc /\ Depth \in Nat
  BY Constants DEF Typed, Outs, Incs, Supplied, RdmaAssumption
<1>1. \A n \in Proc : "cq" \in DOMAIN node[n] /\ node[n].cq = node[n].cq
  BY DEF Typed, Nodes, NodeAt
<1>2. out[l].status = "connected"
  BY Working DEF Carry, CarryStart, CarryWrite, CarryReply
<1>3. /\ Orders("start", out[l].sq) \in Nat /\ Orders("write", out[l].sq) \in Nat /\ Len(inc[l].sq) \in Nat
      /\ CameAt(l) \in Nat /\ FollowingAt(l) \in Nat /\ Len(out[l].write) \in Nat
  BY Counts
<1>4. ASSUME out[l].sq # <<>>, out' = [out EXCEPT ![l].sq = Tail(@)]
      PROVE  /\ \A k \in Link \ {l} : out'[k] = out[k]
             /\ out'[l].status = out[l].status /\ out'[l].rejects = out[l].rejects
             /\ out'[l].start = out[l].start /\ out'[l].write = out[l].write
             /\ \A op : /\ Orders(op, out'[l].sq) \in Nat
                        /\ Orders(op, out[l].sq) = Orders(op, out'[l].sq) + (IF Head(out[l].sq).op = op THEN 1 ELSE 0)
  <2>1. PICK q, T : q = out[l].sq /\ q \in Seq(T)
    BY <1>0 DEF OutAt
  <2>2. out'[l].sq = Tail(q)
    BY <1>0, <1>4, <2>1 DEF Outs, OutAt
  <2>3. \A op : /\ Orders(op, Tail(q)) \in Nat
                /\ Orders(op, q) = Orders(op, Tail(q)) + (IF Head(q).op = op THEN 1 ELSE 0)
    BY <1>4, <2>1, OrdersChange
  <2>4. QED
    BY <1>0, <1>4, <2>1, <2>2, <2>3 DEF Outs, OutAt
<1>5. CASE CarryStart(l)
  <2> DEFINE w == Head(out[l].sq)
             e1 == [op |-> "recv start", link |-> l, msg |-> out[l].startBuf[w.ctx]]
             e2 == [op |-> "sent start", link |-> l, ctx |-> w.ctx]
  <2>1. /\ node' = CompleteBoth(node, l.dst, e1, l.src, e2)
        /\ out[l].sq # <<>> /\ UNCHANGED <<thread, bufs>> /\ w.op = "start"
        /\ inc' = [inc EXCEPT ![l].rx = @ - 1] /\ out' = [out EXCEPT ![l].sq = Tail(@)]
    BY <1>5 DEF CarryStart
  <2>2. e1.link = l /\ e2.link = l /\ e1.op = "recv start" /\ e2.op = "sent start"
    OBVIOUS
  <2> HIDE DEF e1, e2
  <2>3. Completes(l, l.dst, e1, l.src, e2)
    BY <1>1, <2>1, <2>2, CompletesBoth
  <2>4. /\ \A k \in Link \ {l} : out'[k] = out[k] /\ inc'[k] = inc[k]
        /\ out'[l].status = out[l].status /\ out'[l].rejects = out[l].rejects
        /\ out'[l].start = out[l].start /\ out'[l].write = out[l].write
    BY <1>0, <1>4, <2>1 DEF Incs
  <2>5. inc'[l].reply = inc[l].reply /\ Len(inc'[l].sq) = Len(inc[l].sq) - 0
    BY <1>0, <1>3, <2>1 DEF Incs, IncAt
  <2>6. /\ Orders("start", out'[l].sq) = Orders("start", out[l].sq) - 1 /\ Orders("start", out[l].sq) >= 1
        /\ Orders("write", out'[l].sq) = Orders("write", out[l].sq) - 0
    <3>1. /\ Orders("start", out'[l].sq) \in Nat /\ Orders("write", out'[l].sq) \in Nat
          /\ Orders("start", out[l].sq) = Orders("start", out'[l].sq) + 1
          /\ Orders("write", out[l].sq) = Orders("write", out'[l].sq) + 0
      BY <1>4, <2>1
    <3>2. QED
      BY <1>3, <3>1
  <2>7. /\ One(Came, l, e1) = 1 /\ One(Came, l, e2) = 0 /\ One(Sent, l, e1) = 0 /\ One(Sent, l, e2) = 1
        /\ One(Answered, l, e1) = 0 /\ One(Answered, l, e2) = 0
        /\ One(Following, l, e1) = 0 /\ One(Following, l, e2) = 0
    BY <2>2 DEF One, Came, Sent, Answered, Following
  <2>8. /\ Gain(l.dst, l.dst, Came, l, e1) = 1 /\ Gain(l.src, l.dst, Came, l, e2) = 0
        /\ Gain(l.dst, l.src, Sent, l, e1) = 0 /\ Gain(l.src, l.src, Sent, l, e2) = 1
        /\ Gain(l.dst, l.dst, Answered, l, e1) = 0 /\ Gain(l.src, l.dst, Answered, l, e2) = 0
        /\ Gain(l.dst, l.src, Following, l, e1) = 0 /\ Gain(l.src, l.src, Following, l, e2) = 0
    BY <2>7 DEF Gain
  <2>9. Between(l) \in Nat /\ Between(l) \in Int /\ Between(l) + 1 \in Nat
    BY <1>3 DEF Between
  <2>10. Behind(l, node'[l.src].cq, Between(l) + 1)
    <3>1. /\ Between(l) + Gain(l.dst, l.src, Sent, l, e1) <= Between(l) + Gain(l.dst, l.src, Following, l, e1)
          /\ Between(l) + Gain(l.src, l.src, Sent, l, e2) <= (Between(l) + 1) + Gain(l.src, l.src, Following, l, e2)
      BY <2>8, <2>9
    <3>2. Behind(l, node[l.src].cq, Between(l))
      BY <1>0 DEF SuppliedAt
    <3>3. PICK x, y : x = Between(l) /\ y = Between(l) + 1
      OBVIOUS
    <3>4. Behind(l, node'[l.src].cq, y)
      BY <1>0, <2>3, <2>9, <3>1, <3>2, <3>3, BehindCompleted
    <3>5. QED
      BY <3>3, <3>4
  <2>11. ASSUME Sound(l) PROVE Ahead(l, node'[l.dst].cq, Len(inc[l].sq) - 0)
    <3>1. Ahead(l, node[l.dst].cq, Len(inc[l].sq)) /\ WriteContexts(l) = Depth /\ Cardinality(WritesHeld(l)) = Underway(l)
          /\ IsFiniteSet(WritesReserved(l))
      BY <1>0, <1>2, <2>11 DEF SuppliedAt
    <3>2. Cardinality(WritesReserved(l)) \in Nat
      BY <3>1, FS_CardinalityType
    <3>3. Len(inc[l].sq) + CameAt(l) + 1 <= Depth
      <4>1. PICK o, w1, f, k, n, r, v : /\ o = Orders("start", out[l].sq) /\ w1 = Orders("write", out[l].sq)
              /\ f = FollowingAt(l) /\ k = CameAt(l) /\ n = Len(inc[l].sq)
              /\ r = Cardinality(WritesReserved(l)) /\ v = Len(out[l].write)
        OBVIOUS
      <4>2. o \in Nat /\ w1 \in Nat /\ f \in Nat /\ k \in Nat /\ n \in Nat /\ r \in Nat /\ v \in Nat /\ o >= 1
        BY <1>3, <2>6, <3>2, <4>1
      <4>3. v + r + (o + (k + n + w1) + f) = Depth
        BY <3>1, <4>1 DEF WriteContexts, Underway, Between
      <4>4. n + k + 1 <= Depth
        BY <1>0, <4>2, <4>3
      <4>5. QED
        BY <4>1, <4>4
    <3>4. /\ Len(inc[l].sq) \in Int /\ Len(inc[l].sq) - 0 = Len(inc[l].sq)
          /\ Len(inc[l].sq) + Gain(l.dst, l.dst, Answered, l, e1) + Gain(l.src, l.dst, Answered, l, e2) <= Len(inc[l].sq)
      BY <1>3, <2>8
    <3>5. PICK x : x = Len(inc[l].sq)
      OBVIOUS
    <3>6. Ahead(l, node'[l.dst].cq, x)
      BY <1>0, <2>3, <2>8, <3>1, <3>3, <3>4, <3>5, AheadCompleted
    <3>7. QED
      BY <3>4, <3>5, <3>6
  <2>12. PICK a, b, c : a = 1 /\ b = 0 /\ c = 0
    OBVIOUS
  <2>13. /\ a \in {0, 1} /\ b \in {0, 1} /\ c \in {0, 1}
         /\ Orders("start", out'[l].sq) = Orders("start", out[l].sq) - a
         /\ Orders("write", out'[l].sq) = Orders("write", out[l].sq) - b
         /\ Len(inc'[l].sq) = Len(inc[l].sq) - c
         /\ Gain(l.dst, l.dst, Came, l, e1) + Gain(l.src, l.dst, Came, l, e2) = a
         /\ Gain(l.dst, l.src, Sent, l, e1) + Gain(l.src, l.src, Sent, l, e2) = a
         /\ Gain(l.dst, l.dst, Answered, l, e1) + Gain(l.src, l.dst, Answered, l, e2) = c
         /\ Gain(l.dst, l.src, Following, l, e1) + Gain(l.src, l.src, Following, l, e2) = b + c
    BY <2>5, <2>6, <2>8, <2>12
  <2>14. Behind(l, node'[l.src].cq, Between(l) + a - b - c)
    <3>1. Between(l) + a - b - c = Between(l) + 1
      BY <2>9, <2>12
    <3>2. QED
      BY <2>10, <3>1
  <2>15. Sound(l) => Ahead(l, node'[l.dst].cq, Len(inc[l].sq) - c)
    BY <2>11, <2>12
  <2>16. QED
    <3>1. Moves(l, l.dst, e1, l.src, e2, a, b, c)
      BY <2>1, <2>3, <2>4, <2>5, <2>13, Zenon DEF Moves
    <3>2. QED
      BY <1>2, <2>14, <2>15, <3>1, SuppliedCarried
<1>6. CASE CarryWrite(l)
  <2> DEFINE w == Head(out[l].sq)
             e1 == [op |-> "written", link |-> l, idx |-> w.idx]
             e2 == [op |-> "wrote", link |-> l, ctx |-> w.ctx]
             e3 == [op |-> "error", link |-> l]
             f == [node EXCEPT ![l.dst].mem = Put(@, w.to, w.msg)]
  <2>1. /\ out[l].sq # <<>> /\ UNCHANGED <<thread, bufs>> /\ out' = [out EXCEPT ![l].sq = Tail(@)]
        /\ w.op = "write"
        /\ \/ inc' = [inc EXCEPT ![l].rx = @ - 1] /\ node' = CompleteBoth(f, l.dst, e1, l.src, e2)
           \/ inc' = inc /\ node' = [node EXCEPT ![l.src] = Complete(@, e3)]
    BY <1>6 DEF CarryWrite
  <2>2. e1.link = l /\ e2.link = l /\ e3.link = l /\ e1.op = "written" /\ e2.op = "wrote" /\ e3.op = "error"
    OBVIOUS
  <2>3. \A n \in Proc : "cq" \in DOMAIN f[n] /\ f[n].cq = node[n].cq
    BY DEF Typed, Nodes, NodeAt
  <2> HIDE DEF e1, e2, e3, f
  <2>4. \/ Completes(l, l.dst, e1, l.src, e2)
        \/ \E x : x # l.src /\ x # l.dst /\ Completes(l, x, e1, l.src, e3)
    <3>1. CASE node' = CompleteBoth(f, l.dst, e1, l.src, e2)
      <4>1. Completes(l, l.dst, e1, l.src, e2)
        BY <2>2, <2>3, <3>1, CompletesBoth
      <4>2. QED
        BY <4>1
    <3>2. CASE node' = [node EXCEPT ![l.src] = Complete(@, e3)]
      <4>1. PICK x : x = {y \in Proc : y \notin y}
        OBVIOUS
      <4>2. x \notin Proc
        <5>1. x \in x <=> x \in Proc /\ x \notin x
          BY <4>1
        <5>2. QED
          BY <5>1
      <4>3. ASSUME NEW n \in Proc PROVE node'[n].cq = Both(node[n].cq, n, x, e1, l.src, e3)
        <5>1. n # x /\ node'[n].cq = IF n = l.src THEN Append(node[n].cq, e3) ELSE node[n].cq
          BY <3>2, <4>2 DEF Typed, Nodes, NodeAt, Complete
        <5>2. QED
          BY <5>1 DEF Both, Longer
      <4>4. Completes(l, x, e1, l.src, e3)
        BY <2>2, <4>3 DEF Completes
      <4>5. QED
        BY <1>0, <4>2, <4>4
    <3>3. QED
      BY <2>1, <3>1, <3>2
  <2>5. PICK n1, e : /\ n1 = l.dst \/ (n1 # l.src /\ n1 # l.dst)
                     /\ e \in {e2, e3} /\ Completes(l, n1, e1, l.src, e)
    BY <2>4
  <2>6. /\ \A k \in Link \ {l} : out'[k] = out[k] /\ inc'[k] = inc[k]
        /\ out'[l].status = out[l].status /\ out'[l].rejects = out[l].rejects
        /\ out'[l].start = out[l].start /\ out'[l].write = out[l].write
    BY <1>0, <1>4, <2>1 DEF Incs
  <2>7. inc'[l].reply = inc[l].reply /\ Len(inc'[l].sq) = Len(inc[l].sq)
    BY <1>0, <2>1 DEF Incs, IncAt
  <2>8. /\ Orders("start", out'[l].sq) = Orders("start", out[l].sq)
        /\ Orders("write", out'[l].sq) = Orders("write", out[l].sq) - 1 /\ Orders("write", out[l].sq) >= 1
    <3>1. out[l].sq # <<>> /\ out' = [out EXCEPT ![l].sq = Tail(@)] /\ Head(out[l].sq).op = "write"
      BY <2>1
    <3>2. /\ Orders("start", out'[l].sq) \in Nat /\ Orders("write", out'[l].sq) \in Nat
          /\ Orders("write", out[l].sq) = Orders("write", out'[l].sq) + 1
          /\ Orders("start", out[l].sq) = Orders("start", out'[l].sq) + 0
      BY <1>4, <3>1
    <3>3. \A x, y, u, v : x \in Nat /\ u \in Nat /\ v \in Nat /\ u = x + 1 /\ y = v + 0
                            => v = y /\ x = u - 1 /\ u >= 1
      OBVIOUS
    <3>4. QED
      BY <1>3, <3>2, <3>3
  <2>9. /\ One(Came, l, e1) = 0 /\ One(Came, l, e) = 0 /\ One(Sent, l, e1) = 0 /\ One(Sent, l, e) = 0
        /\ One(Answered, l, e1) = 0 /\ One(Answered, l, e) = 0
        /\ One(Following, l, e1) = 0 /\ One(Following, l, e) = 1
    BY <2>2, <2>5 DEF One, Came, Sent, Answered, Following
  <2>10. /\ Gain(n1, l.dst, Came, l, e1) = 0 /\ Gain(l.src, l.dst, Came, l, e) = 0
         /\ Gain(n1, l.src, Sent, l, e1) = 0 /\ Gain(l.src, l.src, Sent, l, e) = 0
         /\ Gain(n1, l.dst, Answered, l, e1) = 0 /\ Gain(l.src, l.dst, Answered, l, e) = 0
         /\ Gain(n1, l.src, Following, l, e1) = 0 /\ Gain(l.src, l.src, Following, l, e) = 1
    BY <2>9 DEF Gain
  <2>11. Between(l) \in Nat /\ Between(l) \in Int /\ Between(l) - 1 \in Nat
    <3>1. PICK o, k, n : o = Orders("write", out[l].sq) /\ k = CameAt(l) /\ n = Len(inc[l].sq)
      OBVIOUS
    <3>2. o \in Nat /\ o >= 1 /\ k \in Nat /\ n \in Nat /\ Between(l) = k + n + o
      BY <1>3, <2>8, <3>1 DEF Between
    <3>3. QED
      BY <3>2
  <2>12. Behind(l, node'[l.src].cq, Between(l) - 1)
    <3>1. /\ Between(l) + Gain(n1, l.src, Sent, l, e1) <= Between(l) + Gain(n1, l.src, Following, l, e1)
          /\ Between(l) + Gain(l.src, l.src, Sent, l, e) <= (Between(l) - 1) + Gain(l.src, l.src, Following, l, e)
      BY <2>10, <2>11
    <3>2. Behind(l, node[l.src].cq, Between(l))
      BY <1>0 DEF SuppliedAt
    <3>3. PICK x, y : x = Between(l) /\ y = Between(l) - 1
      OBVIOUS
    <3>4. Behind(l, node'[l.src].cq, y)
      BY <1>0, <2>5, <2>11, <3>1, <3>2, <3>3, BehindCompleted
    <3>5. QED
      BY <3>3, <3>4
  <2>13. ASSUME Sound(l) PROVE Ahead(l, node'[l.dst].cq, Len(inc[l].sq))
    <3>1. Ahead(l, node[l.dst].cq, Len(inc[l].sq))
      BY <1>0, <2>13 DEF SuppliedAt
    <3>2. /\ Len(inc[l].sq) \in Int
          /\ Len(inc[l].sq) + Gain(n1, l.dst, Answered, l, e1) + Gain(l.src, l.dst, Answered, l, e) <= Len(inc[l].sq)
          /\ Gain(n1, l.dst, Came, l, e1) # 1
      BY <1>3, <2>10
    <3>3. PICK x : x = Len(inc[l].sq)
      OBVIOUS
    <3>4. Ahead(l, node'[l.dst].cq, x)
      BY <1>0, <2>5, <2>10, <3>1, <3>2, <3>3, AheadCompleted
    <3>5. QED
      BY <3>3, <3>4
  <2>14. PICK a, b, c : a = 0 /\ b = 1 /\ c = 0
    OBVIOUS
  <2>15. /\ a \in {0, 1} /\ b \in {0, 1} /\ c \in {0, 1}
         /\ Orders("start", out'[l].sq) = Orders("start", out[l].sq) - a
         /\ Orders("write", out'[l].sq) = Orders("write", out[l].sq) - b
         /\ Len(inc'[l].sq) = Len(inc[l].sq) - c
         /\ Gain(n1, l.dst, Came, l, e1) + Gain(l.src, l.dst, Came, l, e) = a
         /\ Gain(n1, l.src, Sent, l, e1) + Gain(l.src, l.src, Sent, l, e) = a
         /\ Gain(n1, l.dst, Answered, l, e1) + Gain(l.src, l.dst, Answered, l, e) = c
         /\ Gain(n1, l.src, Following, l, e1) + Gain(l.src, l.src, Following, l, e) = b + c
    BY <1>3, <2>7, <2>8, <2>10, <2>14
  <2>16. Behind(l, node'[l.src].cq, Between(l) + a - b - c)
    <3>1. Between(l) + a - b - c = Between(l) - 1
      BY <2>11, <2>14
    <3>2. QED
      BY <2>12, <3>1
  <2>17. Sound(l) => Ahead(l, node'[l.dst].cq, Len(inc[l].sq) - c)
    <3>1. Len(inc[l].sq) - c = Len(inc[l].sq)
      BY <1>3, <2>14
    <3>2. QED
      BY <2>13, <3>1
  <2>18. Moves(l, n1, e1, l.src, e, a, b, c)
    BY <2>1, <2>5, <2>6, <2>7, <2>15, Zenon DEF Moves
  <2>19. QED
    BY <1>2, <2>16, <2>17, <2>18, SuppliedCarried
<1>7. CASE CarryReply(l)
  <2> DEFINE w == Head(inc[l].sq)
             e1 == [op |-> "recv reply", link |-> l, reply |-> inc[l].replyBuf[w.ctx]]
             e2 == [op |-> "sent reply", link |-> l, ctx |-> w.ctx]
  <2>1. /\ node' = CompleteBoth(node, l.src, e1, l.dst, e2)
        /\ inc[l].sq # <<>> /\ UNCHANGED <<thread, bufs>>
        /\ inc' = [inc EXCEPT ![l].sq = Tail(@)] /\ out' = [out EXCEPT ![l].rx = @ - 1]
    BY <1>7 DEF CarryReply
  <2>2. e1.link = l /\ e2.link = l /\ e1.op = "recv reply" /\ e2.op = "sent reply"
    OBVIOUS
  <2> HIDE DEF e1, e2
  <2>3. Completes(l, l.src, e1, l.dst, e2)
    BY <1>1, <2>1, <2>2, CompletesBoth
  <2>4. /\ \A k \in Link \ {l} : out'[k] = out[k] /\ inc'[k] = inc[k]
        /\ out'[l].status = out[l].status /\ out'[l].rejects = out[l].rejects
        /\ out'[l].start = out[l].start /\ out'[l].write = out[l].write /\ out'[l].sq = out[l].sq
    BY <1>0, <2>1 DEF Outs, Incs, OutAt
  <2>5. inc'[l].reply = inc[l].reply /\ Len(inc'[l].sq) = Len(inc[l].sq) - 1 /\ Len(inc[l].sq) >= 1
    <3>1. PICK q, T : q = inc[l].sq /\ q \in Seq(T)
      BY <1>0 DEF IncAt
    <3>2. Len(Tail(q)) = Len(q) - 1
      BY <2>1, <3>1, AfterTail
    <3>3. Len(q) >= 1
      BY <2>1, <3>1
    <3>4. inc'[l].reply = inc[l].reply /\ inc'[l].sq = Tail(q)
      BY <1>0, <2>1, <3>1 DEF Incs, IncAt
    <3>5. QED
      BY <3>1, <3>2, <3>3, <3>4
  <2>7. /\ One(Came, l, e1) = 0 /\ One(Came, l, e2) = 0 /\ One(Sent, l, e1) = 0 /\ One(Sent, l, e2) = 0
        /\ One(Answered, l, e1) = 0 /\ One(Answered, l, e2) = 1
        /\ One(Following, l, e1) = 1 /\ One(Following, l, e2) = 0
    BY <2>2 DEF One, Came, Sent, Answered, Following
  <2>8. /\ Gain(l.src, l.dst, Came, l, e1) = 0 /\ Gain(l.dst, l.dst, Came, l, e2) = 0
        /\ Gain(l.src, l.src, Sent, l, e1) = 0 /\ Gain(l.dst, l.src, Sent, l, e2) = 0
        /\ Gain(l.src, l.dst, Answered, l, e1) = 0 /\ Gain(l.dst, l.dst, Answered, l, e2) = 1
        /\ Gain(l.src, l.src, Following, l, e1) = 1 /\ Gain(l.dst, l.src, Following, l, e2) = 0
    BY <2>7 DEF Gain
  <2>9. Between(l) \in Nat /\ Between(l) \in Int /\ Between(l) - 1 \in Nat
    <3>1. PICK o, k, n : o = Orders("write", out[l].sq) /\ k = CameAt(l) /\ n = Len(inc[l].sq)
      OBVIOUS
    <3>2. o \in Nat /\ k \in Nat /\ n \in Nat /\ n >= 1 /\ Between(l) = k + n + o
      BY <1>3, <2>5, <3>1 DEF Between
    <3>3. QED
      BY <3>2
  <2>10. Behind(l, node'[l.src].cq, Between(l) - 1)
    <3>1. /\ Between(l) + Gain(l.src, l.src, Sent, l, e1) <= (Between(l) - 1) + Gain(l.src, l.src, Following, l, e1)
          /\ (Between(l) - 1) + Gain(l.dst, l.src, Sent, l, e2) <= (Between(l) - 1) + Gain(l.dst, l.src, Following, l, e2)
      BY <2>8, <2>9
    <3>2. Behind(l, node[l.src].cq, Between(l))
      BY <1>0 DEF SuppliedAt
    <3>3. PICK x, y : x = Between(l) /\ y = Between(l) - 1
      OBVIOUS
    <3>4. Behind(l, node'[l.src].cq, y)
      BY <1>0, <2>3, <2>9, <3>1, <3>2, <3>3, BehindCompleted
    <3>5. QED
      BY <3>3, <3>4
  <2>11. ASSUME Sound(l) PROVE Ahead(l, node'[l.dst].cq, Len(inc[l].sq) - 1)
    <3>1. Ahead(l, node[l.dst].cq, Len(inc[l].sq))
      BY <1>0, <2>11 DEF SuppliedAt
    <3>2. PICK x, y : x = Len(inc[l].sq) /\ y = Len(inc[l].sq) - 1
      OBVIOUS
    <3>3. /\ x \in Int /\ y \in Int /\ Gain(l.src, l.dst, Came, l, e1) # 1
          /\ y + Gain(l.src, l.dst, Answered, l, e1) + Gain(l.dst, l.dst, Answered, l, e2) <= x
      BY <1>3, <2>8, <3>2
    <3>4. Ahead(l, node'[l.dst].cq, y)
      BY <1>0, <2>3, <2>8, <3>1, <3>2, <3>3, AheadCompleted
    <3>5. QED
      BY <3>2, <3>4
  <2>12. PICK a, b, c : a = 0 /\ b = 0 /\ c = 1
    OBVIOUS
  <2>13. /\ a \in {0, 1} /\ b \in {0, 1} /\ c \in {0, 1}
         /\ Orders("start", out'[l].sq) = Orders("start", out[l].sq) - a
         /\ Orders("write", out'[l].sq) = Orders("write", out[l].sq) - b
         /\ Len(inc'[l].sq) = Len(inc[l].sq) - c
         /\ Gain(l.src, l.dst, Came, l, e1) + Gain(l.dst, l.dst, Came, l, e2) = a
         /\ Gain(l.src, l.src, Sent, l, e1) + Gain(l.dst, l.src, Sent, l, e2) = a
         /\ Gain(l.src, l.dst, Answered, l, e1) + Gain(l.dst, l.dst, Answered, l, e2) = c
         /\ Gain(l.src, l.src, Following, l, e1) + Gain(l.dst, l.src, Following, l, e2) = b + c
    BY <1>3, <2>4, <2>5, <2>8, <2>12
  <2>14. Behind(l, node'[l.src].cq, Between(l) + a - b - c)
    <3>1. Between(l) + a - b - c = Between(l) - 1
      BY <2>9, <2>12
    <3>2. QED
      BY <2>10, <3>1
  <2>15. Sound(l) => Ahead(l, node'[l.dst].cq, Len(inc[l].sq) - c)
    BY <2>11, <2>12
  <2>16. QED
    <3>1. Moves(l, l.src, e1, l.dst, e2, a, b, c)
      BY <2>1, <2>3, <2>4, <2>5, <2>13, Zenon DEF Moves
    <3>2. QED
      BY <1>2, <2>14, <2>15, <3>1, SuppliedCarried
<1>8. QED
  BY <1>5, <1>6, <1>7 DEF Carry

(* What the queues count after a completion has been taken off one.          *)
LEMMA CountsTaken ==
  ASSUME RdmaAssumption, Typed, Receives, NEW n \in Proc, NEW e, Takes(n, e), NEW l, l = e.link
  PROVE  /\ l \in Link /\ out[l].status = "connected" /\ (One(Came, l, e) # 0 => l.dst = n)
         /\ \A i \in Proc : \A k \in Link \ {l} : Unseen(k, node[i].cq, node'[i].cq)
         /\ CameAt(l)' \in Nat /\ CameAt(l) = CameAt(l)' + One(Came, l, e)
         /\ SentAt(l)' \in Nat /\ SentAt(l) = SentAt(l)' + One(Sent, l, e)
         /\ AnsweredAt(l)' \in Nat /\ AnsweredAt(l) = AnsweredAt(l)' + One(Answered, l, e)
         /\ FollowingAt(l)' \in Nat /\ FollowingAt(l) = FollowingAt(l)' + One(Following, l, e)
<1>1. l \in Link /\ out[l].status = "connected" /\ l.src \in Proc /\ l.dst \in Proc
  BY Taken DEF RdmaAssumption
<1>2. /\ node[n].cq # <<>> /\ e = Head(node[n].cq)
      /\ node'[n].cq = Tail(node[n].cq) /\ \A k \in Proc \ {n} : node'[k] = node[k]
  BY DEF Takes
<1>3. e \in EventAt(n, thread, out)
  BY <1>2, PolledAt
<1>4. /\ e.op = "recv start" \/ e.op = "sent reply" => l.dst = n
      /\ e.op = "sent start" \/ e.op = "recv reply" \/ e.op = "wrote" \/ e.op = "error" => l.src = n
  <2>1. \A x \in EventAt(n, thread, out) :
          /\ x.op = "recv start" \/ x.op = "written" \/ x.op = "sent reply" => x.link.dst = n
          /\ x.op = "sent start" \/ x.op = "recv reply" \/ x.op = "wrote" \/ x.op = "error" => x.link.src = n
    BY EventEnds, Zenon
  <2>2. /\ e.op = "recv start" \/ e.op = "sent reply" => e.link.dst = n
        /\ e.op = "sent start" \/ e.op = "recv reply" \/ e.op = "wrote" \/ e.op = "error" => e.link.src = n
    BY <1>3, <2>1, Zenon
  <2>3. QED
    BY <2>2
<1>5. PICK q, T : q = node[n].cq /\ q \in Seq(T) /\ q # <<>> /\ Head(q) = e /\ node'[n].cq = Tail(q)
  BY <1>2 DEF Typed, Nodes, NodeAt
<1>6. ASSUME NEW i \in Proc, NEW k \in Link \ {l} PROVE Unseen(k, node[i].cq, node'[i].cq)
  <2>1. CASE i = n
    <3>1. Head(q).link # k
      BY <1>5
    <3>2. Unseen(k, q, Tail(q))
      BY <1>5, <3>1, UnseenTail
    <3>3. QED
      BY <1>5, <2>1, <3>2
  <2>2. CASE i # n
    BY <1>2, <2>2 DEF Unseen
  <2>3. QED
    BY <2>1, <2>2
<1>7. ASSUME NEW ops, NEW i \in Proc, One(ops, l, e) # 0 => i = n
      PROVE  /\ Tally(ops, l, node'[i].cq) \in Nat
             /\ Tally(ops, l, node[i].cq) = Tally(ops, l, node'[i].cq) + One(ops, l, e)
  <2>1. CASE i = n
    <3>1. Tail(q) \in Seq(T)
      BY <1>5, AfterTail
    <3>2. Tally(ops, l, Tail(q)) \in Nat
      BY <3>1, TallyAppend
    <3>3. Tally(ops, l, q) = Tally(ops, l, Tail(q)) + One(ops, l, Head(q))
      BY <1>5, TallyTail
    <3>4. QED
      BY <1>5, <2>1, <3>2, <3>3
  <2>2. CASE i # n
    <3>1. PICK p, S : p = node[i].cq /\ p \in Seq(S)
      BY DEF Typed, Nodes, NodeAt
    <3>2. Tally(ops, l, p) \in Nat /\ One(ops, l, e) = 0
      BY <1>7, <2>2, <3>1, TallyAppend
    <3>3. node'[i].cq = p
      BY <1>2, <2>2, <3>1
    <3>4. QED
      BY <3>1, <3>2, <3>3
  <2>3. QED
    BY <2>1, <2>2
<1>8. /\ One(Came, l, e) # 0 => l.dst = n
      /\ One(Answered, l, e) # 0 => l.dst = n
      /\ One(Sent, l, e) # 0 => l.src = n
      /\ One(Following, l, e) # 0 => l.src = n
  BY <1>4 DEF One, Came, Answered, Sent, Following
<1>9. CameAt(l)' \in Nat /\ CameAt(l) = CameAt(l)' + One(Came, l, e)
  BY <1>1, <1>7, <1>8 DEF CameAt
<1>10. SentAt(l)' \in Nat /\ SentAt(l) = SentAt(l)' + One(Sent, l, e)
  BY <1>1, <1>7, <1>8 DEF SentAt
<1>11. AnsweredAt(l)' \in Nat /\ AnsweredAt(l) = AnsweredAt(l)' + One(Answered, l, e)
  BY <1>1, <1>7, <1>8 DEF AnsweredAt
<1>12. FollowingAt(l)' \in Nat /\ FollowingAt(l) = FollowingAt(l)' + One(Following, l, e)
  BY <1>1, <1>7, <1>8 DEF FollowingAt
<1>13. QED
  BY <1>1, <1>6, <1>8, <1>9, <1>10, <1>11, <1>12

(* What the handler of a completion does with the contexts: r is 1 when the  *)
(* completion is of a reply, and the write is posted.                        *)
Fetched(l, e, r) ==
  /\ UNCHANGED thread /\ Unset'
  /\ \A k \in Link \ {l} : out'[k] = out[k] /\ inc'[k] = inc[k] /\ WritesHeld(k)' = WritesHeld(k)
  /\ out'[l].status = out[l].status /\ out'[l].rejects = out[l].rejects
  /\ r \in {0, 1}
  /\ Len(out'[l].start) = Len(out[l].start) + One(Sent, l, e)
  /\ Len(out'[l].write) = Len(out[l].write) + One(Following, l, e) - r
  /\ Len(inc'[l].reply) = Len(inc[l].reply) + One(Answered, l, e) - One(Came, l, e)
  /\ Len(inc'[l].sq) = Len(inc[l].sq) + One(Came, l, e)
  /\ Orders("start", out'[l].sq) = Orders("start", out[l].sq)
  /\ Orders("write", out'[l].sq) = Orders("write", out[l].sq) + r
  /\ IsFiniteSet(WritesHeld(l)')
  /\ Cardinality(WritesHeld(l)') = Cardinality(WritesHeld(l)) + r - One(Following, l, e)

(* No context is lost when a completion is polled.                           *)
LEMMA SuppliedPolled ==
  ASSUME RdmaAssumption, Typed, Receives, Supplied, NEW n \in Proc, NEW e, Takes(n, e), NEW l, l = e.link,
         NEW r, Fetched(l, e, r)
  PROVE  Supplied'
<1> USE DEF Fetched
<1>1. /\ l \in Link /\ out[l].status = "connected" /\ l.src \in Proc /\ l.dst \in Proc /\ SuppliedAt(l)
      /\ \A i \in Proc : \A k \in Link \ {l} : Unseen(k, node[i].cq, node'[i].cq)
  BY CountsTaken DEF Supplied, RdmaAssumption
<1>2. PICK u, w, v, n1, o, d, k, s, a, f, hs, hr :
        /\ u = Len(out[l].start) /\ w = Len(out[l].write) /\ v = Len(inc[l].reply) /\ n1 = Len(inc[l].sq)
        /\ o = Orders("start", out[l].sq) /\ d = Orders("write", out[l].sq)
        /\ k = CameAt(l)' /\ s = SentAt(l)' /\ a = AnsweredAt(l)' /\ f = FollowingAt(l)'
        /\ hs = Cardinality(WritesHeld(l)) /\ hr = Cardinality(WritesReserved(l))
  OBVIOUS
<1>3. PICK k1, s1, a1, f1 : /\ k1 = One(Came, l, e) /\ s1 = One(Sent, l, e) /\ a1 = One(Answered, l, e)
                            /\ f1 = One(Following, l, e)
  OBVIOUS
<1>4. /\ u \in Nat /\ w \in Nat /\ v \in Nat /\ n1 \in Nat /\ o \in Nat /\ d \in Nat
      /\ k \in Nat /\ s \in Nat /\ a \in Nat /\ f \in Nat /\ hs \in Nat /\ hr \in Nat /\ r \in Nat
      /\ k1 \in Nat /\ s1 \in Nat /\ a1 \in Nat /\ f1 \in Nat
  <2>1. u \in Nat /\ w \in Nat /\ v \in Nat /\ n1 \in Nat /\ o \in Nat /\ d \in Nat
    BY <1>1, <1>2, Counts
  <2>2. k \in Nat /\ s \in Nat /\ a \in Nat /\ f \in Nat
    BY <1>2, CountsTaken
  <2>3. hs \in Nat /\ hr \in Nat
    BY <1>1, <1>2, FS_CardinalityType DEF SuppliedAt
  <2>4. k1 \in Nat /\ s1 \in Nat /\ a1 \in Nat /\ f1 \in Nat
    BY <1>3 DEF One
  <2>5. QED
    BY <2>1, <2>2, <2>3, <2>4
<1>5. CameAt(l) = k + k1 /\ SentAt(l) = s + s1 /\ AnsweredAt(l) = a + a1 /\ FollowingAt(l) = f + f1
  BY <1>2, <1>3, CountsTaken
<1>6. WritesReserved(l)' = WritesReserved(l) /\ \A j \in Link \ {l} : WritesReserved(j)' = WritesReserved(j)
  BY DEF WritesReserved
<1>7. /\ Between(l) = (k + k1) + n1 + d /\ Underway(l) = o + ((k + k1) + n1 + d) + (f + f1)
      /\ StartContexts(l) = u + o + (s + s1) /\ WriteContexts(l) = w + hr + hs
      /\ ReplyContexts(l) = v + n1 + (a + a1)
  BY <1>2, <1>5 DEF Between, Underway, StartContexts, WriteContexts, ReplyContexts
<1>8. /\ Between(l)' = k + (n1 + k1) + (d + r) /\ Underway(l)' = o + (k + (n1 + k1) + (d + r)) + f
      /\ StartContexts(l)' = (u + s1) + o + s /\ ReplyContexts(l)' = (v + a1 - k1) + (n1 + k1) + a
  BY <1>2, <1>3 DEF Between, Underway, StartContexts, ReplyContexts
<1>9. WriteContexts(l)' = (w + f1 - r) + hr + (hs + r - f1)
  BY <1>2, <1>3, <1>6 DEF WriteContexts
<1>10. /\ StartContexts(l)' = StartContexts(l) /\ ReplyContexts(l)' = ReplyContexts(l)
       /\ WriteContexts(l)' = WriteContexts(l) /\ Between(l)' = Between(l) + r
       /\ Between(l) \in Nat /\ Between(l)' \in Nat
  BY <1>4, <1>7, <1>8, <1>9
<1>11. IsFiniteSet(WritesReserved(l))' /\ IsFiniteSet(WritesHeld(l))' /\ Cardinality(WritesHeld(l))' = Underway(l)'
  <2>1. hs = Underway(l)
    BY <1>1, <1>2 DEF SuppliedAt
  <2>2. Cardinality(WritesHeld(l))' = hs + r - f1
    BY <1>2, <1>3
  <2>3. hs + r - f1 = o + (k + (n1 + k1) + (d + r)) + f
    BY <1>4, <1>7, <2>1
  <2>4. QED
    BY <1>1, <1>6, <1>8, <2>2, <2>3 DEF SuppliedAt
<1>12. /\ node[n].cq # <<>> /\ e = Head(node[n].cq)
       /\ node'[n].cq = Tail(node[n].cq) /\ \A j \in Proc \ {n} : node'[j] = node[j]
  BY DEF Takes
<1>13. Behind(l, node'[l.src].cq, Between(l)')
  <2>1. PICK x, y : x = Between(l) /\ y = Between(l)'
    OBVIOUS
  <2>2. Behind(l, node[l.src].cq, x) /\ x \in Int /\ y \in Int /\ x <= y
    BY <1>1, <1>4, <1>10, <2>1 DEF SuppliedAt
  <2>3. PICK q, T : q = node[l.src].cq /\ q \in Seq(T)
    BY <1>1 DEF Typed, Nodes, NodeAt
  <2>4. CASE l.src = n
    <3>1. q # <<>> /\ node'[l.src].cq = Tail(q)
      BY <1>12, <2>3, <2>4
    <3>2. Behind(l, Tail(q), y)
      BY <2>2, <2>3, <3>1, BehindTail
    <3>3. QED
      BY <2>1, <3>1, <3>2
  <2>5. CASE l.src # n
    <3>1. Behind(l, q, y)
      BY <2>2, <2>3, BehindMore
    <3>2. node'[l.src].cq = q
      BY <1>1, <1>12, <2>3, <2>5
    <3>3. QED
      BY <2>1, <3>1, <3>2
  <2>6. QED
    BY <2>4, <2>5
<1>14. ASSUME Sound(l) PROVE Ahead(l, node'[l.dst].cq, Len(inc'[l].sq))
  <2>1. PICK y : y = Len(inc'[l].sq) /\ y = n1 + k1
    BY <1>2, <1>3
  <2>2. Ahead(l, node[l.dst].cq, n1) /\ n1 \in Int /\ y \in Int /\ Depth \in Nat
    BY <1>1, <1>2, <1>4, <1>14, <2>1, Constants DEF SuppliedAt
  <2>3. PICK q, T : q = node[l.dst].cq /\ q \in Seq(T)
    BY <1>1 DEF Typed, Nodes, NodeAt
  <2>4. CASE l.dst = n
    <3>1. q # <<>> /\ node'[l.dst].cq = Tail(q) /\ Head(q) = e
      BY <1>12, <2>3, <2>4
    <3>2. y <= n1 + One(Came, l, Head(q))
      <4>1. One(Came, l, Head(q)) = k1
        BY <1>3, <3>1
      <4>2. n1 \in Nat /\ k1 \in Nat /\ y = n1 + k1
        BY <1>4, <2>1
      <4>3. y <= n1 + k1
        BY <4>2
      <4>4. QED
        BY <4>1, <4>3
    <3>3. Ahead(l, Tail(q), y)
      BY <2>2, <2>3, <3>1, <3>2, AheadTail
    <3>4. QED
      BY <2>1, <3>1, <3>3
  <2>5. CASE l.dst # n
    <3>1. k1 = 0
      BY <1>3, <2>5, CountsTaken
    <3>2. node'[l.dst].cq = q
      BY <1>1, <1>12, <2>3, <2>5
    <3>3. y = n1
      BY <1>4, <2>1, <3>1
    <3>4. QED
      BY <2>1, <2>2, <2>3, <3>2, <3>3
  <2>6. QED
    BY <2>4, <2>5
<1>15. SuppliedAt(l)'
  BY <1>1, <1>10, <1>11, <1>13, <1>14, SuppliedStep
<1>16. QED
  BY <1>1, <1>6, <1>15, SuppliedOneLink

(* A context whose request is done is free again.                            *)
LEMMA SuppliedPollSent ==
  ASSUME RdmaAssumption, Typed, Receives, Supplied, NEW n \in Proc, PollSent(n)
  PROVE  Supplied'
<1> DEFINE e == Head(node[n].cq)
           l == e.link
<1>1. /\ node[n].cq # <<>> /\ node' = [node EXCEPT ![n] = Polled(n)] /\ UNCHANGED <<thread, bufs>>
      /\ \/ e.op = "sent start" /\ inc' = inc /\ out' = [out EXCEPT ![l].start = Append(@, e.ctx)]
         \/ e.op = "sent reply" /\ out' = out /\ inc' = [inc EXCEPT ![l].reply = Append(@, e.ctx)]
  BY DEF PollSent, Polls
<1>2. Takes(n, e)
  BY <1>1, TakesRecord
<1>3. Outs /\ Incs /\ l \in Link /\ OutAt(l, out[l], thread) /\ IncAt(l, inc[l], thread) /\ SuppliedAt(l)
  BY <1>2, Taken DEF Typed, Outs, Incs, Supplied
<1>4. PICK L : L = l /\ L \in Link
  BY <1>3
<1> HIDE DEF l, e
<1>5. PICK u, v, w, n1 : /\ u = out[L].start /\ v = inc[L].reply /\ w = out[L].write /\ n1 = inc[L].sq
                         /\ u \in Seq(1 .. Depth) /\ v \in Seq(1 .. ReplyDepth)
                         /\ Len(w) \in Nat /\ Len(n1) \in Nat
  BY <1>3, <1>4, Counts DEF OutAt, IncAt
<1>6. /\ \A c : Len(Append(u, c)) = Len(u) + 1 /\ Len(Append(v, c)) = Len(v) + 1
      /\ Len(u) \in Nat /\ Len(v) \in Nat
  BY <1>5
<1>7. Unset' /\ \A k \in Link : WritesReserved(k)' = WritesReserved(k) /\ WritesHeld(k)' = WritesHeld(k)
  BY <1>1, HoldersSame
<1>8. /\ Orders("start", out[L].sq) \in Nat /\ Orders("write", out[L].sq) \in Nat
      /\ IsFiniteSet(WritesHeld(L)) /\ Cardinality(WritesHeld(L)) \in Nat
  BY <1>3, <1>4, Counts, FS_CardinalityType DEF SuppliedAt
<1>9. e.link = L
  BY <1>4 DEF l
<1>10. PICK r : r = 0
  OBVIOUS
<1>11. /\ \A k \in Link \ {L} : out'[k] = out[k] /\ inc'[k] = inc[k]
       /\ out'[L].status = out[L].status /\ out'[L].rejects = out[L].rejects
       /\ out'[L].write = w /\ inc'[L].sq = n1 /\ out'[L].sq = out[L].sq
       /\ \/ e.op = "sent start" /\ out'[L].start = Append(u, e.ctx) /\ inc'[L].reply = v
          \/ e.op = "sent reply" /\ out'[L].start = u /\ inc'[L].reply = Append(v, e.ctx)
  <2>1. CASE e.op = "sent start" /\ inc' = inc /\ out' = [out EXCEPT ![l].start = Append(@, e.ctx)]
    BY <1>3, <1>4, <1>5, <2>1 DEF Outs, OutAt
  <2>2. CASE e.op = "sent reply" /\ out' = out /\ inc' = [inc EXCEPT ![l].reply = Append(@, e.ctx)]
    BY <1>3, <1>4, <1>5, <2>2 DEF Incs, IncAt
  <2>3. QED
    BY <1>1, <2>1, <2>2
<1>12. /\ One(Came, L, e) = 0 /\ One(Following, L, e) = 0
       /\ \/ Len(out'[L].start) = Len(u) + 1 /\ Len(inc'[L].reply) = Len(v) /\ One(Sent, L, e) = 1 /\ One(Answered, L, e) = 0
          \/ Len(out'[L].start) = Len(u) /\ Len(inc'[L].reply) = Len(v) + 1 /\ One(Sent, L, e) = 0 /\ One(Answered, L, e) = 1
  BY <1>6, <1>9, <1>11 DEF One, Came, Sent, Answered, Following
<1>13. /\ Len(out'[L].start) = Len(out[L].start) + One(Sent, L, e)
       /\ Len(out'[L].write) = Len(out[L].write) + One(Following, L, e) - r
       /\ Len(inc'[L].reply) = Len(inc[L].reply) + One(Answered, L, e) - One(Came, L, e)
       /\ Len(inc'[L].sq) = Len(inc[L].sq) + One(Came, L, e)
       /\ Orders("start", out'[L].sq) = Orders("start", out[L].sq)
       /\ Orders("write", out'[L].sq) = Orders("write", out[L].sq) + r
  <2>1. PICK k1, s1, a1, f1 : /\ k1 = One(Came, L, e) /\ s1 = One(Sent, L, e)
                              /\ a1 = One(Answered, L, e) /\ f1 = One(Following, L, e)
    OBVIOUS
  <2>2. PICK lu, lv, lw, ln, o, d : /\ lu = Len(u) /\ lv = Len(v) /\ lw = Len(w) /\ ln = Len(n1)
                                    /\ o = Orders("start", out[L].sq) /\ d = Orders("write", out[L].sq)
    OBVIOUS
  <2>3. lu \in Nat /\ lv \in Nat /\ lw \in Nat /\ ln \in Nat /\ o \in Nat /\ d \in Nat
    BY <1>5, <1>6, <1>8, <2>2
  <2>4. /\ k1 = 0 /\ f1 = 0
        /\ \/ Len(out'[L].start) = lu + 1 /\ Len(inc'[L].reply) = lv /\ s1 = 1 /\ a1 = 0
           \/ Len(out'[L].start) = lu /\ Len(inc'[L].reply) = lv + 1 /\ s1 = 0 /\ a1 = 1
    BY <1>12, <2>1, <2>2
  <2>5. /\ Len(out'[L].start) = lu + s1 /\ Len(inc'[L].reply) = lv + a1 - k1
        /\ lw = lw + f1 - r /\ ln = ln + k1 /\ d = d + r
    BY <1>10, <2>3, <2>4
  <2>6. /\ out[L].start = u /\ inc[L].reply = v /\ out[L].write = w /\ inc[L].sq = n1
        /\ out'[L].write = w /\ inc'[L].sq = n1 /\ out'[L].sq = out[L].sq
    BY <1>5, <1>11
  <2>7. QED
    BY <2>1, <2>2, <2>5, <2>6
<1>14. /\ IsFiniteSet(WritesHeld(L)')
       /\ Cardinality(WritesHeld(L)') = Cardinality(WritesHeld(L)) + r - One(Following, L, e)
  BY <1>4, <1>7, <1>8, <1>10, <1>12
<1>15. Fetched(L, e, r)
  BY <1>1, <1>7, <1>10, <1>11, <1>13, <1>14 DEF Fetched
<1>16. QED
  BY <1>2, <1>9, <1>15, SuppliedPolled

(* A START takes a reply context for its answer.                             *)
LEMMA SuppliedPollStart ==
  ASSUME RdmaAssumption, Typed, Receives, Supplied, NEW n \in Proc, PollStart(n)
  PROVE  Supplied'
<1> DEFINE e == Head(node[n].cq)
           l == e.link
           i == Head(inc[l].reply)
           idx == Head(node[n].free)
<1>1. CASE node[n].free = <<>>
  <2>1. Fail(n, "table_[idx]") /\ UNCHANGED <<out, inc, thread, bufs>>
    BY <1>1 DEF PollStart
  <2>2. QED
    BY <2>1, SuppliedFail
<1>2. CASE node[n].free # <<>>
  <2>1. PICK a : /\ node' = [node EXCEPT ![n] =
                      StoreAddress([Polled(n) EXCEPT !.pool = a.pool], [addr |-> a.addr, msg |-> e.msg])]
                 /\ inc' = [inc EXCEPT
                      ![l].reply = Tail(@), ![l].rx = @ + 1,
                      ![l].replyBuf = Put(@, i, [to |-> a.addr, msg |-> e.msg, idx |-> idx]),
                      ![l].sq = Append(@, [op |-> "reply", ctx |-> i])]
    BY <1>2 DEF PollStart
  <2> DEFINE r == StoreAddress([Polled(n) EXCEPT !.pool = a.pool], [addr |-> a.addr, msg |-> e.msg])
  <2>2. /\ node[n].cq # <<>> /\ UNCHANGED <<out, thread, bufs>> /\ e.op = "recv start"
        /\ inc[l].reply # <<>>
    BY DEF PollStart, Polls
  <2>3. r.cq = Polled(n).cq
    BY <2>2, PolledAt DEF StoreAddress, NodeAt
  <2>4. node' = [node EXCEPT ![n] = r]
    BY <2>1
  <2> HIDE DEF r
  <2>5. Takes(n, e)
    BY <2>2, <2>3, <2>4, TakesRecord
  <2>6. Incs /\ l \in Link /\ IncAt(l, inc[l], thread) /\ SuppliedAt(l)
    BY <2>5, Taken DEF Typed, Incs, Supplied
  <2>7. \A k \in Link \ {l} : inc'[k] = inc[k]
    BY <2>1, <2>6 DEF Incs
  <2>8. inc'[l].reply = Tail(inc[l].reply) /\ \E c : inc'[l].sq = Append(inc[l].sq, c)
    BY <2>1, <2>6 DEF Incs, IncAt
  <2>9. PICK L : L = l /\ L \in Link
    BY <2>6
  <2> HIDE DEF l, e, i, idx
  <2>10. /\ Len(inc'[L].reply) = Len(inc[L].reply) - 1 /\ Len(inc[L].reply) \in Nat
         /\ Len(inc'[L].sq) = Len(inc[L].sq) + 1 /\ Len(inc[L].sq) \in Nat
    <3>1. PICK v, n1, T : /\ v = inc[L].reply /\ n1 = inc[L].sq /\ v \in Seq(1 .. ReplyDepth) /\ n1 \in Seq(T)
      BY <2>6, <2>9 DEF IncAt
    <3>2. v # <<>>
      BY <2>2, <2>9, <3>1
    <3>3. Len(Tail(v)) = Len(v) - 1
      BY <3>1, <3>2, AfterTail
    <3>4. Len(v) \in Nat /\ Len(n1) \in Nat /\ \A c : Len(Append(n1, c)) = Len(n1) + 1
      BY <3>1
    <3>5. PICK c : inc'[L].sq = Append(n1, c) /\ inc'[L].reply = Tail(v)
      BY <2>8, <2>9, <3>1
    <3>6. QED
      BY <3>1, <3>3, <3>4, <3>5
  <2>11. Unset' /\ \A k \in Link : WritesReserved(k)' = WritesReserved(k) /\ WritesHeld(k)' = WritesHeld(k)
    BY <2>2, HoldersSame
  <2>12. /\ Orders("start", out[L].sq) \in Nat /\ Orders("write", out[L].sq) \in Nat
         /\ Len(out[L].start) \in Nat /\ Len(out[L].write) \in Nat
         /\ IsFiniteSet(WritesHeld(L)) /\ Cardinality(WritesHeld(L)) \in Nat
    BY <2>6, <2>9, Counts, FS_CardinalityType DEF SuppliedAt
  <2>13. e.link = L
    BY <2>9 DEF l
  <2>14. PICK z : z = 0
    OBVIOUS
  <2>15. /\ One(Came, L, e) = 1 /\ One(Following, L, e) = 0 /\ One(Sent, L, e) = 0 /\ One(Answered, L, e) = 0
    BY <2>2, <2>13 DEF One, Came, Sent, Answered, Following
  <2>16. /\ \A k \in Link \ {L} : out'[k] = out[k] /\ inc'[k] = inc[k]
         /\ out'[L] = out[L]
    BY <2>2, <2>7, <2>9
  <2>17. /\ Len(out'[L].start) = Len(out[L].start) + One(Sent, L, e)
         /\ Len(out'[L].write) = Len(out[L].write) + One(Following, L, e) - z
         /\ Len(inc'[L].reply) = Len(inc[L].reply) + One(Answered, L, e) - One(Came, L, e)
         /\ Len(inc'[L].sq) = Len(inc[L].sq) + One(Came, L, e)
         /\ Orders("start", out'[L].sq) = Orders("start", out[L].sq)
         /\ Orders("write", out'[L].sq) = Orders("write", out[L].sq) + z
    BY <2>10, <2>12, <2>14, <2>15, <2>16
  <2>18. /\ IsFiniteSet(WritesHeld(L)')
         /\ Cardinality(WritesHeld(L)') = Cardinality(WritesHeld(L)) + z - One(Following, L, e)
    BY <2>9, <2>11, <2>12, <2>14, <2>15
  <2>19. Fetched(L, e, z)
    BY <2>2, <2>11, <2>14, <2>16, <2>17, <2>18 DEF Fetched
  <2>20. QED
    BY <2>5, <2>13, <2>19, SuppliedPolled
<1>3. QED
  BY <1>1, <1>2

(* A REPLY makes a write of its message.                                     *)
LEMMA SuppliedPollReply ==
  ASSUME RdmaAssumption, Typed, Receives, Supplied, NEW n \in Proc, PollReply(n)
  PROVE  Supplied'
<1> DEFINE e == Head(node[n].cq)
           l == e.link
           m == e.reply.msg
           i == bufs[m].write
<1>1. CASE m \notin DOMAIN bufs
  <2>1. Fail(n, "deleted") /\ UNCHANGED <<out, inc, thread, bufs>>
    BY <1>1 DEF PollReply
  <2>2. QED
    BY <2>1, SuppliedFail
<1>2. CASE m \in DOMAIN bufs
  <2>1. /\ node' = [node EXCEPT ![n] = Polled(n)]
        /\ out' = [out EXCEPT ![l].rx = @ + 1, ![l].writeBuf = Put(@, i, m),
                              ![l].sq = Append(@, [op |-> "write", ctx |-> i, to |-> e.reply.to,
                                                   idx |-> e.reply.idx, msg |-> m])]
    BY <1>2 DEF PollReply
  <2>2. node[n].cq # <<>> /\ UNCHANGED <<inc, thread, bufs>> /\ e.op = "recv reply"
    BY DEF PollReply, Polls
  <2>3. Takes(n, e)
    BY <2>1, <2>2, TakesRecord
  <2>4. Outs /\ l \in Link /\ OutAt(l, out[l], thread) /\ SuppliedAt(l)
    BY <2>3, Taken DEF Typed, Outs, Supplied
  <2>5. \A k \in Link \ {l} : out'[k] = out[k]
    BY <2>1, <2>4 DEF Outs
  <2>6. /\ out'[l].status = out[l].status /\ out'[l].rejects = out[l].rejects
        /\ out'[l].start = out[l].start /\ out'[l].write = out[l].write
        /\ \E c : c.op = "write" /\ out'[l].sq = Append(out[l].sq, c)
    <3> DEFINE c == [op |-> "write", ctx |-> i, to |-> e.reply.to, idx |-> e.reply.idx, msg |-> m]
    <3>1. c.op = "write"
      OBVIOUS
    <3>2. out' = [out EXCEPT ![l].rx = @ + 1, ![l].writeBuf = Put(@, i, m), ![l].sq = Append(@, c)]
      BY <2>1
    <3> HIDE DEF c, l, i, m
    <3>3. /\ out'[l].status = out[l].status /\ out'[l].rejects = out[l].rejects
          /\ out'[l].start = out[l].start /\ out'[l].write = out[l].write
          /\ out'[l].sq = Append(out[l].sq, c)
      BY <2>4, <3>2 DEF Outs, OutAt
    <3>4. QED
      BY <3>1, <3>3
  <2>7. PICK L : L = l /\ L \in Link
    BY <2>4
  <2> HIDE DEF l, e, m, i
  <2>8. /\ Orders("start", out'[L].sq) = Orders("start", out[L].sq) + 0
        /\ Orders("write", out'[L].sq) = Orders("write", out[L].sq) + 1
    <3>1. PICK q, T : q = out[L].sq /\ q \in Seq(T)
      BY <2>4, <2>7 DEF OutAt
    <3>2. PICK c : c.op = "write" /\ out'[L].sq = Append(q, c)
      BY <2>6, <2>7, <3>1
    <3>3. \A op : Orders(op, Append(q, c)) = Orders(op, q) + (IF c.op = op THEN 1 ELSE 0)
      BY <3>1, OrdersChange
    <3>4. QED
      BY <3>1, <3>2, <3>3
  <2>9. Unset' /\ \A k \in Link : WritesReserved(k)' = WritesReserved(k) /\ WritesHeld(k)' = WritesHeld(k)
    BY <2>2, HoldersSame
  <2>10. e.link = L
    BY <2>7 DEF l
  <2>11. /\ One(Came, L, e) = 0 /\ One(Following, L, e) = 1 /\ One(Sent, L, e) = 0 /\ One(Answered, L, e) = 0
    BY <2>2, <2>10 DEF One, Came, Sent, Answered, Following
  <2>12. /\ \A k \in Link \ {L} : out'[k] = out[k] /\ inc'[k] = inc[k]
         /\ inc'[L] = inc[L] /\ out'[L].start = out[L].start /\ out'[L].write = out[L].write
    BY <2>2, <2>5, <2>6, <2>7
  <2>13. PICK r : r = 1
    OBVIOUS
  <2>14. /\ Len(out'[L].start) = Len(out[L].start) + One(Sent, L, e)
         /\ Len(out'[L].write) = Len(out[L].write) + One(Following, L, e) - r
         /\ Len(inc'[L].reply) = Len(inc[L].reply) + One(Answered, L, e) - One(Came, L, e)
         /\ Len(inc'[L].sq) = Len(inc[L].sq) + One(Came, L, e)
         /\ Orders("start", out'[L].sq) = Orders("start", out[L].sq)
         /\ Orders("write", out'[L].sq) = Orders("write", out[L].sq) + r
    <3>1. /\ Len(out[L].start) \in Nat /\ Len(out[L].write) \in Nat
          /\ Len(inc[L].reply) \in Nat /\ Len(inc[L].sq) \in Nat /\ Orders("start", out[L].sq) \in Nat
      BY <2>7, Counts
    <3>2. \A x \in Nat : x + 0 = x /\ x + 1 - 1 = x /\ x + 0 - 0 = x
      OBVIOUS
    <3>3. QED
      BY <2>8, <2>11, <2>12, <2>13, <3>1, <3>2
  <2>15. /\ IsFiniteSet(WritesHeld(L)')
         /\ Cardinality(WritesHeld(L)') = Cardinality(WritesHeld(L)) + r - One(Following, L, e)
    <3>1. IsFiniteSet(WritesHeld(L)) /\ Cardinality(WritesHeld(L)) \in Nat
      BY <2>4, <2>7, FS_CardinalityType DEF SuppliedAt
    <3>2. QED
      BY <2>7, <2>9, <2>11, <2>13, <3>1
  <2>16. Fetched(L, e, r)
    BY <2>2, <2>6, <2>7, <2>9, <2>12, <2>13, <2>14, <2>15 DEF Fetched
  <2>17. QED
    BY <2>3, <2>10, <2>16, SuppliedPolled
<1>3. QED
  BY <1>1, <1>2

(* The buffer of a message that has been written holds a write context,      *)
(* which comes free with it.                                                 *)
LEMMA WroteHeld ==
  ASSUME RdmaAssumption, Typed, Supplied, NEW l \in Link, NEW c \in DOMAIN out[l].writeBuf, NEW m,
         m = out[l].writeBuf[c], m \in DOMAIN bufs, bufs' = Drop(bufs, m), UNCHANGED thread
  PROVE  /\ Unset' /\ m \in WritesHeld(l) /\ WritesHeld(l)' = WritesHeld(l) \ {m}
         /\ \A k \in Link \ {l} : WritesHeld(k)' = WritesHeld(k)
<1> DEFINE f == out[l].writeBuf
           S == 1 .. Depth
           T == OnLink(l, thread)
<1>1. f \in Map(S, T) /\ c \in DOMAIN f
  BY DEF Typed, Outs, OutAt
<1>2. m \in T
  <2> HIDE DEF S, T
  <2>1. f[c] \in T
    BY <1>1, PutDrop
  <2>2. QED
    BY <2>1
<1>3. m[2] < thread[m[1]].next /\ LinkOf(m) = l /\ m \in Msg
  BY <1>2 DEF OnLink, Begun
<1>4. thread[m[1]].next \in Nat /\ m[2] \in Nat
  <2>1. m[1] \in Thread /\ m[2] \in Nat
    BY <1>3, MsgFacts
  <2>2. QED
    BY <2>1 DEF Typed, Threads, ThreadAt
<1>5. bufs[m].write # None
  <2>1. BufAt(m, bufs[m], thread)
    BY DEF Typed, Bufs
  <2>2. m[2] # thread[m[1]].next
    BY <1>3, <1>4
  <2>3. bufs[m].write \in 1 .. Depth
    BY <2>1, <2>2 DEF BufAt
  <2>4. QED
    BY <2>3 DEF RdmaAssumption
<1>6. DOMAIN bufs' = DOMAIN bufs \ {m} /\ \A x \in DOMAIN bufs' : bufs'[x] = bufs[x]
  BY DEF Drop
<1>7. m \in WritesHeld(l) /\ WritesHeld(l)' = WritesHeld(l) \ {m}
  BY <1>3, <1>5, <1>6 DEF WritesHeld
<1>8. \A k \in Link \ {l} : WritesHeld(k)' = WritesHeld(k)
  BY <1>3, <1>6 DEF WritesHeld
<1>9. Unset'
  <2>1. \A t : <<t, thread[t].next>> # m
    BY <1>3, <1>4
  <2>2. QED
    BY <1>6, <2>1 DEF Unset, Supplied
<1>10. QED
  BY <1>7, <1>8, <1>9

(* A written message gives its write context back.                           *)
LEMMA SuppliedPollWrote ==
  ASSUME RdmaAssumption, Typed, Receives, Supplied, NEW n \in Proc, PollWrote(n)
  PROVE  Supplied'
<1> DEFINE e == Head(node[n].cq)
           l == e.link
           m == out[l].writeBuf[e.ctx]
<1>1. CASE m \notin DOMAIN bufs
  <2>1. Fail(n, "deleted") /\ UNCHANGED <<out, inc, thread, bufs>>
    BY <1>1 DEF PollWrote
  <2>2. QED
    BY <2>1, SuppliedFail
<1>2. CASE m \in DOMAIN bufs
  <2> DEFINE r == [Polled(n) EXCEPT !.pool = Free(@, bufs[m].inline)]
  <2>1. /\ node' = [node EXCEPT ![n] = r] /\ out' = [out EXCEPT ![l].write = Append(@, e.ctx)]
        /\ bufs' = Drop(bufs, m)
    BY <1>2 DEF PollWrote
  <2>2. node[n].cq # <<>> /\ UNCHANGED <<inc, thread>> /\ e.op = "wrote"
    BY DEF PollWrote, Polls
  <2>3. r.cq = Polled(n).cq
    BY <2>2, PolledAt DEF NodeAt
  <2> HIDE DEF r
  <2>4. Takes(n, e)
    BY <2>1, <2>2, <2>3, TakesRecord
  <2>5. Outs /\ l \in Link /\ OutAt(l, out[l], thread) /\ SuppliedAt(l)
    BY <2>4, Taken DEF Typed, Outs, Supplied
  <2>6. e.ctx \in DOMAIN out[l].writeBuf
    BY <2>2, PolledAt, EventFacts
  <2>7. PICK L, M, C : L = l /\ L \in Link /\ M = m /\ C = e.ctx
    BY <2>5
  <2>8. /\ Unset' /\ M \in WritesHeld(L) /\ WritesHeld(L)' = WritesHeld(L) \ {M}
        /\ \A k \in Link \ {L} : WritesHeld(k)' = WritesHeld(k)
    <3>1. /\ C \in DOMAIN out[L].writeBuf /\ M = out[L].writeBuf[C] /\ M \in DOMAIN bufs
          /\ bufs' = Drop(bufs, M) /\ UNCHANGED thread
      BY <1>2, <2>1, <2>2, <2>6, <2>7
    <3>2. QED
      BY <2>7, <3>1, WroteHeld
  <2>9. /\ \A k \in Link \ {l} : out'[k] = out[k]
        /\ out'[l].status = out[l].status /\ out'[l].rejects = out[l].rejects
        /\ out'[l].start = out[l].start /\ out'[l].sq = out[l].sq
        /\ out'[l].write = Append(out[l].write, e.ctx)
    BY <2>1, <2>5 DEF Outs, OutAt
  <2> HIDE DEF l, e, m
  <2>10. e.link = L
    BY <2>7 DEF l
  <2>11. /\ One(Came, L, e) = 0 /\ One(Following, L, e) = 1 /\ One(Sent, L, e) = 0 /\ One(Answered, L, e) = 0
    BY <2>2, <2>10 DEF One, Came, Sent, Answered, Following
  <2>12. /\ \A k \in Link \ {L} : out'[k] = out[k] /\ inc'[k] = inc[k] /\ WritesHeld(k)' = WritesHeld(k)
         /\ out'[L].status = out[L].status /\ out'[L].rejects = out[L].rejects
         /\ inc'[L] = inc[L] /\ out'[L].start = out[L].start /\ out'[L].sq = out[L].sq
    BY <2>2, <2>8, <2>9, <2>7
  <2>13. Len(out'[L].write) = Len(out[L].write) + 1
    <3>1. PICK w : w = out[L].write /\ w \in Seq(1 .. Depth)
      BY <2>5, <2>7 DEF OutAt
    <3>2. \A c : Len(Append(w, c)) = Len(w) + 1
      BY <3>1
    <3>3. QED
      BY <2>9, <2>7, <3>1, <3>2
  <2>14. PICK z : z = 0
    OBVIOUS
  <2>15. /\ Len(out'[L].start) = Len(out[L].start) + One(Sent, L, e)
         /\ Len(out'[L].write) = Len(out[L].write) + One(Following, L, e) - z
         /\ Len(inc'[L].reply) = Len(inc[L].reply) + One(Answered, L, e) - One(Came, L, e)
         /\ Len(inc'[L].sq) = Len(inc[L].sq) + One(Came, L, e)
         /\ Orders("start", out'[L].sq) = Orders("start", out[L].sq)
         /\ Orders("write", out'[L].sq) = Orders("write", out[L].sq) + z
    <3>1. /\ Len(out[L].start) \in Nat /\ Len(out[L].write) \in Nat
          /\ Len(inc[L].reply) \in Nat /\ Len(inc[L].sq) \in Nat /\ Orders("write", out[L].sq) \in Nat
      BY <2>7, Counts
    <3>2. \A x \in Nat : x + 0 = x /\ x + 1 - 0 = x + 1 /\ x + 0 - 0 = x
      OBVIOUS
    <3>3. QED
      BY <2>11, <2>12, <2>13, <2>14, <3>1, <3>2
  <2>16. /\ IsFiniteSet(WritesHeld(L)')
         /\ Cardinality(WritesHeld(L)') = Cardinality(WritesHeld(L)) + z - One(Following, L, e)
    <3>1. PICK H : H = WritesHeld(L) /\ IsFiniteSet(H) /\ M \in H /\ WritesHeld(L)' = H \ {M}
      BY <2>5, <2>8, <2>7 DEF SuppliedAt
    <3>2. IsFiniteSet(H \ {M}) /\ Cardinality(H \ {M}) = Cardinality(H) - 1 /\ Cardinality(H) \in Nat
      BY <3>1, FS_RemoveElement, FS_CardinalityType
    <3>3. QED
      BY <2>11, <2>14, <3>1, <3>2
  <2>17. Fetched(L, e, z)
    BY <2>2, <2>8, <2>12, <2>14, <2>15, <2>16 DEF Fetched
  <2>18. QED
    BY <2>4, <2>10, <2>17, SuppliedPolled
<1>3. QED
  BY <1>1, <1>2

(* A buffer that has been written to has nothing to do with contexts.        *)
LEMMA SuppliedPollWritten ==
  ASSUME RdmaAssumption, Typed, Receives, Supplied, NEW n \in Proc, PollWritten(n)
  PROVE  Supplied'
<1> DEFINE e == Head(node[n].cq)
           l == e.link
<1>1. CASE e.idx \notin DOMAIN node[n].table
  <2>1. Fail(n, "ptr") /\ UNCHANGED <<out, inc, thread, bufs>>
    BY <1>1 DEF PollWritten
  <2>2. QED
    BY <2>1, SuppliedFail
<1>2. CASE e.idx \in DOMAIN node[n].table
  <2> DEFINE r == [GetAddressAndRelease(Polled(n), e.idx) EXCEPT
                     !.recv = Append(@, [link |-> l, ctx |-> node[n].table[e.idx]])]
  <2>1. node' = [node EXCEPT ![n] = r] /\ inc' = [inc EXCEPT ![l].rx = @ + 1]
    BY <1>2 DEF PollWritten
  <2>2. node[n].cq # <<>> /\ UNCHANGED <<out, thread, bufs>> /\ e.op = "written"
    BY DEF PollWritten, Polls
  <2>3. r.cq = Polled(n).cq
    BY <2>2, PolledAt DEF GetAddressAndRelease, NodeAt
  <2> HIDE DEF r
  <2>4. Takes(n, e)
    BY <2>1, <2>2, <2>3, TakesRecord
  <2>5. Incs /\ l \in Link /\ IncAt(l, inc[l], thread) /\ SuppliedAt(l)
    BY <2>4, Taken DEF Typed, Incs, Supplied
  <2>6. /\ \A k \in Link \ {l} : inc'[k] = inc[k]
        /\ inc'[l].reply = inc[l].reply /\ inc'[l].sq = inc[l].sq
    BY <2>1, <2>5 DEF Incs, IncAt
  <2>7. PICK L : L = l /\ L \in Link
    BY <2>5
  <2> HIDE DEF l, e
  <2>8. Unset' /\ \A k \in Link : WritesReserved(k)' = WritesReserved(k) /\ WritesHeld(k)' = WritesHeld(k)
    BY <2>2, HoldersSame
  <2>9. e.link = L
    BY <2>7 DEF l
  <2>10. One(Came, L, e) = 0 /\ One(Following, L, e) = 0 /\ One(Sent, L, e) = 0 /\ One(Answered, L, e) = 0
    BY <2>2, <2>9 DEF One, Came, Sent, Answered, Following
  <2>11. /\ \A k \in Link \ {L} : out'[k] = out[k] /\ inc'[k] = inc[k]
         /\ inc'[L].reply = inc[L].reply /\ inc'[L].sq = inc[L].sq /\ out'[L] = out[L]
    BY <2>2, <2>6, <2>7
  <2>12. PICK z : z = 0
    OBVIOUS
  <2>13. /\ Len(out'[L].start) = Len(out[L].start) + One(Sent, L, e)
         /\ Len(out'[L].write) = Len(out[L].write) + One(Following, L, e) - z
         /\ Len(inc'[L].reply) = Len(inc[L].reply) + One(Answered, L, e) - One(Came, L, e)
         /\ Len(inc'[L].sq) = Len(inc[L].sq) + One(Came, L, e)
         /\ Orders("start", out'[L].sq) = Orders("start", out[L].sq)
         /\ Orders("write", out'[L].sq) = Orders("write", out[L].sq) + z
    <3>1. /\ Len(out[L].start) \in Nat /\ Len(out[L].write) \in Nat
          /\ Len(inc[L].reply) \in Nat /\ Len(inc[L].sq) \in Nat /\ Orders("write", out[L].sq) \in Nat
      BY <2>7, Counts
    <3>2. \A x \in Nat : x + 0 = x /\ x + 0 - 0 = x
      OBVIOUS
    <3>3. QED
      BY <2>10, <2>11, <2>12, <3>1, <3>2
  <2>14. /\ IsFiniteSet(WritesHeld(L)')
         /\ Cardinality(WritesHeld(L)') = Cardinality(WritesHeld(L)) + z - One(Following, L, e)
    <3>1. IsFiniteSet(WritesHeld(L)) /\ Cardinality(WritesHeld(L)) \in Nat
      BY <2>5, <2>7, FS_CardinalityType DEF SuppliedAt
    <3>2. QED
      BY <2>7, <2>8, <2>10, <2>12, <3>1
  <2>15. Fetched(L, e, z)
    BY <2>2, <2>8, <2>11, <2>12, <2>13, <2>14 DEF Fetched
  <2>16. QED
    BY <2>4, <2>9, <2>15, SuppliedPolled
<1>3. QED
  BY <1>1, <1>2

(* Binding, stopping, taking a message and releasing a block move no context.*)
LEMMA SuppliedOwn ==
  ASSUME RdmaAssumption, Typed, Supplied, NEW n \in Proc,
         Bind(n) \/ PollError(n) \/ RecvMsg(n) \/ Release(n)
  PROVE  Supplied'
<1>1. UNCHANGED <<out, inc, thread, bufs>> /\ \A k \in Proc : node'[k].cq = node[k].cq
  BY OwnQueues
<1>2. QED
  BY <1>1, HoldersSame, SuppliedSame

(* A message buffer is made without a context.                               *)
LEMMA SuppliedPrepare ==
  ASSUME RdmaAssumption, Typed, Supplied, NEW t \in Thread, Prepare(t)
  PROVE  Supplied'
<1>1. PICK m : m = <<t, thread[t].next>>
  OBVIOUS
<1>2. /\ UNCHANGED <<out, inc>> /\ thread' = [thread EXCEPT ![t].pc = "prepared"] /\ thread[t].pc = "idle"
      /\ \E a : bufs' = Put(bufs, m, [inline |-> a, write |-> None])
  BY <1>1 DEF Prepare
<1>3. \A n \in Proc : node'[n].cq = node[n].cq
  BY SendQueues DEF Send
<1>4. Threads /\ Bufs /\ DOMAIN thread = Thread
  BY DEF Typed, Threads
<1>5. /\ \A k \in Thread : thread'[k].next = thread[k].next
      /\ \A k \in Thread \ {t} : thread'[k] = thread[k]
      /\ thread'[t].pc = "prepared"
  BY <1>2, <1>4 DEF Threads, ThreadAt
<1>6. /\ DOMAIN bufs' = DOMAIN bufs \cup {m} /\ bufs'[m].write = None
      /\ \A x \in DOMAIN bufs : x # m => bufs'[x] = bufs[x]
  <2>1. PICK b : bufs' = Put(bufs, m, b) /\ b.write = None
    BY <1>2
  <2>2. QED
    BY <2>1 DEF Put
<1>7. \A x \in DOMAIN bufs : x \in Msg /\ x[1] \in Thread
  BY <1>4, MsgFacts DEF Bufs
<1>8. Unset /\ (m \in DOMAIN bufs => bufs[m].write = None)
  <2>1. m[1] = t /\ m[2] = thread[t].next
    BY <1>1
  <2>2. Unset
    BY DEF Supplied
  <2>3. QED
    BY <2>1, <2>2 DEF Unset
<1>9. Unset'
  <2>1. ASSUME NEW x \in DOMAIN bufs', x[2] = thread'[x[1]].next PROVE bufs'[x].write = None
    BY <1>5, <1>6, <1>7, <1>8, <2>1 DEF Unset
  <2>2. ASSUME NEW k \in Thread, thread'[k].pc # "idle" PROVE <<k, thread'[k].next>> \in DOMAIN bufs'
    <3>1. CASE k = t
      BY <1>1, <1>5, <1>6, <3>1
    <3>2. CASE k # t
      BY <1>5, <1>6, <1>8, <2>2, <3>2 DEF Unset
    <3>3. QED
      BY <3>1, <3>2
  <2>3. QED
    BY <2>1, <2>2 DEF Unset
<1>10. \A k \in Link : WritesReserved(k)' = WritesReserved(k) /\ WritesHeld(k)' = WritesHeld(k)
  <2>1. ASSUME NEW k \in Link PROVE WritesReserved(k)' = WritesReserved(k)
    <3>1. \A i \in Thread : thread'[i].pc = "reserved" <=> thread[i].pc = "reserved"
      BY <1>2, <1>5
    <3>2. QED
      BY <3>1 DEF WritesReserved
  <2>2. ASSUME NEW k \in Link PROVE WritesHeld(k)' = WritesHeld(k)
    BY <1>6, <1>8 DEF WritesHeld
  <2>3. QED
    BY <2>1, <2>2
<1>11. QED
  BY <1>2, <1>3, <1>9, <1>10, SuppliedSame

(* A step that leaves the completion queues alone and moves contexts of one  *)
(* link to its threads, its messages or its work requests.                   *)
LEMMA SuppliedAtSource ==
  ASSUME RdmaAssumption, Typed, Supplied, NEW l \in Link, out[l].status = "connected", Unset',
         UNCHANGED inc, \A n \in Proc : node'[n].cq = node[n].cq,
         \A k \in Link \ {l} : /\ out'[k] = out[k] /\ WritesReserved(k)' = WritesReserved(k)
                               /\ WritesHeld(k)' = WritesHeld(k),
         out'[l].status = out[l].status, out'[l].rejects = out[l].rejects,
         IsFiniteSet(WritesReserved(l))', IsFiniteSet(WritesHeld(l))',
         Orders("write", out'[l].sq) = Orders("write", out[l].sq), NEW s \in Nat,
         Orders("start", out'[l].sq) = Orders("start", out[l].sq) + s,
         Cardinality(WritesHeld(l))' = Cardinality(WritesHeld(l)) + s,
         Len(out'[l].start) = Len(out[l].start) - s,
         WriteContexts(l)' = WriteContexts(l)
  PROVE  Supplied'
<1>1. l.src \in Proc /\ l.dst \in Proc /\ SuppliedAt(l)
  BY DEF RdmaAssumption, Supplied
<1>2. node'[l.src].cq = node[l.src].cq /\ node'[l.dst].cq = node[l.dst].cq
  BY <1>1
<1>3. /\ CameAt(l)' = CameAt(l) /\ SentAt(l)' = SentAt(l)
      /\ AnsweredAt(l)' = AnsweredAt(l) /\ FollowingAt(l)' = FollowingAt(l)
  BY <1>2 DEF CameAt, SentAt, AnsweredAt, FollowingAt
<1>4. /\ Between(l)' = Between(l) /\ ReplyContexts(l)' = ReplyContexts(l)
  BY <1>3 DEF Between, ReplyContexts
<1>5. PICK o, b, f, u, d : /\ o = Orders("start", out[l].sq) /\ b = Between(l) /\ f = FollowingAt(l)
                           /\ u = Len(out[l].start) /\ d = SentAt(l)
  OBVIOUS
<1>6. o \in Nat /\ b \in Nat /\ f \in Nat /\ u \in Nat /\ d \in Nat
  <2>1. o \in Nat /\ f \in Nat /\ u \in Nat /\ d \in Nat
    BY <1>5, Counts
  <2>2. CameAt(l) \in Nat /\ Len(inc[l].sq) \in Nat /\ Orders("write", out[l].sq) \in Nat
    BY Counts
  <2>3. QED
    <3>1. PICK c, k, w : c = CameAt(l) /\ k = Len(inc[l].sq) /\ w = Orders("write", out[l].sq)
      OBVIOUS
    <3>2. b = c + k + w
      BY <1>5, <3>1 DEF Between
    <3>3. c \in Nat /\ k \in Nat /\ w \in Nat
      BY <2>2, <3>1
    <3>4. b \in Nat
      BY <3>2, <3>3
    <3>5. QED
      BY <2>1, <3>4
<1>7. Underway(l) = o + b + f /\ StartContexts(l) = u + o + d
  BY <1>5 DEF Underway, StartContexts
<1>8. Underway(l)' = (o + s) + b + f /\ StartContexts(l)' = (u - s) + (o + s) + d
  BY <1>3, <1>4, <1>5 DEF Underway, StartContexts
<1>9. StartContexts(l)' = StartContexts(l) /\ Underway(l)' = Underway(l) + s
  BY <1>6, <1>7, <1>8
<1>10. Cardinality(WritesHeld(l))' = Underway(l)'
  BY <1>1, <1>9 DEF SuppliedAt
<1>11. Behind(l, node'[l.src].cq, Between(l)')
  BY <1>1, <1>2, <1>4 DEF SuppliedAt
<1>12. Sound(l) => Ahead(l, node'[l.dst].cq, Len(inc'[l].sq))
  BY <1>1, <1>2 DEF SuppliedAt
<1>13. SuppliedAt(l)'
  BY <1>1, <1>4, <1>9, <1>10, <1>11, <1>12, SuppliedStep
<1>14. \A n \in Proc : \A k \in Link \ {l} : Unseen(k, node[n].cq, node'[n].cq)
  BY DEF Unseen
<1>15. QED
  BY <1>13, <1>14, SuppliedOneLink

(* A thread takes a write context.                                           *)
LEMMA SuppliedTakeWriteContext ==
  ASSUME RdmaAssumption, Typed, Receives, Supplied, NEW t \in Thread, TakeWriteContext(t)
  PROVE  Supplied'
<1>1. PICK l \in Link : l = Via[t]
  BY DEF RdmaAssumption
<1>2. /\ thread[t].pc = "prepared" /\ out[l].write # <<>> /\ UNCHANGED <<node, inc, bufs>>
      /\ thread' = [thread EXCEPT ![t].pc = "reserved", ![t].write = Head(out[l].write)]
      /\ out' = [out EXCEPT ![l].write = Tail(@)]
  BY <1>1 DEF TakeWriteContext
<1>3. Outs /\ Threads /\ OutAt(l, out[l], thread) /\ SuppliedAt(l)
  BY DEF Typed, Outs, Supplied
<1>4. out[l].status = "connected"
  BY <1>1, <1>2 DEF Receives, ReceivesAt, Quiet
<1>5. /\ \A k \in Thread : thread'[k].next = thread[k].next
      /\ \A k \in Thread \ {t} : thread'[k] = thread[k]
      /\ thread'[t].pc = "reserved"
  BY <1>2, <1>3 DEF Threads, ThreadAt
<1>6. /\ \A k \in Link \ {l} : out'[k] = out[k]
      /\ out'[l].status = out[l].status /\ out'[l].rejects = out[l].rejects
      /\ out'[l].start = out[l].start /\ out'[l].sq = out[l].sq /\ out'[l].write = Tail(out[l].write)
  BY <1>2, <1>3 DEF Outs, OutAt
<1>7. Unset'
  <2>1. Unset
    BY DEF Supplied
  <2>2. \A x \in DOMAIN bufs : x[1] \in Thread
    BY MsgFacts DEF Typed, Bufs
  <2>3. ASSUME NEW x \in DOMAIN bufs, x[2] = thread'[x[1]].next PROVE bufs[x].write = None
    BY <1>5, <2>1, <2>2, <2>3 DEF Unset
  <2>4. ASSUME NEW k \in Thread, thread'[k].pc # "idle" PROVE <<k, thread'[k].next>> \in DOMAIN bufs
    <3>1. thread[k].pc # "idle" /\ thread'[k].next = thread[k].next
      BY <1>2, <1>5, <2>4
    <3>2. QED
      BY <2>1, <3>1 DEF Unset
  <2>5. QED
    BY <1>2, <2>3, <2>4 DEF Unset
<1>8. /\ \A k \in Link : WritesHeld(k)' = WritesHeld(k)
      /\ \A k \in Link \ {l} : WritesReserved(k)' = WritesReserved(k)
  BY <1>1, <1>2, <1>5 DEF WritesHeld, WritesReserved
<1>9. PICK R : R = WritesReserved(l) /\ IsFiniteSet(R) /\ t \notin R /\ WritesReserved(l)' = R \cup {t}
  <2>1. PICK R : R = WritesReserved(l)
    OBVIOUS
  <2>2. t \notin R /\ IsFiniteSet(R)
    BY <1>2, <1>3, <2>1 DEF WritesReserved, SuppliedAt
  <2>3. \A k \in Thread : thread'[k].pc = "reserved" <=> k = t \/ thread[k].pc = "reserved"
    BY <1>2, <1>5
  <2>4. WritesReserved(l)' = R \cup {t}
    BY <1>1, <2>1, <2>3 DEF WritesReserved
  <2>5. QED
    BY <2>1, <2>2, <2>4
<1>10. IsFiniteSet(R \cup {t}) /\ Cardinality(R \cup {t}) = Cardinality(R) + 1 /\ Cardinality(R) \in Nat
  BY <1>9, FS_AddElement, FS_CardinalityType
<1>11. Len(out'[l].write) = Len(out[l].write) - 1
  <2>1. PICK w : w = out[l].write /\ w \in Seq(1 .. Depth)
    BY <1>3 DEF OutAt
  <2>2. w # <<>>
    BY <1>2, <2>1
  <2>3. Len(Tail(w)) = Len(w) - 1
    BY <2>1, <2>2, AfterTail
  <2>4. QED
    BY <1>6, <2>1, <2>3
<1>12. /\ Len(out[l].write) \in Nat /\ Len(out[l].start) \in Nat /\ Orders("start", out[l].sq) \in Nat
       /\ IsFiniteSet(WritesHeld(l)) /\ Cardinality(WritesHeld(l)) \in Nat
  BY <1>3, Counts, FS_CardinalityType DEF SuppliedAt
<1>13. WriteContexts(l)' = WriteContexts(l)
  <2>1. PICK w, r, h : w = Len(out[l].write) /\ r = Cardinality(R) /\ h = Cardinality(WritesHeld(l))
    OBVIOUS
  <2>2. WriteContexts(l) = w + r + h /\ WriteContexts(l)' = (w - 1) + (r + 1) + h
    BY <1>8, <1>9, <1>10, <1>11, <2>1 DEF WriteContexts
  <2>3. w \in Nat /\ r \in Nat /\ h \in Nat
    BY <1>10, <1>12, <2>1
  <2>4. (w - 1) + (r + 1) + h = w + r + h
    BY <2>3
  <2>5. QED
    BY <2>2, <2>4
<1>14. PICK s \in Nat : s = 0
  OBVIOUS
<1>15. /\ IsFiniteSet(WritesReserved(l))' /\ IsFiniteSet(WritesHeld(l))'
       /\ Orders("start", out'[l].sq) = Orders("start", out[l].sq) + s
       /\ Cardinality(WritesHeld(l))' = Cardinality(WritesHeld(l)) + s
       /\ Len(out'[l].start) = Len(out[l].start) - s
  BY <1>6, <1>8, <1>9, <1>10, <1>12, <1>14
<1>16. \A n \in Proc : node'[n].cq = node[n].cq
  BY <1>2
<1>17. QED
  BY <1>2, <1>4, <1>6, <1>7, <1>8, <1>13, <1>15, <1>16, SuppliedAtSource

(* A thread fills its write context into the message buffer and posts a      *)
(* START.                                                                    *)
LEMMA SuppliedPostStart ==
  ASSUME RdmaAssumption, Typed, Receives, Supplied, NEW t \in Thread, PostStart(t)
  PROVE  Supplied'
<1>1. PICK l \in Link, m \in {<<t, thread[t].next>>} : l = Via[t] /\ m = <<t, thread[t].next>>
  BY DEF RdmaAssumption
<1>2. PICK i : i = Head(out[l].start)
  OBVIOUS
<1>3. /\ thread[t].pc = "reserved" /\ out[l].start # <<>> /\ UNCHANGED <<node, inc>>
      /\ bufs' = [bufs EXCEPT ![m].write = thread[t].write]
      /\ out' = [out EXCEPT ![l].start = Tail(@), ![l].startBuf = Put(@, i, m),
                            ![l].sq = Append(@, [op |-> "start", ctx |-> i])]
      /\ thread' = [thread EXCEPT ![t] = [pc |-> "idle", next |-> @.next + 1, write |-> None]]
  BY <1>1, <1>2 DEF PostStart
<1>4. Outs /\ Threads /\ Bufs /\ OutAt(l, out[l], thread) /\ SuppliedAt(l) /\ Unset /\ ThreadAt(t, thread[t])
  BY DEF Typed, Outs, Supplied, Threads
<1>5. out[l].status = "connected"
  BY <1>1, <1>3 DEF Receives, ReceivesAt, Quiet
<1>6. /\ \A k \in Thread \ {t} : thread'[k] = thread[k]
      /\ thread'[t].pc = "idle" /\ thread'[t].next = thread[t].next + 1 /\ thread[t].next \in Nat
      /\ thread[t].write # None
  BY <1>3, <1>4 DEF Threads, ThreadAt, RdmaAssumption
<1>7. /\ \A k \in Link \ {l} : out'[k] = out[k]
      /\ out'[l].status = out[l].status /\ out'[l].rejects = out[l].rejects
      /\ out'[l].write = out[l].write /\ out'[l].start = Tail(out[l].start)
      /\ \E c : c.op = "start" /\ out'[l].sq = Append(out[l].sq, c)
  <2> DEFINE c == [op |-> "start", ctx |-> i]
  <2>1. c.op = "start"
    OBVIOUS
  <2>2. out' = [out EXCEPT ![l].start = Tail(@), ![l].startBuf = Put(@, i, m), ![l].sq = Append(@, c)]
    BY <1>3
  <2> HIDE DEF c
  <2>3. /\ \A k \in Link \ {l} : out'[k] = out[k]
        /\ out'[l].status = out[l].status /\ out'[l].rejects = out[l].rejects
        /\ out'[l].write = out[l].write /\ out'[l].start = Tail(out[l].start)
        /\ out'[l].sq = Append(out[l].sq, c)
    BY <1>4, <2>2 DEF Outs, OutAt
  <2>4. QED
    BY <2>1, <2>3
<1>8. m \in DOMAIN bufs /\ bufs[m].write = None /\ LinkOf(m) = l
  <2>1. m[1] = t /\ m[2] = thread[t].next
    BY <1>1
  <2>2. m \in DOMAIN bufs
    BY <1>1, <1>3, <1>4 DEF Unset
  <2>3. QED
    BY <1>1, <1>4, <2>1, <2>2 DEF Unset, LinkOf
<1>9. /\ DOMAIN bufs' = DOMAIN bufs /\ bufs'[m].write = thread[t].write
      /\ \A x \in DOMAIN bufs : x # m => bufs'[x] = bufs[x]
  <2>1. BufAt(m, bufs[m], thread)
    BY <1>4, <1>8 DEF Bufs
  <2>2. QED
    BY <1>3, <1>8, <2>1 DEF BufAt
<1>10. \A x \in DOMAIN bufs : x \in Msg /\ x[1] \in Thread /\ x[2] \in Nat /\ x = <<x[1], x[2]>>
  BY <1>4, MsgFacts DEF Bufs
<1>11. Unset'
  <2>1. ASSUME NEW x \in DOMAIN bufs', x[2] = thread'[x[1]].next PROVE bufs'[x].write = None
    <3>1. x \in DOMAIN bufs /\ x[1] \in Thread /\ x[2] \in Nat /\ BufAt(x, bufs[x], thread)
      BY <1>4, <1>9, <1>10 DEF Bufs
    <3>2. x[1] # t
      <4>1. SUFFICES ASSUME x[1] = t PROVE FALSE
        OBVIOUS
      <4>2. x[2] = thread[t].next + 1
        BY <1>6, <2>1, <4>1
      <4>3. x[2] < thread[t].next \/ x[2] = thread[t].next
        BY <3>1, <4>1 DEF BufAt
      <4>4. QED
        BY <1>6, <4>2, <4>3
    <3>3. x # m /\ x[2] = thread[x[1]].next
      <4>1. m[1] = t
        BY <1>1
      <4>2. QED
        BY <1>6, <2>1, <3>1, <3>2, <4>1
    <3>4. QED
      BY <1>4, <1>9, <3>1, <3>3 DEF Unset
  <2>2. ASSUME NEW k \in Thread, thread'[k].pc # "idle" PROVE <<k, thread'[k].next>> \in DOMAIN bufs'
    <3>1. k # t
      BY <1>6, <2>2
    <3>2. thread'[k] = thread[k]
      BY <1>6, <3>1
    <3>3. QED
      BY <1>4, <1>9, <2>2, <3>2 DEF Unset
  <2>3. QED
    BY <2>1, <2>2 DEF Unset
<1>12. \A k \in Link \ {l} : WritesReserved(k)' = WritesReserved(k) /\ WritesHeld(k)' = WritesHeld(k)
  <2>1. ASSUME NEW k \in Link \ {l} PROVE WritesReserved(k)' = WritesReserved(k)
    BY <1>1, <1>6 DEF WritesReserved
  <2>2. ASSUME NEW k \in Link \ {l} PROVE WritesHeld(k)' = WritesHeld(k)
    BY <1>8, <1>9 DEF WritesHeld
  <2>3. QED
    BY <2>1, <2>2
<1>13. PICK R : R = WritesReserved(l) /\ IsFiniteSet(R) /\ t \in R /\ WritesReserved(l)' = R \ {t}
  <2>1. PICK R : R = WritesReserved(l)
    OBVIOUS
  <2>2. t \in R /\ IsFiniteSet(R)
    BY <1>1, <1>3, <1>4, <2>1 DEF WritesReserved, SuppliedAt
  <2>3. \A k \in Thread : thread'[k].pc = "reserved" <=> k # t /\ thread[k].pc = "reserved"
    BY <1>6
  <2>4. WritesReserved(l)' = R \ {t}
    BY <2>1, <2>3 DEF WritesReserved
  <2>5. QED
    BY <2>1, <2>2, <2>4
<1>14. IsFiniteSet(R \ {t}) /\ Cardinality(R \ {t}) = Cardinality(R) - 1 /\ Cardinality(R) \in Nat
  BY <1>13, FS_RemoveElement, FS_CardinalityType
<1>15. PICK H : H = WritesHeld(l) /\ IsFiniteSet(H) /\ m \notin H /\ WritesHeld(l)' = H \cup {m}
  <2>1. PICK H : H = WritesHeld(l)
    OBVIOUS
  <2>2. m \notin H /\ IsFiniteSet(H)
    BY <1>4, <1>8, <2>1 DEF WritesHeld, SuppliedAt
  <2>3. \A x \in DOMAIN bufs : bufs'[x].write # None <=> x = m \/ bufs[x].write # None
    BY <1>6, <1>9
  <2>4. WritesHeld(l)' = H \cup {m}
    BY <1>8, <1>9, <2>1, <2>3 DEF WritesHeld
  <2>5. QED
    BY <2>1, <2>2, <2>4
<1>16. IsFiniteSet(H \cup {m}) /\ Cardinality(H \cup {m}) = Cardinality(H) + 1 /\ Cardinality(H) \in Nat
  BY <1>15, FS_AddElement, FS_CardinalityType
<1>17. Len(out'[l].start) = Len(out[l].start) - 1
  <2>1. PICK w : w = out[l].start /\ w \in Seq(1 .. Depth)
    BY <1>4 DEF OutAt
  <2>2. w # <<>>
    BY <1>3, <2>1
  <2>3. Len(Tail(w)) = Len(w) - 1
    BY <2>1, <2>2, AfterTail
  <2>4. QED
    BY <1>7, <2>1, <2>3
<1>18. /\ Orders("start", out'[l].sq) = Orders("start", out[l].sq) + 1
       /\ Orders("write", out'[l].sq) = Orders("write", out[l].sq)
  <2>1. PICK q, T : q = out[l].sq /\ q \in Seq(T)
    BY <1>4 DEF OutAt
  <2>2. PICK c : c.op = "start" /\ out'[l].sq = Append(q, c)
    BY <1>7, <2>1
  <2>3. \A op : /\ Orders(op, q) \in Nat
                /\ Orders(op, Append(q, c)) = Orders(op, q) + (IF c.op = op THEN 1 ELSE 0)
    BY <2>1, OrdersChange
  <2>4. Orders("write", q) + 0 = Orders("write", q)
    BY <2>3
  <2>5. QED
    BY <2>1, <2>2, <2>3, <2>4
<1>19. WriteContexts(l)' = WriteContexts(l)
  <2>1. PICK w, r, h : w = Len(out[l].write) /\ r = Cardinality(R) /\ h = Cardinality(H)
    OBVIOUS
  <2>2. WriteContexts(l) = w + r + h /\ WriteContexts(l)' = w + (r - 1) + (h + 1)
    BY <1>7, <1>13, <1>14, <1>15, <1>16, <2>1 DEF WriteContexts
  <2>3. Len(out[l].write) \in Nat
    BY Counts
  <2>4. w \in Nat /\ r \in Nat /\ h \in Nat
    BY <1>14, <1>16, <2>1, <2>3
  <2>5. w + (r - 1) + (h + 1) = w + r + h
    BY <2>4
  <2>6. QED
    BY <2>2, <2>5
<1>20. PICK s \in Nat : s = 1
  OBVIOUS
<1>21. /\ IsFiniteSet(WritesReserved(l))' /\ IsFiniteSet(WritesHeld(l))'
       /\ Orders("start", out'[l].sq) = Orders("start", out[l].sq) + s
       /\ Cardinality(WritesHeld(l))' = Cardinality(WritesHeld(l)) + s
       /\ Len(out'[l].start) = Len(out[l].start) - s
  BY <1>13, <1>14, <1>15, <1>16, <1>17, <1>18, <1>20
<1>22. \A n \in Proc : node'[n].cq = node[n].cq
  BY <1>3
<1>23. QED
  BY <1>3, <1>5, <1>7, <1>11, <1>12, <1>18, <1>19, <1>21, <1>22, SuppliedAtSource

(* Connecting puts every context of a link onto its queue once, unless an    *)
(* attempt has been rejected before.                                         *)
LEMMA SuppliedConnections ==
  ASSUME RdmaAssumption, Typed, Receives, Supplied, NEW l \in Link, Connect(l) \/ PollEvents(l)
  PROVE  Supplied'
<1>1. /\ l.src \in Proc /\ l.dst \in Proc /\ OutAt(l, out[l], thread) /\ IncAt(l, inc[l], thread)
      /\ Outs /\ Incs /\ ReceivesAt(l) /\ SuppliedAt(l)
  BY DEF Receives, RdmaAssumption, Typed, Outs, Incs, Supplied
<1>2. UNCHANGED <<node, thread, bufs>>
  BY DEF Connect, PollEvents, OnRouteResolved, OnRejected, OnConnectRequest, OnConnected
<1>3. \A k \in Link \ {l} : out'[k] = out[k] /\ inc'[k] = inc[k]
  BY <1>1 DEF Connect, PollEvents, OnRouteResolved, OnRejected, OnConnectRequest, OnConnected, Outs, Incs
<1>4. Unset' /\ \A k \in Link : WritesReserved(k)' = WritesReserved(k) /\ WritesHeld(k)' = WritesHeld(k)
  BY <1>2, HoldersSame
<1>5. \A n \in Proc : \A k \in Link \ {l} : Unseen(k, node[n].cq, node'[n].cq)
  BY <1>2 DEF Unseen
<1>6. Quiet(l)
  BY <1>1 DEF Connect, PollEvents, OnRouteResolved, OnRejected, OnConnectRequest, OnConnected, ReceivesAt
<1>7. out'[l].sq = out[l].sq /\ inc'[l].sq = inc[l].sq
  <2>1. Connect(l) \/ OnRejected(l) \/ OnConnected(l) => out'[l].sq = out[l].sq /\ inc' = inc
    BY <1>1 DEF Connect, OnRejected, OnConnected, Outs, OutAt
  <2>2. OnRouteResolved(l) => out'[l].sq = out[l].sq /\ inc' = inc
    BY <1>1 DEF OnRouteResolved, InitEndpoint, Outs, OutAt
  <2>3. OnConnectRequest(l) => out'[l].sq = out[l].sq
    BY <1>1 DEF OnConnectRequest, Outs, OutAt
  <2>4. OnConnectRequest(l) => inc'[l].sq = inc[l].sq
    BY <1>1 DEF OnConnectRequest, Incs, IncAt
  <2>5. QED
    BY <2>1, <2>2, <2>3, <2>4 DEF PollEvents
<1>8. /\ CameAt(l)' = CameAt(l) /\ SentAt(l)' = SentAt(l)
      /\ AnsweredAt(l)' = AnsweredAt(l) /\ FollowingAt(l)' = FollowingAt(l)
  BY <1>2 DEF CameAt, SentAt, AnsweredAt, FollowingAt
<1>9. Between(l)' = Between(l) /\ Underway(l)' = Underway(l)
  BY <1>7, <1>8 DEF Between, Underway
<1>10. /\ Behind(l, node[l.src].cq, Between(l))' /\ (Sound(l) => Ahead(l, node[l.dst].cq, Len(inc[l].sq))')
       /\ IsFiniteSet(WritesReserved(l))' /\ IsFiniteSet(WritesHeld(l))'
       /\ Cardinality(WritesHeld(l))' = Underway(l)'
  <2>1. Behind(l, node[l.src].cq, Between(l)) => Behind(l, node[l.src].cq, Between(l))'
    BY <1>2, <1>9 DEF Behind
  <2>2. Ahead(l, node[l.dst].cq, Len(inc[l].sq)) => Ahead(l, node[l.dst].cq, Len(inc[l].sq))'
    BY <1>2, <1>7 DEF Ahead
  <2>3. QED
    BY <1>1, <1>4, <1>9, <2>1, <2>2 DEF SuppliedAt
<1>11. SentAt(l) = 0 /\ AnsweredAt(l) = 0 /\ CameAt(l) = 0 /\ FollowingAt(l) = 0
  BY <1>1, <1>6, TallyNone DEF Quiet, SentAt, AnsweredAt, CameAt, FollowingAt
<1>12. Orders("start", out[l].sq) = 0 /\ Orders("write", out[l].sq) = 0 /\ Len(inc[l].sq) = 0
  <2>1. out[l].sq = <<>> /\ inc[l].sq = <<>> /\ Len(<<>>) = 0
    BY <1>6 DEF Quiet
  <2>2. QED
    BY <2>1, NothingQueued
<1>13. Cardinality(WritesReserved(l)) = 0 /\ Cardinality(WritesHeld(l)) = 0
  <2>1. WritesReserved(l) = {}
    BY <1>6 DEF Quiet, WritesReserved
  <2>2. Underway(l) = 0
    BY <1>11, <1>12 DEF Underway, Between
  <2>3. QED
    BY <1>1, <2>1, <2>2, FS_EmptySet DEF SuppliedAt
<1>14. /\ StartContexts(l)' = Len(out'[l].start) + 0 + 0
       /\ WriteContexts(l)' = Len(out'[l].write) + 0 + 0
       /\ ReplyContexts(l)' = Len(inc'[l].reply) + 0 + 0
  BY <1>4, <1>7, <1>8, <1>11, <1>12, <1>13 DEF StartContexts, WriteContexts, ReplyContexts
<1>15. /\ StartContexts(l) = Len(out[l].start) + 0 + 0
       /\ WriteContexts(l) = Len(out[l].write) + 0 + 0
       /\ ReplyContexts(l) = Len(inc[l].reply) + 0 + 0
  BY <1>11, <1>12, <1>13 DEF StartContexts, WriteContexts, ReplyContexts
<1>16. /\ out'[l].status \in {"accepted", "connected"} => ReplyContexts(l)' = ReplyDepth
       /\ Sound(l)' => Sound(l) /\ IF out'[l].status \in {"idle", "connecting"}
                       THEN out'[l].start = <<>> /\ out'[l].write = <<>>
                       ELSE StartContexts(l)' = Depth /\ WriteContexts(l)' = Depth
  <2>1. CASE Connect(l)
    <3>1. out'[l].status = "connecting" /\ out[l].status \in {"idle", "rejected"}
          /\ out'[l].start = out[l].start /\ out'[l].write = out[l].write /\ out'[l].rejects = out[l].rejects
      BY <1>1, <2>1 DEF Connect, Outs, OutAt
    <3>2. QED
      BY <1>1, <3>1 DEF ReceivesAt, SuppliedAt, Sound
  <2>2. CASE OnRouteResolved(l)
    <3>1. /\ out'[l].status = "requested" /\ out[l].status = "connecting"
          /\ out'[l].start = out[l].start \o Contexts(Depth) /\ out'[l].write = out[l].write \o Contexts(Depth)
          /\ out'[l].rejects = out[l].rejects
      BY <1>1, <2>2 DEF OnRouteResolved, InitEndpoint, Outs, OutAt
    <3>2. Depth \in Nat /\ Contexts(Depth) \in Seq(1 .. Depth)
      BY Constants
    <3>3. Len(Contexts(Depth)) = Depth
      BY <3>2 DEF Contexts
    <3>4. <<>> \o Contexts(Depth) = Contexts(Depth)
      BY <3>2
    <3>5. Sound(l)' => Sound(l) /\ Len(out'[l].start) = Depth /\ Len(out'[l].write) = Depth
      BY <1>1, <3>1, <3>3, <3>4 DEF SuppliedAt, Sound
    <3>6. Depth + 0 + 0 = Depth
      BY <3>2
    <3>7. QED
      BY <1>14, <3>1, <3>5, <3>6
  <2>3. CASE OnRejected(l)
    <3>1. out'[l].rejects = out[l].rejects + 1 /\ out[l].rejects \in Nat /\ out'[l].status = "rejected"
      BY <1>1, <2>3 DEF OnRejected, Outs, OutAt
    <3>2. QED
      BY <3>1 DEF Sound
  <2>4. CASE OnConnectRequest(l)
    <3>1. /\ out'[l].status = "accepted" /\ out[l].status = "requested"
          /\ out'[l].start = out[l].start /\ out'[l].write = out[l].write /\ out'[l].rejects = out[l].rejects
      BY <1>1, <2>4 DEF OnConnectRequest, Outs, OutAt
    <3>2. inc'[l].reply = Contexts(ReplyDepth)
      BY <1>1, <2>4 DEF OnConnectRequest, Incs, IncAt
    <3>3. Len(Contexts(ReplyDepth)) = ReplyDepth /\ ReplyDepth + 0 + 0 = ReplyDepth
      <4>1. PICK d \in Nat : d = ReplyDepth
        BY Constants
      <4>2. Len(Contexts(d)) = d /\ d + 0 + 0 = d
        BY DEF Contexts
      <4>3. QED
        BY <4>1, <4>2
    <3>4. QED
      BY <1>1, <1>14, <1>15, <3>1, <3>2, <3>3 DEF SuppliedAt, Sound
  <2>5. CASE OnConnected(l)
    <3>1. /\ out'[l].status = "connected" /\ out[l].status = "accepted" /\ inc' = inc
          /\ out'[l].start = out[l].start /\ out'[l].write = out[l].write /\ out'[l].rejects = out[l].rejects
      BY <1>1, <2>5 DEF OnConnected, Outs, OutAt
    <3>2. QED
      BY <1>1, <1>14, <1>15, <3>1 DEF SuppliedAt, Sound
  <2>6. QED
    BY <2>1, <2>2, <2>3, <2>4, <2>5 DEF PollEvents
<1>17. SuppliedAt(l)'
  BY <1>10, <1>16 DEF SuppliedAt
<1>18. QED
  BY <1>3, <1>4, <1>5, <1>17, SuppliedOneLink

(* Every step keeps the contexts of every link.                              *)
LEMMA SuppliedNext ==
  ASSUME RdmaAssumption, Typed, Receives, Supplied, Next
  PROVE  Supplied'
<1>1. ASSUME NEW n \in Proc, Bind(n) \/ PollCQ(n) \/ RecvMsg(n) \/ Release(n) PROVE Supplied'
  BY <1>1, SuppliedOwn, SuppliedPollSent, SuppliedPollStart, SuppliedPollReply, SuppliedPollWrote,
     SuppliedPollWritten DEF PollCQ
<1>2. ASSUME NEW l \in Link, Connect(l) \/ PollEvents(l) PROVE Supplied'
  BY <1>2, SuppliedConnections
<1>3. ASSUME NEW l \in Link, Carry(l) PROVE Supplied'
  BY <1>3, SuppliedCarry
<1>4. ASSUME NEW t \in Thread, Send(t) PROVE Supplied'
  BY <1>4, SuppliedPrepare, SuppliedTakeWriteContext, SuppliedPostStart DEF Send
<1>5. QED
  BY <1>1, <1>2, <1>3, <1>4 DEF Next

(* What is kept says that the contexts of a link suffice.                    *)
LEMMA SuppliedSuffices ==
  ASSUME RdmaAssumption, Typed, Supplied
  PROVE  ContextsSuffice
<1> SUFFICES ASSUME NEW l \in Link, Sound(l), out[l].status = "connected"
    PROVE  /\ Len(out[l].start) + Cardinality(StartsBusy(l)) + Cardinality(StartsDone(l)) = Depth
           /\ Len(out[l].write) + Cardinality(WritesReserved(l)) + Cardinality(WritesHeld(l)) = Depth
           /\ WritesReserved(l) # {} => out[l].start # <<>>
           /\ Polls(l.dst, "recv start") /\ Head(node[l.dst].cq).link = l => inc[l].reply # <<>>
  BY DEF ContextsSuffice
<1>1. /\ l.src \in Proc /\ l.dst \in Proc /\ SuppliedAt(l) /\ Nodes
      /\ Depth \in Nat \ {0} /\ ReplyDepth = 2 * Depth
  BY Constants DEF RdmaAssumption, Supplied, Typed, ReplyDepth, RxDepth
<1>2. /\ StartContexts(l) = Depth /\ WriteContexts(l) = Depth /\ ReplyContexts(l) = ReplyDepth
      /\ Cardinality(WritesHeld(l)) = Underway(l)
      /\ Behind(l, node[l.src].cq, Between(l)) /\ Ahead(l, node[l.dst].cq, Len(inc[l].sq))
  BY <1>1 DEF SuppliedAt
<1>3. PICK T, q, S, p : q = node[l.src].cq /\ q \in Seq(T) /\ p = node[l.dst].cq /\ p \in Seq(S)
  BY <1>1 DEF Nodes, NodeAt
<1>4. Cardinality(StartsBusy(l)) = Orders("start", out[l].sq) /\ Cardinality(StartsDone(l)) = SentAt(l)
  <2>1. StartsDone(l) = {i \in DOMAIN node[l.src].cq : node[l.src].cq[i].op \in Sent /\ node[l.src].cq[i].link = l}
    BY DEF StartsDone, Sent
  <2>2. QED
    BY <2>1 DEF StartsBusy, Orders, SentAt, Tally
<1>5. PICK s, o, d, w, r, h, b, f :
        /\ s = Len(out[l].start) /\ o = Orders("start", out[l].sq) /\ d = SentAt(l)
        /\ w = Len(out[l].write) /\ r = Cardinality(WritesReserved(l)) /\ h = Cardinality(WritesHeld(l))
        /\ b = Between(l) /\ f = FollowingAt(l)
  OBVIOUS
<1>6. /\ s \in Nat /\ o \in Nat /\ d \in Nat /\ w \in Nat /\ f \in Nat /\ r \in Nat /\ h \in Nat /\ b \in Nat
  <2>1. r \in Nat /\ h \in Nat
    BY <1>1, <1>5, FS_CardinalityType DEF SuppliedAt
  <2>2. PICK c, k, v : c = CameAt(l) /\ k = Len(inc[l].sq) /\ v = Orders("write", out[l].sq)
    OBVIOUS
  <2>3. c \in Nat /\ k \in Nat /\ v \in Nat /\ b = c + k + v
    BY <1>5, <2>2, Counts DEF Between
  <2>4. b \in Nat
    BY <2>3
  <2>5. s \in Nat /\ o \in Nat /\ d \in Nat /\ w \in Nat /\ f \in Nat
    BY <1>5, Counts
  <2>6. QED
    BY <2>1, <2>4, <2>5
<1>7. s + o + d = Depth /\ w + r + h = Depth /\ h = o + b + f
  BY <1>2, <1>5 DEF StartContexts, WriteContexts, Underway
<1>8. d <= b + f
  <2>1. CASE q = <<>>
    <3>1. d = 0
      BY <1>3, <1>5, <2>1, TallyEmpty DEF SentAt
    <3>2. QED
      BY <1>6, <3>1
  <2>2. CASE q # <<>>
    <3>1. After(q, 0) = q /\ 0 \in 0 .. Len(q)
      BY <1>3, <2>2, AfterTail
    <3>2. Tally(Sent, l, q) <= Between(l) + Tally(Following, l, q)
      BY <1>2, <1>3, <3>1 DEF Behind
    <3>3. QED
      BY <1>3, <1>5, <3>2 DEF SentAt, FollowingAt
  <2>3. QED
    BY <2>1, <2>2
<1>9. WritesReserved(l) # {} => out[l].start # <<>>
  <2> SUFFICES ASSUME WritesReserved(l) # {}, out[l].start = <<>> PROVE FALSE
    OBVIOUS
  <2>1. r # 0
    BY <1>1, <1>5, FS_EmptySet DEF SuppliedAt
  <2>2. s = 0
    BY <1>5
  <2>3. o + d = Depth
    BY <1>6, <1>7, <2>2
  <2>4. Depth <= h
    BY <1>6, <1>7, <1>8, <2>3
  <2>5. w + r + h > h
    BY <1>6, <2>1
  <2>6. Depth \in Nat /\ Depth > h
    BY <1>1, <1>7, <2>5
  <2>7. QED
    BY <1>6, <2>4, <2>6
<1>10. ASSUME Polls(l.dst, "recv start"), Head(node[l.dst].cq).link = l PROVE inc[l].reply # <<>>
  <2>1. p # <<>> /\ Head(p).op = "recv start" /\ Head(p).link = l
    BY <1>3, <1>10 DEF Polls
  <2>2. 1 \in DOMAIN p /\ p[1] = Head(p) /\ After(p, 1) = Tail(p) /\ Tail(p) \in Seq(S)
    <3>1. \A U : \A z \in Seq(U) : z # <<>> => 1 \in DOMAIN z /\ z[1] = Head(z)
      OBVIOUS
    <3>2. After(p, 1) = Tail(p) /\ Tail(p) \in Seq(S)
      BY <1>3, <2>1, AfterTail
    <3>3. QED
      BY <1>3, <2>1, <3>1, <3>2
  <2>3. PICK y, a, a1, c, c1 : /\ y = Len(inc[l].sq) /\ a = Tally(Answered, l, p) /\ a1 = Tally(Answered, l, Tail(p))
                               /\ c = Tally(Came, l, p) /\ c1 = Tally(Came, l, Tail(p))
    OBVIOUS
  <2>4. y + a1 + c <= Depth + c1
    BY <1>2, <1>3, <2>1, <2>2, <2>3 DEF Ahead
  <2>5. One(Came, l, Head(p)) = 1 /\ One(Answered, l, Head(p)) = 0
    BY <2>1 DEF One, Came, Answered
  <2>6. c = c1 + 1 /\ a = a1 + 0
    BY <1>3, <2>1, <2>3, <2>5, TallyTail
  <2>7. y \in Nat /\ a \in Nat /\ a1 \in Nat /\ c1 \in Nat
    BY <1>3, <2>2, <2>3, Counts, TallyAppend
  <2>8. y + a < Depth
    BY <1>1, <2>4, <2>6, <2>7
  <2>9. Len(inc[l].reply) + y + a = 2 * Depth /\ Len(<<>>) = 0
    BY <1>1, <1>2, <1>3, <2>3 DEF ReplyContexts, AnsweredAt
  <2>10. QED
    BY <1>1, <2>7, <2>8, <2>9
<1>11. QED
  BY <1>4, <1>5, <1>7, <1>9, <1>10

(* Every step keeps what is known of types, blocks, receives and contexts.   *)
LEMMA CountsStep ==
  ASSUME PoolAssumption, RdmaAssumption, Typed, Kept, Receives, Supplied, [Next]_vars
  PROVE  (Typed /\ Kept /\ Receives /\ Supplied)'
<1>1. (Typed /\ Kept)'
  BY TypedKeptStep
<1>2. CASE Next
  BY <1>1, <1>2, ReceivesNext, SuppliedNext
<1>3. CASE UNCHANGED vars
  <2>1. Receives'
    BY <1>3 DEF vars, Receives, ReceivesAt, Quiet, AtTarget, AtSource
  <2>2. UNCHANGED <<out, inc, thread, bufs>> /\ \A n \in Proc : node'[n].cq = node[n].cq
    BY <1>3 DEF vars
  <2>3. Supplied'
    BY <2>2, HoldersSame, SuppliedSame
  <2>4. QED
    BY <1>1, <2>1, <2>3
<1>4. QED
  BY <1>2, <1>3

(* Among all interleavings of the threads that send, the network and the     *)
(* pollers, for all depths and all rejections of other links: a link that    *)
(* connected without a rejection has each start and each write context in    *)
(* one place; a thread that has taken a write context finds a start context  *)
(* at once, which is why SendMsg takes the write context first; and the      *)
(* poller never waits for a reply context, which it alone could give back.   *)
THEOREM RdmaContextsSuffice ==
  PoolAssumption /\ RdmaAssumption /\ Spec => []ContextsSuffice
<1> SUFFICES ASSUME PoolAssumption, RdmaAssumption PROVE Spec => []ContextsSuffice
  OBVIOUS
<1>1. Init => Typed /\ Kept /\ Receives /\ Supplied
  BY TypedInit, KeptInit, ReceivesInit, SuppliedInit
<1>2. Typed /\ Kept /\ Receives /\ Supplied /\ [Next]_vars => (Typed /\ Kept /\ Receives /\ Supplied)'
  BY CountsStep
<1>3. Typed /\ Kept /\ Receives /\ Supplied => ContextsSuffice
  BY SuppliedSuffices
<1>4. QED
  BY <1>1, <1>2, <1>3, PTL DEF Spec

----------------------------------------------------------------------------
(* Lanes. A lane says what each element of a queue stands for: a set with    *)
(* one value, or without any for an element that is of another lane. One     *)
(* sequence becomes another when an element is put at its end, or its first  *)
(* is taken.                                                                 *)
Adds(u, w, x) ==
  \E n \in Nat : /\ DOMAIN u = 1 .. n /\ DOMAIN w = 1 .. n + 1
                 /\ w[n + 1] = x /\ \A i \in 1 .. n : w[i] = u[i]
Drops(u, w, x) ==
  \E n \in Nat : /\ DOMAIN u = 1 .. n + 1 /\ DOMAIN w = 1 .. n
                 /\ u[1] = x /\ \A i \in 1 .. n : w[i] = u[i + 1]

(* A lane of messages lists postings C of a link when each message can be    *)
(* given the number of its posting so that the numbers rise; what a lane     *)
(* holds; and that it holds nothing twice.                                   *)
Rising(v) == \A i, j \in DOMAIN v : i < j /\ v[i] # 0 /\ v[j] # 0 => v[i] < v[j]
Numbers(v, u, post) ==
  /\ v \in [DOMAIN u -> Nat] /\ Rising(v)
  /\ \A i \in DOMAIN u : IF u[i] = {} THEN v[i] = 0
                         ELSE v[i] \in DOMAIN post \ {0} /\ u[i] = {post[v[i]]}
Lists(u, C, post) == \E v : Numbers(v, u, post) /\ C = {v[i] : i \in DOMAIN u} \ {0}
Held(u) == UNION {u[i] : i \in DOMAIN u}
Once(u) == \A i, j \in DOMAIN u : i # j => u[i] \cap u[j] = {}

(* A lane that holds the same, one value more at its end, or without the     *)
(* first.                                                                    *)
Alike(u, w) ==
  /\ \A C, post : Lists(u, C, post) => Lists(w, C, post)
  /\ Held(w) = Held(u) /\ (Once(u) => Once(w))
Gains(u, w, x) ==
  /\ \A C, post, k : /\ Lists(u, C, post) /\ k \in Nat \ {0} /\ k \in DOMAIN post /\ post[k] = x
                     /\ \A c \in C : c < k
                     => Lists(w, C \cup {k}, post)
  /\ Held(w) = Held(u) \cup {x} /\ (Once(u) /\ x \notin Held(u) => Once(w))
Loses(u, w, x) ==
  /\ \A C, post : Lists(u, C, post) =>
       \E k \in C : post[k] = x /\ Lists(w, C \ {k}, post) /\ \A c \in C \ {k} : k < c
  /\ x \in Held(u)
  /\ Once(u) => Once(w) /\ Held(w) = Held(u) \ {x}

(* The postings listed are postings.                                         *)
LEMMA ListsNumbers ==
  ASSUME NEW u, NEW C, NEW post, Lists(u, C, post)
  PROVE  C \subseteq Nat \ {0} /\ C \subseteq DOMAIN post
<1>1. PICK v : Numbers(v, u, post) /\ C = {v[i] : i \in DOMAIN u} \ {0}
  BY DEF Lists
<1>2. QED
  BY <1>1 DEF Numbers

(* More postings change nothing that is listed.                              *)
LEMMA ListsMore ==
  ASSUME NEW u, NEW C, NEW post, Lists(u, C, post),
         NEW more, DOMAIN post \subseteq DOMAIN more, \A k \in DOMAIN post : more[k] = post[k]
  PROVE  Lists(u, C, more)
<1>1. PICK v : Numbers(v, u, post) /\ C = {v[i] : i \in DOMAIN u} \ {0}
  BY DEF Lists
<1>2. Numbers(v, u, more)
  BY <1>1 DEF Numbers
<1>3. QED
  BY <1>1, <1>2 DEF Lists

(* An empty queue.                                                           *)
LEMMA LaneEmpty ==
  ASSUME NEW u, DOMAIN u = {}
  PROVE  Once(u) /\ Held(u) = {} /\ \A post : Lists(u, {}, post)
<1>1. ASSUME NEW post PROVE Lists(u, {}, post)
  <2> DEFINE v == [i \in DOMAIN u |-> 0]
  <2>1. Numbers(v, u, post) /\ {} = {v[i] : i \in DOMAIN u} \ {0}
    BY DEF Numbers, Rising
  <2> HIDE DEF v
  <2>2. QED
    BY <2>1 DEF Lists
<1>2. QED
  BY <1>1 DEF Once, Held

(* Lanes that are equal at each place.                                       *)
LEMMA LaneSame ==
  ASSUME NEW u, NEW w, DOMAIN w = DOMAIN u, \A i \in DOMAIN u : w[i] = u[i]
  PROVE  Alike(u, w)
<1>1. ASSUME NEW C, NEW post, Lists(u, C, post) PROVE Lists(w, C, post)
  <2>1. PICK v : Numbers(v, u, post) /\ C = {v[i] : i \in DOMAIN u} \ {0}
    BY <1>1 DEF Lists
  <2>2. Numbers(v, w, post) /\ C = {v[i] : i \in DOMAIN w} \ {0}
    BY <2>1 DEF Numbers
  <2>3. QED
    BY <2>2 DEF Lists
<1>2. QED
  BY <1>1 DEF Alike, Held, Once

(* An element of another lane at the end.                                    *)
LEMMA LaneAddsNone ==
  ASSUME NEW u, NEW w, Adds(u, w, {})
  PROVE  Alike(u, w)
<1>1. PICK n \in Nat : /\ DOMAIN u = 1 .. n /\ DOMAIN w = 1 .. n + 1
                       /\ w[n + 1] = {} /\ \A i \in 1 .. n : w[i] = u[i]
  BY DEF Adds
<1>2. ASSUME NEW C, NEW post, Lists(u, C, post) PROVE Lists(w, C, post)
  <2>1. PICK v : Numbers(v, u, post) /\ C = {v[i] : i \in DOMAIN u} \ {0}
    BY <1>2 DEF Lists
  <2> DEFINE z == [i \in DOMAIN w |-> IF i = n + 1 THEN 0 ELSE v[i]]
  <2>2. z \in [DOMAIN w -> Nat] /\ Rising(z)
    BY <1>1, <2>1 DEF Numbers, Rising
  <2>3. Numbers(z, w, post)
    BY <1>1, <2>1, <2>2 DEF Numbers
  <2>4. {z[i] : i \in DOMAIN w} \ {0} = C
    BY <1>1, <2>1 DEF Numbers
  <2> HIDE DEF z
  <2>5. QED
    BY <2>3, <2>4 DEF Lists
<1>3. Held(w) = Held(u)
  BY <1>1 DEF Held
<1>4. Once(u) => Once(w)
  BY <1>1 DEF Once
<1>5. QED
  BY <1>2, <1>3, <1>4 DEF Alike

(* A value at the end.                                                       *)
LEMMA LaneAddsOne ==
  ASSUME NEW u, NEW w, NEW x, Adds(u, w, {x})
  PROVE  Gains(u, w, x)
<1>1. PICK n \in Nat : /\ DOMAIN u = 1 .. n /\ DOMAIN w = 1 .. n + 1
                       /\ w[n + 1] = {x} /\ \A i \in 1 .. n : w[i] = u[i]
  BY DEF Adds
<1>2. ASSUME NEW C, NEW post, NEW k, Lists(u, C, post), k \in Nat \ {0}, k \in DOMAIN post, post[k] = x,
             \A c \in C : c < k
      PROVE  Lists(w, C \cup {k}, post)
  <2>1. PICK v : Numbers(v, u, post) /\ C = {v[i] : i \in DOMAIN u} \ {0}
    BY <1>2 DEF Lists
  <2> DEFINE z == [i \in DOMAIN w |-> IF i = n + 1 THEN k ELSE v[i]]
  <2>2. z \in [DOMAIN w -> Nat] /\ z[n + 1] = k /\ \A i \in 1 .. n : z[i] = v[i] /\ i \in DOMAIN u
    BY <1>1, <1>2, <2>1 DEF Numbers
  <2> HIDE DEF z
  <2>3. \A i \in 1 .. n : z[i] # 0 => z[i] < k
    BY <1>1, <1>2, <2>1, <2>2
  <2>4. Rising(z)
    BY <1>1, <2>1, <2>2, <2>3 DEF Numbers, Rising
  <2>5. /\ n + 1 \in DOMAIN w /\ \A i \in 1 .. n : i \in DOMAIN w
        /\ \A i \in DOMAIN w : i = n + 1 \/ i \in 1 .. n
    BY <1>1
  <2>6. Numbers(z, w, post)
    <3> SUFFICES ASSUME NEW i \in DOMAIN w
                 PROVE  IF w[i] = {} THEN z[i] = 0
                        ELSE z[i] \in DOMAIN post \ {0} /\ w[i] = {post[z[i]]}
      BY <2>2, <2>4 DEF Numbers
    <3>1. CASE i = n + 1
      BY <1>1, <1>2, <2>2, <3>1
    <3>2. CASE i \in 1 .. n
      BY <1>1, <2>1, <2>2, <3>2 DEF Numbers
    <3>3. QED
      BY <2>5, <3>1, <3>2
  <2>7. \A i \in DOMAIN w : z[i] # 0 => z[i] \in C \cup {k}
    BY <2>1, <2>2, <2>5
  <2>8. \A c \in C : \E i \in DOMAIN w : z[i] = c
    BY <1>1, <2>1, <2>2, <2>5
  <2>9. 0 \notin C \cup {k} /\ z[n + 1] = k /\ n + 1 \in DOMAIN w
    BY <1>2, <2>1, <2>2, <2>5
  <2>10. {z[i] : i \in DOMAIN w} \ {0} = C \cup {k}
    BY <2>7, <2>8, <2>9
  <2>11. QED
    BY <2>6, <2>10 DEF Lists
<1>3. Held(w) = Held(u) \cup {x}
  BY <1>1 DEF Held
<1>4. Once(u) /\ x \notin Held(u) => Once(w)
  BY <1>1 DEF Once, Held
<1>5. QED
  BY <1>2, <1>3, <1>4 DEF Gains

(* The first element goes, of another lane.                                  *)
LEMMA LaneDropsNone ==
  ASSUME NEW u, NEW w, Drops(u, w, {})
  PROVE  Alike(u, w)
<1>1. PICK n \in Nat : /\ DOMAIN u = 1 .. n + 1 /\ DOMAIN w = 1 .. n
                       /\ u[1] = {} /\ \A i \in 1 .. n : w[i] = u[i + 1]
  BY DEF Drops
<1>2. /\ \A i \in DOMAIN w : i \in Nat /\ i + 1 \in DOMAIN u /\ w[i] = u[i + 1]
      /\ \A j \in DOMAIN u : j \in Nat /\ (j # 1 => j - 1 \in DOMAIN w /\ w[j - 1] = u[j])
  BY <1>1
<1>3. ASSUME NEW C, NEW post, Lists(u, C, post) PROVE Lists(w, C, post)
  <2>1. PICK v : Numbers(v, u, post) /\ C = {v[i] : i \in DOMAIN u} \ {0}
    BY <1>3 DEF Lists
  <2> DEFINE z == [i \in DOMAIN w |-> v[i + 1]]
  <2>2. z \in [DOMAIN w -> Nat] /\ \A i \in DOMAIN w : z[i] = v[i + 1]
    BY <1>2, <2>1 DEF Numbers
  <2> HIDE DEF z
  <2>3. Rising(z)
    BY <1>2, <2>1, <2>2 DEF Numbers, Rising
  <2>4. Numbers(z, w, post)
    BY <1>2, <2>1, <2>2, <2>3 DEF Numbers
  <2>5. v[1] = 0 /\ \A j \in DOMAIN u : j # 1 => j - 1 \in DOMAIN w /\ z[j - 1] = v[j]
    BY <1>1, <1>2, <2>1, <2>2 DEF Numbers
  <2>6. \A i \in DOMAIN w : i + 1 \in DOMAIN u /\ z[i] = v[i + 1]
    BY <1>2, <2>2
  <2>7. {z[i] : i \in DOMAIN w} \ {0} = C
    BY <2>1, <2>5, <2>6
  <2>8. QED
    BY <2>4, <2>7 DEF Lists
<1>4. Held(w) = Held(u)
  BY <1>1, <1>2 DEF Held
<1>5. Once(u) => Once(w)
  BY <1>2 DEF Once
<1>6. QED
  BY <1>3, <1>4, <1>5 DEF Alike

(* The first value goes.                                                     *)
LEMMA LaneDropsOne ==
  ASSUME NEW u, NEW w, NEW x, Drops(u, w, {x})
  PROVE  Loses(u, w, x)
<1>1. PICK n \in Nat : /\ DOMAIN u = 1 .. n + 1 /\ DOMAIN w = 1 .. n
                       /\ u[1] = {x} /\ \A i \in 1 .. n : w[i] = u[i + 1]
  BY DEF Drops
<1>2. /\ \A i \in DOMAIN w : i \in Nat /\ i + 1 \in DOMAIN u /\ w[i] = u[i + 1] /\ 1 < i + 1
      /\ \A j \in DOMAIN u : j \in Nat /\ (j # 1 => j - 1 \in DOMAIN w /\ w[j - 1] = u[j] /\ 1 < j)
      /\ 1 \in DOMAIN u
  BY <1>1
<1>3. ASSUME NEW C, NEW post, Lists(u, C, post)
      PROVE  \E k \in C : post[k] = x /\ Lists(w, C \ {k}, post) /\ \A c \in C \ {k} : k < c
  <2>1. PICK v : Numbers(v, u, post) /\ C = {v[i] : i \in DOMAIN u} \ {0}
    BY <1>3 DEF Lists
  <2>2. PICK k : k = v[1]
    OBVIOUS
  <2>3. k \in Nat \ {0} /\ k \in DOMAIN post /\ post[k] = x /\ k \in C
    BY <1>1, <1>2, <2>1, <2>2 DEF Numbers
  <2>4. \A j \in DOMAIN u : j # 1 /\ v[j] # 0 => k < v[j]
    BY <1>2, <2>1, <2>2, <2>3 DEF Numbers, Rising
  <2> DEFINE z == [i \in DOMAIN w |-> v[i + 1]]
  <2>5. z \in [DOMAIN w -> Nat] /\ \A i \in DOMAIN w : z[i] = v[i + 1]
    BY <1>2, <2>1 DEF Numbers
  <2> HIDE DEF z
  <2>6. Rising(z)
    BY <1>2, <2>1, <2>5 DEF Numbers, Rising
  <2>7. Numbers(z, w, post)
    BY <1>2, <2>1, <2>5, <2>6 DEF Numbers
  <2>8. \A j \in DOMAIN u : j # 1 => j - 1 \in DOMAIN w /\ z[j - 1] = v[j]
    BY <1>1, <1>2, <2>1, <2>5 DEF Numbers
  <2>9. \A i \in DOMAIN w : i + 1 \in DOMAIN u /\ i + 1 # 1 /\ z[i] = v[i + 1]
    BY <1>2, <2>5
  <2>10. \A c \in C \ {k} : k < c /\ \E i \in DOMAIN w : z[i] = c
    BY <2>1, <2>2, <2>4, <2>8
  <2>11. \A i \in DOMAIN w : z[i] # 0 => z[i] \in C \ {k}
    <3> SUFFICES ASSUME NEW i \in DOMAIN w, z[i] # 0 PROVE z[i] \in C \ {k}
      OBVIOUS
    <3>1. z[i] \in C /\ k < z[i] /\ z[i] \in Nat
      BY <2>1, <2>4, <2>5, <2>9
    <3>2. QED
      BY <2>3, <3>1
  <2>12. 0 \notin C
    BY <2>1
  <2>13. {z[i] : i \in DOMAIN w} \ {0} = C \ {k}
    BY <2>10, <2>11, <2>12
  <2>14. Lists(w, C \ {k}, post)
    BY <2>7, <2>13 DEF Lists
  <2>15. QED
    BY <2>3, <2>10, <2>14
<1>4. x \in Held(u)
  BY <1>1, <1>2 DEF Held
<1>5. ASSUME Once(u) PROVE Once(w) /\ Held(w) = Held(u) \ {x}
  <2>1. \A j \in DOMAIN u : j # 1 => x \notin u[j]
    BY <1>1, <1>2, <1>5 DEF Once
  <2>2. Once(w)
    BY <1>2, <1>5 DEF Once
  <2>3. ASSUME NEW y \in Held(w) PROVE y \in Held(u) \ {x}
    <3>1. PICK i \in DOMAIN w : y \in w[i]
      BY <2>3 DEF Held
    <3>2. i + 1 \in DOMAIN u /\ i + 1 # 1 /\ y \in u[i + 1]
      BY <1>2, <3>1
    <3>3. QED
      BY <2>1, <3>2 DEF Held
  <2>4. ASSUME NEW y \in Held(u), y # x PROVE y \in Held(w)
    <3>1. PICK j \in DOMAIN u : y \in u[j]
      BY <2>4 DEF Held
    <3>2. j # 1
      BY <1>1, <2>4, <3>1
    <3>3. QED
      BY <1>2, <3>1, <3>2 DEF Held
  <2>5. Held(w) = Held(u) \ {x}
    BY <2>3, <2>4
  <2>6. QED
    BY <2>2, <2>5
<1>6. QED
  BY <1>3, <1>4, <1>5 DEF Loses

(* Two changes, one after the other.                                         *)
LEMMA LaneTwice ==
  ASSUME NEW u, NEW w, NEW z
  PROVE  /\ Alike(u, w) /\ Alike(w, z) => Alike(u, z)
         /\ \A x : Alike(u, w) /\ Gains(w, z, x) => Gains(u, z, x)
         /\ \A x : Gains(u, w, x) /\ Alike(w, z) => Gains(u, z, x)
         /\ \A x : Loses(u, w, x) /\ Alike(w, z) => Loses(u, z, x)
<1>1. Alike(u, w) /\ Alike(w, z) => Alike(u, z)
  BY DEF Alike
<1>2. ASSUME NEW x, Alike(u, w), Gains(w, z, x) PROVE Gains(u, z, x)
  BY <1>2 DEF Alike, Gains
<1>3. ASSUME NEW x, Gains(u, w, x), Alike(w, z) PROVE Gains(u, z, x)
  BY <1>3 DEF Alike, Gains
<1>4. ASSUME NEW x, Loses(u, w, x), Alike(w, z) PROVE Loses(u, z, x)
  BY <1>4 DEF Alike, Loses
<1>5. QED
  BY <1>1, <1>2, <1>3, <1>4

(* A queue gets an element at its end, or loses its first.                   *)
LEMMA QueueMoves ==
  ASSUME NEW T, NEW q \in Seq(T)
  PROVE  /\ \A e : Adds(q, Append(q, e), e)
         /\ q # <<>> => Drops(q, Tail(q), Head(q))
<1>1. ASSUME NEW e PROVE Adds(q, Append(q, e), e)
  <2>1. PICK n \in Nat : n = Len(q) /\ DOMAIN q = 1 .. n
    OBVIOUS
  <2>2. DOMAIN Append(q, e) = 1 .. n + 1 /\ Append(q, e)[n + 1] = e /\ \A i \in 1 .. n : Append(q, e)[i] = q[i]
    BY <2>1
  <2>3. QED
    BY <2>1, <2>2 DEF Adds
<1>2. ASSUME q # <<>> PROVE Drops(q, Tail(q), Head(q))
  <2>1. PICK n \in Nat : n + 1 = Len(q) /\ DOMAIN q = 1 .. n + 1
    <3>1. Len(q) \in Nat /\ Len(q) # 0 /\ DOMAIN q = 1 .. Len(q)
      BY <1>2
    <3>2. Len(q) - 1 \in Nat /\ (Len(q) - 1) + 1 = Len(q)
      BY <3>1
    <3>3. QED
      BY <3>1, <3>2
  <2>2. DOMAIN Tail(q) = 1 .. n /\ Head(q) = q[1] /\ \A i \in 1 .. n : Tail(q)[i] = q[i + 1]
    BY <1>2, <2>1
  <2>3. QED
    BY <2>1, <2>2 DEF Drops
<1>3. QED
  BY <1>1, <1>2

(* Lanes in which no value is twice, and what they hold.                     *)
Separate(F) ==
  /\ \A p \in DOMAIN F : Once(F[p])
  /\ \A p, q \in DOMAIN F : p # q => Held(F[p]) \cap Held(F[q]) = {}
Total(F) == UNION {Held(F[p]) : p \in DOMAIN F}

(* Lanes that hold the same hold no value twice either.                     *)
LEMMA SeparateSame ==
  ASSUME NEW F, NEW G, DOMAIN G = DOMAIN F, Separate(F), \A p \in DOMAIN F : Alike(F[p], G[p])
  PROVE  Separate(G) /\ Total(G) = Total(F)
<1>1. \A p \in DOMAIN F : Held(G[p]) = Held(F[p]) /\ Once(G[p])
  BY DEF Separate, Alike
<1>2. QED
  BY <1>1 DEF Separate, Total

(* A lane gets a value that none has.                                        *)
LEMMA SeparateGain ==
  ASSUME NEW F, NEW G, DOMAIN G = DOMAIN F, Separate(F), NEW q \in DOMAIN F, NEW x, x \notin Total(F),
         Gains(F[q], G[q], x), \A p \in DOMAIN F \ {q} : Alike(F[p], G[p])
  PROVE  Separate(G) /\ Total(G) = Total(F) \cup {x}
<1>1. \A p \in DOMAIN F : x \notin Held(F[p])
  BY DEF Total
<1>2. \A p \in DOMAIN F \ {q} : Held(G[p]) = Held(F[p]) /\ Once(G[p])
  BY DEF Separate, Alike
<1>3. Held(G[q]) = Held(F[q]) \cup {x} /\ Once(G[q])
  BY <1>1 DEF Separate, Gains
<1>4. Separate(G)
  BY <1>1, <1>2, <1>3 DEF Separate
<1>5. Total(G) = Total(F) \cup {x}
  BY <1>2, <1>3 DEF Total
<1>6. QED
  BY <1>4, <1>5

(* A lane loses its first value.                                             *)
LEMMA SeparateLose ==
  ASSUME NEW F, NEW G, DOMAIN G = DOMAIN F, Separate(F), NEW q \in DOMAIN F, NEW x,
         Loses(F[q], G[q], x), \A p \in DOMAIN F \ {q} : Alike(F[p], G[p])
  PROVE  Separate(G) /\ x \in Total(F) /\ Total(G) = Total(F) \ {x}
<1>1. x \in Held(F[q]) /\ Held(G[q]) = Held(F[q]) \ {x} /\ Once(G[q])
  BY DEF Separate, Loses
<1>2. \A p \in DOMAIN F \ {q} : Held(G[p]) = Held(F[p]) /\ Once(G[p]) /\ x \notin Held(F[p])
  BY <1>1 DEF Separate, Alike
<1>3. Separate(G)
  BY <1>1, <1>2 DEF Separate
<1>4. \A p \in DOMAIN F : Held(G[p]) = Held(F[p]) \ {x}
  BY <1>1, <1>2
<1>5. Total(G) = Total(F) \ {x}
  BY <1>4 DEF Total
<1>6. QED
  BY <1>1, <1>3, <1>5 DEF Total

(* A value goes from the head of one lane to the end of another.             *)
LEMMA SeparateShift ==
  ASSUME NEW F, NEW G, DOMAIN G = DOMAIN F, Separate(F), NEW s \in DOMAIN F, NEW t \in DOMAIN F, s # t, NEW x,
         Loses(F[s], G[s], x), Gains(F[t], G[t], x), \A p \in DOMAIN F \ {s, t} : Alike(F[p], G[p])
  PROVE  Separate(G) /\ x \in Total(F) /\ Total(G) = Total(F)
<1> DEFINE H == [p \in DOMAIN F |-> IF p = t THEN F[t] ELSE G[p]]
<1>1. DOMAIN H = DOMAIN F /\ H[s] = G[s] /\ H[t] = F[t] /\ \A p \in DOMAIN F \ {t} : H[p] = G[p]
  OBVIOUS
<1> HIDE DEF H
<1>2. \A u : Alike(u, u)
  BY LaneSame
<1>3. Separate(H) /\ x \in Total(F) /\ Total(H) = Total(F) \ {x}
  <2>1. \A p \in DOMAIN F \ {s} : Alike(F[p], H[p])
    BY <1>1, <1>2
  <2>2. Loses(F[s], H[s], x)
    BY <1>1
  <2>3. QED
    BY <1>1, <2>1, <2>2, SeparateLose
<1>4. Separate(G) /\ Total(G) = Total(H) \cup {x}
  <2>1. \A p \in DOMAIN H \ {t} : Alike(H[p], G[p])
    BY <1>1, <1>2
  <2>2. Gains(H[t], G[t], x) /\ x \notin Total(H) /\ t \in DOMAIN H /\ DOMAIN G = DOMAIN H
    BY <1>1, <1>3
  <2>3. QED
    BY <1>3, <2>1, <2>2, SeparateGain
<1>5. QED
  BY <1>3, <1>4

----------------------------------------------------------------------------
(* The way of a message over a link has seven stages. Postings go through    *)
(* them in order: those of a later stage are earlier ones. All that are not  *)
(* delivered (of d) are in some stage, but for those that a broken link (b)  *)
(* does not carry, which are later than all that come after it.              *)
Missed(C, b, k) == b # {} /\ \A s \in 6 .. 7 : \A a \in C[s] : a < k
Flows(C, L, post, d, b) ==
  /\ C \in [1 .. 7 -> SUBSET Nat]
  /\ \A s \in 1 .. 7 : Lists(L[s], C[s], post)
  /\ \A s, t \in 1 .. 7 : t < s => \A a \in C[s], c \in C[t] : a < c
  /\ \A s \in 1 .. 7 : \A a \in C[s] : d < a
  /\ \A k \in DOMAIN post : d < k => (\E s \in 1 .. 7 : k \in C[s]) \/ Missed(C, b, k)
Flowing(L, post, d, b) == \E C : Flows(C, L, post, d, b)

(* Messages flow as they did when every stage lists the same postings.      *)
LEMMA FlowSame ==
  ASSUME NEW L, NEW M, NEW post, NEW d, NEW b, Flowing(L, post, d, b), \A s \in 1 .. 7 : Alike(L[s], M[s])
  PROVE  Flowing(M, post, d, b)
BY DEF Flowing, Flows, Alike

(* They flow as they did when a broken link stays broken.                   *)
LEMMA FlowFaults ==
  ASSUME NEW L, NEW post, NEW d, NEW b, Flowing(L, post, d, b), NEW c, b # {} => c # {}
  PROVE  Flowing(L, post, d, c)
BY DEF Flowing, Flows, Missed

(* Nothing has been posted.                                                  *)
LEMMA FlowEmpty ==
  ASSUME NEW L, NEW post, DOMAIN post = {}, NEW d, NEW b, \A s \in 1 .. 7 : DOMAIN L[s] = {}
  PROVE  Flowing(L, post, d, b)
<1> DEFINE C == [s \in 1 .. 7 |-> {}]
<1>1. \A s \in 1 .. 7 : Lists(L[s], {}, post)
  BY LaneEmpty
<1>2. Flows(C, L, post, d, b)
  BY <1>1 DEF Flows
<1>3. QED
  BY <1>2 DEF Flowing

(* A message is posted.                                                      *)
LEMMA FlowStart ==
  ASSUME NEW L, NEW M, NEW n \in Nat, NEW post, DOMAIN post = 1 .. n, NEW d \in Nat, d <= n, NEW b,
         Flowing(L, post, d, b), NEW x, NEW more, Adds(post, more, x),
         Gains(L[1], M[1], x), \A s \in 2 .. 7 : Alike(L[s], M[s])
  PROVE  Flowing(M, more, d, b)
<1>1. PICK C : Flows(C, L, post, d, b)
  BY DEF Flowing
<1>2. /\ DOMAIN more = 1 .. n + 1 /\ more[n + 1] = x
      /\ \A i \in DOMAIN post : i \in DOMAIN more /\ more[i] = post[i]
  <2>1. PICK h \in Nat : /\ DOMAIN post = 1 .. h /\ DOMAIN more = 1 .. h + 1
                         /\ more[h + 1] = x /\ \A i \in 1 .. h : more[i] = post[i]
    BY DEF Adds
  <2>2. h = n
    BY <2>1
  <2>3. QED
    BY <2>1, <2>2
<1>3. \A s \in 1 .. 7 : Lists(L[s], C[s], more) /\ \A a \in C[s] : a \in 1 .. n
  <2> SUFFICES ASSUME NEW s \in 1 .. 7 PROVE Lists(L[s], C[s], more) /\ \A a \in C[s] : a \in 1 .. n
    OBVIOUS
  <2>1. Lists(L[s], C[s], post)
    BY <1>1 DEF Flows
  <2>2. QED
    BY <1>2, <2>1, ListsMore, ListsNumbers
<1>4. PICK k \in Nat \ {0} : k = n + 1
  OBVIOUS
<1>5. k \in DOMAIN more /\ more[k] = x /\ d < k /\ \A s \in 1 .. 7 : \A a \in C[s] : a \in Nat /\ a < k
  BY <1>2, <1>3, <1>4
<1> DEFINE E == [s \in 1 .. 7 |-> IF s = 1 THEN C[1] \cup {k} ELSE C[s]]
<1>6. /\ E \in [1 .. 7 -> SUBSET Nat] /\ E[1] = C[1] \cup {k} /\ \A s \in 2 .. 7 : E[s] = C[s]
      /\ \A s \in 1 .. 7 : C[s] \subseteq E[s] /\ E[s] \subseteq C[s] \cup {k}
  BY <1>1, <1>4 DEF Flows
<1> HIDE DEF E
<1>7. \A s \in 1 .. 7 : Lists(M[s], E[s], more)
  <2> SUFFICES ASSUME NEW s \in 1 .. 7 PROVE Lists(M[s], E[s], more)
    OBVIOUS
  <2>1. CASE s = 1
    <3>1. Lists(M[1], C[1] \cup {k}, more)
      BY <1>3, <1>5 DEF Gains
    <3>2. QED
      BY <2>1, <3>1, <1>6
  <2>2. CASE s \in 2 .. 7
    <3>1. Lists(M[s], C[s], more)
      BY <2>2, <1>3 DEF Alike
    <3>2. QED
      BY <2>2, <3>1, <1>6
  <2>3. QED
    BY <2>1, <2>2
<1>8. \A s, t \in 1 .. 7 : t < s => \A a \in E[s], c \in E[t] : a < c
  <2> SUFFICES ASSUME NEW s \in 1 .. 7, NEW t \in 1 .. 7, t < s, NEW a \in E[s], NEW c \in E[t] PROVE a < c
    OBVIOUS
  <2>1. a \in C[s] /\ a < k
    <3>1. s \in 2 .. 7
      OBVIOUS
    <3>2. QED
      BY <3>1, <1>5, <1>6
  <2>2. c \in C[t] \/ c = k
    BY <1>6
  <2>3. QED
    BY <2>1, <2>2, <1>1 DEF Flows
<1>9. \A s \in 1 .. 7 : \A a \in E[s] : d < a
  BY <1>1, <1>5, <1>6 DEF Flows
<1>10. ASSUME NEW j \in DOMAIN more, d < j
       PROVE  (\E s \in 1 .. 7 : j \in E[s]) \/ Missed(E, b, j)
  <2>1. CASE j = k
    BY <2>1, <1>6
  <2>2. CASE j # k
    <3>1. j \in DOMAIN post
      BY <2>2, <1>2, <1>4
    <3>2. (\E s \in 1 .. 7 : j \in C[s]) \/ Missed(C, b, j)
      BY <3>1, <1>1, <1>10 DEF Flows
    <3>3. \A s \in 6 .. 7 : E[s] = C[s]
      BY <1>6
    <3>4. QED
      BY <3>2, <3>3, <1>6 DEF Missed
  <2>3. QED
    BY <2>1, <2>2
<1>11. Flows(E, M, more, d, b)
  BY <1>6, <1>7, <1>8, <1>9, <1>10 DEF Flows
<1>12. QED
  BY <1>11 DEF Flowing

(* The first message of a stage becomes the last of the next. On a broken    *)
(* link only those who take completions move messages.                       *)
LEMMA FlowMove ==
  ASSUME NEW L, NEW M, NEW post, NEW d \in Nat, NEW b, Flowing(L, post, d, b), NEW x,
         NEW f \in 1 .. 6, b = {} \/ f # 5,
         Loses(L[f], M[f], x), Gains(L[f + 1], M[f + 1], x), \A s \in 1 .. 7 \ {f, f + 1} : Alike(L[s], M[s])
  PROVE  Flowing(M, post, d, b)
<1>1. PICK C : Flows(C, L, post, d, b)
  BY DEF Flowing
<1>2. PICK g \in 2 .. 7 : g = f + 1
  OBVIOUS
<1>3. f \in 1 .. 7 /\ g \in 1 .. 7 /\ f < g /\ f # g /\ \A s \in 1 .. 7 : s # f /\ s # g => s < f \/ g < s
  BY <1>2
<1>4. PICK k \in C[f] : post[k] = x /\ Lists(M[f], C[f] \ {k}, post) /\ \A c \in C[f] \ {k} : k < c
  BY <1>1, <1>3 DEF Flows, Loses
<1>5. k \in Nat \ {0} /\ k \in DOMAIN post
  BY <1>1, <1>3, <1>4, ListsNumbers DEF Flows
<1>6. \A s \in 1 .. 7 : \A a \in C[s] : a \in Nat
  BY <1>1 DEF Flows
<1>7. /\ \A c \in C[g] : c < k
      /\ \A s \in 1 .. 7 : s < f => \A c \in C[s] : k < c
      /\ \A s \in 1 .. 7 : g < s => \A c \in C[s] : c < k
  BY <1>1, <1>3, <1>4 DEF Flows
<1>8. Lists(M[g], C[g] \cup {k}, post)
  BY <1>1, <1>2, <1>3, <1>4, <1>5, <1>7 DEF Flows, Gains
<1> DEFINE E == [s \in 1 .. 7 |-> IF s = f THEN C[f] \ {k} ELSE IF s = g THEN C[g] \cup {k} ELSE C[s]]
<1>9. /\ E \in [1 .. 7 -> SUBSET Nat] /\ E[f] = C[f] \ {k} /\ E[g] = C[g] \cup {k}
      /\ \A s \in 1 .. 7 : s # f /\ s # g => E[s] = C[s]
  BY <1>1, <1>3, <1>5 DEF Flows
<1> HIDE DEF E
<1>10. \A s \in 1 .. 7 : Lists(M[s], E[s], post)
  <2> SUFFICES ASSUME NEW s \in 1 .. 7 PROVE Lists(M[s], E[s], post)
    OBVIOUS
  <2>1. CASE s = f
    BY <2>1, <1>4, <1>9
  <2>2. CASE s = g
    BY <2>2, <1>8, <1>9
  <2>3. CASE s # f /\ s # g
    BY <2>3, <1>1, <1>2, <1>9 DEF Flows, Alike
  <2>4. QED
    BY <2>1, <2>2, <2>3
<1>11. \A s, t \in 1 .. 7 : t < s => \A a \in E[s], c \in E[t] : a < c
  <2> SUFFICES ASSUME NEW s \in 1 .. 7, NEW t \in 1 .. 7, t < s, NEW a \in E[s], NEW c \in E[t] PROVE a < c
    OBVIOUS
  <2>1. a \in C[s] \/ (s = g /\ a = k)
    BY <1>9
  <2>2. (c \in C[t] /\ ~ (t = f /\ c = k)) \/ (t = g /\ c = k)
    BY <1>3, <1>9
  <2>3. CASE a \in C[s] /\ c \in C[t]
    BY <2>3, <1>1 DEF Flows
  <2>4. CASE s = g /\ a = k /\ c \in C[t] /\ ~ (t = f /\ c = k)
    <3>1. t = f \/ t < f
      BY <2>4, <1>3
    <3>2. QED
      BY <2>4, <3>1, <1>4, <1>7
  <2>5. CASE t = g /\ c = k /\ a \in C[s]
    BY <2>5, <1>7
  <2>6. CASE s = g /\ t = g
    BY <2>6
  <2>7. QED
    BY <2>1, <2>2, <2>3, <2>4, <2>5, <2>6
<1>12. \A s \in 1 .. 7 : \A a \in E[s] : d < a
  BY <1>1, <1>3, <1>4, <1>9 DEF Flows
<1>13. ASSUME NEW j \in DOMAIN post, d < j
       PROVE  (\E s \in 1 .. 7 : j \in E[s]) \/ Missed(E, b, j)
  <2>1. CASE j = k
    BY <2>1, <1>3, <1>9
  <2>2. CASE j # k /\ \E s \in 1 .. 7 : j \in C[s]
    <3>1. PICK s \in 1 .. 7 : j \in C[s]
      BY <2>2
    <3>2. j \in E[s]
      BY <2>2, <3>1, <1>9
    <3>3. QED
      BY <3>2
  <2>3. CASE Missed(C, b, j)
    <3>1. \A s \in 6 .. 7 : \A a \in E[s] : a \in C[6] \cup C[7]
      <4> SUFFICES ASSUME NEW s \in 6 .. 7, NEW a \in E[s] PROVE a \in C[6] \cup C[7]
        OBVIOUS
      <4>1. s \in 1 .. 7 /\ (s = 6 \/ s = 7) /\ f # 5
        BY <2>3 DEF Missed
      <4>2. a \in C[s] \/ (s = g /\ a = k)
        BY <4>1, <1>9
      <4>3. s = g => f = 6
        BY <4>1, <1>2
      <4>4. QED
        BY <4>1, <4>2, <4>3
    <3>2. \A a \in C[6] \cup C[7] : a < j
      BY <2>3 DEF Missed
    <3>3. QED
      BY <2>3, <3>1, <3>2 DEF Missed
  <2>4. QED
    BY <2>1, <2>2, <2>3, <1>1, <1>13 DEF Flows
<1>14. Flows(E, M, post, d, b)
  BY <1>9, <1>10, <1>11, <1>12, <1>13 DEF Flows
<1>15. QED
  BY <1>14 DEF Flowing

(* A message leaves the last stage: the next to be delivered.                *)
LEMMA FlowEnd ==
  ASSUME NEW L, NEW M, NEW n \in Nat, NEW post, DOMAIN post = 1 .. n, NEW d \in Nat, NEW b,
         Flowing(L, post, d, b), NEW x, Loses(L[7], M[7], x), \A s \in 1 .. 6 : Alike(L[s], M[s])
  PROVE  d + 1 \in DOMAIN post /\ post[d + 1] = x /\ Flowing(M, post, d + 1, b)
<1>1. PICK C : Flows(C, L, post, d, b)
  BY DEF Flowing
<1>a. Lists(L[7], C[7], post)
  BY <1>1 DEF Flows
<1>b. \A A, p : Lists(L[7], A, p) =>
        \E k \in A : p[k] = x /\ Lists(M[7], A \ {k}, p) /\ \A c \in A \ {k} : k < c
  BY Loses(L[7], M[7], x) DEF Loses
<1>2. PICK k \in C[7] : post[k] = x /\ Lists(M[7], C[7] \ {k}, post) /\ \A c \in C[7] \ {k} : k < c
  BY <1>a, <1>b
<1>3. k \in Nat \ {0} /\ k \in DOMAIN post /\ d < k
  BY <1>1, <1>2, ListsNumbers DEF Flows
<1>4. PICK e \in Nat : e = d + 1
  OBVIOUS
<1>5. e \in DOMAIN post /\ d < e /\ e <= k
  BY <1>3, <1>4
<1>6. \A s \in 1 .. 7 : \A a \in C[s] : a \in Nat
  BY <1>1 DEF Flows
<1>7. k = e
  <2>1. CASE \E s \in 1 .. 7 : e \in C[s]
    <3>1. PICK s \in 1 .. 7 : e \in C[s]
      BY <2>1
    <3>2. CASE s = 7
      BY <3>1, <3>2, <1>2, <1>5, <1>3
    <3>3. CASE s < 7
      <4>1. k < e
        BY <3>1, <3>3, <1>1, <1>2 DEF Flows
      <4>2. QED
        BY <4>1, <1>3, <1>5
    <3>4. QED
      BY <3>2, <3>3
  <2>2. CASE Missed(C, b, e)
    BY <2>2, <1>2, <1>3, <1>5 DEF Missed
  <2>3. QED
    BY <2>1, <2>2, <1>1, <1>5 DEF Flows
<1> DEFINE E == [s \in 1 .. 7 |-> IF s = 7 THEN C[7] \ {k} ELSE C[s]]
<1>8. /\ E \in [1 .. 7 -> SUBSET Nat] /\ E[7] = C[7] \ {k} /\ \A s \in 1 .. 6 : E[s] = C[s]
      /\ \A s \in 1 .. 7 : E[s] \subseteq C[s] /\ C[s] \subseteq E[s] \cup {k}
  BY <1>1 DEF Flows
<1> HIDE DEF E
<1>9. \A s \in 1 .. 7 : Lists(M[s], E[s], post)
  <2> SUFFICES ASSUME NEW s \in 1 .. 7 PROVE Lists(M[s], E[s], post)
    OBVIOUS
  <2>1. CASE s = 7
    BY <2>1, <1>2, <1>8
  <2>2. CASE s \in 1 .. 6
    BY <2>2, <1>1, <1>8 DEF Flows, Alike
  <2>3. QED
    BY <2>1, <2>2
<1>10. \A s, t \in 1 .. 7 : t < s => \A a \in E[s], c \in E[t] : a < c
  BY <1>1, <1>8 DEF Flows
<1>11. \A s \in 1 .. 7 : \A a \in E[s] : e < a
  <2> SUFFICES ASSUME NEW s \in 1 .. 7, NEW a \in E[s] PROVE e < a
    OBVIOUS
  <2>1. CASE s = 7
    BY <2>1, <1>2, <1>7, <1>8
  <2>2. CASE s \in 1 .. 6
    <3>1. s < 7 /\ a \in C[s]
      BY <2>2, <1>8
    <3>2. QED
      BY <3>1, <1>1, <1>2, <1>7 DEF Flows
  <2>3. QED
    BY <2>1, <2>2
<1>12. ASSUME NEW j \in DOMAIN post, e < j
       PROVE  (\E s \in 1 .. 7 : j \in E[s]) \/ Missed(E, b, j)
  <2>1. d < j /\ j # k
    BY <1>4, <1>7, <1>12
  <2>2. CASE \E s \in 1 .. 7 : j \in C[s]
    BY <2>1, <2>2, <1>8
  <2>3. CASE Missed(C, b, j)
    BY <2>3, <1>8 DEF Missed
  <2>4. QED
    BY <2>1, <2>2, <2>3, <1>1 DEF Flows
<1>13. Flows(E, M, post, e, b)
  BY <1>8, <1>9, <1>10, <1>11, <1>12 DEF Flows
<1>14. QED
  BY <1>2, <1>4, <1>5, <1>7, <1>13 DEF Flowing

(* A write fails: its message is the first that the link does not carry.     *)
LEMMA FlowBreak ==
  ASSUME NEW L, NEW M, NEW post, NEW d \in Nat, NEW b, b = {}, NEW c, c # {},
         Flowing(L, post, d, b), NEW x, Loses(L[5], M[5], x), \A s \in 1 .. 7 \ {5} : Alike(L[s], M[s])
  PROVE  Flowing(M, post, d, c)
<1>1. PICK C : Flows(C, L, post, d, b)
  BY DEF Flowing
<1>2. PICK k \in C[5] : post[k] = x /\ Lists(M[5], C[5] \ {k}, post) /\ \A j \in C[5] \ {k} : k < j
  BY <1>1 DEF Flows, Loses
<1> DEFINE E == [s \in 1 .. 7 |-> IF s = 5 THEN C[5] \ {k} ELSE C[s]]
<1>3. /\ E \in [1 .. 7 -> SUBSET Nat] /\ E[5] = C[5] \ {k} /\ \A s \in 1 .. 7 \ {5} : E[s] = C[s]
      /\ \A s \in 1 .. 7 : E[s] \subseteq C[s] /\ C[s] \subseteq E[s] \cup {k}
  BY <1>1 DEF Flows
<1> HIDE DEF E
<1>4. \A s \in 1 .. 7 : Lists(M[s], E[s], post)
  <2> SUFFICES ASSUME NEW s \in 1 .. 7 PROVE Lists(M[s], E[s], post)
    OBVIOUS
  <2>1. CASE s = 5
    BY <2>1, <1>2, <1>3
  <2>2. CASE s # 5
    BY <2>2, <1>1, <1>3 DEF Flows, Alike
  <2>3. QED
    BY <2>1, <2>2
<1>5. Missed(E, c, k)
  <2>1. \A s \in 6 .. 7 : 5 < s /\ s \in 1 .. 7 /\ E[s] \subseteq C[s]
    BY <1>3
  <2>2. QED
    BY <2>1, <1>1, <1>2 DEF Missed, Flows
<1>6. ASSUME NEW j \in DOMAIN post, d < j
      PROVE  (\E s \in 1 .. 7 : j \in E[s]) \/ Missed(E, c, j)
  <2>1. PICK s \in 1 .. 7 : j \in C[s]
    BY <1>1, <1>6 DEF Flows, Missed
  <2>2. QED
    BY <2>1, <1>3, <1>5
<1>7. Flows(E, M, post, d, c)
  BY <1>1, <1>3, <1>4, <1>6 DEF Flows
<1>8. QED
  BY <1>7 DEF Flowing

----------------------------------------------------------------------------
(* The lanes of a link l.  Stages, of its messages: 1 on a start work         *)
(* request, 2 on its completion at the target, 3 on a reply, 4 on its        *)
(* completion at the source, 5 on a write, 6 on its completion at the        *)
(* target, 7 in a buffer queued for RecvMsg.  Entries of the target's table, *)
(* named by 13 a reply, 14 its completion, 15 a write, 16 its completion.    *)
(* Reply contexts: 21 free, 22 on a work request, 23 on its completion.      *)
(* Start contexts: 31 to 33 likewise.  Some elements name what they stand    *)
(* for by a place of a buffer or table x.                                    *)
Stages == 1 .. 7
Entries == 13 .. 16
Answers == 21 .. 23
Starts == 31 .. 33
Lanes == Stages \cup Entries \cup Answers \cup Starts
If(c, x) == IF c THEN {x} ELSE {}
Val(k, l, e, x) ==
  CASE k = 1 -> If(e.op = "start", x[e.ctx])
    [] k = 2 -> If(e.op = "recv start" /\ e.link = l, e.msg)
    [] k = 3 -> {x[e.ctx].msg}
    [] k = 4 -> If(e.op = "recv reply" /\ e.link = l, e.reply.msg)
    [] k = 5 -> If(e.op = "write", e.msg)
    [] k = 6 -> If(e.op = "written" /\ e.link = l, x[e.idx].msg)
    [] k = 7 -> If(e.link = l, e.ctx.msg)
    [] k = 13 -> {<<x[e.ctx].idx, x[e.ctx].to, x[e.ctx].msg>>}
    [] k = 14 -> If(e.op = "recv reply" /\ e.link = l, <<e.reply.idx, e.reply.to, e.reply.msg>>)
    [] k = 15 -> If(e.op = "write", <<e.idx, e.to, e.msg>>)
    [] k = 16 -> If(e.op = "written" /\ e.link = l, <<e.idx, x[e.idx].addr, x[e.idx].msg>>)
    [] k = 21 -> {e}
    [] k = 22 -> {e.ctx}
    [] k = 23 -> If(e.op = "sent reply" /\ e.link = l, e.ctx)
    [] k = 31 -> {e}
    [] k = 32 -> If(e.op = "start", e.ctx)
    [] k = 33 -> If(e.op = "sent start" /\ e.link = l, e.ctx)
Lane(k, l, q, x) == [i \in DOMAIN q |-> Val(k, l, q[i], x)]

(* The queue of a lane, and what its elements are looked up in.              *)
OutLanes == {1, 5, 15, 32}
IncLanes == {3, 13, 22}
SrcLanes == {4, 14, 33}
DstLanes == {2, 6, 16, 23}
OfLane(k, sq, back, src, dst, recv, start, reply) ==
  CASE k \in OutLanes -> sq [] k \in IncLanes -> back [] k \in SrcLanes -> src [] k \in DstLanes -> dst
    [] k = 7 -> recv [] k = 31 -> start [] k = 21 -> reply
InLane(k, startBuf, replyBuf, table) ==
  IF k = 1 THEN startBuf ELSE IF k \in {3, 13} THEN replyBuf ELSE IF k \in {6, 16} THEN table ELSE <<>>

(* Each lane is read from one queue.                                        *)
LEMMA LaneQueues ==
  ASSUME NEW k \in Lanes, NEW sq, NEW back, NEW src, NEW dst, NEW recv, NEW start, NEW reply
  PROVE  /\ k \in OutLanes => OfLane(k, sq, back, src, dst, recv, start, reply) = sq
         /\ k \in IncLanes => OfLane(k, sq, back, src, dst, recv, start, reply) = back
         /\ k \in SrcLanes => OfLane(k, sq, back, src, dst, recv, start, reply) = src
         /\ k \in DstLanes => OfLane(k, sq, back, src, dst, recv, start, reply) = dst
         /\ k = 7 => OfLane(k, sq, back, src, dst, recv, start, reply) = recv
         /\ k = 31 => OfLane(k, sq, back, src, dst, recv, start, reply) = start
         /\ k = 21 => OfLane(k, sq, back, src, dst, recv, start, reply) = reply
         /\ k \in OutLanes \cup IncLanes \cup SrcLanes \cup DstLanes \cup {7, 31, 21}
BY DEF Lanes, Stages, Entries, Answers, Starts, OutLanes, IncLanes, SrcLanes, DstLanes, OfLane

(* A lane of a queue that gets an element, or loses its first one: what     *)
(* changes is the value of that element.                                    *)
LEMMA LaneMoves ==
  ASSUME NEW k, NEW l, NEW T, NEW q \in Seq(T), NEW x
  PROVE  /\ \A e : /\ Val(k, l, e, x) = {} => Alike(Lane(k, l, q, x), Lane(k, l, Append(q, e), x))
                   /\ \A v : Val(k, l, e, x) = {v} => Gains(Lane(k, l, q, x), Lane(k, l, Append(q, e), x), v)
         /\ q # <<>> =>
              /\ Val(k, l, Head(q), x) = {} => Alike(Lane(k, l, q, x), Lane(k, l, Tail(q), x))
              /\ \A v : Val(k, l, Head(q), x) = {v} => Loses(Lane(k, l, q, x), Lane(k, l, Tail(q), x), v)
<1>1. ASSUME NEW e PROVE Adds(Lane(k, l, q, x), Lane(k, l, Append(q, e), x), Val(k, l, e, x))
  <2>1. PICK n \in Nat : /\ DOMAIN q = 1 .. n /\ DOMAIN Append(q, e) = 1 .. n + 1
                         /\ Append(q, e)[n + 1] = e /\ \A i \in 1 .. n : Append(q, e)[i] = q[i]
    BY QueueMoves DEF Adds
  <2>2. n + 1 \in 1 .. n + 1 /\ \A i \in 1 .. n : i \in 1 .. n + 1
    OBVIOUS
  <2>3. QED
    BY <2>1, <2>2 DEF Adds, Lane
<1>2. ASSUME q # <<>> PROVE Drops(Lane(k, l, q, x), Lane(k, l, Tail(q), x), Val(k, l, Head(q), x))
  <2>1. PICK n \in Nat : /\ DOMAIN q = 1 .. n + 1 /\ DOMAIN Tail(q) = 1 .. n
                         /\ q[1] = Head(q) /\ \A i \in 1 .. n : Tail(q)[i] = q[i + 1]
    BY <1>2, QueueMoves DEF Drops
  <2>2. 1 \in 1 .. n + 1 /\ \A i \in 1 .. n : i + 1 \in 1 .. n + 1
    OBVIOUS
  <2>3. QED
    BY <2>1, <2>2 DEF Drops, Lane
<1>3. QED
  BY <1>1, <1>2, LaneAddsNone, LaneAddsOne, LaneDropsNone, LaneDropsOne

(* A lane changes with the places its elements name only where they are     *)
(* looked up.                                                               *)
LEMMA LaneLooks ==
  ASSUME NEW k, NEW l, NEW q, NEW x, NEW y, \A i \in DOMAIN q : Val(k, l, q[i], y) = Val(k, l, q[i], x)
  PROVE  Alike(Lane(k, l, q, x), Lane(k, l, q, y))
<1>1. /\ DOMAIN Lane(k, l, q, x) = DOMAIN q /\ DOMAIN Lane(k, l, q, y) = DOMAIN q
      /\ \A i \in DOMAIN q : Lane(k, l, q, x)[i] = Val(k, l, q[i], x) /\ Lane(k, l, q, y)[i] = Val(k, l, q[i], y)
  BY DEF Lane
<1>2. QED
  BY <1>1, LaneSame

(* Which elements are of which lane.                                         *)
LEMMA LaneKinds ==
  /\ \A k \in OutLanes : k \in Lanes /\ k \notin {3, 13, 6, 16} /\ k \notin IncLanes /\ k \notin SrcLanes /\ k \notin DstLanes
  /\ \A k \in IncLanes : k \in Lanes /\ k \notin {1, 6, 16} /\ k \notin OutLanes /\ k \notin SrcLanes /\ k \notin DstLanes
  /\ \A k \in SrcLanes : k \in Lanes /\ k \notin {1, 3, 13, 6, 16} /\ k \notin OutLanes /\ k \notin IncLanes /\ k \notin DstLanes
  /\ \A k \in DstLanes : k \in Lanes /\ k \notin {1, 3, 13} /\ k \notin OutLanes /\ k \notin IncLanes /\ k \notin SrcLanes
<1>1. \A k \in OutLanes : k \in Lanes /\ k \notin {3, 13, 6, 16} /\ k \notin IncLanes /\ k \notin SrcLanes /\ k \notin DstLanes
  BY DEF OutLanes, IncLanes, SrcLanes, DstLanes, Lanes, Stages, Entries, Answers, Starts
<1>2. \A k \in IncLanes : k \in Lanes /\ k \notin {1, 6, 16} /\ k \notin OutLanes /\ k \notin SrcLanes /\ k \notin DstLanes
  BY DEF OutLanes, IncLanes, SrcLanes, DstLanes, Lanes, Stages, Entries, Answers, Starts
<1>3. \A k \in SrcLanes : k \in Lanes /\ k \notin {1, 3, 13, 6, 16} /\ k \notin OutLanes /\ k \notin IncLanes /\ k \notin DstLanes
  BY DEF OutLanes, IncLanes, SrcLanes, DstLanes, Lanes, Stages, Entries, Answers, Starts
<1>4. \A k \in DstLanes : k \in Lanes /\ k \notin {1, 3, 13} /\ k \notin OutLanes /\ k \notin IncLanes /\ k \notin SrcLanes
  BY DEF OutLanes, IncLanes, SrcLanes, DstLanes, Lanes, Stages, Entries, Answers, Starts
<1>5. QED
  BY <1>1, <1>2, <1>3, <1>4

(* The values of work requests, of free contexts and of posted buffers.     *)
LEMMA ValuesOut ==
  ASSUME NEW l, NEW e, NEW x
  PROVE  /\ e.op = "start" => /\ Val(1, l, e, x) = {x[e.ctx]} /\ Val(5, l, e, x) = {}
                              /\ Val(15, l, e, x) = {} /\ Val(32, l, e, x) = {e.ctx}
         /\ e.op = "write" => /\ Val(1, l, e, x) = {} /\ Val(5, l, e, x) = {e.msg}
                              /\ Val(15, l, e, x) = {<<e.idx, e.to, e.msg>>} /\ Val(32, l, e, x) = {}
         /\ Val(3, l, e, x) = {x[e.ctx].msg} /\ Val(22, l, e, x) = {e.ctx}
         /\ Val(13, l, e, x) = {<<x[e.ctx].idx, x[e.ctx].to, x[e.ctx].msg>>}
         /\ Val(21, l, e, x) = {e} /\ Val(31, l, e, x) = {e}
         /\ Val(7, l, e, x) = If(e.link = l, e.ctx.msg)
BY DEF Val, If

(* The values of the completions that the source of a link gets.            *)
LEMMA ValuesSrc ==
  ASSUME NEW l, NEW e, NEW x, NEW k \in SrcLanes
  PROVE  /\ e.link # l \/ e.op \notin {"recv reply", "sent start"} => Val(k, l, e, x) = {}
         /\ e.link = l /\ e.op = "recv reply" =>
              Val(k, l, e, x) = IF k = 4 THEN {e.reply.msg}
                                ELSE IF k = 14 THEN {<<e.reply.idx, e.reply.to, e.reply.msg>>} ELSE {}
         /\ e.link = l /\ e.op = "sent start" => Val(k, l, e, x) = IF k = 33 THEN {e.ctx} ELSE {}
<1>1. k = 4 \/ k = 14 \/ k = 33
  BY DEF SrcLanes
<1>2. /\ Val(4, l, e, x) = If(e.op = "recv reply" /\ e.link = l, e.reply.msg)
      /\ Val(14, l, e, x) = If(e.op = "recv reply" /\ e.link = l, <<e.reply.idx, e.reply.to, e.reply.msg>>)
      /\ Val(33, l, e, x) = If(e.op = "sent start" /\ e.link = l, e.ctx)
  BY DEF Val
<1>3. CASE k = 4
  BY <1>2, <1>3 DEF If
<1>4. CASE k = 14
  BY <1>2, <1>4 DEF If
<1>5. CASE k = 33
  BY <1>2, <1>5 DEF If
<1>6. QED
  BY <1>1, <1>3, <1>4, <1>5

(* The values of the completions that its target gets.                      *)
LEMMA ValuesDst ==
  ASSUME NEW l, NEW e, NEW x, NEW k \in DstLanes
  PROVE  /\ e.link # l \/ e.op \notin {"recv start", "written", "sent reply"} => Val(k, l, e, x) = {}
         /\ e.link = l /\ e.op = "recv start" => Val(k, l, e, x) = IF k = 2 THEN {e.msg} ELSE {}
         /\ e.link = l /\ e.op = "sent reply" => Val(k, l, e, x) = IF k = 23 THEN {e.ctx} ELSE {}
         /\ e.link = l /\ e.op = "written" =>
              Val(k, l, e, x) = IF k = 6 THEN {x[e.idx].msg}
                                ELSE IF k = 16 THEN {<<e.idx, x[e.idx].addr, x[e.idx].msg>>} ELSE {}
         /\ \A y : (k \in {6, 16} /\ e.op = "written" => y[e.idx] = x[e.idx]) => Val(k, l, e, y) = Val(k, l, e, x)
<1>1. k = 2 \/ k = 6 \/ k = 16 \/ k = 23
  BY DEF DstLanes
<1>2. \A y : /\ Val(2, l, e, y) = If(e.op = "recv start" /\ e.link = l, e.msg)
             /\ Val(6, l, e, y) = If(e.op = "written" /\ e.link = l, y[e.idx].msg)
             /\ Val(16, l, e, y) = If(e.op = "written" /\ e.link = l, <<e.idx, y[e.idx].addr, y[e.idx].msg>>)
             /\ Val(23, l, e, y) = If(e.op = "sent reply" /\ e.link = l, e.ctx)
  BY DEF Val
<1>3. CASE k = 2
  BY <1>2, <1>3 DEF If
<1>4. CASE k = 6
  BY <1>2, <1>4 DEF If
<1>5. CASE k = 16
  BY <1>2, <1>5 DEF If
<1>6. CASE k = 23
  BY <1>2, <1>6 DEF If
<1>7. QED
  BY <1>1, <1>3, <1>4, <1>5, <1>6

(* Work requests look up the context they name, and no other.               *)
LEMMA ValuesLook ==
  ASSUME NEW l, NEW e, NEW x, NEW y
  PROVE  /\ (e.op = "start" => y[e.ctx] = x[e.ctx]) => Val(1, l, e, y) = Val(1, l, e, x)
         /\ y[e.ctx] = x[e.ctx] => Val(3, l, e, y) = Val(3, l, e, x) /\ Val(13, l, e, y) = Val(13, l, e, x)
<1>1. \A z : /\ Val(1, l, e, z) = If(e.op = "start", z[e.ctx]) /\ Val(3, l, e, z) = {z[e.ctx].msg}
             /\ Val(13, l, e, z) = {<<z[e.ctx].idx, z[e.ctx].to, z[e.ctx].msg>>}
  BY DEF Val
<1>2. QED
  BY <1>1 DEF If

Unchanged(k, e, x, y) == k \in {6, 16} /\ e.op = "written" => y[e.idx] = x[e.idx]
(* A completion keeps its value when the table keeps the entry it names.    *)
LEMMA ValuesWritten ==
  ASSUME NEW l, NEW e, NEW x, NEW y, NEW k \in DstLanes, Unchanged(k, e, x, y)
  PROVE  Val(k, l, e, y) = Val(k, l, e, x)
<1>1. k \in {6, 16} /\ e.op = "written" => y[e.idx] = x[e.idx]
  BY DEF Unchanged
<1>2. CASE k = 6
  BY <1>1, <1>2 DEF Val, If
<1>3. CASE k = 16
  BY <1>1, <1>3 DEF Val, If
<1>4. CASE k = 2
  BY <1>4 DEF Val
<1>5. CASE k = 23
  BY <1>5 DEF Val
<1>6. QED
  BY <1>2, <1>3, <1>4, <1>5 DEF DstLanes

(* What a queue keeps when it changes at one end.                            *)
LEMMA AddsHolds ==
  ASSUME NEW u, NEW w, NEW x, Adds(u, w, x)
  PROVE  \A i \in DOMAIN u : i \in DOMAIN w /\ w[i] = u[i]
BY DEF Adds

(* What a sequence keeps when its first element is taken.                   *)
LEMMA DropsHolds ==
  ASSUME NEW u, NEW w, NEW x, Drops(u, w, x)
  PROVE  \A i \in DOMAIN u : u[i] = x \/ \E j \in DOMAIN w : w[j] = u[i]
<1>1. PICK n \in Nat : /\ DOMAIN u = 1 .. n + 1 /\ DOMAIN w = 1 .. n
                       /\ u[1] = x /\ \A i \in 1 .. n : w[i] = u[i + 1]
  BY DEF Drops
<1>2. ASSUME NEW i \in 1 .. n + 1, i # 1 PROVE \E j \in DOMAIN w : w[j] = u[i]
  <2>1. PICK j : j = i - 1
    OBVIOUS
  <2>2. j \in 1 .. n /\ j + 1 = i
    BY <1>2, <2>1
  <2>3. QED
    BY <1>1, <2>2
<1>3. QED
  BY <1>1, <1>2

(* The values of a completion, lane by lane.                                 *)
LEMMA ValuesEach ==
  ASSUME NEW l, NEW e, e.link = l
  PROVE  /\ e.op = "recv start" => \A x : Val(2, l, e, x) = {e.msg} /\ Val(6, l, e, x) = {} /\ Val(16, l, e, x) = {}
                                          /\ Val(23, l, e, x) = {}
         /\ e.op = "sent reply" => \A x : Val(2, l, e, x) = {} /\ Val(6, l, e, x) = {} /\ Val(16, l, e, x) = {}
                                          /\ Val(23, l, e, x) = {e.ctx}
         /\ e.op = "written" =>
              \A x : /\ Val(2, l, e, x) = {} /\ Val(6, l, e, x) = {x[e.idx].msg}
                     /\ Val(16, l, e, x) = {<<e.idx, x[e.idx].addr, x[e.idx].msg>>} /\ Val(23, l, e, x) = {}
         /\ e.op = "sent start" => \A x : Val(4, l, e, x) = {} /\ Val(14, l, e, x) = {} /\ Val(33, l, e, x) = {e.ctx}
         /\ e.op = "recv reply" =>
              \A x : /\ Val(4, l, e, x) = {e.reply.msg}
                     /\ Val(14, l, e, x) = {<<e.reply.idx, e.reply.to, e.reply.msg>>} /\ Val(33, l, e, x) = {}
<1>1. \A x : /\ Val(2, l, e, x) = If(e.op = "recv start" /\ e.link = l, e.msg)
             /\ Val(6, l, e, x) = If(e.op = "written" /\ e.link = l, x[e.idx].msg)
             /\ Val(16, l, e, x) = If(e.op = "written" /\ e.link = l, <<e.idx, x[e.idx].addr, x[e.idx].msg>>)
             /\ Val(23, l, e, x) = If(e.op = "sent reply" /\ e.link = l, e.ctx)
  BY DEF Val
<1>2. \A x : /\ Val(4, l, e, x) = If(e.op = "recv reply" /\ e.link = l, e.reply.msg)
             /\ Val(14, l, e, x) = If(e.op = "recv reply" /\ e.link = l, <<e.reply.idx, e.reply.to, e.reply.msg>>)
             /\ Val(33, l, e, x) = If(e.op = "sent start" /\ e.link = l, e.ctx)
  BY DEF Val
<1>3. CASE e.op = "recv start"
  BY <1>1, <1>3 DEF If
<1>4. CASE e.op = "sent reply"
  BY <1>1, <1>4 DEF If
<1>5. CASE e.op = "written"
  BY <1>1, <1>5 DEF If
<1>6. CASE e.op = "sent start"
  BY <1>2, <1>6 DEF If
<1>7. CASE e.op = "recv reply"
  BY <1>2, <1>7 DEF If
<1>8. QED
  BY <1>3, <1>4, <1>5, <1>6, <1>7

(* The values of a completed write at the target.                           *)
LEMMA ValuesWrite ==
  ASSUME NEW l, NEW e, e.link = l, e.op = "written", NEW x,
         NEW i, NEW a, NEW m, i = e.idx, a = x[e.idx].addr, m = x[e.idx].msg
  PROVE  Val(2, l, e, x) = {} /\ Val(6, l, e, x) = {m} /\ Val(16, l, e, x) = {<<i, a, m>>} /\ Val(23, l, e, x) = {}
<1>1. Val(2, l, e, x) = {}
  BY DEF Val, If
<1>2. Val(6, l, e, x) = {m}
  BY DEF Val, If
<1>3. Val(16, l, e, x) = {<<i, a, m>>}
  BY DEF Val, If
<1>4. Val(23, l, e, x) = {}
  BY DEF Val, If
<1>5. QED
  BY <1>1, <1>2, <1>3, <1>4

(* When a completion at the source has a value.                             *)
LEMMA ValuesOfReplies ==
  ASSUME NEW l, NEW e, NEW x
  PROVE  /\ Val(4, l, e, x) = If(e.op = "recv reply" /\ e.link = l, e.reply.msg)
         /\ Val(14, l, e, x) = If(e.op = "recv reply" /\ e.link = l, <<e.reply.idx, e.reply.to, e.reply.msg>>)
         /\ Val(33, l, e, x) = If(e.op = "sent start" /\ e.link = l, e.ctx)
BY DEF Val

IsReply(l, e, r) == e.link = l /\ e.op = "recv reply" /\ r = e.reply
(* The values of a reply at the source.                                     *)
LEMMA ValuesReply ==
  ASSUME NEW l, NEW e, NEW x, NEW r, IsReply(l, e, r)
  PROVE  Val(4, l, e, x) = {r.msg} /\ Val(14, l, e, x) = {<<r.idx, r.to, r.msg>>} /\ Val(33, l, e, x) = {}
<1> USE DEF IsReply
<1>1. PICK p, v, c : p = e.reply.msg /\ v = <<e.reply.idx, e.reply.to, e.reply.msg>> /\ c = e.ctx
  OBVIOUS
<1>2. /\ Val(4, l, e, x) = If(e.op = "recv reply" /\ e.link = l, p)
      /\ Val(14, l, e, x) = If(e.op = "recv reply" /\ e.link = l, v)
      /\ Val(33, l, e, x) = If(e.op = "sent start" /\ e.link = l, c)
  BY <1>1, ValuesOfReplies
<1>3. Val(4, l, e, x) = {p} /\ Val(14, l, e, x) = {v} /\ Val(33, l, e, x) = {}
  BY <1>2 DEF If
<1>4. QED
  BY <1>1, <1>3

(* When a completion at the target has a value.                             *)
LEMMA ValuesOfArrivals ==
  ASSUME NEW l, NEW e, NEW x
  PROVE  /\ Val(2, l, e, x) = If(e.op = "recv start" /\ e.link = l, e.msg)
         /\ Val(6, l, e, x) = If(e.op = "written" /\ e.link = l, x[e.idx].msg)
         /\ Val(16, l, e, x) = If(e.op = "written" /\ e.link = l, <<e.idx, x[e.idx].addr, x[e.idx].msg>>)
         /\ Val(23, l, e, x) = If(e.op = "sent reply" /\ e.link = l, e.ctx)
BY DEF Val

(* The values of a start message at the target.                             *)
LEMMA ValuesCame ==
  ASSUME NEW l, NEW e, NEW x, e.link = l, e.op = "recv start"
  PROVE  Val(2, l, e, x) = {e.msg} /\ Val(6, l, e, x) = {} /\ Val(16, l, e, x) = {} /\ Val(23, l, e, x) = {}
BY ValuesOfArrivals DEF If

(* The value of a start message that was sent, at the source.               *)
LEMMA ValuesSent ==
  ASSUME NEW l, NEW e, NEW x, e.link = l, e.op = "sent start"
  PROVE  Val(4, l, e, x) = {} /\ Val(14, l, e, x) = {} /\ Val(33, l, e, x) = {e.ctx}
BY ValuesOfReplies DEF If

----------------------------------------------------------------------------
QueueAt(k, l) ==
  OfLane(k, out[l].sq, inc[l].sq, node[l.src].cq, node[l.dst].cq, node[l.dst].recv, out[l].start, inc[l].reply)
LookupAt(k, l) == InLane(k, out[l].startBuf, inc[l].replyBuf, node[l.dst].table)
LaneAt(k, l) == Lane(k, l, QueueAt(k, l), LookupAt(k, l))

(* What a step does to a lane.                                               *)
Stays(k, l) == Alike(LaneAt(k, l), LaneAt(k, l)')
Enters(k, l, v) == Gains(LaneAt(k, l), LaneAt(k, l)', v)
Leaves(k, l, v) == Loses(LaneAt(k, l), LaneAt(k, l)', v)

(* The requests of a link that failed.                                       *)
Faults(l) == {i \in DOMAIN node[l.src].cq : node[l.src].cq[i] = [op |-> "error", link |-> l]}

StageLanes(l) == [s \in Stages |-> LaneAt(s, l)]
AnswerLanes(l) == [s \in Answers |-> LaneAt(s, l)]
StartLanes(l) == [s \in Starts |-> LaneAt(s, l)]
EntryLanes(n) == [p \in Entries \X To(n) |-> LaneAt(p[1], p[2])]

(* What a buffer holds.                                                      *)
Filled(n, a, m) == a \in DOMAIN node[n].mem /\ node[n].mem[a] = m

(* The messages that RecvMsg has returned from a link are the first posted.  *)
Returned(l) ==
  /\ Len(delivered[l]) <= Len(posted[l])
  /\ \A i \in DOMAIN delivered[l] :
       delivered[l][i] = [body |-> posted[l][i], lens |-> posted[l][i],
                          head |-> Arrives(l, BodyOf(posted[l][i]).head)]

Histories ==
  /\ DOMAIN posted = Link /\ DOMAIN delivered = Link
  /\ \A l \in Link : (\E S : posted[l] \in Seq(S)) /\ (\E S : delivered[l] \in Seq(S))

(* The contexts of a link at work each stand for one message, the entries    *)
(* named by messages on their way are those of the table, each once, and a   *)
(* buffer whose write has been reported holds its message.                   *)
Entry(x, table) == \E i \in DOMAIN table : x = <<i, table[i].addr, table[i].msg>>
OwnEntries(n) ==
  /\ Separate(EntryLanes(n))
  /\ \A x \in Total(EntryLanes(n)) : Entry(x, node[n].table)
OwnBuffers(n) ==
  /\ \A l \in To(n) : \A x \in Held(LaneAt(16, l)) : Filled(n, x[2], x[3])
  /\ \A i \in DOMAIN node[n].recv : Filled(n, node[n].recv[i].ctx.addr, node[n].recv[i].ctx.msg)
  /\ \A i \in DOMAIN node[n].recv : node[n].recv[i].link \in To(n)
OwnContexts(l) ==
  /\ Separate(AnswerLanes(l))
  /\ Sound(l) => Separate(StartLanes(l))
Orderly(l) ==
  Sound(l) => Flowing(StageLanes(l), posted[l], Len(delivered[l]), Faults(l)) /\ Returned(l)
Ordered ==
  /\ Histories
  /\ \A n \in Proc : OwnEntries(n) /\ OwnBuffers(n)
  /\ \A l \in Link : OwnContexts(l) /\ Orderly(l)

----------------------------------------------------------------------------
(* A lane whose queue and places do not change.                              *)
LEMMA LaneUnmoved ==
  ASSUME NEW k, NEW l, QueueAt(k, l)' = QueueAt(k, l),
         \A i \in DOMAIN QueueAt(k, l) :
            Val(k, l, QueueAt(k, l)[i], LookupAt(k, l)') = Val(k, l, QueueAt(k, l)[i], LookupAt(k, l))
  PROVE  Stays(k, l)
BY LaneLooks DEF Stays, LaneAt

(* One whose queue gets an element.                                          *)
LEMMA LaneAppended ==
  ASSUME NEW k, NEW l, NEW T, QueueAt(k, l) \in Seq(T), NEW e, QueueAt(k, l)' = Append(QueueAt(k, l), e),
         \A i \in DOMAIN QueueAt(k, l) :
            Val(k, l, QueueAt(k, l)[i], LookupAt(k, l)') = Val(k, l, QueueAt(k, l)[i], LookupAt(k, l))
  PROVE  /\ Val(k, l, e, LookupAt(k, l)') = {} => Stays(k, l)
         /\ \A v : Val(k, l, e, LookupAt(k, l)') = {v} => Enters(k, l, v)
<1>1. PICK q : q = QueueAt(k, l)
  OBVIOUS
<1>2. PICK x, y : x = LookupAt(k, l) /\ y = LookupAt(k, l)'
  OBVIOUS
<1>3. Alike(Lane(k, l, q, x), Lane(k, l, q, y))
  BY <1>1, <1>2, LaneLooks
<1>4. /\ Val(k, l, e, y) = {} => Alike(Lane(k, l, q, y), Lane(k, l, Append(q, e), y))
      /\ \A v : Val(k, l, e, y) = {v} => Gains(Lane(k, l, q, y), Lane(k, l, Append(q, e), y), v)
  BY <1>1, LaneMoves
<1>5. LaneAt(k, l) = Lane(k, l, q, x) /\ LaneAt(k, l)' = Lane(k, l, Append(q, e), y)
  BY <1>1, <1>2 DEF LaneAt
<1>6. QED
  BY <1>2, <1>3, <1>4, <1>5, LaneTwice DEF Stays, Enters

(* One whose queue loses its first element.                                  *)
LEMMA LanePopped ==
  ASSUME NEW k, NEW l, NEW T, QueueAt(k, l) \in Seq(T), QueueAt(k, l) # <<>>,
         QueueAt(k, l)' = Tail(QueueAt(k, l)),
         \A i \in DOMAIN Tail(QueueAt(k, l)) :
            Val(k, l, Tail(QueueAt(k, l))[i], LookupAt(k, l)') = Val(k, l, Tail(QueueAt(k, l))[i], LookupAt(k, l))
  PROVE  /\ Val(k, l, Head(QueueAt(k, l)), LookupAt(k, l)) = {} => Stays(k, l)
         /\ \A v : Val(k, l, Head(QueueAt(k, l)), LookupAt(k, l)) = {v} => Leaves(k, l, v)
<1>1. PICK q : q = QueueAt(k, l)
  OBVIOUS
<1>2. PICK x, y : x = LookupAt(k, l) /\ y = LookupAt(k, l)'
  OBVIOUS
<1>3. Alike(Lane(k, l, Tail(q), x), Lane(k, l, Tail(q), y))
  BY <1>1, <1>2, LaneLooks
<1>4. /\ Val(k, l, Head(q), x) = {} => Alike(Lane(k, l, q, x), Lane(k, l, Tail(q), x))
      /\ \A v : Val(k, l, Head(q), x) = {v} => Loses(Lane(k, l, q, x), Lane(k, l, Tail(q), x), v)
  BY <1>1, LaneMoves
<1>5. LaneAt(k, l) = Lane(k, l, q, x) /\ LaneAt(k, l)' = Lane(k, l, Tail(q), y)
  BY <1>1, <1>2 DEF LaneAt
<1>6. /\ Val(k, l, Head(q), x) = {} => Alike(Lane(k, l, q, x), Lane(k, l, Tail(q), y))
      /\ \A v : Val(k, l, Head(q), x) = {v} => Loses(Lane(k, l, q, x), Lane(k, l, Tail(q), y), v)
  BY <1>3, <1>4, LaneTwice
<1>7. QED
  BY <1>1, <1>2, <1>5, <1>6 DEF Stays, Leaves

(* One whose queue gets the completions of a request.                        *)
LEMMA LaneBoth ==
  ASSUME NEW k, NEW l, NEW T, NEW q \in Seq(T), NEW x, NEW n, NEW n1, NEW n2, NEW e1 \in T, NEW e2 \in T
  PROVE  /\ (n = n1 => Val(k, l, e1, x) = {}) /\ (n = n2 => Val(k, l, e2, x) = {})
              => Alike(Lane(k, l, q, x), Lane(k, l, Both(q, n, n1, e1, n2, e2), x))
         /\ \A v : n = n1 /\ Val(k, l, e1, x) = {v} /\ (n = n2 => Val(k, l, e2, x) = {})
              => Gains(Lane(k, l, q, x), Lane(k, l, Both(q, n, n1, e1, n2, e2), x), v)
         /\ \A v : n = n2 /\ Val(k, l, e2, x) = {v} /\ (n = n1 => Val(k, l, e1, x) = {})
              => Gains(Lane(k, l, q, x), Lane(k, l, Both(q, n, n1, e1, n2, e2), x), v)
<1> DEFINE r == Longer(n1, n, q, e1)
           z == Longer(n2, n, r, e2)
<1>2. Both(q, n, n1, e1, n2, e2) = z
  BY DEF Both
<1>3. r \in Seq(T)
  BY QueueFacts DEF Longer
<1>4. /\ n # n1 \/ Val(k, l, e1, x) = {} => Alike(Lane(k, l, q, x), Lane(k, l, r, x))
      /\ \A v : n = n1 /\ Val(k, l, e1, x) = {v} => Gains(Lane(k, l, q, x), Lane(k, l, r, x), v)
  <2>1. n = n1 => r = Append(q, e1)
    BY DEF Longer
  <2>2. n # n1 => r = q
    BY DEF Longer
  <2>3. Alike(Lane(k, l, q, x), Lane(k, l, q, x))
    BY LaneLooks
  <2> HIDE DEF r
  <2>4. /\ Val(k, l, e1, x) = {} => Alike(Lane(k, l, q, x), Lane(k, l, Append(q, e1), x))
        /\ \A v : Val(k, l, e1, x) = {v} => Gains(Lane(k, l, q, x), Lane(k, l, Append(q, e1), x), v)
    BY LaneMoves
  <2>5. QED
    BY <2>1, <2>2, <2>3, <2>4
<1>5. /\ n # n2 \/ Val(k, l, e2, x) = {} => Alike(Lane(k, l, r, x), Lane(k, l, z, x))
      /\ \A v : n = n2 /\ Val(k, l, e2, x) = {v} => Gains(Lane(k, l, r, x), Lane(k, l, z, x), v)
  <2> HIDE DEF r
  <2>1. n = n2 => z = Append(r, e2)
    BY DEF Longer
  <2>2. n # n2 => z = r
    BY DEF Longer
  <2>3. Alike(Lane(k, l, r, x), Lane(k, l, r, x))
    BY LaneLooks
  <2> HIDE DEF z
  <2>4. /\ Val(k, l, e2, x) = {} => Alike(Lane(k, l, r, x), Lane(k, l, Append(r, e2), x))
        /\ \A v : Val(k, l, e2, x) = {v} => Gains(Lane(k, l, r, x), Lane(k, l, Append(r, e2), x), v)
    BY <1>3, LaneMoves
  <2>5. QED
    BY <2>1, <2>2, <2>3, <2>4
<1> HIDE DEF r, z
<1> DEFINE A == Lane(k, l, q, x)
           B == Lane(k, l, r, x)
           C == Lane(k, l, z, x)
<1>6. /\ Alike(A, B) /\ Alike(B, C) => Alike(A, C)
      /\ \A v : Alike(A, B) /\ Gains(B, C, v) => Gains(A, C, v)
      /\ \A v : Gains(A, B, v) /\ Alike(B, C) => Gains(A, C, v)
  BY LaneTwice
<1> HIDE DEF A, B, C
<1>7. QED
  BY <1>2, <1>4, <1>5, <1>6 DEF A, B, C

----------------------------------------------------------------------------
(* What keeps the parts of Ordered.                                          *)
LEMMA OrderlyStays ==
  ASSUME NEW l, Orderly(l), \A k \in Stages : Stays(k, l), posted'[l] = posted[l], delivered'[l] = delivered[l],
         Sound(l)' => Sound(l), Faults(l) # {} => Faults(l)' # {}
  PROVE  Orderly(l)'
<1> SUFFICES ASSUME Sound(l)'
             PROVE  /\ Flowing(StageLanes(l)', posted'[l], Len(delivered'[l]), Faults(l)')
                    /\ Returned(l)'
  BY DEF Orderly
<1>1. PICK L, M : L = StageLanes(l) /\ M = StageLanes(l)'
  OBVIOUS
<1>2. PICK p, d, b, c : p = posted[l] /\ d = Len(delivered[l]) /\ b = Faults(l) /\ c = Faults(l)'
  OBVIOUS
<1>3. Flowing(L, p, d, b)
  BY <1>1, <1>2 DEF Orderly
<1>4. \A s \in 1 .. 7 : Alike(L[s], M[s])
  BY <1>1 DEF StageLanes, Stages, Stays
<1>5. Flowing(M, p, d, c)
  BY <1>2, <1>3, <1>4, FlowSame, FlowFaults
<1>6. Returned(l)'
  BY DEF Orderly, Returned
<1>7. QED
  BY <1>1, <1>2, <1>5, <1>6

(* The contexts of a link stay its own when the lanes of contexts do not    *)
(* change.                                                                  *)
LEMMA ContextsStay ==
  ASSUME NEW l, OwnContexts(l), \A k \in Answers \cup Starts : Stays(k, l), Sound(l)' => Sound(l)
  PROVE  OwnContexts(l)'
<1>1. PICK F, G : F = AnswerLanes(l) /\ G = AnswerLanes(l)'
  OBVIOUS
<1>2. DOMAIN F = Answers /\ DOMAIN G = Answers /\ \A s \in Answers : Alike(F[s], G[s])
  BY <1>1 DEF AnswerLanes, Stays
<1>3. Separate(AnswerLanes(l))'
  BY <1>1, <1>2, SeparateSame DEF OwnContexts
<1>4. ASSUME Sound(l)' PROVE Separate(StartLanes(l))'
  <2>1. PICK C, D : C = StartLanes(l) /\ D = StartLanes(l)'
    OBVIOUS
  <2>2. DOMAIN C = Starts /\ DOMAIN D = Starts /\ \A s \in Starts : Alike(C[s], D[s])
    BY <2>1 DEF StartLanes, Stays
  <2>3. QED
    BY <1>4, <2>1, <2>2, SeparateSame DEF OwnContexts
<1>5. QED
  BY <1>3, <1>4 DEF OwnContexts

(* Entries stay those of the table when the lanes that name them do not     *)
(* change.                                                                  *)
LEMMA EntriesStay ==
  ASSUME NEW n, OwnEntries(n), \A l \in To(n), k \in Entries : Stays(k, l), node'[n].table = node[n].table
  PROVE  OwnEntries(n)'
<1>1. PICK F, G : F = EntryLanes(n) /\ G = EntryLanes(n)'
  OBVIOUS
<1>2. DOMAIN F = Entries \X To(n) /\ DOMAIN G = DOMAIN F /\ \A p \in DOMAIN F : Alike(F[p], G[p])
  BY <1>1 DEF EntryLanes, Stays
<1>3. Separate(G) /\ Total(G) = Total(F)
  BY <1>1, <1>2, SeparateSame DEF OwnEntries
<1>4. QED
  BY <1>1, <1>3 DEF OwnEntries

(* Buffers keep their messages when nothing writes or takes them.           *)
LEMMA BuffersStay ==
  ASSUME NEW n, OwnBuffers(n), \A l \in To(n) : Stays(16, l),
         node'[n].recv = node[n].recv, node'[n].mem = node[n].mem
  PROVE  OwnBuffers(n)'
<1>1. \A l \in To(n) : Held(LaneAt(16, l))' = Held(LaneAt(16, l))
  BY DEF Stays, Alike
<1>2. QED
  BY <1>1 DEF OwnBuffers, Filled

(* A message moves on.                                                       *)
LEMMA OrderlyMoves ==
  ASSUME NEW l, Orderly(l), posted'[l] = posted[l], delivered'[l] = delivered[l],
         Sound(l)' => Sound(l), Faults(l) # {} => Faults(l)' # {}, Len(delivered[l]) \in Nat,
         NEW f \in 1 .. 6, Faults(l) = {} \/ f # 5, NEW g, g = f + 1, NEW x,
         Sound(l)' => Leaves(f, l, x) /\ Enters(g, l, x), \A k \in Stages \ {f, g} : Stays(k, l)
  PROVE  Orderly(l)'
<1> SUFFICES ASSUME Sound(l)'
             PROVE  /\ Flowing(StageLanes(l)', posted'[l], Len(delivered'[l]), Faults(l)')
                    /\ Returned(l)'
  BY DEF Orderly
<1>1. PICK L, M : L = StageLanes(l) /\ M = StageLanes(l)'
  OBVIOUS
<1>2. PICK p, d, b, c : p = posted[l] /\ d = Len(delivered[l]) /\ b = Faults(l) /\ c = Faults(l)'
  OBVIOUS
<1>3. Flowing(L, p, d, b) /\ d \in Nat
  BY <1>1, <1>2 DEF Orderly
<1>4. \A s \in 1 .. 7 : L[s] = LaneAt(s, l) /\ M[s] = LaneAt(s, l)'
  BY <1>1 DEF StageLanes, Stages
<1>5. f \in 1 .. 7 /\ g \in 1 .. 7
  OBVIOUS
<1>6. Loses(L[f], M[f], x) /\ Gains(L[f + 1], M[f + 1], x)
  BY <1>4, <1>5 DEF Leaves, Enters
<1>7. \A s \in 1 .. 7 \ {f, f + 1} : Alike(L[s], M[s])
  BY <1>4 DEF Stages, Stays
<1>8. Flowing(M, p, d, b)
  BY <1>2, <1>3, <1>6, <1>7, FlowMove
<1>9. Flowing(M, p, d, c)
  BY <1>2, <1>8, FlowFaults
<1>10. Returned(l)'
  BY DEF Orderly, Returned
<1>11. QED
  BY <1>1, <1>2, <1>9, <1>10

(* A context goes from one place to another.                                 *)
LEMMA AnswersMove ==
  ASSUME NEW l, OwnContexts(l), NEW s \in Answers, NEW t \in Answers, s # t, NEW x,
         Leaves(s, l, x), Enters(t, l, x), \A k \in (Answers \cup Starts) \ {s, t} : Stays(k, l),
         Sound(l)' => Sound(l)
  PROVE  OwnContexts(l)'
<1>1. PICK F, G : F = AnswerLanes(l) /\ G = AnswerLanes(l)'
  OBVIOUS
<1>2. DOMAIN F = Answers /\ DOMAIN G = Answers /\ \A k \in Answers : F[k] = LaneAt(k, l) /\ G[k] = LaneAt(k, l)'
  BY <1>1 DEF AnswerLanes
<1>3. Separate(F) /\ Loses(F[s], G[s], x) /\ Gains(F[t], G[t], x) /\ \A k \in Answers \ {s, t} : Alike(F[k], G[k])
  BY <1>1, <1>2 DEF Leaves, Enters, Stays, OwnContexts
<1>4. Separate(AnswerLanes(l))'
  BY <1>1, <1>2, <1>3, SeparateShift
<1>5. ASSUME Sound(l)' PROVE Separate(StartLanes(l))'
  <2>1. PICK C, D : C = StartLanes(l) /\ D = StartLanes(l)'
    OBVIOUS
  <2>2. Answers \cap Starts = {}
    BY DEF Answers, Starts
  <2>3. DOMAIN C = Starts /\ DOMAIN D = Starts /\ \A k \in Starts : Alike(C[k], D[k])
    BY <2>1, <2>2 DEF StartLanes, Stays
  <2>4. QED
    BY <1>5, <2>1, <2>3, SeparateSame DEF OwnContexts
<1>6. QED
  BY <1>4, <1>5 DEF OwnContexts

(* A start context moves on: it still stands for one message.               *)
LEMMA StartsMove ==
  ASSUME NEW l, OwnContexts(l), NEW s \in Starts, NEW t \in Starts, s # t, NEW x,
         Leaves(s, l, x), Enters(t, l, x), \A k \in (Answers \cup Starts) \ {s, t} : Stays(k, l),
         Sound(l)' => Sound(l)
  PROVE  OwnContexts(l)'
<1>1. PICK F, G : F = StartLanes(l) /\ G = StartLanes(l)'
  OBVIOUS
<1>2. DOMAIN F = Starts /\ DOMAIN G = Starts /\ \A k \in Starts : F[k] = LaneAt(k, l) /\ G[k] = LaneAt(k, l)'
  BY <1>1 DEF StartLanes
<1>3. Loses(F[s], G[s], x) /\ Gains(F[t], G[t], x) /\ \A k \in Starts \ {s, t} : Alike(F[k], G[k])
  BY <1>1, <1>2 DEF Leaves, Enters, Stays
<1>4. Separate(F) => Separate(G)
  BY <1>1, <1>2, <1>3, SeparateShift
<1>5. Separate(AnswerLanes(l))'
  <2>1. PICK C, D : C = AnswerLanes(l) /\ D = AnswerLanes(l)'
    OBVIOUS
  <2>2. Answers \cap Starts = {}
    BY DEF Answers, Starts
  <2>3. DOMAIN C = Answers /\ DOMAIN D = Answers /\ \A k \in Answers : Alike(C[k], D[k])
    BY <2>1, <2>2 DEF AnswerLanes, Stays
  <2>4. QED
    BY <2>1, <2>3, SeparateSame DEF OwnContexts
<1>6. QED
  BY <1>1, <1>4, <1>5 DEF OwnContexts

(* An entry is named by the next message.                                    *)
LEMMA EntriesMove ==
  ASSUME NEW n, OwnEntries(n), NEW l \in To(n), NEW s \in Entries, NEW t \in Entries, s # t, NEW x,
         Leaves(s, l, x), Enters(t, l, x),
         \A q \in To(n), k \in Entries : q # l \/ k \notin {s, t} => Stays(k, q),
         node'[n].table = node[n].table
  PROVE  OwnEntries(n)' /\ x \in Total(EntryLanes(n))
<1>1. PICK F, G : F = EntryLanes(n) /\ G = EntryLanes(n)'
  OBVIOUS
<1>2. /\ DOMAIN F = Entries \X To(n) /\ DOMAIN G = DOMAIN F
      /\ \A k \in Entries, q \in To(n) : F[<<k, q>>] = LaneAt(k, q) /\ G[<<k, q>>] = LaneAt(k, q)'
  BY <1>1 DEF EntryLanes
<1>3. PICK a, b : a = <<s, l>> /\ b = <<t, l>>
  OBVIOUS
<1>4. a \in DOMAIN F /\ b \in DOMAIN F /\ a # b
  BY <1>2, <1>3
<1>5. Loses(F[a], G[a], x) /\ Gains(F[b], G[b], x)
  BY <1>2, <1>3 DEF Leaves, Enters
<1>6. ASSUME NEW p \in DOMAIN F \ {a, b} PROVE Alike(F[p], G[p])
  <2>1. PICK k \in Entries, q \in To(n) : p = <<k, q>>
    BY <1>2
  <2>2. q # l \/ k \notin {s, t}
    BY <2>1, <1>3, <1>6
  <2>3. QED
    BY <2>1, <2>2, <1>2 DEF Stays
<1>7. Separate(G) /\ x \in Total(F) /\ Total(G) = Total(F)
  BY <1>1, <1>2, <1>4, <1>5, <1>6, SeparateShift DEF OwnEntries
<1>8. QED
  BY <1>1, <1>7 DEF OwnEntries

(* An entry is used for the last time.                                       *)
LEMMA EntriesLose ==
  ASSUME NEW n, OwnEntries(n), NEW l \in To(n), NEW s \in Entries, NEW x, Leaves(s, l, x),
         \A q \in To(n), k \in Entries : q # l \/ k # s => Stays(k, q)
  PROVE  Separate(EntryLanes(n))' /\ x \in Total(EntryLanes(n)) /\ Total(EntryLanes(n))' = Total(EntryLanes(n)) \ {x}
<1>1. PICK F, G : F = EntryLanes(n) /\ G = EntryLanes(n)'
  OBVIOUS
<1>2. /\ DOMAIN F = Entries \X To(n) /\ DOMAIN G = DOMAIN F
      /\ \A k \in Entries, q \in To(n) : F[<<k, q>>] = LaneAt(k, q) /\ G[<<k, q>>] = LaneAt(k, q)'
  BY <1>1 DEF EntryLanes
<1>3. PICK a : a = <<s, l>>
  OBVIOUS
<1>4. a \in DOMAIN F /\ Loses(F[a], G[a], x)
  BY <1>2, <1>3 DEF Leaves
<1>5. ASSUME NEW p \in DOMAIN F \ {a} PROVE Alike(F[p], G[p])
  <2>1. PICK k \in Entries, q \in To(n) : p = <<k, q>>
    BY <1>2
  <2>2. q # l \/ k # s
    BY <2>1, <1>3, <1>5
  <2>3. QED
    BY <2>1, <2>2, <1>2 DEF Stays
<1>6. QED
  BY <1>1, <1>2, <1>4, <1>5, SeparateLose DEF OwnEntries

(* An entry is made.                                                         *)
LEMMA EntriesGain ==
  ASSUME NEW n, OwnEntries(n), NEW l \in To(n), NEW s \in Entries, NEW x, x \notin Total(EntryLanes(n)), Enters(s, l, x),
         \A q \in To(n), k \in Entries : q # l \/ k # s => Stays(k, q)
  PROVE  Separate(EntryLanes(n))' /\ Total(EntryLanes(n))' = Total(EntryLanes(n)) \cup {x}
<1>1. PICK F, G : F = EntryLanes(n) /\ G = EntryLanes(n)'
  OBVIOUS
<1>2. /\ DOMAIN F = Entries \X To(n) /\ DOMAIN G = DOMAIN F
      /\ \A k \in Entries, q \in To(n) : F[<<k, q>>] = LaneAt(k, q) /\ G[<<k, q>>] = LaneAt(k, q)'
  BY <1>1 DEF EntryLanes
<1>3. PICK a : a = <<s, l>>
  OBVIOUS
<1>4. a \in DOMAIN F /\ Gains(F[a], G[a], x)
  BY <1>2, <1>3 DEF Enters
<1>5. ASSUME NEW p \in DOMAIN F \ {a} PROVE Alike(F[p], G[p])
  <2>1. PICK k \in Entries, q \in To(n) : p = <<k, q>>
    BY <1>2
  <2>2. q # l \/ k # s
    BY <2>1, <1>3, <1>5
  <2>3. QED
    BY <2>1, <2>2, <1>2 DEF Stays
<1>6. QED
  BY <1>1, <1>2, <1>4, <1>5, SeparateGain DEF OwnEntries

----------------------------------------------------------------------------
(* What becomes of lanes when a queue changes.                               *)

(* The queue each lane is read from, in this state and the next.            *)
LEMMA QueueIs ==
  ASSUME NEW k \in Lanes, NEW l
  PROVE  /\ k \in OutLanes => QueueAt(k, l) = out[l].sq /\ QueueAt(k, l)' = out'[l].sq
         /\ k \in IncLanes => QueueAt(k, l) = inc[l].sq /\ QueueAt(k, l)' = inc'[l].sq
         /\ k \in SrcLanes => QueueAt(k, l) = node[l.src].cq /\ QueueAt(k, l)' = node'[l.src].cq
         /\ k \in DstLanes => QueueAt(k, l) = node[l.dst].cq /\ QueueAt(k, l)' = node'[l.dst].cq
         /\ k = 7 => QueueAt(k, l) = node[l.dst].recv /\ QueueAt(k, l)' = node'[l.dst].recv
         /\ k = 31 => QueueAt(k, l) = out[l].start /\ QueueAt(k, l)' = out'[l].start
         /\ k = 21 => QueueAt(k, l) = inc[l].reply /\ QueueAt(k, l)' = inc'[l].reply
         /\ k \in OutLanes \cup IncLanes \cup SrcLanes \cup DstLanes \cup {7, 31, 21}
<1>1. QueueAt(k, l) =
        OfLane(k, out[l].sq, inc[l].sq, node[l.src].cq, node[l.dst].cq, node[l.dst].recv, out[l].start, inc[l].reply)
  BY DEF QueueAt
<1>2. QueueAt(k, l)' =
        OfLane(k, out'[l].sq, inc'[l].sq, node'[l.src].cq, node'[l.dst].cq, node'[l.dst].recv, out'[l].start, inc'[l].reply)
  BY DEF QueueAt
<1>3. QED
  BY <1>1, <1>2, LaneQueues

(* The same for the queues that several lanes share.                        *)
LEMMA QueueIn ==
  \A l : /\ \A k \in OutLanes : QueueAt(k, l) = out[l].sq /\ QueueAt(k, l)' = out'[l].sq
         /\ \A k \in IncLanes : QueueAt(k, l) = inc[l].sq /\ QueueAt(k, l)' = inc'[l].sq
         /\ \A k \in SrcLanes : QueueAt(k, l) = node[l.src].cq /\ QueueAt(k, l)' = node'[l.src].cq
         /\ \A k \in DstLanes : QueueAt(k, l) = node[l.dst].cq /\ QueueAt(k, l)' = node'[l.dst].cq
BY QueueIs, LaneKinds

(* Where the elements of a lane are looked up.                              *)
LEMMA LookupIs ==
  ASSUME NEW k, NEW l
  PROVE  /\ k = 1 => LookupAt(k, l) = out[l].startBuf /\ LookupAt(k, l)' = out'[l].startBuf
         /\ k \in {3, 13} => LookupAt(k, l) = inc[l].replyBuf /\ LookupAt(k, l)' = inc'[l].replyBuf
         /\ k \in {6, 16} => LookupAt(k, l) = node[l.dst].table /\ LookupAt(k, l)' = node'[l.dst].table
         /\ k \notin {1, 3, 13, 6, 16} => LookupAt(k, l) = <<>> /\ LookupAt(k, l)' = <<>>
BY DEF LookupAt, InLane

(* A lane stays when nothing it is read from changes.                       *)
LEMMA LaneRest ==
  ASSUME NEW k \in Lanes, NEW l,
         k \in OutLanes => out'[l].sq = out[l].sq, k = 1 => out'[l].startBuf = out[l].startBuf,
         k \in IncLanes => inc'[l].sq = inc[l].sq /\ inc'[l].replyBuf = inc[l].replyBuf,
         k \in SrcLanes => node'[l.src].cq = node[l.src].cq,
         k \in DstLanes => node'[l.dst].cq = node[l.dst].cq /\ node'[l.dst].table = node[l.dst].table,
         k = 7 => node'[l.dst].recv = node[l.dst].recv,
         k = 31 => out'[l].start = out[l].start, k = 21 => inc'[l].reply = inc[l].reply
  PROVE  Stays(k, l)
<1>1. QueueAt(k, l)' = QueueAt(k, l)
  BY QueueIs
<1>2. LookupAt(k, l)' = LookupAt(k, l)
  BY LookupIs DEF IncLanes, DstLanes
<1>3. QED
  BY <1>1, <1>2, LaneUnmoved

(* The queues of a link, and what work requests and completions can be.      *)
LEMMA LaneTypes ==
  ASSUME RdmaAssumption, Typed, NEW l \in Link
  PROVE  /\ l.src \in Proc /\ l.dst \in Proc
         /\ OutAt(l, out[l], thread) /\ IncAt(l, inc[l], thread)
         /\ \A n \in Proc : NodeAt(n, node[n], thread, out)
         /\ \A k \in Lanes : \E T : QueueAt(k, l) \in Seq(T)
<1>1. l.src \in Proc /\ l.dst \in Proc
  BY DEF RdmaAssumption
<1>2. /\ OutAt(l, out[l], thread) /\ IncAt(l, inc[l], thread)
      /\ \A n \in Proc : NodeAt(n, node[n], thread, out)
  BY DEF Typed, Outs, Incs, Nodes
<1>3. /\ out[l].sq \in Seq(OrderAt(l, out[l], thread)) /\ out[l].start \in Seq(1 .. Depth)
      /\ inc[l].sq \in Seq(ReplyAt(inc[l])) /\ inc[l].reply \in Seq(1 .. ReplyDepth)
  BY <1>2 DEF OutAt, IncAt
<1>4. /\ node[l.src].cq \in Seq(EventAt(l.src, thread, out))
      /\ node[l.dst].cq \in Seq(EventAt(l.dst, thread, out))
      /\ node[l.dst].recv \in Seq([link : Link, ctx : [addr : Nat, msg : Msg]])
  BY <1>1, <1>2 DEF NodeAt
<1>5. ASSUME NEW k \in Lanes PROVE \E T : QueueAt(k, l) \in Seq(T)
  <2>1. CASE k \in OutLanes \cup IncLanes
    BY <2>1, <1>3, QueueIs
  <2>2. CASE k \in SrcLanes \cup DstLanes
    BY <2>2, <1>4, QueueIs
  <2>3. CASE k \in {7, 31, 21}
    BY <2>3, <1>3, <1>4, QueueIs
  <2>4. QED
    BY <2>1, <2>2, <2>3, QueueIs
<1>6. QED
  BY <1>1, <1>2, <1>5

(* Sequences over a larger set.                                             *)
LEMMA SeqMore == ASSUME NEW S, NEW T, S \subseteq T PROVE Seq(S) \subseteq Seq(T)
OBVIOUS

(* The network takes a work request of the source.                           *)
LEMMA OutPopped ==
  ASSUME RdmaAssumption, Typed, NEW l \in Link, out[l].sq # <<>>, out'[l].sq = Tail(out[l].sq),
         out'[l].startBuf = out[l].startBuf, NEW k \in OutLanes
  PROVE  /\ Val(k, l, Head(out[l].sq), LookupAt(k, l)) = {} => Stays(k, l)
         /\ \A v : Val(k, l, Head(out[l].sq), LookupAt(k, l)) = {v} => Leaves(k, l, v)
<1>1. k \in Lanes /\ k \notin {3, 13, 6, 16}
  BY LaneKinds
<1>2. QueueAt(k, l) = out[l].sq /\ QueueAt(k, l)' = Tail(out[l].sq)
  <2>1. QueueAt(k, l) = out[l].sq /\ QueueAt(k, l)' = out'[l].sq
    BY QueueIn
  <2>2. QED
    BY <2>1
<1>3. LookupAt(k, l)' = LookupAt(k, l)
  BY <1>1, LookupIs
<1>4. PICK T : QueueAt(k, l) \in Seq(T)
  BY <1>1, LaneTypes
<1>5. QED
  BY <1>2, <1>3, <1>4, LanePopped

(* One is posted there.                                                      *)
LEMMA OutAppended ==
  ASSUME RdmaAssumption, Typed, NEW l \in Link, NEW e, out'[l].sq = Append(out[l].sq, e), NEW k \in OutLanes,
         k = 1 => \A i \in DOMAIN out[l].sq :
                     out[l].sq[i].op = "start" => out'[l].startBuf[out[l].sq[i].ctx] = out[l].startBuf[out[l].sq[i].ctx]
  PROVE  /\ Val(k, l, e, LookupAt(k, l)') = {} => Stays(k, l)
         /\ \A v : Val(k, l, e, LookupAt(k, l)') = {v} => Enters(k, l, v)
<1>1. k \in Lanes /\ k \notin {3, 13, 6, 16}
  BY LaneKinds
<1>2. QueueAt(k, l) = out[l].sq /\ QueueAt(k, l)' = Append(QueueAt(k, l), e)
  <2>1. QueueAt(k, l) = out[l].sq /\ QueueAt(k, l)' = out'[l].sq
    BY QueueIn
  <2>2. QED
    BY <2>1
<1>3. \A i \in DOMAIN QueueAt(k, l) :
         Val(k, l, QueueAt(k, l)[i], LookupAt(k, l)') = Val(k, l, QueueAt(k, l)[i], LookupAt(k, l))
  <2>1. CASE k = 1
    <3> SUFFICES ASSUME NEW i \in DOMAIN out[l].sq
                 PROVE  Val(1, l, out[l].sq[i], out'[l].startBuf) = Val(1, l, out[l].sq[i], out[l].startBuf)
      BY <2>1, <1>2, LookupIs
    <3>1. PICK w, x, y : w = out[l].sq[i] /\ x = out[l].startBuf /\ y = out'[l].startBuf
      OBVIOUS
    <3>2. w.op = "start" => y[w.ctx] = x[w.ctx]
      BY <2>1, <3>1
    <3> HIDE <3>1
    <3>3. Val(1, l, w, y) = Val(1, l, w, x)
      BY ONLY <3>2, ValuesLook, Zenon
    <3>4. QED
      BY <3>1, <3>3
  <2>2. CASE k # 1
    BY <2>2, <1>1, LookupIs
  <2>3. QED
    BY <2>1, <2>2
<1>4. PICK T : QueueAt(k, l) \in Seq(T)
  BY <1>1, LaneTypes
<1>5. QED
  BY <1>2, <1>3, <1>4, LaneAppended

(* The network takes a reply of the target, and one is posted there.         *)
LEMMA IncPopped ==
  ASSUME RdmaAssumption, Typed, NEW l \in Link, inc[l].sq # <<>>, inc'[l].sq = Tail(inc[l].sq),
         inc'[l].replyBuf = inc[l].replyBuf, NEW k \in IncLanes, NEW v, Val(k, l, Head(inc[l].sq), LookupAt(k, l)) = {v}
  PROVE  Leaves(k, l, v)
<1>1. k \in Lanes /\ k \notin {1, 6, 16}
  BY LaneKinds
<1>2. QueueAt(k, l) = inc[l].sq /\ QueueAt(k, l)' = Tail(inc[l].sq)
  <2>1. QueueAt(k, l) = inc[l].sq /\ QueueAt(k, l)' = inc'[l].sq
    BY QueueIn
  <2>2. QED
    BY <2>1
<1>3. LookupAt(k, l)' = LookupAt(k, l)
  BY <1>1, LookupIs
<1>4. PICK T : QueueAt(k, l) \in Seq(T)
  BY <1>1, LaneTypes
<1>5. QED
  BY <1>2, <1>3, <1>4, LanePopped

(* The target posts a reply.                                                *)
LEMMA IncAppended ==
  ASSUME RdmaAssumption, Typed, NEW l \in Link, NEW e, inc'[l].sq = Append(inc[l].sq, e), NEW k \in IncLanes,
         \A i \in DOMAIN inc[l].sq : inc'[l].replyBuf[inc[l].sq[i].ctx] = inc[l].replyBuf[inc[l].sq[i].ctx],
         NEW v, Val(k, l, e, LookupAt(k, l)') = {v}
  PROVE  Enters(k, l, v)
<1>1. k \in Lanes /\ k \notin {1, 6, 16}
  BY LaneKinds
<1>2. QueueAt(k, l) = inc[l].sq /\ QueueAt(k, l)' = Append(QueueAt(k, l), e)
  <2>1. QueueAt(k, l) = inc[l].sq /\ QueueAt(k, l)' = inc'[l].sq
    BY QueueIn
  <2>2. QED
    BY <2>1
<1>3. \A i \in DOMAIN QueueAt(k, l) :
         Val(k, l, QueueAt(k, l)[i], LookupAt(k, l)') = Val(k, l, QueueAt(k, l)[i], LookupAt(k, l))
  <2>1. CASE k \in {3, 13}
    <3>a. /\ LookupAt(k, l) = inc[l].replyBuf
          /\ LookupAt(k, l)' = inc'[l].replyBuf
      BY <2>1, LookupIs
    <3> SUFFICES ASSUME NEW i \in DOMAIN QueueAt(k, l)
                 PROVE  Val(k, l, QueueAt(k, l)[i], LookupAt(k, l)') = Val(k, l, QueueAt(k, l)[i], LookupAt(k, l))
      OBVIOUS
    <3>0. QueueAt(k, l)[i] = inc[l].sq[i] /\ i \in DOMAIN inc[l].sq
      BY <1>2
    <3>b. inc'[l].replyBuf[inc[l].sq[i].ctx] = inc[l].replyBuf[inc[l].sq[i].ctx]
      BY <3>0
    <3>1. PICK w, x, y : w = QueueAt(k, l)[i] /\ x = LookupAt(k, l) /\ y = LookupAt(k, l)'
      OBVIOUS
    <3>2. y[w.ctx] = x[w.ctx]
      BY ONLY <3>0, <3>1, <3>a, <3>b
    <3>3. Val(k, l, w, y) = Val(k, l, w, x)
      <4>1. CASE k = 3
        BY <4>1, <3>2 DEF Val
      <4>2. CASE k = 13
        BY <4>2, <3>2 DEF Val
      <4>3. QED
        BY <2>1, <4>1, <4>2
    <3>4. QED
      BY <3>1, <3>3
  <2>2. CASE k \notin {3, 13}
    BY <2>2, <1>1, LookupIs
  <2>3. QED
    BY <2>1, <2>2
<1>4. PICK T : QueueAt(k, l) \in Seq(T)
  BY <1>1, LaneTypes
<1>5. QED
  BY <1>2, <1>3, <1>4, LaneAppended

(* A request is completed at both ends, in one order or the other.           *)
Carried(l, e1, e2) == Completes(l, l.dst, e1, l.src, e2) \/ Completes(l, l.src, e2, l.dst, e1)

(* What the completions of a request do to the lanes of completions: one    *)
(* lane of its link gets a value at each end, all others stay.              *)
LEMMA BothCompleted ==
  ASSUME RdmaAssumption, Typed, NEW l \in Link, NEW e1, NEW e2, Carried(l, e1, e2),
         e1.op \in {"recv start", "written", "sent reply"}, e2.op \in {"sent start", "wrote", "recv reply"},
         \A n \in Proc : node'[n].table = node[n].table,
         NEW q \in Link, NEW k \in SrcLanes \cup DstLanes
  PROVE  /\ q # l => Stays(k, q)
         /\ q = l /\ k \in SrcLanes /\ Val(k, q, e2, LookupAt(k, q)) = {} => Stays(k, q)
         /\ q = l /\ k \in DstLanes /\ Val(k, q, e1, LookupAt(k, q)) = {} => Stays(k, q)
         /\ \A v : q = l /\ k \in SrcLanes /\ Val(k, q, e2, LookupAt(k, q)) = {v} => Enters(k, q, v)
         /\ \A v : q = l /\ k \in DstLanes /\ Val(k, q, e1, LookupAt(k, q)) = {v} => Enters(k, q, v)
<1>1. k \in Lanes /\ k \notin {1, 3, 13} /\ (k \in SrcLanes => k \notin {6, 16}) /\ ~ (k \in SrcLanes /\ k \in DstLanes)
  BY LaneKinds
<1>2. PICK n : n = IF k \in SrcLanes THEN q.src ELSE q.dst
  OBVIOUS
<1>3. n \in Proc /\ QueueAt(k, q) = node[n].cq /\ QueueAt(k, q)' = node'[n].cq
  <2>1. q.src \in Proc /\ q.dst \in Proc
    BY LaneTypes
  <2>2. k \in SrcLanes \/ k \in DstLanes
    OBVIOUS
  <2>3. QED
    BY <2>1, <2>2, <1>1, <1>2, QueueIn
<1>4. \/ QueueAt(k, q)' = Both(QueueAt(k, q), n, l.dst, e1, l.src, e2)
      \/ QueueAt(k, q)' = Both(QueueAt(k, q), n, l.src, e2, l.dst, e1)
  BY <1>3 DEF Carried, Completes
<1>5. LookupAt(k, q)' = LookupAt(k, q)
  <2>1. node'[q.dst].table = node[q.dst].table
    BY LaneTypes
  <2>2. CASE k = 6 \/ k = 16
    <3>1. LookupAt(k, q) = node[q.dst].table /\ LookupAt(k, q)' = node'[q.dst].table
      <4>1. k \in {6, 16}
        BY <2>2
      <4>2. QED
        BY ONLY <4>1, LookupIs
    <3>2. QED
      BY <2>1, <3>1
  <2>3. CASE k # 6 /\ k # 16
    <3>1. LookupAt(k, q) = <<>> /\ LookupAt(k, q)' = <<>>
      BY <2>3, <1>1, LookupIs
    <3>2. QED
      BY <3>1
  <2>4. QED
    BY <2>2, <2>3
<1>6. PICK S : QueueAt(k, q) \in Seq(S)
  BY <1>1, LaneTypes
<1>7. PICK T : S \subseteq T /\ e1 \in T /\ e2 \in T
  <2>1. S \subseteq S \cup {e1, e2} /\ e1 \in S \cup {e1, e2} /\ e2 \in S \cup {e1, e2}
    OBVIOUS
  <2>2. QED
    BY <2>1
<1>8. QueueAt(k, q) \in Seq(T)
  BY <1>6, <1>7, SeqMore
<1>9. e1.link = l /\ e2.link = l
  BY DEF Carried, Completes
<1>10. k \in SrcLanes => Val(k, q, e1, LookupAt(k, q)) = {}
  BY ValuesSrc
<1>11. k \in DstLanes => Val(k, q, e2, LookupAt(k, q)) = {}
  BY ValuesDst
<1>12. q # l => Val(k, q, e1, LookupAt(k, q)) = {} /\ Val(k, q, e2, LookupAt(k, q)) = {}
  BY <1>9, ValuesSrc, ValuesDst
<1>13. /\ (n = l.dst => Val(k, q, e1, LookupAt(k, q)) = {}) /\ (n = l.src => Val(k, q, e2, LookupAt(k, q)) = {})
            => Stays(k, q)
       /\ \A v : n = l.dst /\ Val(k, q, e1, LookupAt(k, q)) = {v} /\ (n = l.src => Val(k, q, e2, LookupAt(k, q)) = {})
            => Enters(k, q, v)
       /\ \A v : n = l.src /\ Val(k, q, e2, LookupAt(k, q)) = {v} /\ (n = l.dst => Val(k, q, e1, LookupAt(k, q)) = {})
            => Enters(k, q, v)
  <2>1. PICK z, x : z = QueueAt(k, q) /\ x = LookupAt(k, q)
    OBVIOUS
  <2>2. /\ LaneAt(k, q) = Lane(k, q, z, x)
        /\ \/ LaneAt(k, q)' = Lane(k, q, Both(z, n, l.dst, e1, l.src, e2), x)
           \/ LaneAt(k, q)' = Lane(k, q, Both(z, n, l.src, e2, l.dst, e1), x)
    BY <2>1, <1>4, <1>5 DEF LaneAt
  <2>3. z \in Seq(T) /\ e1 \in T /\ e2 \in T
    BY <2>1, <1>7, <1>8
  <2> DEFINE A == Lane(k, q, z, x)
             B == Lane(k, q, Both(z, n, l.dst, e1, l.src, e2), x)
             C == Lane(k, q, Both(z, n, l.src, e2, l.dst, e1), x)
  <2>4. /\ (n = l.dst => Val(k, q, e1, x) = {}) /\ (n = l.src => Val(k, q, e2, x) = {}) => Alike(A, B)
        /\ \A v : n = l.dst /\ Val(k, q, e1, x) = {v} /\ (n = l.src => Val(k, q, e2, x) = {}) => Gains(A, B, v)
        /\ \A v : n = l.src /\ Val(k, q, e2, x) = {v} /\ (n = l.dst => Val(k, q, e1, x) = {}) => Gains(A, B, v)
    BY <2>3, LaneBoth
  <2>5. /\ (n = l.dst => Val(k, q, e1, x) = {}) /\ (n = l.src => Val(k, q, e2, x) = {}) => Alike(A, C)
        /\ \A v : n = l.dst /\ Val(k, q, e1, x) = {v} /\ (n = l.src => Val(k, q, e2, x) = {}) => Gains(A, C, v)
        /\ \A v : n = l.src /\ Val(k, q, e2, x) = {v} /\ (n = l.dst => Val(k, q, e1, x) = {}) => Gains(A, C, v)
    BY <2>3, LaneBoth
  <2>6. A = LaneAt(k, q) /\ (B = LaneAt(k, q)' \/ C = LaneAt(k, q)')
    BY <2>2
  <2> HIDE DEF A, B, C
  <2>7. CASE B = LaneAt(k, q)'
    BY <2>1, <2>4, <2>6, <2>7 DEF Stays, Enters
  <2>8. CASE C = LaneAt(k, q)'
    BY <2>1, <2>5, <2>6, <2>8 DEF Stays, Enters
  <2>9. QED
    BY <2>6, <2>7, <2>8
<1>14. CASE q # l
  <2>1. Stays(k, q)
    BY <1>12, <1>13, <1>14, Zenon
  <2>2. QED
    BY <2>1, <1>14, Zenon
<1>15. CASE q = l
  <2>1. CASE k \in SrcLanes
    BY <1>1, <1>2, <1>10, <1>13, <1>15, <2>1
  <2>2. CASE k \in DstLanes
    BY <1>1, <1>2, <1>11, <1>13, <1>15, <2>2
  <2>3. QED
    BY <2>1, <2>2
<1>16. QED
  BY <1>14, <1>15

(* A completion is polled.                                                   *)
LEMMA OnePolled ==
  ASSUME RdmaAssumption, Typed, NEW n \in Proc, NEW e, Takes(n, e),
         \A i \in DOMAIN Tail(node[n].cq) :
            Tail(node[n].cq)[i].op = "written" =>
              node'[n].table[Tail(node[n].cq)[i].idx] = node[n].table[Tail(node[n].cq)[i].idx],
         NEW q \in Link, NEW k \in SrcLanes \cup DstLanes
  PROVE  /\ q # e.link => Stays(k, q)
         /\ e.link = q /\ Val(k, q, e, LookupAt(k, q)) = {} => Stays(k, q)
         /\ \A v : /\ e.link = q /\ Val(k, q, e, LookupAt(k, q)) = {v}
                   /\ IF k \in SrcLanes THEN q.src = n ELSE q.dst = n
                   => Leaves(k, q, v)
<1>1. k \in Lanes /\ k \notin {1, 3, 13} /\ (k \in SrcLanes => k \notin {6, 16}) /\ ~ (k \in SrcLanes /\ k \in DstLanes)
  BY LaneKinds
<1>2. PICK m : m = IF k \in SrcLanes THEN q.src ELSE q.dst
  OBVIOUS
<1>3. m \in Proc /\ QueueAt(k, q) = node[m].cq /\ QueueAt(k, q)' = node'[m].cq
  <2>1. q.src \in Proc /\ q.dst \in Proc
    BY LaneTypes
  <2>2. k \in SrcLanes \/ k \in DstLanes
    OBVIOUS
  <2>3. QED
    BY <2>1, <2>2, <1>1, <1>2, QueueIn
<1>4. q # e.link => Val(k, q, e, LookupAt(k, q)) = {}
  BY ValuesSrc, ValuesDst
<1>5. CASE m # n
  <2>1. node'[m] = node[m]
    BY <1>3, <1>5 DEF Takes
  <2>2. Stays(k, q)
    <3>1. k # 7 /\ k # 31 /\ k # 21 /\ k # 1 /\ k \notin OutLanes /\ k \notin IncLanes
      BY LaneKinds DEF SrcLanes, DstLanes
    <3>2. k \in SrcLanes => node'[q.src].cq = node[q.src].cq
      BY <2>1, <1>2
    <3>3. k \in DstLanes => node'[q.dst].cq = node[q.dst].cq /\ node'[q.dst].table = node[q.dst].table
      BY <2>1, <1>1, <1>2
    <3>4. QED
      BY <1>1, <3>1, <3>2, <3>3, LaneRest
  <2>3. QED
    BY <2>2, <1>2, <1>5
<1>6. CASE m = n
  <2>1. QueueAt(k, q) # <<>> /\ QueueAt(k, q)' = Tail(QueueAt(k, q)) /\ e = Head(QueueAt(k, q))
    BY <1>3, <1>6 DEF Takes
  <2>2. PICK T : QueueAt(k, q) \in Seq(T)
    BY <1>1, LaneTypes
  <2>3. \A i \in DOMAIN Tail(QueueAt(k, q)) :
           Val(k, q, Tail(QueueAt(k, q))[i], LookupAt(k, q)') = Val(k, q, Tail(QueueAt(k, q))[i], LookupAt(k, q))
    <3>1. CASE k \in {6, 16}
      <4>1. LookupAt(k, q) = node[n].table /\ LookupAt(k, q)' = node'[n].table
        BY <3>1, <1>2, <1>6, LookupIs DEF SrcLanes
      <4>2. k \in DstLanes
        BY <3>1 DEF DstLanes
      <4>3. SUFFICES ASSUME NEW i \in DOMAIN Tail(node[n].cq)
                     PROVE  Val(k, q, Tail(node[n].cq)[i], node'[n].table) = Val(k, q, Tail(node[n].cq)[i], node[n].table)
        BY <4>1, <1>3, <1>6
      <4>4. PICK f, x, y : f = Tail(node[n].cq)[i] /\ x = node[n].table /\ y = node'[n].table
        OBVIOUS
      <4>5. f.op = "written" => y[f.idx] = x[f.idx]
        BY <4>4
      <4>6. Val(k, q, f, y) = Val(k, q, f, x)
        <5>1. k \in DstLanes
          BY <4>2
        <5>2. Unchanged(k, f, x, y)
          BY <4>5 DEF Unchanged
        <5>3. QED
          BY ONLY <5>1, <5>2, ValuesWritten, SMT
      <4>7. QED
        BY <4>4, <4>6
    <3>2. CASE k \notin {6, 16}
      BY <3>2, <1>1, LookupIs
    <3>3. QED
      BY <3>1, <3>2
  <2>4. /\ Val(k, q, e, LookupAt(k, q)) = {} => Stays(k, q)
        /\ \A v : Val(k, q, e, LookupAt(k, q)) = {v} => Leaves(k, q, v)
    BY <2>1, <2>2, <2>3, LanePopped
  <2>5. QED
    BY <1>4, <2>4
<1>7. QED
  BY <1>5, <1>6

----------------------------------------------------------------------------
(* What a step of one link leaves alone.                                     *)

(* A request that failed stays in the queue until its process ends.          *)
LEMMA FaultsKept ==
  ASSUME RdmaAssumption, Typed, NEW l \in Link, Faults(l) # {},
         LET q == node[l.src].cq IN LET p == node'[l.src].cq IN
           \/ p = q
           \/ \E e : p = Append(q, e)
           \/ \E e, f : p = Append(Append(q, e), f)
           \/ q # <<>> /\ Head(q).op # "error" /\ p = Tail(q)
  PROVE  Faults(l)' # {}
<1>1. PICK q, p : q = node[l.src].cq /\ p = node'[l.src].cq
  OBVIOUS
<1>2. PICK i : i \in DOMAIN q /\ q[i] = [op |-> "error", link |-> l]
  BY <1>1 DEF Faults
<1>3. PICK T : q \in Seq(T)
  BY <1>1, LaneTypes DEF NodeAt
<1>0. PICK f : f = q[i]
  OBVIOUS
<1>4. f = q[i] /\ i \in DOMAIN q /\ f.op = "error"
  BY ONLY <1>0, <1>2
<1>5. \E j \in DOMAIN p : p[j] = f
  <2>1. CASE p = q
    BY <2>1, <1>2, <1>4
  <2>2. ASSUME NEW e, p = Append(q, e) PROVE i \in DOMAIN p /\ p[i] = f
    <3>1. Adds(q, p, e)
      BY <2>2, <1>3, QueueMoves
    <3>2. QED
      BY ONLY <3>1, <1>4, AddsHolds
  <2>3. ASSUME NEW e, NEW g, p = Append(Append(q, e), g) PROVE i \in DOMAIN p /\ p[i] = f
    <3>1. PICK U : U = T \cup {e, g}
      OBVIOUS
    <3>2. q \in Seq(U) /\ e \in U
      BY <1>3, <3>1, SeqMore
    <3>3. PICK r : r = Append(q, e) /\ r \in Seq(U)
      BY <3>2, QueueFacts
    <3>4. Adds(q, r, e) /\ Adds(r, p, g)
      BY <2>3, <1>3, <3>3, QueueMoves
    <3>5. QED
      BY ONLY <3>4, <1>4, AddsHolds
  <2>4. CASE q # <<>> /\ Head(q).op # "error" /\ p = Tail(q)
    <3>1. Drops(q, p, Head(q))
      BY <2>4, <1>3, QueueMoves
    <3>2. f # Head(q)
      BY <2>4, <1>4
    <3>3. QED
      BY ONLY <3>1, <3>2, <1>4, DropsHolds
  <2>5. QED
    BY <1>1, <2>1, <2>2, <2>3, <2>4
<1>6. QED
  BY <1>1, <1>2, <1>4, <1>5 DEF Faults

(* A failed request is not forgotten when others complete,                  *)
LEMMA FaultsCompleted ==
  ASSUME RdmaAssumption, Typed, NEW l \in Link, Faults(l) # {}, NEW k, NEW n1, NEW n2, NEW e1, NEW e2,
         Completes(k, n1, e1, n2, e2)
  PROVE  Faults(l)' # {}
<1>1. PICK n : n = l.src /\ n \in Proc
  BY LaneTypes
<1>2. node'[n].cq = Longer(n2, n, Longer(n1, n, node[n].cq, e1), e2)
  BY <1>1 DEF Completes, Both
<1>3. PICK q, p : q = node[n].cq /\ p = node'[n].cq
  OBVIOUS
<1>4. p = q \/ (\E e : p = Append(q, e)) \/ \E e, f : p = Append(Append(q, e), f)
  BY <1>2, <1>3 DEF Longer
<1>5. QED
  BY <1>1, <1>3, <1>4, FaultsKept

(* nor when the completion that is polled is another one.                   *)
LEMMA FaultsTaken ==
  ASSUME RdmaAssumption, Typed, NEW l \in Link, Faults(l) # {}, NEW n \in Proc, NEW e, Takes(n, e), e.op # "error"
  PROVE  Faults(l)' # {}
<1>1. l.src \in Proc
  BY LaneTypes
<1>2. CASE l.src = n
  BY <1>2, FaultsKept DEF Takes
<1>3. CASE l.src # n
  BY <1>1, <1>3, FaultsKept DEF Takes
<1>4. QED
  BY <1>2, <1>3

(* The parts of Ordered at a link, and at a process.                         *)
LEMMA OrderedStep ==
  ASSUME Histories', \A n \in Proc : OwnEntries(n)' /\ OwnBuffers(n)', \A l \in Link : OwnContexts(l)' /\ Orderly(l)'
  PROVE  Ordered'
BY DEF Ordered

Alone(l) ==
  /\ \A k \in Lanes : Stays(k, l)
  /\ posted'[l] = posted[l] /\ delivered'[l] = delivered[l] /\ (Sound(l)' => Sound(l))
  /\ Faults(l) # {} => Faults(l)' # {}
Untouched(n) ==
  node'[n].table = node[n].table /\ node'[n].recv = node[n].recv /\ node'[n].mem = node[n].mem

(* The groups of lanes.                                                     *)
LEMMA LaneGroups ==
  /\ Stages \subseteq Lanes /\ Entries \subseteq Lanes /\ Answers \cup Starts \subseteq Lanes /\ 16 \in Entries
  /\ Lanes = OutLanes \cup IncLanes \cup SrcLanes \cup DstLanes \cup {7, 31, 21}
BY DEF Lanes, Stages, Entries, Answers, Starts, OutLanes, IncLanes, SrcLanes, DstLanes

(* Ordered is kept when it is for the links D a step touches and the        *)
(* processes E they lead to, and the step leaves the other lanes alone.     *)
LEMMA OrderedElsewhere ==
  ASSUME Ordered, NEW D \in SUBSET Link, NEW E \in SUBSET Proc, \A q \in Link \ D : Alone(q),
         \A q \in Link : q.dst \in Proc /\ (q \in D => q.dst \in E), \A n \in Proc \ E : Untouched(n),
         Histories', \A n \in E : OwnEntries(n)' /\ OwnBuffers(n)', \A q \in D : OwnContexts(q)' /\ Orderly(q)'
  PROVE  Ordered'
<1>1. ASSUME NEW n \in Proc \ E PROVE OwnEntries(n)' /\ OwnBuffers(n)'
  <2>1. \A q \in To(n), k \in Lanes : Stays(k, q)
    BY DEF To, Alone
  <2>2. \A q \in To(n), k \in Entries : Stays(k, q)
    BY <2>1, LaneGroups
  <2>3. OwnEntries(n) /\ OwnBuffers(n) /\ Untouched(n)
    BY DEF Ordered
  <2>4. OwnEntries(n)'
    BY <2>2, <2>3, EntriesStay DEF Untouched
  <2>5. \A q \in To(n) : Stays(16, q)
    BY <2>2, LaneGroups
  <2>6. QED
    BY <2>3, <2>4, <2>5, BuffersStay DEF Untouched
<1>2. ASSUME NEW q \in Link \ D PROVE OwnContexts(q)' /\ Orderly(q)'
  <2>1. Alone(q) /\ OwnContexts(q) /\ Orderly(q)
    BY DEF Ordered
  <2>2. /\ \A k \in Stages : Stays(k, q)
        /\ \A k \in Answers \cup Starts : Stays(k, q)
    BY <2>1, LaneGroups DEF Alone
  <2>3. QED
    BY <2>1, <2>2, OrderlyStays, ContextsStay DEF Alone
<1>3. QED
  BY <1>1, <1>2, OrderedStep

(* The histories keep their types when they do not change.                  *)
LEMMA HistoriesKept == ASSUME Histories, UNCHANGED <<posted, delivered>> PROVE Histories'
BY DEF Histories

(* A step that touches no lane.                                              *)
LEMMA OrderedStill ==
  ASSUME RdmaAssumption, Ordered, \A q \in Link : Alone(q), \A n \in Proc : Untouched(n), UNCHANGED <<posted, delivered>>
  PROVE  Ordered'
<1>1. Histories'
  BY HistoriesKept DEF Ordered
<1>2. \A q \in Link : q.dst \in Proc
  BY DEF RdmaAssumption
<1>3. PICK D, E : D = {} /\ E = {}
  OBVIOUS
<1>4. D \in SUBSET Link /\ E \in SUBSET Proc /\ Link \ D = Link /\ Proc \ E = Proc
  BY <1>3
<1>5. QED
  BY <1>1, <1>2, <1>3, <1>4, OrderedElsewhere

(* A link whose queues, contexts and histories do not change is left alone. *)
LEMMA AloneSame ==
  ASSUME NEW q \in Link,
         out'[q].sq = out[q].sq, out'[q].startBuf = out[q].startBuf, out'[q].start = out[q].start,
         out'[q].rejects = out[q].rejects \/ out'[q].rejects # 0,
         inc'[q].sq = inc[q].sq, inc'[q].replyBuf = inc[q].replyBuf, inc'[q].reply = inc[q].reply,
         node'[q.src].cq = node[q.src].cq, node'[q.dst].cq = node[q.dst].cq,
         node'[q.dst].table = node[q.dst].table, node'[q.dst].recv = node[q.dst].recv,
         posted'[q] = posted[q], delivered'[q] = delivered[q]
  PROVE  Alone(q)
<1>1. \A k \in Lanes : Stays(k, q)
  BY LaneRest
<1>2. Faults(q)' = Faults(q)
  BY DEF Faults
<1>3. QED
  BY <1>1, <1>2 DEF Alone, Sound

(* Binding, connecting and answering a connection post and deliver nothing. *)
LEMMA OrderedConnections ==
  ASSUME RdmaAssumption, Typed, Ordered,
         \/ \E n \in Proc : Bind(n)
         \/ \E l \in Link : Connect(l) \/ OnRejected(l) \/ OnConnected(l)
  PROVE  Ordered'
<1>1. /\ UNCHANGED <<inc, posted, delivered>>
      /\ \A n \in Proc : node'[n].cq = node[n].cq /\ Untouched(n)
  <2>1. CASE \E n \in Proc : Bind(n)
    BY <2>1 DEF Typed, Nodes, NodeAt, Bind, Untouched
  <2>2. CASE \E l \in Link : Connect(l) \/ OnRejected(l) \/ OnConnected(l)
    BY <2>2 DEF Connect, OnRejected, OnConnected, Untouched
  <2>3. QED
    BY <2>1, <2>2
<1>2. \A q \in Link : /\ out'[q].sq = out[q].sq /\ out'[q].startBuf = out[q].startBuf /\ out'[q].start = out[q].start
                      /\ out'[q].rejects = out[q].rejects \/ out'[q].rejects # 0
  <2>1. CASE \E n \in Proc : Bind(n)
    BY <2>1 DEF Bind
  <2>2. ASSUME NEW l \in Link, Connect(l) \/ OnRejected(l) \/ OnConnected(l),
               NEW q \in Link
        PROVE  /\ out'[q].sq = out[q].sq /\ out'[q].startBuf = out[q].startBuf /\ out'[q].start = out[q].start
               /\ out'[q].rejects = out[q].rejects \/ out'[q].rejects # 0
    <3>1. OutAt(l, out[l], thread) /\ DOMAIN out = Link
      BY DEF Typed, Outs
    <3>2. CASE Connect(l)
      BY <3>1, <3>2 DEF OutAt, Connect
    <3>3. CASE OnRejected(l)
      BY <3>1, <3>3 DEF OutAt, OnRejected
    <3>4. CASE OnConnected(l)
      BY <3>1, <3>4 DEF OutAt, OnConnected
    <3>5. QED
      BY <2>2, <3>2, <3>3, <3>4
  <2>3. QED
    BY <2>1, <2>2
<1>3. ASSUME NEW q \in Link PROVE Alone(q)
  <2>1. q.src \in Proc /\ q.dst \in Proc
    BY LaneTypes
  <2>2. QED
    BY <1>1, <1>2, <2>1, AloneSame DEF Untouched
<1>4. QED
  BY <1>1, <1>3, OrderedStill

(* A step of the sender's before its START, and one that ends a process.     *)
LEMMA OrderedPrepare ==
  ASSUME RdmaAssumption, Typed, Ordered, NEW t \in Thread, Prepare(t) \/ TakeWriteContext(t)
  PROVE  Ordered'
<1>1. Via[t] \in Link /\ Via[t].src \in Proc
  BY DEF RdmaAssumption
<1>2. /\ UNCHANGED <<inc, posted, delivered>>
      /\ \A n \in Proc : node'[n].cq = node[n].cq /\ Untouched(n)
  <2>1. CASE Prepare(t)
    <3>1. UNCHANGED <<inc, posted, delivered>>
      BY <2>1 DEF Prepare
    <3>2. PICK p, r : node' = [node EXCEPT ![Via[t].src].pool = p, ![Via[t].src].mr = r]
      BY <2>1 DEF Prepare
    <3>3. \A n \in Proc : node'[n].cq = node[n].cq /\ Untouched(n)
      BY <1>1, <3>2 DEF Typed, Nodes, NodeAt, Untouched
    <3>4. QED
      BY <3>1, <3>3
  <2>2. CASE TakeWriteContext(t)
    BY <2>2 DEF TakeWriteContext, Untouched
  <2>3. QED
    BY <2>1, <2>2
<1>3. ASSUME NEW q \in Link
      PROVE  /\ out'[q].sq = out[q].sq /\ out'[q].startBuf = out[q].startBuf /\ out'[q].start = out[q].start
             /\ out'[q].rejects = out[q].rejects
  <2>1. CASE Prepare(t)
    BY <2>1 DEF Prepare
  <2>2. CASE TakeWriteContext(t)
    BY <1>1, <2>2 DEF TakeWriteContext, Typed, Outs, OutAt
  <2>3. QED
    BY <2>1, <2>2
<1>4. ASSUME NEW q \in Link PROVE Alone(q)
  <2>1. q.src \in Proc /\ q.dst \in Proc
    BY LaneTypes
  <2>2. QED
    BY <1>2, <1>3, <2>1, AloneSame DEF Untouched
<1>5. QED
  BY <1>2, <1>4, OrderedStill

(* A process that fails posts and delivers nothing.                         *)
LEMMA OrderedFail ==
  ASSUME RdmaAssumption, Typed, Ordered, NEW n \in Proc, NEW why, Fail(n, why), UNCHANGED <<out, inc, posted, delivered>>
  PROVE  Ordered'
<1>1. \A p \in Proc : node'[p].cq = node[p].cq /\ Untouched(p)
  BY DEF Typed, Nodes, NodeAt, Fail, Untouched
<1>2. ASSUME NEW q \in Link PROVE Alone(q)
  <2>1. q.src \in Proc /\ q.dst \in Proc
    BY LaneTypes
  <2>2. QED
    BY <1>1, <2>1, AloneSame DEF Untouched
<1>3. QED
  BY <1>1, <1>2, OrderedStill

(* The caller frees the memory of the messages it has received: no lane     *)
(* names it.                                                                *)
LEMMA OrderedRelease ==
  ASSUME RdmaAssumption, Typed, Ordered, NEW n \in Proc, Release(n)
  PROVE  Ordered'
<1>1. UNCHANGED <<out, inc, posted, delivered>> /\ \A p \in Proc : node'[p].cq = node[p].cq /\ Untouched(p)
  BY DEF Typed, Nodes, NodeAt, Release, Untouched
<1>2. ASSUME NEW q \in Link PROVE Alone(q)
  <2>1. q.src \in Proc /\ q.dst \in Proc
    BY LaneTypes
  <2>2. QED
    BY <1>1, <2>1, AloneSame DEF Untouched
<1>3. QED
  BY <1>1, <1>2, OrderedStill

(* Nothing is on its way at the start.                                      *)
LEMMA OrderedInit == ASSUME RdmaAssumption, Init PROVE Ordered
<1>1. \A l \in Link, k \in Lanes : QueueAt(k, l) = <<>>
  <2>1. \A l \in Link : l.src \in Proc /\ l.dst \in Proc
    BY DEF RdmaAssumption
  <2>2. ASSUME NEW l \in Link, NEW k \in Lanes PROVE QueueAt(k, l) = <<>>
    <3>1. /\ out[l].sq = <<>> /\ inc[l].sq = <<>> /\ node[l.src].cq = <<>> /\ node[l.dst].cq = <<>>
          /\ node[l.dst].recv = <<>> /\ out[l].start = <<>> /\ inc[l].reply = <<>>
      BY <2>1 DEF Init, InitContext, Endpoint, IncomingEndpoint
    <3>2. QED
      BY <3>1, QueueIs
  <2>3. QED
    BY <2>2
<1>2. \A l \in Link, k \in Lanes : DOMAIN LaneAt(k, l) = {}
  BY <1>1 DEF LaneAt, Lane
<1>3. \A l \in Link, k \in Lanes : Once(LaneAt(k, l)) /\ Held(LaneAt(k, l)) = {}
  BY <1>2, LaneEmpty
<1>4. Histories
  BY DEF Init, Histories
<1>5. ASSUME NEW n \in Proc PROVE OwnEntries(n) /\ OwnBuffers(n)
  <2>1. PICK F : F = EntryLanes(n)
    OBVIOUS
  <2>2. DOMAIN F = Entries \X To(n) /\ \A p \in DOMAIN F : Once(F[p]) /\ Held(F[p]) = {}
    BY <2>1, <1>3, LaneGroups DEF EntryLanes, To
  <2>3. Separate(F) /\ Total(F) = {}
    BY <2>2 DEF Separate, Total
  <2>4. node[n].recv = <<>>
    BY DEF Init, InitContext
  <2>5. \A l \in To(n) : Held(LaneAt(16, l)) = {}
    BY <1>3, LaneGroups DEF To
  <2>6. QED
    BY <2>1, <2>3, <2>4, <2>5 DEF OwnEntries, OwnBuffers
<1>6. ASSUME NEW l \in Link PROVE OwnContexts(l)
  <2>1. PICK F, G : F = AnswerLanes(l) /\ G = StartLanes(l)
    OBVIOUS
  <2>2. \A s \in DOMAIN F : Once(F[s]) /\ Held(F[s]) = {}
    BY <2>1, <1>3, LaneGroups DEF AnswerLanes
  <2>3. \A s \in DOMAIN G : Once(G[s]) /\ Held(G[s]) = {}
    BY <2>1, <1>3, LaneGroups DEF StartLanes
  <2>4. QED
    BY <2>1, <2>2, <2>3 DEF OwnContexts, Separate
<1>7. ASSUME NEW l \in Link PROVE Orderly(l)
  <2>1. posted[l] = <<>> /\ delivered[l] = <<>>
    BY DEF Init
  <2>2. PICK L, p, d, b : L = StageLanes(l) /\ p = posted[l] /\ d = Len(delivered[l]) /\ b = Faults(l)
    OBVIOUS
  <2>3. DOMAIN p = {} /\ \A s \in 1 .. 7 : DOMAIN L[s] = {}
    BY <2>1, <2>2, <1>2, LaneGroups DEF StageLanes, Stages
  <2>4. Flowing(L, p, d, b)
    BY <2>3, FlowEmpty
  <2>5. QED
    BY <2>1, <2>2, <2>4 DEF Orderly, Returned
<1>8. QED
  BY <1>4, <1>5, <1>6, <1>7 DEF Ordered

----------------------------------------------------------------------------
(* A START is posted, a write fails, and a message is returned.              *)
LEMMA OrderlyStarts ==
  ASSUME NEW l, Orderly(l), NEW S, posted[l] \in Seq(S), NEW x, posted'[l] = Append(posted[l], x), NEW D,
         delivered[l] \in Seq(D), delivered'[l] = delivered[l],
         Sound(l)' => Sound(l), Faults(l) # {} => Faults(l)' # {},
         Sound(l)' => Enters(1, l, x), \A k \in Stages \ {1} : Stays(k, l)
  PROVE  Orderly(l)'
<1> SUFFICES ASSUME Sound(l)'
             PROVE  /\ Flowing(StageLanes(l)', posted'[l], Len(delivered'[l]), Faults(l)')
                    /\ Returned(l)'
  BY DEF Orderly
<1>1. PICK L, M : L = StageLanes(l) /\ M = StageLanes(l)'
  OBVIOUS
<1>2. PICK p, r, d, b, c : p = posted[l] /\ r = posted'[l] /\ d = Len(delivered[l]) /\ b = Faults(l) /\ c = Faults(l)'
  OBVIOUS
<1>3. PICK n : n = Len(p) /\ n \in Nat /\ DOMAIN p = 1 .. n
  BY <1>2
<1>4. Flowing(L, p, d, b) /\ d \in Nat /\ d <= n
  BY <1>1, <1>2, <1>3 DEF Orderly, Returned
<1>5. \A s \in 1 .. 7 : L[s] = LaneAt(s, l) /\ M[s] = LaneAt(s, l)'
  BY <1>1 DEF StageLanes, Stages
<1>6. Gains(L[1], M[1], x) /\ \A s \in 2 .. 7 : Alike(L[s], M[s])
  <2>1. Gains(L[1], M[1], x)
    BY <1>5 DEF Enters
  <2>2. \A s \in 2 .. 7 : s \in Stages \ {1} /\ s \in 1 .. 7
    BY DEF Stages
  <2>3. QED
    BY <2>1, <2>2, <1>5 DEF Stays
<1>7. Adds(p, r, x)
  BY <1>2, QueueMoves
<1>8. Flowing(M, r, d, b)
  BY <1>3, <1>4, <1>6, <1>7, FlowStart
<1>9. Flowing(M, r, d, c)
  BY <1>2, <1>8, FlowFaults
<1>10. Returned(l)'
  <2>1. Returned(l)
    BY DEF Orderly
  <2>2. PICK q : q = delivered[l] /\ DOMAIN q = 1 .. d
    BY <1>2
  <2>3. \A i \in DOMAIN q : i \in DOMAIN p /\ r[i] = p[i]
    BY <2>2, <1>3, <1>4, <1>7, AddsHolds
  <2>4. Len(r) = n + 1
    BY <1>2, <1>3
  <2>5. Len(delivered'[l]) <= Len(posted'[l])
    BY <1>2, <1>3, <1>4, <2>4
  <2>6. \A i \in DOMAIN delivered'[l] : delivered'[l] = q /\ i \in DOMAIN q /\ posted'[l][i] = posted[l][i]
    BY <2>2, <2>3, <1>2
  <2>7. QED
    BY <2>1, <2>2, <2>5, <2>6 DEF Returned
<1>11. QED
  BY <1>1, <1>2, <1>9, <1>10

(* A write that fails breaks the link: the postings of the later stages are *)
(* earlier ones, and they are all that is still to come.                    *)
LEMMA OrderlyBreaks ==
  ASSUME NEW l, Orderly(l), posted'[l] = posted[l], delivered'[l] = delivered[l],
         Sound(l)' => Sound(l), Len(delivered[l]) \in Nat, Faults(l) = {}, Faults(l)' # {},
         NEW x, Leaves(5, l, x), \A k \in Stages \ {5} : Stays(k, l)
  PROVE  Orderly(l)'
<1> SUFFICES ASSUME Sound(l)'
             PROVE  /\ Flowing(StageLanes(l)', posted'[l], Len(delivered'[l]), Faults(l)')
                    /\ Returned(l)'
  BY DEF Orderly
<1>1. PICK L, M : L = StageLanes(l) /\ M = StageLanes(l)'
  OBVIOUS
<1>2. PICK p, d, b, c : p = posted[l] /\ d = Len(delivered[l]) /\ b = Faults(l) /\ c = Faults(l)'
  OBVIOUS
<1>3. Flowing(L, p, d, b) /\ d \in Nat /\ b = {} /\ c # {}
  BY <1>1, <1>2 DEF Orderly
<1>4. \A s \in 1 .. 7 : L[s] = LaneAt(s, l) /\ M[s] = LaneAt(s, l)'
  BY <1>1 DEF StageLanes, Stages
<1>5. Loses(L[5], M[5], x) /\ \A s \in 1 .. 7 \ {5} : Alike(L[s], M[s])
  BY <1>4 DEF Leaves, Stays, Stages
<1>6. Flowing(M, p, d, c)
  BY <1>3, <1>5, FlowBreak
<1>7. Returned(l)'
  BY DEF Orderly, Returned
<1>8. QED
  BY <1>1, <1>2, <1>6, <1>7

(* A message is delivered: it is the next of those posted.                  *)
LEMMA OrderlyEnds ==
  ASSUME NEW l, Orderly(l), NEW S, posted[l] \in Seq(S), posted'[l] = posted[l], NEW D, delivered[l] \in Seq(D),
         NEW x, NEW y, delivered'[l] = Append(delivered[l], y),
         y = [body |-> x, lens |-> x, head |-> Arrives(l, BodyOf(x).head)],
         Sound(l)' => Sound(l), Faults(l) # {} => Faults(l)' # {},
         Leaves(7, l, x), \A k \in Stages \ {7} : Stays(k, l)
  PROVE  Orderly(l)'
<1> SUFFICES ASSUME Sound(l)'
             PROVE  /\ Flowing(StageLanes(l)', posted'[l], Len(delivered'[l]), Faults(l)')
                    /\ Returned(l)'
  BY DEF Orderly
<1>1. PICK L, M : L = StageLanes(l) /\ M = StageLanes(l)'
  OBVIOUS
<1>2. PICK p, q, r, d, b, c : /\ p = posted[l] /\ q = delivered[l] /\ r = delivered'[l]
                              /\ d = Len(q) /\ b = Faults(l) /\ c = Faults(l)'
  OBVIOUS
<1>3. PICK n : n = Len(p) /\ n \in Nat /\ DOMAIN p = 1 .. n
  <2>1. p \in Seq(S)
    BY <1>2
  <2>2. Len(p) \in Nat /\ DOMAIN p = 1 .. Len(p)
    BY <2>1
  <2>3. QED
    BY <2>2
<1>4. Flowing(L, p, d, b) /\ d \in Nat /\ DOMAIN q = 1 .. d
  BY <1>1, <1>2 DEF Orderly
<1>5. \A s \in 1 .. 7 : L[s] = LaneAt(s, l) /\ M[s] = LaneAt(s, l)'
  BY <1>1 DEF StageLanes, Stages
<1>6. Loses(L[7], M[7], x) /\ \A s \in 1 .. 6 : Alike(L[s], M[s])
  <2>1. Loses(L[7], M[7], x)
    BY <1>5 DEF Leaves
  <2>2. \A s \in 1 .. 6 : s \in Stages \ {7} /\ s \in 1 .. 7
    BY DEF Stages
  <2>3. QED
    BY <2>1, <2>2, <1>5 DEF Stays
<1>7. d + 1 \in DOMAIN p /\ p[d + 1] = x /\ Flowing(M, p, d + 1, b)
  BY <1>3, <1>4, <1>6, FlowEnd
<1>8. Flowing(M, p, d + 1, c)
  BY <1>2, <1>7, FlowFaults
<1>9. Len(r) = d + 1
  BY <1>2
<1>10. Returned(l)'
  <2>1. Returned(l)
    BY DEF Orderly
  <2>2. Adds(q, r, y)
    BY <1>2, QueueMoves
  <2>3. DOMAIN r = 1 .. d + 1 /\ r[d + 1] = y /\ \A i \in 1 .. d : r[i] = q[i]
    BY <2>2, <1>4 DEF Adds
  <2>4. \A i \in 1 .. d : q[i] = [body |-> p[i], lens |-> p[i], head |-> Arrives(l, BodyOf(p[i]).head)]
    BY <2>1, <1>2, <1>4 DEF Returned
  <2>5. \A i \in DOMAIN r : r[i] = [body |-> p[i], lens |-> p[i], head |-> Arrives(l, BodyOf(p[i]).head)]
    <3>1. r[d + 1] = [body |-> p[d + 1], lens |-> p[d + 1], head |-> Arrives(l, BodyOf(p[d + 1]).head)]
      BY <2>3, <1>7
    <3>2. \A i \in DOMAIN r : i = d + 1 \/ i \in 1 .. d
      BY <2>3, <1>4
    <3>3. QED
      BY <2>3, <2>4, <3>1, <3>2
  <2>6. Len(r) <= Len(p)
    BY <1>3, <1>7, <1>9
  <2>7. r = delivered'[l] /\ p = posted'[l]
    BY <1>2
  <2>8. QED
    BY <2>5, <2>6, <2>7 DEF Returned
<1>11. QED
  BY <1>1, <1>2, <1>8, <1>9, <1>10

----------------------------------------------------------------------------
(* The network.                                                              *)

(* What CompleteBoth leaves alone.                                           *)
LEMMA BothKeep ==
  ASSUME NEW f, NEW n1, NEW n2, NEW e1, NEW e2, node' = CompleteBoth(f, n1, e1, n2, e2),
         NEW n \in Proc, {"table", "recv", "mem"} \subseteq DOMAIN f[n]
  PROVE  node'[n].table = f[n].table /\ node'[n].recv = f[n].recv /\ node'[n].mem = f[n].mem
BY DEF CompleteBoth, Complete

(* Other links when a request of one is carried.                             *)
LEMMA CarryElsewhere ==
  ASSUME RdmaAssumption, Typed, NEW l \in Link, NEW e1, NEW e2, Carried(l, e1, e2),
         e1.op \in {"recv start", "written", "sent reply"}, e2.op \in {"sent start", "wrote", "recv reply"},
         \A n \in Proc : node'[n].table = node[n].table /\ node'[n].recv = node[n].recv,
         NEW q \in Link \ {l}, UNCHANGED <<posted, delivered>>, out'[q] = out[q], inc'[q] = inc[q]
  PROVE  Alone(q)
<1>1. q.src \in Proc /\ q.dst \in Proc
  BY LaneTypes
<1>2. ASSUME NEW k \in Lanes PROVE Stays(k, q)
  <2>1. CASE k \in SrcLanes \cup DstLanes
    BY <2>1, BothCompleted
  <2>2. CASE k \notin SrcLanes \cup DstLanes
    BY <2>2, <1>1, LaneRest
  <2>3. QED
    BY <2>1, <2>2
<1>3. Faults(q) # {} => Faults(q)' # {}
  BY FaultsCompleted DEF Carried
<1>4. QED
  BY <1>2, <1>3 DEF Alone, Sound

(* Where messages and entries are looked up.                                *)
LEMMA Lookups ==
  ASSUME NEW l
  PROVE  /\ LookupAt(1, l) = out[l].startBuf /\ LookupAt(1, l)' = out'[l].startBuf
         /\ LookupAt(3, l) = inc[l].replyBuf /\ LookupAt(3, l)' = inc'[l].replyBuf
         /\ LookupAt(13, l) = inc[l].replyBuf /\ LookupAt(13, l)' = inc'[l].replyBuf
         /\ LookupAt(6, l) = node[l.dst].table /\ LookupAt(6, l)' = node'[l.dst].table
         /\ LookupAt(16, l) = node[l.dst].table /\ LookupAt(16, l)' = node'[l.dst].table
<1>1. \A k : \A a, b, c :
        /\ k = 1 => InLane(k, a, b, c) = a
        /\ k \in {3, 13} => InLane(k, a, b, c) = b
        /\ k \in {6, 16} => InLane(k, a, b, c) = c
  BY DEF InLane
<1>2. QED
  BY <1>1 DEF LookupAt

(* What is taken out of the source's work requests.                          *)
LEMMA StartPopped ==
  ASSUME RdmaAssumption, Typed, NEW l \in Link, NEW w, w = Head(out[l].sq), w.op = "start", out[l].sq # <<>>,
         out'[l].sq = Tail(out[l].sq), out'[l].startBuf = out[l].startBuf
  PROVE  Leaves(1, l, out[l].startBuf[w.ctx]) /\ Leaves(32, l, w.ctx) /\ Stays(5, l) /\ Stays(15, l)
<1>1. {1, 5, 15, 32} = OutLanes
  BY DEF OutLanes
<1>2. \A y : /\ Val(1, l, w, y) = {y[w.ctx]} /\ Val(5, l, w, y) = {}
             /\ Val(15, l, w, y) = {} /\ Val(32, l, w, y) = {w.ctx}
  <2>1. ASSUME NEW y PROVE /\ Val(1, l, w, y) = {y[w.ctx]} /\ Val(5, l, w, y) = {}
                           /\ Val(15, l, w, y) = {} /\ Val(32, l, w, y) = {w.ctx}
    BY ValuesOut
  <2>2. QED
    BY <2>1
<1>3. Leaves(1, l, out[l].startBuf[w.ctx])
  <2>1. Val(1, l, w, LookupAt(1, l)) = {out[l].startBuf[w.ctx]}
    BY <1>2, Lookups
  <2>2. QED
    BY <1>1, <2>1, OutPopped
<1>4. Leaves(32, l, w.ctx)
  BY <1>1, <1>2, OutPopped
<1>5. Stays(5, l)
  BY <1>1, <1>2, OutPopped
<1>6. Stays(15, l)
  BY <1>1, <1>2, OutPopped
<1>7. QED
  BY <1>3, <1>4, <1>5, <1>6

(* The network takes a write of the source.                                 *)
LEMMA WritePopped ==
  ASSUME RdmaAssumption, Typed, NEW l \in Link, NEW w, w = Head(out[l].sq), w.op = "write", out[l].sq # <<>>,
         out'[l].sq = Tail(out[l].sq), out'[l].startBuf = out[l].startBuf
  PROVE  Leaves(5, l, w.msg) /\ Leaves(15, l, <<w.idx, w.to, w.msg>>) /\ Stays(1, l) /\ Stays(32, l)
<1>1. {1, 5, 15, 32} = OutLanes
  BY DEF OutLanes
<1>2. \A y : /\ Val(1, l, w, y) = {} /\ Val(5, l, w, y) = {w.msg}
             /\ Val(15, l, w, y) = {<<w.idx, w.to, w.msg>>} /\ Val(32, l, w, y) = {}
  <2>1. ASSUME NEW y PROVE /\ Val(1, l, w, y) = {} /\ Val(5, l, w, y) = {w.msg}
                           /\ Val(15, l, w, y) = {<<w.idx, w.to, w.msg>>} /\ Val(32, l, w, y) = {}
    BY ValuesOut
  <2>2. QED
    BY <2>1
<1>3. Leaves(5, l, w.msg)
  BY <1>1, <1>2, OutPopped
<1>4. Leaves(15, l, <<w.idx, w.to, w.msg>>)
  BY <1>1, <1>2, OutPopped
<1>5. Stays(1, l)
  BY <1>1, <1>2, OutPopped
<1>6. Stays(32, l)
  BY <1>1, <1>2, OutPopped
<1>7. QED
  BY <1>3, <1>4, <1>5, <1>6

(* The completions of a request at both ends, by lane.                       *)
LEMMA Completed ==
  ASSUME RdmaAssumption, Typed, NEW l \in Link, NEW e1, NEW e2, Carried(l, e1, e2),
         e1.op \in {"recv start", "written", "sent reply"}, e2.op \in {"sent start", "wrote", "recv reply"},
         \A n \in Proc : node'[n].table = node[n].table
  PROVE  /\ e1.op = "recv start" => Enters(2, l, e1.msg) /\ Stays(6, l) /\ Stays(16, l) /\ Stays(23, l)
         /\ e1.op = "sent reply" => Enters(23, l, e1.ctx) /\ Stays(2, l) /\ Stays(6, l) /\ Stays(16, l)
         /\ e1.op = "written" =>
              LET c == node[l.dst].table[e1.idx] IN
              Enters(6, l, c.msg) /\ Enters(16, l, <<e1.idx, c.addr, c.msg>>) /\ Stays(2, l) /\ Stays(23, l)
         /\ e2.op = "sent start" => Enters(33, l, e2.ctx) /\ Stays(4, l) /\ Stays(14, l)
         /\ e2.op = "recv reply" => /\ Enters(4, l, e2.reply.msg)
                                    /\ Enters(14, l, <<e2.reply.idx, e2.reply.to, e2.reply.msg>>)
                                    /\ Stays(33, l)
         /\ e2.op = "wrote" => Stays(4, l) /\ Stays(14, l) /\ Stays(33, l)
<1>1. e1.link = l /\ e2.link = l
  BY DEF Carried, Completes
<1>2. 2 \in DstLanes /\ 6 \in DstLanes /\ 16 \in DstLanes /\ 23 \in DstLanes
  BY DEF DstLanes
<1>3. 4 \in SrcLanes /\ 14 \in SrcLanes /\ 33 \in SrcLanes
  BY DEF SrcLanes
<1>4. /\ \A k \in SrcLanes : Val(k, l, e2, LookupAt(k, l)) = {} => Stays(k, l)
      /\ \A k \in DstLanes : Val(k, l, e1, LookupAt(k, l)) = {} => Stays(k, l)
      /\ \A k \in SrcLanes : \A v : Val(k, l, e2, LookupAt(k, l)) = {v} => Enters(k, l, v)
      /\ \A k \in DstLanes : \A v : Val(k, l, e1, LookupAt(k, l)) = {v} => Enters(k, l, v)
  <2>1. ASSUME NEW k \in SrcLanes
        PROVE  /\ Val(k, l, e2, LookupAt(k, l)) = {} => Stays(k, l)
               /\ \A v : Val(k, l, e2, LookupAt(k, l)) = {v} => Enters(k, l, v)
    <3>1. k \in SrcLanes \cup DstLanes
      OBVIOUS
    <3>2. QED
      BY <3>1, BothCompleted
  <2>2. ASSUME NEW k \in DstLanes
        PROVE  /\ Val(k, l, e1, LookupAt(k, l)) = {} => Stays(k, l)
               /\ \A v : Val(k, l, e1, LookupAt(k, l)) = {v} => Enters(k, l, v)
    <3>1. k \in SrcLanes \cup DstLanes
      OBVIOUS
    <3>2. QED
      BY <3>1, BothCompleted
  <2>3. QED
    BY <2>1, <2>2
<1>5. e2.op = "wrote" => \A x : Val(4, l, e2, x) = {} /\ Val(14, l, e2, x) = {} /\ Val(33, l, e2, x) = {}
  <2>1. ASSUME NEW x, NEW k \in SrcLanes, e2.op = "wrote" PROVE Val(k, l, e2, x) = {}
    BY <2>1, ValuesSrc
  <2>2. QED
    BY <2>1, <1>3
<1>6. ASSUME e1.op = "recv start"
      PROVE  /\ Enters(2, l, e1.msg)
             /\ Stays(6, l)
             /\ Stays(16, l)
             /\ Stays(23, l)
  <2>1. \A x : /\ Val(2, l, e1, x) = {e1.msg}
              /\ Val(6, l, e1, x) = {}
              /\ Val(16, l, e1, x) = {}
              /\ Val(23, l, e1, x) = {}
    BY <1>6, <1>1, ValuesEach
  <2>2. Enters(2, l, e1.msg)
    BY <2>1, <1>2, <1>4
  <2>3. Stays(6, l)
    BY <2>1, <1>2, <1>4
  <2>4. Stays(16, l)
    BY <2>1, <1>2, <1>4
  <2>5. Stays(23, l)
    BY <2>1, <1>2, <1>4
  <2>6. QED
    BY <2>2, <2>3, <2>4, <2>5
<1>7. ASSUME e1.op = "sent reply"
      PROVE  /\ Stays(2, l)
             /\ Stays(6, l)
             /\ Stays(16, l)
             /\ Enters(23, l, e1.ctx)
  <2>1. \A x : /\ Val(2, l, e1, x) = {}
              /\ Val(6, l, e1, x) = {}
              /\ Val(16, l, e1, x) = {}
              /\ Val(23, l, e1, x) = {e1.ctx}
    BY <1>7, <1>1, ValuesEach
  <2>2. Stays(2, l)
    BY <2>1, <1>2, <1>4
  <2>3. Stays(6, l)
    BY <2>1, <1>2, <1>4
  <2>4. Stays(16, l)
    BY <2>1, <1>2, <1>4
  <2>5. Enters(23, l, e1.ctx)
    BY <2>1, <1>2, <1>4
  <2>6. QED
    BY <2>2, <2>3, <2>4, <2>5
<1>8. ASSUME e1.op = "written"
      PROVE  LET c == node[l.dst].table[e1.idx] IN
             /\ Stays(2, l) /\ Enters(6, l, c.msg)
             /\ Enters(16, l, <<e1.idx, c.addr, c.msg>>) /\ Stays(23, l)
  <2>1. PICK x : x = node[l.dst].table
    OBVIOUS
  <2>2. PICK i, b, m : i = e1.idx /\ b = x[e1.idx].addr /\ m = x[e1.idx].msg
    OBVIOUS
  <2>3. \A y : Val(2, l, e1, y) = {} /\ Val(23, l, e1, y) = {}
    <3>1. ASSUME NEW y PROVE Val(2, l, e1, y) = {} /\ Val(23, l, e1, y) = {}
      <4>1. PICK c, f : c = y[e1.idx].addr /\ f = y[e1.idx].msg
        OBVIOUS
      <4>2. QED
        BY <4>1, <2>2, <1>8, <1>1, ValuesWrite
    <3>2. QED
      BY <3>1
  <2>4. Val(6, l, e1, x) = {m} /\ Val(16, l, e1, x) = {<<i, b, m>>}
    BY ONLY <2>2, <1>8, <1>1, ValuesWrite
  <2>5. LookupAt(6, l) = x /\ LookupAt(16, l) = x
    BY <2>1, Lookups
  <2>6. Stays(2, l) /\ Stays(23, l)
    BY <2>3, <1>2, <1>4
  <2>7. Enters(6, l, m)
    BY <2>4, <2>5, <1>2, <1>4
  <2>8. Enters(16, l, <<i, b, m>>)
    BY <2>4, <2>5, <1>2, <1>4
  <2>9. QED
    BY <2>1, <2>2, <2>6, <2>7, <2>8
<1>9. ASSUME e2.op = "sent start"
      PROVE  /\ Stays(4, l)
             /\ Stays(14, l)
             /\ Enters(33, l, e2.ctx)
  <2>1. \A x : /\ Val(4, l, e2, x) = {}
              /\ Val(14, l, e2, x) = {}
              /\ Val(33, l, e2, x) = {e2.ctx}
    BY <1>9, <1>1, ValuesEach
  <2>2. Stays(4, l)
    BY <2>1, <1>3, <1>4
  <2>3. Stays(14, l)
    BY <2>1, <1>3, <1>4
  <2>4. Enters(33, l, e2.ctx)
    BY <2>1, <1>3, <1>4
  <2>5. QED
    BY <2>2, <2>3, <2>4
<1>10. ASSUME e2.op = "recv reply"
       PROVE  /\ Enters(4, l, e2.reply.msg)
              /\ Enters(14, l, <<e2.reply.idx, e2.reply.to, e2.reply.msg>>) /\ Stays(33, l)
  <2>1. PICK r : r = e2.reply
    OBVIOUS
  <2>2. \A x : Val(4, l, e2, x) = {r.msg} /\ Val(14, l, e2, x) = {<<r.idx, r.to, r.msg>>} /\ Val(33, l, e2, x) = {}
    <3>1. ASSUME NEW x PROVE Val(4, l, e2, x) = {r.msg} /\ Val(14, l, e2, x) = {<<r.idx, r.to, r.msg>>} /\ Val(33, l, e2, x) = {}
      <4>1. IsReply(l, e2, r)
        BY <2>1, <1>10, <1>1 DEF IsReply
      <4>2. QED
        BY ONLY <4>1, ValuesReply
    <3>2. QED
      BY <3>1
  <2>3. Enters(4, l, r.msg)
    BY <2>2, <1>3, <1>4
  <2>4. Enters(14, l, <<r.idx, r.to, r.msg>>)
    BY <2>2, <1>3, <1>4
  <2>5. Stays(33, l)
    BY <2>2, <1>3, <1>4
  <2>6. QED
    BY <2>1, <2>3, <2>4, <2>5
<1>11. ASSUME e2.op = "wrote"
      PROVE  /\ Stays(4, l)
             /\ Stays(14, l)
             /\ Stays(33, l)
  <2>1. \A x : /\ Val(4, l, e2, x) = {}
              /\ Val(14, l, e2, x) = {}
              /\ Val(33, l, e2, x) = {}
    BY <1>11, <1>5
  <2>2. Stays(4, l)
    BY <2>1, <1>3, <1>4
  <2>3. Stays(14, l)
    BY <2>1, <1>3, <1>4
  <2>4. Stays(33, l)
    BY <2>1, <1>3, <1>4
  <2>5. QED
    BY <2>2, <2>3, <2>4
<1>12. QED
  BY <1>6, <1>7, <1>8, <1>9, <1>10, <1>11

(* A step of one link.                                                       *)
LEMMA OrderedLink ==
  ASSUME RdmaAssumption, Ordered, NEW l \in Link, \A q \in Link \ {l} : Alone(q),
         \A n \in Proc \ {l.dst} : Untouched(n), Histories',
         OwnEntries(l.dst)', OwnBuffers(l.dst)', OwnContexts(l)', Orderly(l)'
  PROVE  Ordered'
<1>1. PICK D, E : D = {l} /\ E = {l.dst}
  OBVIOUS
<1>2. \A q \in Link : q.dst \in Proc
  BY DEF RdmaAssumption
<1>3. /\ \A q \in Link \ D : Alone(q)
      /\ \A n \in Proc \ E : Untouched(n)
      /\ \A n \in E : OwnEntries(n)' /\ OwnBuffers(n)'
      /\ \A q \in D : OwnContexts(q)' /\ Orderly(q)'
      /\ D \in SUBSET Link /\ E \in SUBSET Proc /\ \A q \in Link : q.dst \in Proc /\ (q \in D => q.dst \in E)
  BY <1>1, <1>2
<1>4. QED
  BY <1>3, OrderedElsewhere

(* A start message is carried (IBV_WR_SEND_WITH_IMM): the message it stands *)
(* for is at the target.                                                    *)
LEMMA OrderedCarryStart ==
  ASSUME RdmaAssumption, Typed, Ordered, NEW l \in Link, CarryStart(l)
  PROVE  Ordered'
<1>1. PICK w : w = Head(out[l].sq) /\ out[l].sq # <<>> /\ w.op = "start"
  BY DEF CarryStart
<1>2. PICK e1, e2, x : /\ x = out[l].startBuf[w.ctx]
                       /\ e1 = [op |-> "recv start", link |-> l, msg |-> x]
                       /\ e2 = [op |-> "sent start", link |-> l, ctx |-> w.ctx]
  OBVIOUS
<1>3. node' = CompleteBoth(node, l.dst, e1, l.src, e2) /\ UNCHANGED <<posted, delivered>>
  BY <1>1, <1>2 DEF CarryStart
<1>4. Completes(l, l.dst, e1, l.src, e2) /\ Carried(l, e1, e2)
  <2>1. \A n \in Proc : "cq" \in DOMAIN node[n]
    BY DEF Typed, Nodes, NodeAt
  <2>2. QED
    BY <2>1, <1>2, <1>3, CompletesBoth DEF Carried
<1>5. \A n \in Proc : node'[n].table = node[n].table /\ node'[n].recv = node[n].recv /\ node'[n].mem = node[n].mem
  <2>1. \A n \in Proc : {"table", "recv", "mem"} \subseteq DOMAIN node[n]
    BY DEF Typed, Nodes, NodeAt
  <2>2. QED
    BY <2>1, <1>3, BothKeep
<1>6. /\ out'[l].sq = Tail(out[l].sq) /\ out'[l].startBuf = out[l].startBuf /\ out'[l].start = out[l].start
      /\ out'[l].rejects = out[l].rejects
      /\ inc'[l].sq = inc[l].sq /\ inc'[l].replyBuf = inc[l].replyBuf /\ inc'[l].reply = inc[l].reply
      /\ \A q \in Link \ {l} : out'[q] = out[q] /\ inc'[q] = inc[q]
  BY DEF CarryStart, Typed, Outs, OutAt, Incs, IncAt
<1>7. \A q \in Link \ {l} : Alone(q)
  <2>1. e1.op \in {"recv start", "written", "sent reply"} /\ e2.op \in {"sent start", "wrote", "recv reply"}
    BY <1>2
  <2>2. \A n \in Proc : node'[n].table = node[n].table /\ node'[n].recv = node[n].recv
    BY <1>5
  <2>3. ASSUME NEW q \in Link \ {l} PROVE Alone(q)
    BY <2>1, <2>2, <1>3, <1>4, <1>6, CarryElsewhere
  <2>4. QED
    BY <2>3
<1>8. Leaves(1, l, x) /\ Leaves(32, l, w.ctx) /\ Stays(5, l) /\ Stays(15, l)
  BY <1>1, <1>2, <1>6, StartPopped
<1>9. /\ Enters(2, l, x) /\ Enters(33, l, w.ctx)
      /\ Stays(4, l) /\ Stays(14, l) /\ Stays(6, l) /\ Stays(16, l) /\ Stays(23, l)
  <2>1. e1.op = "recv start" /\ e1.msg = x /\ e2.op = "sent start" /\ e2.ctx = w.ctx
    BY <1>2
  <2>2. e1.op \in {"recv start", "written", "sent reply"} /\ e2.op \in {"sent start", "wrote", "recv reply"}
    BY <2>1
  <2>3. \A n \in Proc : node'[n].table = node[n].table
    BY <1>5
  <2>4. QED
    BY <2>1, <2>2, <2>3, <1>4, Completed
<1>10. \A k \in Lanes \ {1, 2, 32, 33} : Stays(k, l)
  <2>1. ASSUME NEW k \in IncLanes \cup {7, 31, 21} PROVE Stays(k, l)
    <3>1. k \in Lanes /\ k \notin OutLanes /\ k \notin SrcLanes /\ k \notin DstLanes /\ k # 1
      BY LaneKinds, LaneGroups DEF OutLanes, SrcLanes, DstLanes
    <3>2. l.dst \in Proc
      BY LaneTypes
    <3>3. QED
      BY <3>1, <3>2, <1>5, <1>6, LaneRest
  <2>2. \A k \in OutLanes \cup SrcLanes \cup DstLanes : k \in {1, 2, 32, 33} \/ Stays(k, l)
    BY <1>8, <1>9 DEF OutLanes, SrcLanes, DstLanes
  <2>3. QED
    BY <2>1, <2>2, LaneGroups
<1>11. OwnContexts(l) /\ Orderly(l) /\ OwnEntries(l.dst) /\ OwnBuffers(l.dst) /\ l.dst \in Proc
  BY LaneTypes DEF Ordered
<1>12. (Sound(l)' => Sound(l)) /\ (Faults(l) # {} => Faults(l)' # {})
  BY <1>4, <1>6, FaultsCompleted DEF Sound
<1>13. OwnContexts(l)'
  <2>1. 32 \in Starts /\ 33 \in Starts /\ 32 # 33 /\ (Answers \cup Starts) \ {32, 33} \subseteq Lanes \ {1, 2, 32, 33}
    BY DEF Starts, Answers, Lanes
  <2>2. QED
    BY <2>1, <1>8, <1>9, <1>10, <1>11, <1>12, StartsMove
<1>14. Orderly(l)'
  <2>1. Len(delivered[l]) \in Nat
    BY DEF Ordered, Histories
  <2>2. 1 \in 1 .. 6 /\ 2 = 1 + 1 /\ 1 # 5 /\ Stages \ {1, 2} \subseteq Lanes \ {1, 2, 32, 33}
    BY DEF Stages, Lanes
  <2>3. QED
    BY <2>1, <2>2, <1>3, <1>8, <1>9, <1>10, <1>11, <1>12, OrderlyMoves
<1>15. OwnEntries(l.dst)' /\ OwnBuffers(l.dst)'
  <2>1. \A q \in To(l.dst), k \in Entries : Stays(k, q)
    <3>1. Entries \subseteq Lanes /\ Entries \subseteq Lanes \ {1, 2, 32, 33}
      BY DEF Entries, Lanes
    <3>2. QED
      BY <3>1, <1>7, <1>10 DEF To, Alone
  <2>2. \A q \in To(l.dst) : Stays(16, q)
    BY <2>1 DEF Entries
  <2>3. QED
    BY <2>1, <2>2, <1>5, <1>11, EntriesStay, BuffersStay
<1>16. Histories'
  BY <1>3, HistoriesKept DEF Ordered
<1>17. \A n \in Proc : Untouched(n)
  BY <1>5 DEF Untouched
<1>18. QED
  BY <1>7, <1>13, <1>14, <1>15, <1>16, <1>17, OrderedLink

(* The buffers of a process that wait to be written or read.                 *)
LEMMA AddressesDiffer ==
  ASSUME Kept, NEW n \in Proc, NEW t, NEW r, t = node[n].table, r = node[n].recv
  PROVE  /\ \A i, j \in DOMAIN t : t[i].addr = t[j].addr => i = j
         /\ \A i \in DOMAIN t, j \in DOMAIN r : t[i].addr # r[j].ctx.addr
         /\ \A i, j \in DOMAIN r : r[i].ctx.addr = r[j].ctx.addr => i = j
<1>1. PICK O : O = OwnersOf(n, node[n], bufs)
  OBVIOUS
<1>2. \A o1, o2 \in O : o1[3] = o2[3] => o1 = o2
  BY <1>1 DEF Kept, KeptAt, OneOwner
<1>3. /\ \A i \in DOMAIN t : <<"table", i, t[i].addr>> \in O
      /\ \A j \in DOMAIN r : <<"recv", j, r[j].ctx.addr>> \in O
  BY <1>1 DEF OwnersOf, TableOwners, RecvOwners
<1>4. ASSUME NEW i \in DOMAIN t, NEW j \in DOMAIN t, t[i].addr = t[j].addr PROVE i = j
  <2>1. <<"table", i, t[i].addr>> = <<"table", j, t[j].addr>>
    BY <1>2, <1>3, <1>4
  <2>2. QED
    BY <2>1
<1>5. ASSUME NEW i \in DOMAIN t, NEW j \in DOMAIN r PROVE t[i].addr # r[j].ctx.addr
  <2>1. <<"table", i, t[i].addr>> # <<"recv", j, r[j].ctx.addr>>
    OBVIOUS
  <2>2. QED
    BY <2>1, <1>2, <1>3
<1>6. ASSUME NEW i \in DOMAIN r, NEW j \in DOMAIN r, r[i].ctx.addr = r[j].ctx.addr PROVE i = j
  <2>1. <<"recv", i, r[i].ctx.addr>> = <<"recv", j, r[j].ctx.addr>>
    BY <1>2, <1>3, <1>6
  <2>2. QED
    BY <2>1
<1>7. QED
  BY <1>4, <1>5, <1>6

(* Those of entries and of posted receives are apart.                        *)
LEMMA AddressesApart ==
  ASSUME Kept, NEW n \in Proc, NEW i \in DOMAIN node[n].table, NEW j \in DOMAIN node[n].recv
  PROVE  node[n].table[i].addr # node[n].recv[j].ctx.addr
<1>1. PICK O : O = OwnersOf(n, node[n], bufs)
  OBVIOUS
<1>2. \A o1, o2 \in O : o1[3] = o2[3] => o1 = o2
  BY <1>1 DEF Kept, KeptAt, OneOwner
<1>3. <<"table", i, node[n].table[i].addr>> \in O /\ <<"recv", j, node[n].recv[j].ctx.addr>> \in O
  BY <1>1 DEF OwnersOf, TableOwners, RecvOwners
<1>4. <<"table", i, node[n].table[i].addr>> # <<"recv", j, node[n].recv[j].ctx.addr>>
  OBVIOUS
<1>5. QED
  BY <1>2, <1>3, <1>4

(* An entry that is named on its way is so once, at its lane.                *)
LEMMA EntryOnce ==
  ASSUME NEW n, OwnEntries(n), NEW l \in To(n), NEW s \in Entries, NEW x \in Held(LaneAt(s, l))
  PROVE  /\ Entry(x, node[n].table) /\ x \in Total(EntryLanes(n))
         /\ \A q \in To(n), t \in Entries : x \in Held(LaneAt(t, q)) => q = l /\ t = s
<1>1. PICK F : F = EntryLanes(n)
  OBVIOUS
<1>2. DOMAIN F = Entries \X To(n) /\ \A t \in Entries, q \in To(n) : F[<<t, q>>] = LaneAt(t, q)
  BY <1>1 DEF EntryLanes
<1>3. x \in Total(F)
  <2>1. PICK p : p = <<s, l>>
    OBVIOUS
  <2>2. p \in DOMAIN F /\ x \in Held(F[p])
    BY <2>1, <1>2
  <2>3. QED
    BY <2>2 DEF Total
<1>4. ASSUME NEW q \in To(n), NEW t \in Entries, x \in Held(LaneAt(t, q)) PROVE q = l /\ t = s
  <2>1. PICK p, r : p = <<s, l>> /\ r = <<t, q>>
    OBVIOUS
  <2>2. p \in DOMAIN F /\ x \in Held(F[p]) /\ r \in DOMAIN F /\ x \in Held(F[r])
    BY <2>1, <1>2, <1>4
  <2>3. p = r
    BY <2>2, <1>1 DEF OwnEntries, Separate
  <2>4. QED
    BY <2>1, <2>3
<1>5. QED
  BY <1>1, <1>3, <1>4 DEF OwnEntries

(* A message is put into the buffer of its entry.                            *)
LEMMA BuffersFilled ==
  ASSUME Kept, NEW n \in Proc, OwnEntries(n), OwnBuffers(n), NEW l \in To(n), NEW i, NEW a, NEW m,
         Leaves(15, l, <<i, a, m>>), Enters(16, l, <<i, a, m>>), \A q \in To(n) : q # l => Stays(16, q),
         node'[n].table = node[n].table, node'[n].recv = node[n].recv, node'[n].mem = Put(node[n].mem, a, m)
  PROVE  OwnBuffers(n)'
<1>1. PICK x : x = <<i, a, m>> /\ x[2] = a /\ x[3] = m
  OBVIOUS
<1>2. 15 \in Entries /\ 16 \in Entries
  BY DEF Entries
<1>3. x \in Held(LaneAt(15, l))
  BY <1>1 DEF Leaves, Loses
<1>4. PICK j \in DOMAIN node[n].table : x = <<j, node[n].table[j].addr, node[n].table[j].msg>>
  BY <1>2, <1>3, EntryOnce DEF Entry
<1>5. a = node[n].table[j].addr
  BY <1>1, <1>4
<1>6. PICK mem, more : mem = node[n].mem /\ more = node'[n].mem
  OBVIOUS
<1>7. \A b, v : (b = a /\ v = m) \/ (b # a /\ Filled(n, b, v)) => Filled(n, b, v)'
  <2>1. a \in DOMAIN more /\ more[a] = m /\ \A b \in DOMAIN mem : b # a => b \in DOMAIN more /\ more[b] = mem[b]
    <3>1. more = Put(mem, a, m)
      BY <1>6
    <3>2. DOMAIN more = DOMAIN mem \cup {a} /\ more[a] = m /\ \A b \in DOMAIN mem \ {a} : more[b] = mem[b]
      BY ONLY <3>1 DEF Put
    <3>3. QED
      BY <3>2
  <2>2. QED
    BY <2>1, <1>6 DEF Filled
<1>8. ASSUME NEW q \in To(n), NEW y \in Held(LaneAt(16, q)) PROVE Filled(n, y[2], y[3])'
  <2>1. Entry(y, node[n].table) /\ y # x
    BY <1>2, <1>3, EntryOnce
  <2>2. PICK k \in DOMAIN node[n].table : y = <<k, node[n].table[k].addr, node[n].table[k].msg>>
    BY <2>1 DEF Entry
  <2>3. k # j
    BY <2>1, <2>2, <1>4
  <2>4. node[n].table[k].addr # a
    BY <2>3, <1>5, AddressesDiffer
  <2>5. y[2] # a
    BY <2>2, <2>4
  <2>6. Filled(n, y[2], y[3])
    BY DEF OwnBuffers
  <2>7. QED
    BY <1>7, <2>5, <2>6
<1>9. ASSUME NEW q \in To(n), NEW y \in Held(LaneAt(16, q))' PROVE Filled(n, y[2], y[3])'
  <2>1. y \in Held(LaneAt(16, q)) \/ y = x
    <3>1. CASE q = l
      BY <3>1, <1>1 DEF Enters, Gains
    <3>2. CASE q # l
      BY <3>2 DEF Stays, Alike
    <3>3. QED
      BY <3>1, <3>2
  <2>2. QED
    BY <2>1, <1>1, <1>7, <1>8
<1>10. ASSUME NEW k \in DOMAIN node[n].recv
       PROVE  Filled(n, node[n].recv[k].ctx.addr, node[n].recv[k].ctx.msg)'
  <2>1. node[n].recv[k].ctx.addr # a
    BY <1>5, AddressesDiffer
  <2>2. PICK c, v : c = node[n].recv[k].ctx.addr /\ v = node[n].recv[k].ctx.msg
    OBVIOUS
  <2>3. Filled(n, c, v)
    BY <2>2 DEF OwnBuffers
  <2>4. Filled(n, c, v)'
    BY <2>1, <2>2, <2>3, <1>7
  <2>5. node'[n].recv[k].ctx.addr = c /\ node'[n].recv[k].ctx.msg = v
    BY <2>2
  <2>6. QED
    BY <2>4, <2>5
<1>11. \A k \in DOMAIN node[n].recv : node[n].recv[k].link \in To(n)
  BY DEF OwnBuffers
<1>12. QED
  BY <1>9, <1>10, <1>11 DEF OwnBuffers

(* A write is carried: its message is reported at the target.               *)
LEMMA OrderedWriteCarried ==
  ASSUME RdmaAssumption, Typed, Kept, Ordered, NEW l \in Link, CarryWrite(l), ~ Broken(l), Registered(Head(out[l].sq).msg)
  PROVE  Ordered'
<1>1. PICK w : w = Head(out[l].sq) /\ out[l].sq # <<>> /\ w.op = "write"
  BY DEF CarryWrite
<1>2. PICK e1, e2, x, f : /\ x = <<w.idx, w.to, w.msg>>
                          /\ e1 = [op |-> "written", link |-> l, idx |-> w.idx]
                          /\ e2 = [op |-> "wrote", link |-> l, ctx |-> w.ctx]
                          /\ f = [node EXCEPT ![l.dst].mem = Put(@, w.to, w.msg)]
  OBVIOUS
<1>3. node' = CompleteBoth(f, l.dst, e1, l.src, e2) /\ UNCHANGED <<posted, delivered>>
  BY <1>1, <1>2 DEF CarryWrite
<1>4. \A n \in Proc : /\ {"table", "recv", "mem", "cq"} \subseteq DOMAIN f[n] /\ f[n].cq = node[n].cq
                       /\ f[n].table = node[n].table /\ f[n].recv = node[n].recv
                       /\ f[n].mem = IF n = l.dst THEN Put(node[n].mem, w.to, w.msg) ELSE node[n].mem
  <2>1. \A n \in Proc : {"table", "recv", "mem"} \subseteq DOMAIN node[n]
    BY DEF Typed, Nodes, NodeAt
  <2>2. \A n \in Proc : "cq" \in DOMAIN node[n]
    BY DEF Typed, Nodes, NodeAt
  <2>3. DOMAIN node = Proc
    BY DEF Typed, Nodes
  <2>4. QED
    BY <2>1, <2>2, <2>3, <1>2
<1>5. Completes(l, l.dst, e1, l.src, e2) /\ Carried(l, e1, e2)
  <2>1. \A n \in Proc : "cq" \in DOMAIN f[n] /\ f[n].cq = node[n].cq
    BY <1>4
  <2>2. e1.link = l /\ e2.link = l
    BY <1>2
  <2>3. QED
    BY <2>1, <2>2, <1>3, CompletesBoth DEF Carried
<1>6. \A n \in Proc : /\ node'[n].table = node[n].table /\ node'[n].recv = node[n].recv
                       /\ node'[n].mem = IF n = l.dst THEN Put(node[n].mem, w.to, w.msg) ELSE node[n].mem
  <2>1. ASSUME NEW n \in Proc PROVE node'[n].table = f[n].table /\ node'[n].recv = f[n].recv /\ node'[n].mem = f[n].mem
    BY <1>3, <1>4, BothKeep
  <2>2. QED
    BY <2>1, <1>4
<1>7. /\ out'[l].sq = Tail(out[l].sq) /\ out'[l].startBuf = out[l].startBuf /\ out'[l].start = out[l].start
      /\ out'[l].rejects = out[l].rejects
      /\ inc'[l].sq = inc[l].sq /\ inc'[l].replyBuf = inc[l].replyBuf /\ inc'[l].reply = inc[l].reply
      /\ \A q \in Link \ {l} : out'[q] = out[q] /\ inc'[q] = inc[q]
  BY DEF CarryWrite, Typed, Outs, OutAt, Incs, IncAt
<1>8. e1.op = "written" /\ e1.idx = w.idx /\ e2.op = "wrote"
  BY <1>2
<1>9. e1.op \in {"recv start", "written", "sent reply"} /\ e2.op \in {"sent start", "wrote", "recv reply"}
  BY <1>8
<1>10. \A q \in Link \ {l} : Alone(q)
  <2>1. \A n \in Proc : node'[n].table = node[n].table /\ node'[n].recv = node[n].recv
    BY <1>6
  <2>2. ASSUME NEW q \in Link \ {l} PROVE Alone(q)
    BY <2>1, <1>3, <1>5, <1>7, <1>9, CarryElsewhere
  <2>3. QED
    BY <2>2
<1>11. OwnContexts(l) /\ Orderly(l) /\ OwnEntries(l.dst) /\ OwnBuffers(l.dst) /\ l.dst \in Proc /\ l \in To(l.dst)
  BY LaneTypes DEF Ordered, To
<1>12. Leaves(5, l, w.msg) /\ Leaves(15, l, x) /\ Stays(1, l) /\ Stays(32, l)
  BY <1>1, <1>2, <1>7, WritePopped
<1>13. PICK c : c = node[l.dst].table[w.idx] /\ c.msg = w.msg /\ x = <<w.idx, c.addr, c.msg>>
  <2>1. 15 \in Entries /\ x \in Held(LaneAt(15, l))
    BY <1>12 DEF Entries, Leaves, Loses
  <2>2. PICK j \in DOMAIN node[l.dst].table : x = <<j, node[l.dst].table[j].addr, node[l.dst].table[j].msg>>
    BY <2>1, <1>11, EntryOnce DEF Entry
  <2>3. j = w.idx /\ node[l.dst].table[j].msg = w.msg
    BY <2>2, <1>2
  <2>4. QED
    BY <2>2, <2>3
<1>14. /\ Enters(6, l, w.msg) /\ Enters(16, l, x) /\ Stays(2, l) /\ Stays(23, l)
       /\ Stays(4, l) /\ Stays(14, l) /\ Stays(33, l)
  <2>1. \A n \in Proc : node'[n].table = node[n].table
    BY <1>6
  <2>2. PICK d, i : i = e1.idx /\ d = node[l.dst].table[i]
    OBVIOUS
  <2>3. /\ Enters(6, l, d.msg) /\ Enters(16, l, <<i, d.addr, d.msg>>) /\ Stays(2, l) /\ Stays(23, l)
        /\ Stays(4, l) /\ Stays(14, l) /\ Stays(33, l)
    BY <2>1, <2>2, <1>5, <1>8, <1>9, Completed
  <2>4. i = w.idx /\ d = c
    BY <2>2, <1>8, <1>13
  <2>5. QED
    BY <2>3, <2>4, <1>13
<1>15. \A k \in Lanes \ {5, 6, 15, 16} : Stays(k, l)
  <2>1. ASSUME NEW k \in IncLanes \cup {7, 31, 21} PROVE Stays(k, l)
    <3>1. k \in Lanes /\ k \notin OutLanes /\ k \notin SrcLanes /\ k \notin DstLanes /\ k # 1
      BY LaneKinds, LaneGroups DEF OutLanes, SrcLanes, DstLanes
    <3>2. QED
      BY <3>1, <1>6, <1>7, <1>11, LaneRest
  <2>2. \A k \in OutLanes \cup SrcLanes \cup DstLanes : k \in {5, 6, 15, 16} \/ Stays(k, l)
    BY <1>12, <1>14 DEF OutLanes, SrcLanes, DstLanes
  <2>3. QED
    BY <2>1, <2>2, LaneGroups
<1>16. (Sound(l)' => Sound(l)) /\ (Faults(l) # {} => Faults(l)' # {}) /\ Faults(l) = {}
  BY <1>5, <1>7, FaultsCompleted DEF Sound, Broken, Faults
<1>17. OwnContexts(l)'
  <2>1. Answers \cup Starts \subseteq Lanes \ {5, 6, 15, 16}
    BY DEF Starts, Answers, Lanes
  <2>2. QED
    BY <2>1, <1>11, <1>15, <1>16, ContextsStay
<1>18. Orderly(l)'
  <2>1. Len(delivered[l]) \in Nat
    BY DEF Ordered, Histories
  <2>2. 5 \in 1 .. 6 /\ 6 = 5 + 1 /\ Stages \ {5, 6} \subseteq Lanes \ {5, 6, 15, 16}
    BY DEF Stages, Lanes
  <2>3. QED
    BY <2>1, <2>2, <1>3, <1>11, <1>12, <1>14, <1>15, <1>16, OrderlyMoves
<1>19. /\ \A q \in To(l.dst), k \in Entries : q # l \/ k \notin {15, 16} => Stays(k, q)
       /\ \A q \in To(l.dst) : q # l => Stays(16, q)
  <2>1. Entries \subseteq Lanes /\ Entries \ {15, 16} \subseteq Lanes \ {5, 6, 15, 16} /\ 16 \in Entries
    BY DEF Entries, Lanes
  <2>2. QED
    BY <2>1, <1>10, <1>15 DEF To, Alone
<1>20. OwnEntries(l.dst)'
  <2>1. 15 \in Entries /\ 16 \in Entries /\ 15 # 16
    BY DEF Entries
  <2>2. QED
    BY <2>1, <1>6, <1>11, <1>12, <1>14, <1>19, EntriesMove
<1>21. OwnBuffers(l.dst)'
  BY <1>2, <1>6, <1>11, <1>12, <1>14, <1>19, BuffersFilled
<1>22. Histories'
  BY <1>3, HistoriesKept DEF Ordered
<1>23. \A n \in Proc \ {l.dst} : Untouched(n)
  BY <1>6 DEF Untouched
<1>24. QED
  BY <1>10, <1>17, <1>18, <1>20, <1>21, <1>22, <1>23, OrderedLink

(* A completion with an error is nothing for the lanes.                      *)
LEMMA ErrorAppended ==
  ASSUME RdmaAssumption, Typed, NEW n \in Proc, NEW e, e.op = "error",
         node'[n].cq = Append(node[n].cq, e), \A p \in Proc \ {n} : node'[p].cq = node[p].cq,
         \A p \in Proc : node'[p].table = node[p].table,
         NEW q \in Link, NEW k \in SrcLanes \cup DstLanes
  PROVE  Stays(k, q)
<1>1. k \in Lanes /\ k \notin {1, 3, 13} /\ (k \in SrcLanes => k \notin {6, 16}) /\ ~ (k \in SrcLanes /\ k \in DstLanes)
  BY LaneKinds
<1>2. PICK m : m = IF k \in SrcLanes THEN q.src ELSE q.dst
  OBVIOUS
<1>3. m \in Proc /\ q.dst \in Proc
  BY LaneTypes, <1>2
<1>4. QueueAt(k, q) = node[m].cq /\ QueueAt(k, q)' = node'[m].cq
  <2>1. k \in SrcLanes \/ k \in DstLanes
    OBVIOUS
  <2>2. QED
    BY <2>1, <1>1, <1>2, QueueIn
<1>5. LookupAt(k, q)' = LookupAt(k, q)
  <2>1. CASE k = 6 \/ k = 16
    <3>1. LookupAt(k, q) = node[q.dst].table /\ LookupAt(k, q)' = node'[q.dst].table
      BY <2>1, LookupIs
    <3>2. QED
      BY <3>1, <1>3
  <2>2. CASE k # 6 /\ k # 16
    BY <2>2, <1>1, LookupIs
  <2>3. QED
    BY <2>1, <2>2
<1>6. CASE m # n
  <2>1. QueueAt(k, q)' = QueueAt(k, q)
    BY <1>3, <1>4, <1>6
  <2>2. QED
    BY <2>1, <1>5, LaneUnmoved
<1>7. CASE m = n
  <2>1. QueueAt(k, q)' = Append(QueueAt(k, q), e)
    BY <1>4, <1>7
  <2>2. PICK T : QueueAt(k, q) \in Seq(T)
    BY <1>1, LaneTypes
  <2>3. Val(k, q, e, LookupAt(k, q)') = {}
    <3>1. e.op \notin {"recv reply", "sent start"} /\ e.op \notin {"recv start", "written", "sent reply"}
      OBVIOUS
    <3>2. PICK y : y = LookupAt(k, q)'
      OBVIOUS
    <3>3. Val(k, q, e, y) = {}
      BY <3>1, ValuesSrc, ValuesDst
    <3>4. QED
      BY <3>2, <3>3
  <2>4. QED
    BY <2>1, <2>2, <2>3, <1>5, LaneAppended
<1>8. QED
  BY <1>6, <1>7

(* A write from memory that is not registered fails, and breaks the link.   *)
LEMMA OrderedWriteFails ==
  ASSUME RdmaAssumption, Typed, Kept, Ordered, NEW l \in Link, CarryWrite(l), ~ Broken(l), ~ Registered(Head(out[l].sq).msg)
  PROVE  Ordered'
<1>1. PICK w : w = Head(out[l].sq) /\ out[l].sq # <<>> /\ w.op = "write"
  BY DEF CarryWrite
<1>2. PICK e, x : x = <<w.idx, w.to, w.msg>> /\ e = [op |-> "error", link |-> l]
  OBVIOUS
<1>3. node' = [node EXCEPT ![l.src] = Complete(@, e)] /\ inc' = inc /\ UNCHANGED <<posted, delivered>>
  BY <1>1, <1>2 DEF CarryWrite
<1>4. l.src \in Proc /\ l.dst \in Proc /\ node[l.src].cq \in Seq(EventAt(l.src, thread, out)) /\ l \in To(l.dst)
  BY LaneTypes DEF NodeAt, To
<1>5. /\ node'[l.src].cq = Append(node[l.src].cq, e)
      /\ \A p \in Proc \ {l.src} : node'[p].cq = node[p].cq
      /\ \A p \in Proc : Untouched(p)
  <2>1. /\ DOMAIN node = Proc
        /\ \A p \in Proc : "cq" \in DOMAIN node[p] /\ {"table", "recv", "mem"} \subseteq DOMAIN node[p]
    BY DEF Typed, Nodes, NodeAt
  <2>2. node'[l.src] = Complete(node[l.src], e) /\ \A p \in Proc \ {l.src} : node'[p] = node[p]
    BY ONLY <1>3, <1>4, <2>1
  <2>3. node'[l.src].cq = Append(node[l.src].cq, e)
    BY ONLY <1>4, <2>1, <2>2 DEF Complete
  <2>4. Untouched(l.src)
    BY ONLY <1>4, <2>1, <2>2 DEF Complete, Untouched
  <2>5. \A p \in Proc \ {l.src} : Untouched(p)
    BY <2>2 DEF Untouched
  <2>6. QED
    BY <2>2, <2>3, <2>4, <2>5
<1>6. /\ out'[l].sq = Tail(out[l].sq) /\ out'[l].startBuf = out[l].startBuf /\ out'[l].start = out[l].start
      /\ out'[l].rejects = out[l].rejects
      /\ \A q \in Link \ {l} : out'[q] = out[q]
  BY DEF CarryWrite, Typed, Outs, OutAt
<1>7. \A q \in Link, k \in SrcLanes \cup DstLanes : Stays(k, q)
  <2>1. \A p \in Proc : node'[p].table = node[p].table
    BY <1>5 DEF Untouched
  <2>2. ASSUME NEW q \in Link, NEW k \in SrcLanes \cup DstLanes PROVE Stays(k, q)
    <3>1. e.op = "error" /\ l.src \in Proc /\ node'[l.src].cq = Append(node[l.src].cq, e)
      BY <1>2, <1>4, <1>5
    <3>2. \A p \in Proc \ {l.src} : node'[p].cq = node[p].cq
      BY <1>5
    <3>3. QED
      BY ONLY RdmaAssumption, Typed, <2>1, <2>2, <3>1, <3>2, ErrorAppended
  <2>3. QED
    BY <2>2
<1>8. \A q \in Link : Faults(q) # {} => Faults(q)' # {}
  <2>1. ASSUME NEW q \in Link, Faults(q) # {} PROVE Faults(q)' # {}
    <3>1. q.src \in Proc
      BY LaneTypes
    <3>2. CASE q.src = l.src
      BY <2>1, <3>2, <1>5, FaultsKept
    <3>3. CASE q.src # l.src
      BY <2>1, <3>1, <3>3, <1>5, FaultsKept
    <3>4. QED
      BY <3>2, <3>3
  <2>2. QED
    BY <2>1
<1>9. Faults(l) = {} /\ Faults(l)' # {}
  <2>1. Faults(l) = {}
    BY DEF Broken, Faults
  <2>2. PICK q, p : q = node[l.src].cq /\ p = node'[l.src].cq
    OBVIOUS
  <2>3. Adds(q, p, e)
    BY <2>2, <1>4, <1>5, QueueMoves
  <2>4. PICK j \in DOMAIN p : p[j] = e
    BY <2>3 DEF Adds
  <2>5. QED
    BY <2>1, <2>2, <2>4, <1>2 DEF Faults
<1>10. ASSUME NEW q \in Link \ {l} PROVE Alone(q)
  <2>1. q.dst \in Proc
    BY LaneTypes
  <2>2. ASSUME NEW k \in Lanes PROVE Stays(k, q)
    <3>1. CASE k \in SrcLanes \cup DstLanes
      BY <3>1, <1>7
    <3>2. CASE k \notin SrcLanes \cup DstLanes
      BY <3>2, <2>1, <1>3, <1>5, <1>6, LaneRest DEF Untouched
    <3>3. QED
      BY <3>1, <3>2
  <2>3. QED
    BY <2>2, <1>3, <1>6, <1>8 DEF Alone, Sound
<1>11. Leaves(5, l, w.msg) /\ Leaves(15, l, x) /\ Stays(1, l) /\ Stays(32, l)
  BY <1>1, <1>2, <1>6, WritePopped
<1>12. \A k \in Lanes \ {5, 15} : Stays(k, l)
  <2>1. ASSUME NEW k \in IncLanes \cup {7, 31, 21} PROVE Stays(k, l)
    <3>1. k \in Lanes /\ k \notin OutLanes /\ k \notin SrcLanes /\ k \notin DstLanes /\ k # 1
      BY LaneKinds, LaneGroups DEF OutLanes, SrcLanes, DstLanes
    <3>2. QED
      BY <3>1, <1>3, <1>4, <1>5, <1>6, LaneRest DEF Untouched
  <2>2. \A k \in OutLanes \cup SrcLanes \cup DstLanes : k \in {5, 15} \/ Stays(k, l)
    BY <1>7, <1>11 DEF OutLanes
  <2>3. QED
    BY <2>1, <2>2, LaneGroups
<1>13. OwnContexts(l) /\ Orderly(l) /\ OwnEntries(l.dst) /\ OwnBuffers(l.dst) /\ (Sound(l)' => Sound(l))
  BY <1>4, <1>6 DEF Ordered, Sound
<1>14. OwnContexts(l)'
  <2>1. Answers \cup Starts \subseteq Lanes \ {5, 15}
    BY DEF Starts, Answers, Lanes
  <2>2. QED
    BY <2>1, <1>12, <1>13, ContextsStay
<1>15. Orderly(l)'
  <2>1. Len(delivered[l]) \in Nat
    BY DEF Ordered, Histories
  <2>2. Stages \ {5} \subseteq Lanes \ {5, 15}
    BY DEF Stages, Lanes
  <2>3. QED
    BY <2>1, <2>2, <1>3, <1>9, <1>11, <1>12, <1>13, OrderlyBreaks
<1>16. /\ \A q \in To(l.dst), k \in Entries : q # l \/ k # 15 => Stays(k, q)
       /\ \A q \in To(l.dst) : Stays(16, q)
  <2>1. Entries \subseteq Lanes /\ Entries \ {15} \subseteq Lanes \ {5, 15} /\ 16 \in Entries \ {15}
    BY DEF Entries, Lanes
  <2>2. QED
    BY <2>1, <1>10, <1>12, ZenonT(40) DEF To, Alone
<1>17. OwnEntries(l.dst)'
  <2>1. 15 \in Entries
    BY DEF Entries
  <2>2. Separate(EntryLanes(l.dst))' /\ Total(EntryLanes(l.dst))' = Total(EntryLanes(l.dst)) \ {x}
    BY <2>1, <1>4, <1>11, <1>13, <1>16, EntriesLose
  <2>3. node'[l.dst].table = node[l.dst].table
    BY <1>4, <1>5 DEF Untouched
  <2>4. QED
    BY <2>2, <2>3, <1>13 DEF OwnEntries
<1>18. OwnBuffers(l.dst)'
  BY <1>4, <1>5, <1>13, <1>16, BuffersStay DEF Untouched
<1>19. Histories'
  BY <1>3, HistoriesKept DEF Ordered
<1>20. QED
  BY <1>5, <1>10, <1>14, <1>15, <1>17, <1>18, <1>19, OrderedLink

=============================================================================
