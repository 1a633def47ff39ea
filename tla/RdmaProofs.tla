----------------------------- MODULE RdmaProofs ----------------------------
(* Proofs about the RDMA transport, for all processes, links, threads and    *)
(* messages, all rejections of connections, and wherever the allocator puts  *)
(* new regions. The first part is about the operations of a memory pool.     *)
(* The second, Typed, says that what a work request, a completion or a       *)
(* buffer index names is a message of its link that a thread has begun to    *)
(* send. The third, Kept, says that the blocks in use have one owner each,   *)
(* and with it the pools stay sound. The fourth, Receives, counts the        *)
(* receives of each end of a link, posted and completed; with it the         *)
(* transport's state has its types. RdmaLanesProofs is about what is on its  *)
(* way over a link.                                                          *)
EXTENDS Rdma, FiniteSetTheorems, TLAPS

(* Rounding up keeps a size positive.                                        *)
LEMMA AlignCeilPositive ==
  ASSUME PoolAssumption, NEW v \in Nat \ {0}
  PROVE  AlignCeil(v) \in Nat \ {0}
<1> DEFINE w == v + Alignment - 1
<1>1. w \in Nat /\ Alignment \in Nat \ {0} /\ v = w - Alignment + 1
  BY DEF PoolAssumption
<1>2. w % Alignment \in 0 .. Alignment - 1
  BY <1>1
<1>3. AlignCeil(v) = w - (w % Alignment)
  BY DEF AlignCeil
<1> HIDE DEF w
<1>4. QED
  BY <1>1, <1>2, <1>3

(* The first pool is one region, all of it free.                             *)
LEMMA NewPoolSound ==
  ASSUME PoolAssumption
  PROVE  NewPool \in Pool /\ PoolSound(NewPool)
<1> DEFINE all == [addr |-> Base, size |-> PoolSize]
<1>1. all \in Block /\ PoolSize \in Nat
  BY DEF PoolAssumption, Block
<1>2. NewPool = [regions |-> {all}, free |-> {all}, used |-> {}, total |-> PoolSize]
  BY DEF NewPool
<1>3. NewPool \in Pool
  BY <1>1, <1>2 DEF Pool
<1>4. Within(all, all)
  BY <1>1 DEF Within, Block, End
<1> HIDE DEF all
<1>5. PoolSound(NewPool)
  BY <1>1, <1>2, <1>4 DEF PoolSound, RegionsApart, BlocksInRegions, BlocksDisjoint, BytesCovered
<1>6. QED
  BY <1>3, <1>5

(* Splitting a free block: the two parts lie where it lay and cover it.      *)
LEMMA TakeSound ==
  ASSUME NEW p \in Pool, PoolSound(p), NEW b \in p.free, NEW n \in Nat \ {0}, n <= b.size
  PROVE  Take(p, b, n) \in Pool /\ PoolSound(Take(p, b, n))
<1> DEFINE f == [addr |-> b.addr, size |-> n]
           r == [addr |-> b.addr + n, size |-> b.size - n]
           rest == IF b.size = n THEN {} ELSE {r}
           q == Take(p, b, n)
<1>1. /\ b \in Block /\ p.free \subseteq Block /\ p.used \subseteq Block /\ p.regions \subseteq Block
      /\ p.total \in Nat
  BY DEF Pool
<1>2. f \in Block /\ rest \subseteq Block
  BY <1>1 DEF Block
<1>3. /\ q.regions = p.regions /\ q.free = (p.free \ {b}) \cup rest
      /\ q.used = p.used \cup {f} /\ q \in Pool
  <2> DEFINE F == (p.free \ {b}) \cup rest
             U == p.used \cup {f}
  <2>1. F \in SUBSET Block /\ U \in SUBSET Block /\ p.regions \in SUBSET Block /\ p.total \in Nat
    BY <1>1, <1>2
  <2>2. q = [p EXCEPT !.used = U, !.free = F]
    BY DEF Take
  <2> HIDE DEF F, U, q
  <2>3. q.regions = p.regions /\ q.free = F /\ q.used = U /\ q \in Pool
    BY <2>1, <2>2 DEF Pool
  <2>4. QED
    BY <2>3 DEF F, U
<1>5. RegionsApart(q)
  BY <1>3 DEF PoolSound, RegionsApart
<1>6. b \notin p.used
  BY DEF PoolSound, BlocksDisjoint
<1>7. \A c \in q.free \cup q.used : c = f \/ c \in rest \/ (c \in p.free \cup p.used /\ c # b)
  BY <1>3, <1>6
<1>8. \A c \in {f} \cup rest : Within(c, b)
  BY <1>1 DEF Within, End, Block
<1>9. \A c \in p.free \cup p.used : c # b => Disjoint(c, b)
  BY DEF PoolSound, BlocksDisjoint
<1>10. \A c \in p.free \cup p.used, d \in {f} \cup rest : c # b => Disjoint(c, d) /\ Disjoint(d, c)
  BY <1>1, <1>2, <1>8, <1>9 DEF Disjoint, Within, End, Block
<1>11. \A d \in rest : Disjoint(f, d) /\ Disjoint(d, f) /\ d # f
  BY <1>1, <1>2 DEF Disjoint, End, Block
<1>12. BlocksInRegions(q)
  <2> SUFFICES ASSUME NEW c \in q.free \cup q.used
               PROVE  \E s \in q.regions : Within(c, s)
    BY DEF BlocksInRegions
  <2>1. CASE c \in {f} \cup rest
    <3>1. PICK s \in p.regions : Within(b, s)
      BY DEF PoolSound, BlocksInRegions
    <3>2. Within(c, s)
      BY <1>1, <1>2, <1>8, <2>1, <3>1 DEF Within, End, Block
    <3>3. QED
      BY <1>3, <3>2
  <2>2. CASE c \in p.free \cup p.used
    BY <1>3, <2>2 DEF PoolSound, BlocksInRegions
  <2>3. QED
    BY <1>7, <2>1, <2>2
<1>13. BlocksDisjoint(q)
  <2>1. \A c, d \in q.free \cup q.used : c = d \/ Disjoint(c, d)
    <3> SUFFICES ASSUME NEW c \in q.free \cup q.used, NEW d \in q.free \cup q.used
                 PROVE  c = d \/ Disjoint(c, d)
      OBVIOUS
    <3> HIDE DEF f, r, q
    <3>1. CASE c \in p.free \cup p.used /\ c # b /\ d \in p.free \cup p.used
      BY <3>1 DEF PoolSound, BlocksDisjoint
    <3>2. CASE c \in p.free \cup p.used /\ c # b /\ d \in {f} \cup rest
      BY <1>10, <3>2
    <3>3. CASE c \in {f} \cup rest /\ d \in p.free \cup p.used /\ d # b
      BY <1>10, <3>3
    <3>4. CASE c \in {f} \cup rest /\ d \in {f} \cup rest
      BY <1>11, <3>4
    <3>5. QED
      BY <1>7, <3>1, <3>2, <3>3, <3>4
  <2>2. q.free \cap q.used = {}
    <3> SUFFICES ASSUME NEW c \in q.free, c \in q.used PROVE FALSE
      OBVIOUS
    <3>1. \A d \in Block : ~ Disjoint(d, d)
      BY DEF Disjoint, End, Block
    <3>2. c \in rest \/ (c \in p.free /\ c # b)
      BY <1>1, <1>2, <1>3
    <3>3. c \in p.used \/ c = f
      BY <1>3
    <3> HIDE DEF f, r, q
    <3>4. CASE c \in rest
      BY <1>1, <1>2, <1>6, <1>10, <1>11, <3>1, <3>3, <3>4
    <3>5. CASE c \in p.free /\ c # b
      BY <1>2, <1>10, <3>1, <3>3, <3>5 DEF PoolSound, BlocksDisjoint
    <3>6. QED
      BY <3>2, <3>4, <3>5
  <2>3. QED
    BY <2>1, <2>2 DEF BlocksDisjoint
<1>14. BytesCovered(q)
  <2> SUFFICES ASSUME NEW s \in p.regions, NEW x \in Bytes(s)
               PROVE  \E c \in q.free \cup q.used : x \in Bytes(c)
    BY <1>3 DEF BytesCovered
  <2>1. PICK c \in p.free \cup p.used : x \in Bytes(c)
    BY DEF PoolSound, BytesCovered
  <2>2. CASE c = b
    <3>1. x \in Int /\ b.addr <= x /\ x < b.addr + b.size
      BY <1>1, <2>1, <2>2 DEF Bytes, End, Block
    <3>2. CASE x < b.addr + n
      <4>1. x \in Bytes(f)
        BY <1>1, <3>1, <3>2 DEF Bytes, End, Block
      <4> HIDE DEF f
      <4>2. QED
        BY <1>3, <4>1
    <3>3. CASE x >= b.addr + n
      <4>1. rest = {r} /\ x \in Bytes(r)
        BY <1>1, <3>1, <3>3 DEF Bytes, End, Block
      <4> HIDE DEF r, rest
      <4>2. QED
        BY <1>3, <4>1
    <3>4. QED
      BY <1>1, <3>1, <3>2, <3>3 DEF Block
  <2>3. CASE c # b
    BY <1>3, <2>1, <2>3
  <2>4. QED
    BY <2>2, <2>3
<1>15. QED
  BY <1>3, <1>5, <1>12, <1>13, <1>14 DEF PoolSound

(* Another region, apart from the others, is free as a whole.                *)
LEMMA GrownSound ==
  ASSUME PoolAssumption, NEW p \in Pool, PoolSound(p), NEW n \in Nat \ {0}, NEW q \in Grown(p, n)
  PROVE  q \in Pool /\ PoolSound(q)
<1>1. PICK s \in [addr : Place, size : NewSizes(p, n)] :
        /\ \A o \in p.regions : Apart(s, o)
        /\ q = [p EXCEPT !.regions = p.regions \cup {s}, !.free = p.free \cup {s},
                        !.total = p.total + s.size]
  BY DEF Grown
<1>2. /\ p.free \subseteq Block /\ p.used \subseteq Block /\ p.regions \subseteq Block
      /\ p.total \in Nat
  BY DEF Pool
<1>3. s.size \in Nat \ {0}
  BY <1>2 DEF NewSizes
<1>4. s \in Block
  BY <1>3 DEF PoolAssumption, Block
<1>5. /\ q.regions = p.regions \cup {s} /\ q.free = p.free \cup {s}
      /\ q.used = p.used /\ q \in Pool
  <2> DEFINE R == p.regions \cup {s}
             F == p.free \cup {s}
             t == p.total + s.size
  <2>1. R \in SUBSET Block /\ F \in SUBSET Block /\ p.used \in SUBSET Block /\ t \in Nat
    BY <1>2, <1>3, <1>4
  <2>2. q = [p EXCEPT !.regions = R, !.free = F, !.total = t]
    BY <1>1
  <2> HIDE DEF R, F, t
  <2>3. q.regions = R /\ q.free = F /\ q.used = p.used /\ q \in Pool
    BY <2>1, <2>2 DEF Pool
  <2>4. QED
    BY <2>3 DEF R, F
<1>7. \A o \in p.regions : Apart(s, o) /\ Apart(o, s)
  BY <1>1 DEF Apart
<1>8. RegionsApart(q)
  BY <1>5, <1>7 DEF PoolSound, RegionsApart
<1>9. Within(s, s)
  BY <1>4 DEF Within, End, Block
<1>10. BlocksInRegions(q)
  BY <1>5, <1>9 DEF PoolSound, BlocksInRegions
<1>11. \A b \in p.free \cup p.used : Disjoint(s, b) /\ Disjoint(b, s) /\ b # s
  <2> SUFFICES ASSUME NEW b \in p.free \cup p.used
               PROVE  Disjoint(s, b) /\ Disjoint(b, s) /\ b # s
    OBVIOUS
  <2>1. PICK o \in p.regions : Within(b, o)
    BY DEF PoolSound, BlocksInRegions
  <2>2. b \in Block /\ o \in Block /\ Gap \in Nat
    BY <1>2 DEF PoolAssumption
  <2>3. QED
    BY <1>4, <1>7, <2>1, <2>2 DEF Apart, Within, Disjoint, End, Block
<1>12. BlocksDisjoint(q)
  <2>1. \A b, c \in q.free \cup q.used : b = c \/ Disjoint(b, c)
    BY <1>5, <1>11 DEF PoolSound, BlocksDisjoint
  <2>2. q.free \cap q.used = {}
    BY <1>5, <1>11 DEF PoolSound, BlocksDisjoint
  <2>3. QED
    BY <2>1, <2>2 DEF BlocksDisjoint
<1>13. BytesCovered(q)
  BY <1>5 DEF PoolSound, BytesCovered
<1>14. QED
  BY <1>5, <1>8, <1>10, <1>12, <1>13 DEF PoolSound

(* Alloc, of any positive size.                                              *)
LEMMA AllocSound ==
  ASSUME PoolAssumption, NEW p \in Pool, PoolSound(p), NEW size \in Nat \ {0},
         NEW a \in Alloc(p, size)
  PROVE  a.pool \in Pool /\ PoolSound(a.pool)
<1> DEFINE n == AlignCeil(size)
<1>1. n \in Nat \ {0}
  BY AlignCeilPositive
<1> HIDE DEF n
<1>2. PICK q \in IF Fitting(p, n) = {} THEN Grown(p, n) ELSE {p} :
        \E b \in BestFit(q, n) : a = [pool |-> Take(q, b, n), addr |-> b.addr]
  BY DEF Alloc, n
<1>3. q \in Pool /\ PoolSound(q)
  BY <1>1, <1>2, GrownSound
<1>4. PICK b \in BestFit(q, n) : a = [pool |-> Take(q, b, n), addr |-> b.addr]
  BY <1>2
<1>5. b \in q.free /\ n <= b.size
  <2>1. b \in q.free /\ b.size >= n
    BY DEF BestFit, Fitting
  <2>2. b \in Block
    BY <1>3, <2>1 DEF Pool
  <2>3. QED
    BY <1>1, <2>1, <2>2 DEF Block
<1>6. Take(q, b, n) \in Pool /\ PoolSound(Take(q, b, n))
  BY <1>1, <1>3, <1>5, TakeSound
<1>7. QED
  BY <1>4, <1>6

(* Free, of any address: what was handed out there becomes free, as it is.   *)
LEMMA FreeSound ==
  ASSUME NEW p \in Pool, PoolSound(p), NEW a
  PROVE  Free(p, a) \in Pool /\ PoolSound(Free(p, a))
<1> DEFINE gone == {b \in p.used : b.addr = a}
           q == Free(p, a)
<1>1. gone \subseteq p.used /\ p.free \subseteq Block /\ p.used \subseteq Block
      /\ p.regions \in SUBSET Block /\ p.total \in Nat
  BY DEF Pool
<1>2. q = [p EXCEPT !.used = p.used \ gone, !.free = p.free \cup gone]
  BY DEF Free
<1> HIDE DEF gone, q
<1>3. /\ q.regions = p.regions /\ q.free = p.free \cup gone
      /\ q.used = p.used \ gone /\ q \in Pool
  <2> DEFINE F == p.free \cup gone
             U == p.used \ gone
  <2>1. F \in SUBSET Block /\ U \in SUBSET Block
    BY <1>1
  <2>2. q = [p EXCEPT !.used = U, !.free = F]
    BY <1>2
  <2> HIDE DEF F, U
  <2>3. q.regions = p.regions /\ q.free = F /\ q.used = U /\ q \in Pool
    BY <2>1, <2>2 DEF Pool
  <2>4. QED
    BY <2>3 DEF F, U
<1>4. q.free \cup q.used = p.free \cup p.used
  BY <1>1, <1>3
<1>5. q.free \cap q.used = {}
  BY <1>1, <1>3 DEF PoolSound, BlocksDisjoint
<1>6. PoolSound(q)
  BY <1>3, <1>4, <1>5 DEF PoolSound, RegionsApart, BlocksInRegions, BlocksDisjoint, BytesCovered
<1>7. QED
  BY <1>3, <1>6 DEF q

(* In a sound pool the search by ends finds the region of a block: the gap   *)
(* keeps the end of one region from being an address of the next.            *)
LEMMA KeysFound ==
  ASSUME PoolAssumption, NEW p \in Pool, PoolSound(p)
  PROVE  KeysRight(p)
<1> SUFFICES ASSUME NEW b \in p.used PROVE Within(b, RegionOf(p, b.addr))
  BY DEF KeysRight
<1> DEFINE Least(r) == End(r) >= b.addr /\ \A q \in p.regions : End(q) >= b.addr => End(r) <= End(q)
<1>1. PICK r \in p.regions : Within(b, r)
  BY DEF PoolSound, BlocksInRegions
<1>2. b \in Block /\ p.regions \subseteq Block /\ Gap \in Nat \ {0}
  BY DEF Pool, PoolAssumption
<1>3. \A q \in p.regions : q = r \/ Apart(q, r)
  BY DEF PoolSound, RegionsApart
<1>4. Least(r)
  BY <1>1, <1>2, <1>3 DEF Within, Apart, End, Block
<1>5. RegionOf(p, b.addr) \in p.regions /\ Least(RegionOf(p, b.addr))
  <2>1. RegionOf(p, b.addr) = CHOOSE q \in p.regions : Least(q)
    BY DEF RegionOf
  <2> HIDE DEF Least
  <2>2. QED
    BY <1>4, <2>1
<1>6. \A q \in p.regions : Least(q) => q = r
  BY <1>1, <1>2, <1>3, <1>4 DEF Within, Apart, End, Block
<1>7. QED
  BY <1>1, <1>5, <1>6

----------------------------------------------------------------------------
(* Types. What a work request, a completion or a buffer index stands for is  *)
(* a message of its link that a thread has begun to send.                    *)

(* Every message asks for a positive size, for its meta data and in all.     *)
LEMMA MessageSizes ==
  ASSUME RdmaAssumption
  PROVE  \A m \in Msg : /\ BodyOf(m).meta + BodyOf(m).bytes \in Nat \ {0}
                        /\ InlineLen(BodyOf(m)) \in Nat \ {0}
<1> SUFFICES ASSUME NEW m \in Msg
             PROVE  /\ BodyOf(m).meta + BodyOf(m).bytes \in Nat \ {0}
                    /\ InlineLen(BodyOf(m)) \in Nat \ {0}
  OBVIOUS
<1>1. PICK t \in Thread : \E k \in 1 .. Len(Outbox[t]) : m = <<t, k>>
  BY DEF Msg
<1>2. Outbox[t] \in Seq(Body)
  BY DEF RdmaAssumption
<1>3. BodyOf(m) \in Body
  BY <1>1, <1>2 DEF BodyOf
<1>4. BodyOf(m).meta \in Nat \ {0} /\ BodyOf(m).bytes \in Nat
  BY <1>3 DEF Body
<1>5. QED
  BY <1>4 DEF InlineLen

(* Maps from some of S to T, as the code's tables are.                       *)
Map(S, T) == UNION {[D -> T] : D \in SUBSET S}

(* The messages whose START has been posted, by the state of the threads.    *)
Begun(th) == {m \in Msg : m[2] < th[m[1]].next}
OnLink(l, th) == {m \in Begun(th) : LinkOf(m) = l}
Replies(l, th) == [to : Nat, msg : OnLink(l, th), idx : 1 .. MaxEntries]

(* What a completion at a process tells: about a link that ends there, or    *)
(* that starts there.                                                        *)
To(n) == {l \in Link : l.dst = n}
From(n) == {l \in Link : l.src = n}
EventAt(n, th, o) ==
  {e \in [op : {"recv start"}, link : To(n), msg : Msg] : e.msg \in OnLink(e.link, th)} \cup
  [op : {"written"}, link : To(n), idx : 1 .. MaxEntries] \cup
  [op : {"sent reply"}, link : To(n), ctx : 1 .. ReplyDepth] \cup
  [op : {"sent start"}, link : From(n), ctx : 1 .. Depth] \cup
  {e \in [op : {"recv reply"}, link : From(n), reply : [to : Nat, msg : Msg, idx : 1 .. MaxEntries]] :
     e.reply.msg \in OnLink(e.link, th)} \cup
  {e \in [op : {"wrote"}, link : From(n), ctx : 1 .. Depth] : e.ctx \in DOMAIN o[e.link].writeBuf} \cup
  [op : {"error"}, link : From(n)]

(* The work requests of a link: their contexts name messages of the link.    *)
OrderAt(l, r, th) ==
  [op : {"start"}, ctx : DOMAIN r.startBuf] \cup
  [op : {"write"}, ctx : DOMAIN r.writeBuf, to : Nat, idx : 1 .. MaxEntries, msg : OnLink(l, th)]
ReplyAt(r) == [op : {"reply"}, ctx : DOMAIN r.replyBuf]

Status == {"idle", "connecting", "requested", "accepted", "connected", "rejected"}
NodeAt(n, r, th, o) ==
  r \in [listening : BOOLEAN, cq : Seq(EventAt(n, th, o)), pool : Pool, mem : Map(Nat, Msg),
         mr : Map(Nat, Nat), free : Seq(1 .. MaxEntries),
         table : Map(1 .. MaxEntries, [addr : Nat, msg : Msg]),
         recv : Seq([link : Link, ctx : [addr : Nat, msg : Msg]]), blocks : Map(Nat, Nat \ {0}),
         ended : {None, "wc.status", "table_[idx]", "deleted", "ptr"}]
OutAt(l, r, th) ==
  /\ r \in [status : Status, rejects : Nat, start : Seq(1 .. Depth), write : Seq(1 .. Depth),
            startBuf : Map(1 .. Depth, OnLink(l, th)), writeBuf : Map(1 .. Depth, OnLink(l, th)),
            rx : Int, sq : Seq(OrderAt(l, r, th))]
IncAt(l, r, th) ==
  r \in [reply : Seq(1 .. ReplyDepth), replyBuf : Map(1 .. ReplyDepth, Replies(l, th)), rx : Int,
         sq : Seq(ReplyAt(r))]
ThreadAt(t, r) ==
  /\ r \in [pc : {"idle", "prepared", "reserved"}, next : Nat \ {0}, write : {None} \cup 1 .. Depth]
  /\ r.pc # "idle" => r.next <= Len(Outbox[t])
  /\ r.pc = "reserved" => r.write \in 1 .. Depth
BufAt(m, r, th) ==
  /\ r \in [inline : Nat, write : {None} \cup 1 .. Depth]
  /\ \/ m[2] < th[m[1]].next /\ r.write \in 1 .. Depth
     \/ m[2] = th[m[1]].next /\ th[m[1]].pc # "idle"

Nodes == DOMAIN node = Proc /\ \A n \in Proc : NodeAt(n, node[n], thread, out)
Outs == DOMAIN out = Link /\ \A l \in Link : OutAt(l, out[l], thread)
Incs == DOMAIN inc = Link /\ \A l \in Link : IncAt(l, inc[l], thread)
Threads == DOMAIN thread = Thread /\ \A t \in Thread : ThreadAt(t, thread[t])
Bufs == DOMAIN bufs \subseteq Msg /\ \A m \in DOMAIN bufs : BufAt(m, bufs[m], thread)
Typed == Nodes /\ Outs /\ Incs /\ Threads /\ Bufs

(* Entries set and removed.                                                  *)
LEMMA PutDrop ==
  \A S, T : \A f \in Map(S, T) :
    /\ DOMAIN f \subseteq S /\ \A x \in DOMAIN f : f[x] \in T
    /\ \A x \in S, v \in T : Put(f, x, v) \in Map(S, T)
    /\ \A x : Drop(f, x) \in Map(S, T)
<1> SUFFICES ASSUME NEW S, NEW T, NEW f \in Map(S, T)
             PROVE  /\ DOMAIN f \subseteq S /\ \A x \in DOMAIN f : f[x] \in T
                    /\ \A x \in S, v \in T : Put(f, x, v) \in Map(S, T)
                    /\ \A x : Drop(f, x) \in Map(S, T)
  OBVIOUS
<1>0. PICK D \in SUBSET S : f \in [D -> T]
  BY DEF Map
<1>1. ASSUME NEW x \in S, NEW v \in T PROVE Put(f, x, v) \in Map(S, T)
  <2>1. Put(f, x, v) \in [D \cup {x} -> T]
    BY <1>0 DEF Put
  <2>2. D \cup {x} \in SUBSET S
    OBVIOUS
  <2>3. QED
    BY <2>1, <2>2 DEF Map
<1>2. ASSUME NEW x PROVE Drop(f, x) \in Map(S, T)
  <2>1. Drop(f, x) \in [D \ {x} -> T]
    BY <1>0 DEF Drop
  <2>2. D \ {x} \in SUBSET S
    OBVIOUS
  <2>3. QED
    BY <2>1, <2>2 DEF Map
<1>3. QED
  BY <1>0, <1>1, <1>2

(* What Put and Drop make of a function that stands for a table.             *)
LEMMA PutFacts ==
  \A f, x, v : /\ DOMAIN Put(f, x, v) = DOMAIN f \cup {x}
               /\ Put(f, x, v)[x] = v
               /\ \A y \in DOMAIN f \ {x} : Put(f, x, v)[y] = f[y]
               /\ DOMAIN Drop(f, x) = DOMAIN f \ {x}
               /\ \A y \in DOMAIN f \ {x} : Drop(f, x)[y] = f[y]
BY DEF Put, Drop

(* Larger sets of values.                                                    *)
LEMMA Wider ==
  \A S, T, U : T \subseteq U => Map(S, T) \subseteq Map(S, U) /\ Seq(T) \subseteq Seq(U)
<1> SUFFICES ASSUME NEW S, NEW T, NEW U, T \subseteq U
             PROVE  Map(S, T) \subseteq Map(S, U) /\ Seq(T) \subseteq Seq(U)
  OBVIOUS
<1>1. ASSUME NEW D \in SUBSET S, NEW f \in [D -> T] PROVE f \in Map(S, U)
  <2>1. f \in [D -> U]
    OBVIOUS
  <2>2. QED
    BY <2>1 DEF Map
<1>2. Seq(T) \subseteq Seq(U)
  OBVIOUS
<1>3. QED
  BY <1>1, <1>2 DEF Map

(* What was true of a record stays so when more messages have been begun and *)
(* more contexts filled.                                                     *)
Later(th1, th2) == \A t \in Thread : th1[t].next \in Nat /\ th2[t].next \in Nat /\ th1[t].next <= th2[t].next
Fuller(o1, o2) == \A l \in Link : DOMAIN o1[l].writeBuf \subseteq DOMAIN o2[l].writeBuf

(* The parts of a message lie where the constants put them.                  *)
LEMMA MsgFacts ==
  ASSUME RdmaAssumption
  PROVE  \A m \in Msg : /\ m[1] \in Thread /\ m[2] \in Nat \ {0} /\ m = <<m[1], m[2]>>
                        /\ LinkOf(m) = Via[m[1]] /\ LinkOf(m) \in Link
                        /\ LinkOf(m).src \in Proc /\ LinkOf(m).dst \in Proc
                        /\ BodyOf(m) \in Body
<1> SUFFICES ASSUME NEW m \in Msg
             PROVE  /\ m[1] \in Thread /\ m[2] \in Nat \ {0} /\ m = <<m[1], m[2]>>
                    /\ LinkOf(m) = Via[m[1]] /\ LinkOf(m) \in Link
                    /\ LinkOf(m).src \in Proc /\ LinkOf(m).dst \in Proc
                    /\ BodyOf(m) \in Body
  OBVIOUS
<1>1. PICK t \in Thread : \E k \in 1 .. Len(Outbox[t]) : m = <<t, k>>
  BY DEF Msg
<1>2. PICK k \in 1 .. Len(Outbox[t]) : m = <<t, k>>
  BY <1>1
<1>3. Outbox[t] \in Seq(Body) /\ Via[t] \in Link /\ Via[t].src \in Proc /\ Via[t].dst \in Proc
  BY DEF RdmaAssumption
<1>4. m[1] = t /\ m[2] = k
  BY <1>2
<1>5. BodyOf(m) \in Body
  BY <1>3, <1>4 DEF BodyOf
<1>6. QED
  BY <1>2, <1>3, <1>4, <1>5 DEF LinkOf

(* The messages begun on a link stay begun.                                  *)
LEMMA OnLinkLater ==
  ASSUME RdmaAssumption, NEW th1, NEW th2, Later(th1, th2)
  PROVE  \A l : OnLink(l, th1) \subseteq OnLink(l, th2)
<1>1. Begun(th1) \subseteq Begun(th2)
  BY MsgFacts DEF Later, Begun
<1>2. QED
  BY <1>1 DEF OnLink

(* A typed process stays typed when threads begin more messages and more     *)
(* buffers are taken for writes.                                             *)
LEMMA NodeLater ==
  ASSUME RdmaAssumption, NEW th1, NEW th2, Later(th1, th2), NEW o1, NEW o2, Fuller(o1, o2)
  PROVE  \A n, r : NodeAt(n, r, th1, o1) => NodeAt(n, r, th2, o2)
<1> SUFFICES ASSUME NEW n, NEW r, NodeAt(n, r, th1, o1) PROVE NodeAt(n, r, th2, o2)
  OBVIOUS
<1>1. \A l : OnLink(l, th1) \subseteq OnLink(l, th2)
  BY OnLinkLater
<1>2. EventAt(n, th1, o1) \subseteq EventAt(n, th2, o2)
  BY <1>1 DEF EventAt, Fuller, From
<1>3. Seq(EventAt(n, th1, o1)) \subseteq Seq(EventAt(n, th2, o2))
  BY <1>2, Wider
<1>4. QED
  BY <1>3 DEF NodeAt

(* A typed sending end stays typed when threads begin more messages.         *)
LEMMA OutLater ==
  ASSUME RdmaAssumption, NEW th1, NEW th2, Later(th1, th2)
  PROVE  \A l, r : OutAt(l, r, th1) => OutAt(l, r, th2)
<1> SUFFICES ASSUME NEW l, NEW r, OutAt(l, r, th1) PROVE OutAt(l, r, th2)
  OBVIOUS
<1>1. OnLink(l, th1) \subseteq OnLink(l, th2)
  BY OnLinkLater
<1>2. OrderAt(l, r, th1) \subseteq OrderAt(l, r, th2)
  BY <1>1 DEF OrderAt
<1>3. /\ Seq(OrderAt(l, r, th1)) \subseteq Seq(OrderAt(l, r, th2))
      /\ Map(1 .. Depth, OnLink(l, th1)) \subseteq Map(1 .. Depth, OnLink(l, th2))
  BY <1>1, <1>2, Wider
<1>4. QED
  BY <1>3 DEF OutAt

(* A typed receiving end stays typed when threads begin more messages.       *)
LEMMA IncLater ==
  ASSUME RdmaAssumption, NEW th1, NEW th2, Later(th1, th2)
  PROVE  \A l, r : IncAt(l, r, th1) => IncAt(l, r, th2)
<1> SUFFICES ASSUME NEW l, NEW r, IncAt(l, r, th1) PROVE IncAt(l, r, th2)
  OBVIOUS
<1>1. OnLink(l, th1) \subseteq OnLink(l, th2)
  BY OnLinkLater
<1>2. Replies(l, th1) \subseteq Replies(l, th2)
  BY <1>1 DEF Replies
<1>3. Map(1 .. ReplyDepth, Replies(l, th1)) \subseteq Map(1 .. ReplyDepth, Replies(l, th2))
  BY <1>2, Wider
<1>4. QED
  BY <1>3 DEF IncAt

(* A step keeps the types when the threads go forward, and every record that *)
(* it changes has its type afterwards.                                       *)
LEMMA TypedStep ==
  ASSUME RdmaAssumption, Typed, Threads', Bufs',
         Later(thread, thread'), Fuller(out, out'),
         DOMAIN node' = Proc, DOMAIN out' = Link, DOMAIN inc' = Link,
         \A n \in Proc : node'[n] = node[n] \/ NodeAt(n, node'[n], thread', out'),
         \A l \in Link : out'[l] = out[l] \/ OutAt(l, out'[l], thread'),
         \A l \in Link : inc'[l] = inc[l] \/ IncAt(l, inc'[l], thread')
  PROVE  Typed'
<1>1. Nodes /\ Outs /\ Incs
  BY DEF Typed
<1>2. \A n \in Proc : NodeAt(n, node'[n], thread', out')
  BY <1>1, NodeLater DEF Nodes
<1>3. \A l \in Link : OutAt(l, out'[l], thread')
  BY <1>1, OutLater DEF Outs
<1>4. \A l \in Link : IncAt(l, inc'[l], thread')
  BY <1>1, IncLater DEF Incs
<1>5. QED
  BY <1>2, <1>3, <1>4 DEF Typed, Nodes, Outs, Incs

(* Which end of its link a completion is at.                                 *)
LEMMA EventEnds ==
  \A n, th, o : \A e \in EventAt(n, th, o) :
    /\ e.op = "recv start" \/ e.op = "written" \/ e.op = "sent reply" => e.link.dst = n
    /\ e.op = "sent start" \/ e.op = "recv reply" \/ e.op = "wrote" \/ e.op = "error" => e.link.src = n
<1> SUFFICES
      ASSUME NEW n, NEW th, NEW o, NEW e \in EventAt(n, th, o)
      PROVE
        /\ e.op = "recv start" \/ e.op = "written" \/ e.op = "sent reply" => e.link.dst = n
        /\ e.op = "sent start" \/ e.op = "recv reply" \/ e.op = "wrote" \/ e.op = "error" => e.link.src = n
  OBVIOUS
<1>1. CASE e \in [op : {"recv start"}, link : To(n), msg : Msg] /\ e.msg \in OnLink(e.link, th)
  BY <1>1 DEF To
<1>2. CASE e \in [op : {"written"}, link : To(n), idx : 1 .. MaxEntries]
  BY <1>2 DEF To
<1>3. CASE e \in [op : {"sent reply"}, link : To(n), ctx : 1 .. ReplyDepth]
  BY <1>3 DEF To
<1>4. CASE e \in [op : {"sent start"}, link : From(n), ctx : 1 .. Depth]
  BY <1>4 DEF From
<1>5. CASE /\ e \in [op : {"recv reply"}, link : From(n), reply : [to : Nat, msg : Msg, idx : 1 .. MaxEntries]]
           /\ e.reply.msg \in OnLink(e.link, th)
  BY <1>5 DEF From
<1>6. CASE /\ e \in [op : {"wrote"}, link : From(n), ctx : 1 .. Depth]
           /\ e.ctx \in DOMAIN o[e.link].writeBuf
  BY <1>6 DEF From
<1>7. CASE e \in [op : {"error"}, link : From(n)]
  BY <1>7 DEF From
<1>8. QED
  BY <1>1, <1>2, <1>3, <1>4, <1>5, <1>6, <1>7 DEF EventAt

(* What is known of a completion.                                            *)
LEMMA EventFacts ==
  \A n, th, o : \A e \in EventAt(n, th, o) :
    /\ e.link \in Link
    /\ e.op = "recv start" => e.msg \in OnLink(e.link, th)
    /\ e.op = "written" => e.idx \in 1 .. MaxEntries
    /\ e.op = "sent reply" => e.ctx \in 1 .. ReplyDepth
    /\ e.op = "sent start" => e.ctx \in 1 .. Depth
    /\ e.op = "recv reply" => /\ e.reply.to \in Nat /\ e.reply.msg \in OnLink(e.link, th)
                              /\ e.reply.idx \in 1 .. MaxEntries
    /\ e.op = "wrote" => e.ctx \in 1 .. Depth /\ e.ctx \in DOMAIN o[e.link].writeBuf
<1> SUFFICES ASSUME NEW n, NEW th, NEW o, NEW e \in EventAt(n, th, o)
             PROVE  /\ e.link \in Link
                    /\ e.op = "recv start" => e.msg \in OnLink(e.link, th)
                    /\ e.op = "written" => e.idx \in 1 .. MaxEntries
                    /\ e.op = "sent reply" => e.ctx \in 1 .. ReplyDepth
                    /\ e.op = "sent start" => e.ctx \in 1 .. Depth
                    /\ e.op = "recv reply" =>
                         /\ e.reply.to \in Nat /\ e.reply.msg \in OnLink(e.link, th)
                         /\ e.reply.idx \in 1 .. MaxEntries
                    /\ e.op = "wrote" => e.ctx \in 1 .. Depth /\ e.ctx \in DOMAIN o[e.link].writeBuf
  OBVIOUS
<1>1. CASE e \in [op : {"recv start"}, link : To(n), msg : Msg] /\ e.msg \in OnLink(e.link, th)
  BY <1>1 DEF To
<1>2. CASE e \in [op : {"written"}, link : To(n), idx : 1 .. MaxEntries]
  BY <1>2 DEF To
<1>3. CASE e \in [op : {"sent reply"}, link : To(n), ctx : 1 .. ReplyDepth]
  BY <1>3 DEF To
<1>4. CASE e \in [op : {"sent start"}, link : From(n), ctx : 1 .. Depth]
  BY <1>4 DEF From
<1>5. CASE /\ e \in [op : {"recv reply"}, link : From(n), reply : [to : Nat, msg : Msg, idx : 1 .. MaxEntries]]
           /\ e.reply.msg \in OnLink(e.link, th)
  BY <1>5 DEF From
<1>6. CASE /\ e \in [op : {"wrote"}, link : From(n), ctx : 1 .. Depth]
           /\ e.ctx \in DOMAIN o[e.link].writeBuf
  BY <1>6 DEF From
<1>7. CASE e \in [op : {"error"}, link : From(n)]
  BY <1>7 DEF From
<1>8. QED
  BY <1>1, <1>2, <1>3, <1>4, <1>5, <1>6, <1>7 DEF EventAt

(* The first of a queue and the rest of it, one more at its end.             *)
LEMMA QueueFacts ==
  \A T : \A q \in Seq(T) :
    /\ q # <<>> => Head(q) \in T /\ Tail(q) \in Seq(T)
    /\ \A e \in T : Append(q, e) \in Seq(T)
OBVIOUS

(* The depths are positive, and the free contexts of a new queue are         *)
(* numbers of contexts.                                                      *)
LEMMA Constants ==
  ASSUME RdmaAssumption
  PROVE  /\ Depth \in Nat \ {0} /\ MaxEntries \in Nat \ {0} /\ RxDepth \in Nat \ {0}
         /\ ReplyDepth \in Nat \ {0}
         /\ Contexts(Depth) \in Seq(1 .. Depth) /\ Contexts(ReplyDepth) \in Seq(1 .. ReplyDepth)
         /\ Contexts(MaxEntries) \in Seq(1 .. MaxEntries)
<1>1. Depth \in Nat \ {0} /\ MaxEntries \in Nat \ {0}
  BY DEF RdmaAssumption
<1>2. RxDepth \in Nat \ {0} /\ ReplyDepth \in Nat \ {0}
  BY <1>1 DEF RxDepth, ReplyDepth
<1>3. \A k \in Nat : Contexts(k) \in Seq(1 .. k)
  BY DEF Contexts
<1>4. QED
  BY <1>1, <1>2, <1>3

(* The initial states are typed.                                             *)
LEMMA TypedInit == ASSUME PoolAssumption, RdmaAssumption, Init PROVE Typed
<1>1. /\ \A T : <<>> \in Seq(T)
      /\ \A S, T : <<>> \in Map(S, T)
  <2>1. \A S, T : <<>> \in Map(S, T)
    <3>1. ASSUME NEW S, NEW T PROVE <<>> \in Map(S, T)
      <4>1. <<>> \in [{} -> T]
        OBVIOUS
      <4>2. {} \in SUBSET S
        OBVIOUS
      <4>3. QED
        BY <4>1, <4>2 DEF Map
    <3>2. QED
      BY <3>1
  <2>2. QED
    BY <2>1
<1>2. Nodes
  BY <1>1, NewPoolSound, Constants DEF Init, InitContext, AddressPool, Nodes, NodeAt
<1>3. Outs
  BY <1>1 DEF Init, Endpoint, Outs, OutAt, Status
<1>4. Incs
  BY <1>1 DEF Init, IncomingEndpoint, Incs, IncAt
<1>5. Threads /\ Bufs
  BY DEF Init, Threads, ThreadAt, Bufs
<1>6. QED
  BY <1>2, <1>3, <1>4, <1>5 DEF Typed

(* Steps that leave threads and buffers as they are.                         *)
LEMMA LaterSame ==
  ASSUME Typed, UNCHANGED thread
  PROVE  Later(thread, thread') /\ Threads'
BY DEF Typed, Threads, ThreadAt, Later

(* The buffers stay typed when neither they nor the threads change.          *)
LEMMA BufsSame == ASSUME Typed, UNCHANGED <<thread, bufs>> PROVE Bufs'
BY DEF Typed, Bufs

(* Binding, connecting and handling connection events keep the types.        *)
LEMMA TypedConnections ==
  ASSUME RdmaAssumption, Typed,
         \/ \E n \in Proc : Bind(n)
         \/ \E l \in Link : Connect(l) \/ PollEvents(l)
  PROVE  Typed'
<1>1. UNCHANGED <<thread, bufs>>
  BY DEF Bind, Connect, PollEvents, OnRouteResolved, OnRejected, OnConnectRequest, OnConnected
<1>2. Later(thread, thread') /\ Threads' /\ Bufs' /\ Nodes /\ Outs /\ Incs
  BY <1>1, LaterSame, BufsSame DEF Typed
<1>3. ASSUME NEW n \in Proc, Bind(n) PROVE Typed'
  <2>1. NodeAt(n, node'[n], thread, out)
    <3>1. NodeAt(n, node[n], thread, out)
      BY <1>2 DEF Nodes
    <3>2. node'[n] = [node[n] EXCEPT !.listening = TRUE]
      BY <1>2, <1>3 DEF Bind, Nodes
    <3>3. QED
      BY <3>1, <3>2 DEF NodeAt
  <2>3. NodeAt(n, node'[n], thread', out') /\ Fuller(out, out')
    BY <1>1, <1>3, <2>1 DEF Bind, Fuller
  <2>2. QED
    BY <1>2, <1>3, <2>3, TypedStep DEF Bind, Nodes, Outs, Incs
<1>4. ASSUME NEW l \in Link, Connect(l) \/ PollEvents(l), ~ OnConnectRequest(l) PROVE Typed'
  <2> DEFINE r == out'[l]
  <2>1. OutAt(l, out[l], thread)
    BY <1>2 DEF Outs
  <2>2. /\ r \in [status : Status, rejects : Nat, start : Seq(1 .. Depth), write : Seq(1 .. Depth),
                  startBuf : {out[l].startBuf}, writeBuf : {out[l].writeBuf},
                  rx : Int, sq : {out[l].sq}]
        /\ DOMAIN out' = Link /\ \A k \in Link \ {l} : out'[k] = out[k]
        /\ UNCHANGED <<node, inc>>
    <3>1. CASE Connect(l)
      BY <1>2, <2>1, <3>1 DEF Connect, Outs, OutAt, Status
    <3>2. CASE OnRouteResolved(l)
      <4>1. out'[l] = [out[l] EXCEPT !.rx = RxDepth, !.start = @ \o Contexts(Depth),
                                     !.write = @ \o Contexts(Depth), !.status = "requested"]
        BY <1>2, <2>1, <3>2 DEF OnRouteResolved, InitEndpoint, Outs, OutAt
      <4>2. /\ out[l].start \o Contexts(Depth) \in Seq(1 .. Depth)
            /\ out[l].write \o Contexts(Depth) \in Seq(1 .. Depth)
            /\ RxDepth \in Int
        <5>1. \A T : \A q1, q2 \in Seq(T) : q1 \o q2 \in Seq(T)
          OBVIOUS
        <5>2. out[l].start \in Seq(1 .. Depth) /\ out[l].write \in Seq(1 .. Depth)
          BY <2>1 DEF OutAt
        <5>3. QED
          BY <5>1, <5>2, Constants
      <4>3. DOMAIN out' = Link /\ (\A k \in Link \ {l} : out'[k] = out[k]) /\ UNCHANGED <<node, inc>>
        BY <1>2, <3>2 DEF OnRouteResolved, Outs
      <4>4. QED
        BY <2>1, <4>1, <4>2, <4>3 DEF OutAt, Status
    <3>3. CASE OnRejected(l)
      <4>1. out'[l] = [out[l] EXCEPT !.status = "rejected", !.rejects = out[l].rejects + 1]
        BY <1>2, <2>1, <3>3 DEF OnRejected, Outs, OutAt
      <4>2. DOMAIN out' = Link /\ (\A k \in Link \ {l} : out'[k] = out[k]) /\ UNCHANGED <<node, inc>>
        BY <1>2, <3>3 DEF OnRejected, Outs
      <4>3. out[l].rejects + 1 \in Nat
        BY <2>1 DEF OutAt
      <4>4. QED
        BY <2>1, <4>1, <4>2, <4>3 DEF OutAt, Status
    <3>4. CASE OnConnected(l)
      BY <1>2, <2>1, <3>4 DEF OnConnected, Outs, OutAt, Status
    <3>5. QED
      BY <1>4, <3>1, <3>2, <3>3, <3>4 DEF PollEvents
  <2>3. OrderAt(l, r, thread') = OrderAt(l, out[l], thread)
    BY <1>1, <2>2 DEF OrderAt
  <2>4. OutAt(l, r, thread')
    BY <1>1, <2>1, <2>2, <2>3 DEF OutAt
  <2>5. Fuller(out, out')
    BY <2>2 DEF Fuller
  <2>6. QED
    BY <1>2, <2>2, <2>4, <2>5, TypedStep DEF Nodes, Incs
<1>5. ASSUME NEW l \in Link, OnConnectRequest(l) PROVE Typed'
  <2>1. OutAt(l, out[l], thread) /\ IncAt(l, inc[l], thread)
    BY <1>2 DEF Outs, Incs
  <2>2. /\ out'[l] \in [status : Status, rejects : Nat, start : Seq(1 .. Depth), write : Seq(1 .. Depth),
                  startBuf : {out[l].startBuf}, writeBuf : {out[l].writeBuf},
                  rx : Int, sq : {out[l].sq}]
        /\ DOMAIN out' = Link /\ \A k \in Link \ {l} : out'[k] = out[k]
    BY <1>2, <1>5, <2>1 DEF OnConnectRequest, Outs, OutAt, Status
  <2>3. OrderAt(l, out'[l], thread') = OrderAt(l, out[l], thread)
    BY <1>1, <2>2 DEF OrderAt
  <2>4. OutAt(l, out'[l], thread')
    BY <1>1, <2>1, <2>2, <2>3 DEF OutAt
  <2>5. Fuller(out, out')
    BY <2>2 DEF Fuller
  <2>6. /\ inc'[l] \in [reply : Seq(1 .. ReplyDepth), replyBuf : {inc[l].replyBuf}, rx : Int, sq : {inc[l].sq}]
        /\ DOMAIN inc' = Link /\ \A k \in Link \ {l} : inc'[k] = inc[k]
    <3>1. inc'[l] = [inc[l] EXCEPT !.reply = Contexts(ReplyDepth), !.rx = RxDepth]
      BY <1>2, <1>5, <2>1 DEF OnConnectRequest, Incs, IncAt
    <3>2. DOMAIN inc' = Link /\ \A k \in Link \ {l} : inc'[k] = inc[k]
      BY <1>2, <1>5 DEF OnConnectRequest, Incs
    <3>3. Contexts(ReplyDepth) \in Seq(1 .. ReplyDepth) /\ RxDepth \in Int
      BY Constants
    <3>4. QED
      BY <2>1, <3>1, <3>2, <3>3 DEF IncAt
  <2>7. IncAt(l, inc'[l], thread')
    <3>1. ReplyAt(inc'[l]) = ReplyAt(inc[l])
      BY <2>6 DEF ReplyAt
    <3>2. QED
      BY <1>1, <2>1, <2>6, <3>1 DEF IncAt
  <2>8. QED
    BY <1>2, <1>5, <2>2, <2>4, <2>5, <2>6, <2>7, TypedStep DEF OnConnectRequest, Nodes
<1>6. QED
  BY <1>3, <1>4, <1>5

(* Alloc hands out one more block, at an address where none is handed out.   *)
LEMMA AllocUsed ==
  ASSUME PoolAssumption, NEW p \in Pool, PoolSound(p), NEW size \in Nat \ {0},
         NEW a \in Alloc(p, size)
  PROVE  /\ a.addr \in Nat /\ ~ IsUsed(p, a.addr)
         /\ \E k \in Nat : a.pool.used = p.used \cup {[addr |-> a.addr, size |-> k]}
<1> DEFINE n == AlignCeil(size)
<1>1. n \in Nat \ {0}
  BY AlignCeilPositive
<1> HIDE DEF n
<1>2. PICK q \in IF Fitting(p, n) = {} THEN Grown(p, n) ELSE {p} :
        \E b \in BestFit(q, n) : a = [pool |-> Take(q, b, n), addr |-> b.addr]
  BY DEF Alloc, n
<1>3. q \in Pool /\ PoolSound(q)
  BY <1>1, <1>2, GrownSound
<1>4. q.used = p.used
  <2>1. CASE q = p
    BY <2>1
  <2>2. CASE q \in Grown(p, n)
    BY <2>2 DEF Grown, Pool
  <2>3. QED
    BY <1>2, <2>1, <2>2
<1>5. PICK b \in BestFit(q, n) : a = [pool |-> Take(q, b, n), addr |-> b.addr]
  BY <1>2
<1>6. b \in q.free /\ b \in Block /\ q.used \subseteq Block
  BY <1>3, <1>5 DEF BestFit, Fitting, Pool
<1>7. \A c \in q.used : c.addr # b.addr
  <2>1. ASSUME NEW c \in q.used, c.addr = b.addr PROVE FALSE
    <3>1. b # c
      BY <1>3, <1>6, <2>1 DEF PoolSound, BlocksDisjoint
    <3>2. Disjoint(b, c)
      BY <1>3, <1>6, <2>1, <3>1 DEF PoolSound, BlocksDisjoint
    <3>3. c \in Block
      BY <1>6
    <3>4. QED
      BY <1>6, <2>1, <3>2, <3>3 DEF Disjoint, End, Block
  <2>2. QED
    BY <2>1
<1>8. Take(q, b, n).used = q.used \cup {[addr |-> b.addr, size |-> n]}
  BY <1>3 DEF Take, Pool
<1>9. a.addr = b.addr /\ a.pool = Take(q, b, n)
  BY <1>5
<1>10. QED
  BY <1>1, <1>4, <1>6, <1>7, <1>8, <1>9 DEF IsUsed, Block

(* A link's records with other queues, and with a message put into a context.*)
LEMMA OrderGrows ==
  \A l, th1, th2, r1, r2 :
    /\ OnLink(l, th1) \subseteq OnLink(l, th2)
    /\ DOMAIN r1.startBuf \subseteq DOMAIN r2.startBuf
    /\ DOMAIN r1.writeBuf \subseteq DOMAIN r2.writeBuf
    => OrderAt(l, r1, th1) \subseteq OrderAt(l, r2, th2)
BY DEF OrderAt

(* One thread goes forward.                                                  *)
LEMMA ThreadStep ==
  ASSUME Threads, NEW t \in Thread, DOMAIN thread' = Thread,
         \A k \in Thread \ {t} : thread'[k] = thread[k],
         ThreadAt(t, thread'[t]), thread[t].next <= thread'[t].next
  PROVE  Later(thread, thread') /\ Threads'
<1>1. \A k \in Thread : ThreadAt(k, thread'[k]) /\ ThreadAt(k, thread[k])
  BY DEF Threads
<1>2. \A k \in Thread : thread[k].next \in Nat /\ thread'[k].next \in Nat
  BY <1>1 DEF ThreadAt
<1>3. Later(thread, thread')
  BY <1>2 DEF Later
<1>4. QED
  BY <1>1, <1>3 DEF Threads

(* The steps of a sending thread keep the types (IBVerbsTransport::Prepare,  *)
(* Send and PostStart).                                                      *)
LEMMA TypedSend ==
  ASSUME PoolAssumption, RdmaAssumption, Typed, \A n \in Proc : PoolSound(node[n].pool),
         NEW t \in Thread, Send(t)
  PROVE  Typed'
<1> DEFINE l == Via[t]
           m == <<t, thread[t].next>>
           b == BodyOf(m)
<1>1. l \in Link /\ l.src \in Proc /\ l.dst \in Proc /\ Outbox[t] \in Seq(Body)
  BY DEF RdmaAssumption
<1>2. Nodes /\ Outs /\ Incs /\ Threads /\ Bufs /\ ThreadAt(t, thread[t])
  BY DEF Typed, Threads
<1>3. NodeAt(l.src, node[l.src], thread, out) /\ OutAt(l, out[l], thread)
  BY <1>1, <1>2 DEF Nodes, Outs
<1>4. thread[t].next \in Nat \ {0} /\ m[1] = t /\ m[2] = thread[t].next
  BY <1>2 DEF ThreadAt
<1>5. thread[t].next <= Len(Outbox[t]) => m \in Msg /\ LinkOf(m) = l
  BY <1>1, <1>4 DEF Msg, LinkOf
<1>6. \A k \in DOMAIN bufs : k \in Msg /\ k[1] \in Thread /\ k[2] \in Nat /\ k = <<k[1], k[2]>>
  BY <1>2, MsgFacts DEF Bufs
<1>7. CASE Prepare(t)
  <2>1. m \in Msg /\ LinkOf(m) = l /\ thread[t].pc = "idle" /\ thread[t].next <= Len(Outbox[t])
    BY <1>5, <1>7 DEF Prepare
  <2>2. InlineLen(b) \in Nat \ {0}
    BY <2>1, MessageSizes
  <2> DEFINE new == {d \in b.data : d.at \notin DOMAIN node[l.src].mr}
             D == DOMAIN node[l.src].mr \cup {d.at : d \in new}
             mr == [x \in D |-> IF x \in DOMAIN node[l.src].mr THEN node[l.src].mr[x]
                                ELSE (CHOOSE d \in new : d.at = x).len]
  <2>3. PICK a \in Alloc(node[l.src].pool, InlineLen(b)) :
          /\ node' = [node EXCEPT ![l.src].pool = a.pool, ![l.src].mr = mr]
          /\ bufs' = Put(bufs, m, [inline |-> a.addr, write |-> None])
    BY <1>3, <1>7 DEF Prepare, NodeAt
  <2>4. a.pool \in Pool /\ a.addr \in Nat
    BY <1>1, <1>3, <2>2, AllocSound, AllocUsed DEF NodeAt
  <2>5. mr \in Map(Nat, Nat)
    <3>1. /\ DOMAIN node[l.src].mr \subseteq Nat
          /\ \A x \in DOMAIN node[l.src].mr : node[l.src].mr[x] \in Nat
      <4>1. node[l.src].mr \in Map(Nat, Nat)
        BY <1>3 DEF NodeAt
      <4>2. QED
        BY <4>1, PutDrop
    <3>2. new \subseteq [at : Nat, len : Nat \ {0}]
      BY <2>1, MsgFacts DEF Body
    <3>3. \A x \in D \ DOMAIN node[l.src].mr : (CHOOSE d \in new : d.at = x) \in new
      <4> HIDE DEF new
      <4>1. QED
        OBVIOUS
    <3>4. D \in SUBSET Nat
      BY <3>1, <3>2
    <3>5. \A x \in D : mr[x] \in Nat
      BY <3>1, <3>2, <3>3
    <3>6. mr \in [D -> Nat]
      <4> HIDE DEF new
      <4>1. QED
        BY <3>5
    <3> HIDE DEF D, mr
    <3>7. QED
      BY <3>4, <3>6 DEF Map
  <2> HIDE DEF mr
  <2>6. thread' = [thread EXCEPT ![t].pc = "prepared"] /\ UNCHANGED <<out, inc>>
    BY <1>7 DEF Prepare
  <2>7. Later(thread, thread') /\ Threads' /\ Fuller(out, out')
    <3>1. thread'[t] = [pc |-> "prepared", next |-> thread[t].next, write |-> thread[t].write]
          /\ DOMAIN thread' = Thread /\ \A k \in Thread \ {t} : thread'[k] = thread[k]
      BY <1>2, <2>6 DEF Threads, ThreadAt
    <3>2. ThreadAt(t, thread'[t]) /\ thread[t].next <= thread'[t].next
      BY <1>2, <1>4, <2>1, <3>1 DEF ThreadAt
    <3>3. QED
      BY <1>2, <2>6, <3>1, <3>2, ThreadStep DEF Fuller
  <2>8. Bufs'
    <3>1. DOMAIN bufs' = DOMAIN bufs \cup {m} /\ bufs'[m] = [inline |-> a.addr, write |-> None]
          /\ \A k \in DOMAIN bufs \ {m} : bufs'[k] = bufs[k]
      <4> DEFINE v == [inline |-> a.addr, write |-> None]
      <4>1. bufs' = Put(bufs, m, v)
        BY <2>3
      <4> HIDE DEF m, v
      <4>2. DOMAIN bufs' = DOMAIN bufs \cup {m} /\ bufs'[m] = v
            /\ \A k \in DOMAIN bufs \ {m} : bufs'[k] = bufs[k]
        BY <4>1 DEF Put
      <4>3. QED
        BY <4>2 DEF v
    <3>2. BufAt(m, bufs'[m], thread')
      BY <1>2, <1>4, <2>4, <2>6, <3>1 DEF BufAt, Threads, ThreadAt
    <3>3. ASSUME NEW k \in DOMAIN bufs \ {m} PROVE BufAt(k, bufs'[k], thread')
      <4>1. BufAt(k, bufs[k], thread) /\ k[1] \in Thread
        BY <1>2, <1>6 DEF Bufs
      <4>2. thread'[k[1]].next = thread[k[1]].next /\ (k[1] # t => thread'[k[1]] = thread[k[1]])
        BY <1>2, <2>6, <4>1 DEF Threads, ThreadAt
      <4>3. QED
        BY <2>1, <3>1, <4>1, <4>2 DEF BufAt
    <3>4. QED
      BY <1>2, <2>1, <3>1, <3>2, <3>3 DEF Bufs
  <2>9. NodeAt(l.src, node'[l.src], thread', out')
    <3>1. node'[l.src] = [node[l.src] EXCEPT !.pool = a.pool, !.mr = mr]
      BY <1>1, <1>2, <1>3, <2>3 DEF Nodes, NodeAt
    <3>2. NodeAt(l.src, node'[l.src], thread, out)
      BY <1>3, <2>4, <2>5, <3>1 DEF NodeAt
    <3>3. QED
      BY <2>7, <3>2, NodeLater
  <2>10. DOMAIN node' = Proc /\ \A n \in Proc \ {l.src} : node'[n] = node[n]
    BY <1>2, <2>3 DEF Nodes
  <2>11. QED
    BY <1>2, <2>6, <2>7, <2>8, <2>9, <2>10, TypedStep DEF Outs, Incs
<1>8. CASE TakeWriteContext(t)
  <2> DEFINE h == Head(out[l].write)
  <2>1. h \in 1 .. Depth /\ Tail(out[l].write) \in Seq(1 .. Depth)
    BY <1>3, <1>8, QueueFacts DEF TakeWriteContext, OutAt
  <2>2. /\ thread' = [thread EXCEPT ![t].pc = "reserved", ![t].write = h]
        /\ out' = [out EXCEPT ![l].write = Tail(out[l].write)]
        /\ UNCHANGED <<node, inc, bufs>> /\ thread[t].pc = "prepared"
    BY <1>3, <1>8 DEF TakeWriteContext, OutAt
  <2> HIDE DEF h
  <2>3. thread'[t] = [pc |-> "reserved", next |-> thread[t].next, write |-> h]
        /\ DOMAIN thread' = Thread
        /\ \A k \in Thread \ {t} : thread'[k] = thread[k]
    BY <1>2, <2>2 DEF Threads, ThreadAt
  <2>4. ThreadAt(t, thread'[t]) /\ thread'[t].next = thread[t].next /\ thread'[t].pc # "idle"
    BY <1>2, <2>1, <2>2, <2>3 DEF ThreadAt
  <2>5. Later(thread, thread') /\ Threads'
    BY <1>2, <1>4, <2>3, <2>4, ThreadStep
  <2>6. Bufs'
    <3>1. ASSUME NEW k \in DOMAIN bufs PROVE BufAt(k, bufs[k], thread')
      <4>1. BufAt(k, bufs[k], thread) /\ k[1] \in Thread
        BY <1>2, <1>6 DEF Bufs
      <4>2. thread'[k[1]].next = thread[k[1]].next /\ (k[1] # t => thread'[k[1]] = thread[k[1]])
        BY <2>3, <2>4, <4>1
      <4>3. QED
        BY <2>4, <4>1, <4>2 DEF BufAt
    <3>2. QED
      BY <1>2, <2>2, <3>1 DEF Bufs
  <2>7. out'[l] = [out[l] EXCEPT !.write = Tail(out[l].write)] /\ DOMAIN out' = Link
        /\ \A k \in Link \ {l} : out'[k] = out[k]
    BY <1>1, <1>2, <2>2 DEF Outs
  <2>8. OrderAt(l, out'[l], thread) = OrderAt(l, out[l], thread)
        /\ DOMAIN out'[l].writeBuf = DOMAIN out[l].writeBuf
    BY <1>3, <2>7 DEF OrderAt, OutAt
  <2>9. OutAt(l, out'[l], thread)
    BY <1>3, <2>1, <2>7, <2>8 DEF OutAt
  <2>10. Fuller(out, out') /\ OutAt(l, out'[l], thread')
    BY <2>5, <2>7, <2>8, <2>9, OutLater DEF Fuller
  <2>11. DOMAIN node' = Proc /\ DOMAIN inc' = Link /\ node' = node /\ inc' = inc
    BY <1>2, <2>2 DEF Nodes, Incs
  <2>12. QED
    BY <2>5, <2>6, <2>7, <2>10, <2>11, TypedStep
<1>9. CASE PostStart(t)
  <2> DEFINE i == Head(out[l].start)
             w == [op |-> "start", ctx |-> i]
             B == Put(out[l].startBuf, i, m)
             q == Append(out[l].sq, w)
             z == Tail(out[l].start)
  <2>1. i \in 1 .. Depth /\ z \in Seq(1 .. Depth)
    BY <1>3, <1>9, QueueFacts DEF PostStart, OutAt
  <2>2. m \in Msg /\ LinkOf(m) = l /\ thread[t].write \in 1 .. Depth
    BY <1>2, <1>5, <1>9 DEF PostStart, ThreadAt
  <2>3. /\ bufs' = [bufs EXCEPT ![m].write = thread[t].write]
        /\ UNCHANGED <<node, inc>>
        /\ thread' = [thread EXCEPT ![t] = [pc |-> "idle", next |-> thread[t].next + 1, write |-> None]]
    BY <1>9 DEF PostStart
  <2>4. /\ out'[l] = [out[l] EXCEPT !.start = z, !.startBuf = B, !.sq = q]
        /\ DOMAIN out' = Link /\ \A k \in Link \ {l} : out'[k] = out[k]
    BY <1>1, <1>2, <1>3, <1>9 DEF PostStart, Outs, OutAt
  <2>5. /\ thread'[t] = [pc |-> "idle", next |-> thread[t].next + 1, write |-> None]
        /\ \A k \in Thread \ {t} : thread'[k] = thread[k]
    BY <1>2, <2>3 DEF Threads
  <2>6. Later(thread, thread') /\ Threads'
    BY <1>2, <1>4, <2>3, <2>5 DEF Later, Threads, ThreadAt
  <2>7. Bufs'
    <3>1. DOMAIN bufs' = DOMAIN bufs /\ \A k \in DOMAIN bufs \ {m} : bufs'[k] = bufs[k]
      BY <2>3
    <3>2. ASSUME NEW k \in DOMAIN bufs PROVE BufAt(k, bufs'[k], thread')
      <4>1. BufAt(k, bufs[k], thread) /\ k[1] \in Thread /\ k[2] \in Nat /\ k = <<k[1], k[2]>>
        BY <1>2, <1>6 DEF Bufs
      <4>2. CASE k = m
        <5>1. bufs'[m] = [bufs[m] EXCEPT !.write = thread[t].write]
          BY <2>3, <4>2
        <5>2. bufs[m] \in [inline : Nat, write : {None} \cup 1 .. Depth]
          BY <4>1, <4>2 DEF BufAt
        <5>3. /\ bufs'[m] \in [inline : Nat, write : {None} \cup 1 .. Depth]
              /\ bufs'[m].write \in 1 .. Depth
          BY <2>2, <5>1, <5>2
        <5>4. m[2] < thread'[m[1]].next
          BY <1>4, <2>5
        <5>5. QED
          BY <4>2, <5>3, <5>4 DEF BufAt
      <4>3. CASE k # m /\ k[1] = t
        <5>1. k[2] # thread[t].next
          BY <4>1, <4>3
        <5>2. QED
          BY <1>4, <2>5, <3>1, <4>1, <4>3, <5>1 DEF BufAt
      <4>4. CASE k[1] # t
        BY <1>4, <2>5, <3>1, <4>1, <4>4 DEF BufAt
      <4>5. QED
        BY <4>2, <4>3, <4>4
    <3>3. QED
      BY <1>2, <3>1, <3>2 DEF Bufs
  <2>8. OutAt(l, out'[l], thread')
    <3>1. OutAt(l, out[l], thread')
      BY <1>3, <2>6, OutLater
    <3>2. m \in OnLink(l, thread')
      BY <1>4, <2>2, <2>5 DEF OnLink, Begun
    <3>3. B \in Map(1 .. Depth, OnLink(l, thread')) /\ DOMAIN B = DOMAIN out[l].startBuf \cup {i}
      <4>1. out[l].startBuf \in Map(1 .. Depth, OnLink(l, thread'))
        BY <3>1 DEF OutAt
      <4> HIDE DEF m, l, i
      <4>2. QED
        BY <2>1, <3>2, <4>1, PutDrop, PutFacts
    <3> HIDE DEF B
    <3>4. out'[l].startBuf = B /\ out'[l].writeBuf = out[l].writeBuf
      BY <1>3, <2>4 DEF OutAt
    <3>5. /\ OrderAt(l, out[l], thread') \subseteq OrderAt(l, out'[l], thread')
          /\ w \in OrderAt(l, out'[l], thread')
      BY <3>3, <3>4 DEF OrderAt
    <3>6. q \in Seq(OrderAt(l, out'[l], thread'))
      <4>1. out[l].sq \in Seq(OrderAt(l, out'[l], thread'))
        BY <3>1, <3>5, Wider DEF OutAt
      <4> HIDE DEF w
      <4>2. QED
        BY <3>5, <4>1, QueueFacts
    <3> HIDE DEF q, z
    <3>7. QED
      BY <2>1, <2>4, <3>1, <3>3, <3>6 DEF OutAt
  <2>9. Fuller(out, out')
    BY <1>3, <2>4 DEF Fuller, OutAt
  <2>10. QED
    BY <1>2, <2>3, <2>4, <2>6, <2>7, <2>8, <2>9, TypedStep DEF Nodes, Incs
<1>10. QED
  BY <1>7, <1>8, <1>9 DEF Send

(* Events of the kinds that the network makes.                               *)
LEMMA EventMakes ==
  \A th, o : \A l \in Link :
    /\ \A m \in OnLink(l, th) : [op |-> "recv start", link |-> l, msg |-> m] \in EventAt(l.dst, th, o)
    /\ \A k \in 1 .. MaxEntries : [op |-> "written", link |-> l, idx |-> k] \in EventAt(l.dst, th, o)
    /\ \A c \in 1 .. ReplyDepth : [op |-> "sent reply", link |-> l, ctx |-> c] \in EventAt(l.dst, th, o)
    /\ \A c \in 1 .. Depth : [op |-> "sent start", link |-> l, ctx |-> c] \in EventAt(l.src, th, o)
    /\ \A v \in Replies(l, th) : [op |-> "recv reply", link |-> l, reply |-> v] \in EventAt(l.src, th, o)
    /\ \A c \in 1 .. Depth : c \in DOMAIN o[l].writeBuf =>
          [op |-> "wrote", link |-> l, ctx |-> c] \in EventAt(l.src, th, o)
    /\ [op |-> "error", link |-> l] \in EventAt(l.src, th, o)
<1> SUFFICES ASSUME NEW th, NEW o, NEW l \in Link
    PROVE
    /\ \A m \in OnLink(l, th) : [op |-> "recv start", link |-> l, msg |-> m] \in EventAt(l.dst, th, o)
    /\ \A k \in 1 .. MaxEntries : [op |-> "written", link |-> l, idx |-> k] \in EventAt(l.dst, th, o)
    /\ \A c \in 1 .. ReplyDepth : [op |-> "sent reply", link |-> l, ctx |-> c] \in EventAt(l.dst, th, o)
    /\ \A c \in 1 .. Depth : [op |-> "sent start", link |-> l, ctx |-> c] \in EventAt(l.src, th, o)
    /\ \A v \in Replies(l, th) : [op |-> "recv reply", link |-> l, reply |-> v] \in EventAt(l.src, th, o)
    /\ \A c \in 1 .. Depth : c \in DOMAIN o[l].writeBuf =>
          [op |-> "wrote", link |-> l, ctx |-> c] \in EventAt(l.src, th, o)
    /\ [op |-> "error", link |-> l] \in EventAt(l.src, th, o)
  OBVIOUS
<1>1. l \in To(l.dst) /\ l \in From(l.src) /\ \A m \in OnLink(l, th) : m \in Msg
  BY DEF To, From, OnLink, Begun
<1>2. ASSUME NEW m \in OnLink(l, th)
      PROVE  [op |-> "recv start", link |-> l, msg |-> m] \in EventAt(l.dst, th, o)
  BY <1>1 DEF EventAt
<1>3. ASSUME NEW k \in 1 .. MaxEntries
      PROVE  [op |-> "written", link |-> l, idx |-> k] \in EventAt(l.dst, th, o)
  BY <1>1 DEF EventAt
<1>4. ASSUME NEW c \in 1 .. ReplyDepth
      PROVE  [op |-> "sent reply", link |-> l, ctx |-> c] \in EventAt(l.dst, th, o)
  BY <1>1 DEF EventAt
<1>5. ASSUME NEW c \in 1 .. Depth
      PROVE  [op |-> "sent start", link |-> l, ctx |-> c] \in EventAt(l.src, th, o)
  BY <1>1 DEF EventAt
<1>6. ASSUME NEW v \in Replies(l, th)
      PROVE  [op |-> "recv reply", link |-> l, reply |-> v] \in EventAt(l.src, th, o)
  <2>1. v \in [to : Nat, msg : Msg, idx : 1 .. MaxEntries] /\ v.msg \in OnLink(l, th)
    BY <1>1 DEF Replies
  <2>2. QED
    BY <1>1, <2>1 DEF EventAt
<1>7. ASSUME NEW c \in 1 .. Depth, c \in DOMAIN o[l].writeBuf
      PROVE  [op |-> "wrote", link |-> l, ctx |-> c] \in EventAt(l.src, th, o)
  BY <1>1, <1>7 DEF EventAt
<1>8. [op |-> "error", link |-> l] \in EventAt(l.src, th, o)
  BY <1>1 DEF EventAt
<1>9. QED
  BY <1>2, <1>3, <1>4, <1>5, <1>6, <1>7, <1>8

(* A completion is added to a queue.                                         *)
LEMMA CompleteAt ==
  \A n, r, th, o : NodeAt(n, r, th, o) => \A e \in EventAt(n, th, o) : NodeAt(n, Complete(r, e), th, o)
<1> SUFFICES ASSUME NEW n, NEW r, NEW th, NEW o, NodeAt(n, r, th, o), NEW e \in EventAt(n, th, o)
             PROVE  NodeAt(n, Complete(r, e), th, o)
  OBVIOUS
<1> DEFINE q == Append(r.cq, e)
<1>1. q \in Seq(EventAt(n, th, o))
  BY QueueFacts DEF NodeAt
<1> HIDE DEF q
<1>2. NodeAt(n, [r EXCEPT !.cq = q], th, o)
  BY <1>1 DEF NodeAt
<1>3. QED
  BY <1>2 DEF Complete, q

(* Two completions put into the queues of their processes keep the types of  *)
(* all processes.                                                            *)
LEMMA CompleteBothAt ==
  ASSUME NEW f, NEW th, NEW o, \A n \in Proc : NodeAt(n, f[n], th, o),
         NEW n1, NEW n2, NEW e1 \in EventAt(n1, th, o), NEW e2 \in EventAt(n2, th, o)
  PROVE  /\ DOMAIN CompleteBoth(f, n1, e1, n2, e2) = Proc
         /\ \A n \in Proc : NodeAt(n, CompleteBoth(f, n1, e1, n2, e2)[n], th, o)
<1> DEFINE R(n) == IF n = n1 THEN Complete(f[n], e1) ELSE f[n]
<1>1. \A n \in Proc : NodeAt(n, R(n), th, o)
  BY CompleteAt
<1>2. DOMAIN CompleteBoth(f, n1, e1, n2, e2) = Proc
      /\ \A n \in Proc : CompleteBoth(f, n1, e1, n2, e2)[n] = IF n = n2 THEN Complete(R(n), e2) ELSE R(n)
  BY DEF CompleteBoth
<1> HIDE DEF R
<1>3. ASSUME NEW n \in Proc PROVE NodeAt(n, CompleteBoth(f, n1, e1, n2, e2)[n], th, o)
  <2>1. CASE n = n2
    <3>1. NodeAt(n, Complete(R(n), e2), th, o)
      BY <1>1, <2>1, CompleteAt
    <3>2. QED
      BY <1>2, <2>1, <3>1
  <2>2. CASE n # n2
    BY <1>1, <1>2, <2>2
  <2>3. QED
    BY <2>1, <2>2
<1>4. QED
  BY <1>2, <1>3

(* The first work request of a queue is carried.                             *)
LEMMA OutCarried ==
  \A l, r, th : OutAt(l, r, th) /\ r.sq # <<>> =>
    /\ Head(r.sq) \in OrderAt(l, r, th)
    /\ OutAt(l, [r EXCEPT !.sq = Tail(r.sq)], th)
    /\ [r EXCEPT !.sq = Tail(r.sq)].writeBuf = r.writeBuf
<1> SUFFICES ASSUME NEW l, NEW r, NEW th, OutAt(l, r, th), r.sq # <<>>
             PROVE  /\ Head(r.sq) \in OrderAt(l, r, th)
                    /\ OutAt(l, [r EXCEPT !.sq = Tail(r.sq)], th)
                    /\ [r EXCEPT !.sq = Tail(r.sq)].writeBuf = r.writeBuf
  OBVIOUS
<1> DEFINE q == Tail(r.sq)
           s == [r EXCEPT !.sq = q]
<1>1. r.sq \in Seq(OrderAt(l, r, th))
  BY DEF OutAt
<1>2. Head(r.sq) \in OrderAt(l, r, th) /\ q \in Seq(OrderAt(l, r, th))
  BY <1>1, QueueFacts
<1> HIDE DEF q
<1>3. s.startBuf = r.startBuf /\ s.writeBuf = r.writeBuf
  BY DEF OutAt
<1>4. OrderAt(l, s, th) = OrderAt(l, r, th)
  BY <1>3 DEF OrderAt
<1>5. OutAt(l, s, th)
  BY <1>2, <1>4 DEF OutAt
<1>6. QED
  BY <1>2, <1>3, <1>5 DEF q

(* What a posted work request names.                                         *)
LEMMA OrderFacts ==
  \A l, r, th : OutAt(l, r, th) => \A w \in OrderAt(l, r, th) :
    /\ w.op \in {"start", "write"}
    /\ w.op = "start" => w.ctx \in 1 .. Depth /\ r.startBuf[w.ctx] \in OnLink(l, th)
    /\ w.op = "write" => /\ w.ctx \in 1 .. Depth /\ w.ctx \in DOMAIN r.writeBuf
                         /\ w.to \in Nat /\ w.idx \in 1 .. MaxEntries
                         /\ w.msg \in OnLink(l, th)
<1> SUFFICES ASSUME NEW l, NEW r, NEW th, OutAt(l, r, th), NEW w \in OrderAt(l, r, th)
             PROVE  /\ w.op \in {"start", "write"}
                    /\ w.op = "start" => w.ctx \in 1 .. Depth /\ r.startBuf[w.ctx] \in OnLink(l, th)
                    /\ w.op = "write" => /\ w.ctx \in 1 .. Depth /\ w.ctx \in DOMAIN r.writeBuf
                                         /\ w.to \in Nat /\ w.idx \in 1 .. MaxEntries
                                         /\ w.msg \in OnLink(l, th)
  OBVIOUS
<1>1. r.startBuf \in Map(1 .. Depth, OnLink(l, th)) /\ r.writeBuf \in Map(1 .. Depth, OnLink(l, th))
  BY DEF OutAt
<1>2. /\ DOMAIN r.startBuf \subseteq 1 .. Depth /\ DOMAIN r.writeBuf \subseteq 1 .. Depth
      /\ \A c \in DOMAIN r.startBuf : r.startBuf[c] \in OnLink(l, th)
  BY <1>1, PutDrop
<1>3. CASE w \in [op : {"start"}, ctx : DOMAIN r.startBuf]
  BY <1>2, <1>3
<1>4. CASE w \in [op : {"write"}, ctx : DOMAIN r.writeBuf, to : Nat, idx : 1 .. MaxEntries, msg : OnLink(l, th)]
  BY <1>2, <1>4
<1>5. QED
  BY <1>3, <1>4 DEF OrderAt

(* The wire, which carries the work request at the head of a link, keeps     *)
(* the types.                                                                *)
LEMMA TypedCarry ==
  ASSUME RdmaAssumption, Typed, NEW l \in Link, Carry(l)
  PROVE  Typed'
<1>1. l.src \in Proc /\ l.dst \in Proc
  BY DEF RdmaAssumption
<1>2. UNCHANGED <<thread, bufs>>
  BY DEF Carry, CarryStart, CarryWrite, CarryReply
<1>3. Later(thread, thread') /\ Threads' /\ Bufs' /\ Nodes /\ Outs /\ Incs
  BY <1>2, LaterSame, BufsSame DEF Typed
<1>4. OutAt(l, out[l], thread) /\ IncAt(l, inc[l], thread)
      /\ \A n \in Proc : NodeAt(n, node[n], thread, out)
  BY <1>3 DEF Outs, Incs, Nodes
<1>5. CASE CarryStart(l) \/ CarryWrite(l)
  <2> DEFINE w == Head(out[l].sq)
             s == [out[l] EXCEPT !.sq = Tail(out[l].sq)]
  <2>1. out[l].sq # <<>> /\ out' = [out EXCEPT ![l] = s]
    BY <1>3, <1>4, <1>5 DEF CarryStart, CarryWrite, Outs, OutAt
  <2>2. w \in OrderAt(l, out[l], thread) /\ OutAt(l, s, thread) /\ s.writeBuf = out[l].writeBuf
    BY <1>4, <2>1, OutCarried
  <2> HIDE DEF s
  <2>3. /\ DOMAIN out' = Link /\ out'[l] = s /\ (\A k \in Link \ {l} : out'[k] = out[k])
        /\ Fuller(out, out') /\ OutAt(l, out'[l], thread')
    BY <1>2, <1>3, <2>1, <2>2 DEF Outs, Fuller
  <2>4. inc' = inc \/ inc' = [inc EXCEPT ![l].rx = inc[l].rx - 1]
    <3>1. \A i : [inc EXCEPT ![l].rx = @ - 1] = [inc EXCEPT ![l].rx = inc[l].rx - 1]
      BY <1>3, <1>4 DEF Incs, IncAt
    <3>2. CASE CarryStart(l)
      BY <3>1, <3>2 DEF CarryStart
    <3>3. CASE CarryWrite(l)
      BY <3>1, <3>3 DEF CarryWrite
    <3>4. QED
      BY <1>5, <3>2, <3>3
  <2>5. IncAt(l, inc'[l], thread') /\ DOMAIN inc' = Link /\ \A k \in Link \ {l} : inc'[k] = inc[k]
    <3>1. CASE inc' = inc
      BY <1>2, <1>3, <1>4, <3>1 DEF Incs
    <3>2. CASE inc' = [inc EXCEPT ![l].rx = inc[l].rx - 1]
      <4>1. inc'[l] = [inc[l] EXCEPT !.rx = inc[l].rx - 1] /\ inc[l].rx - 1 \in Int
        BY <1>3, <1>4, <3>2 DEF Incs, IncAt
      <4>2. ReplyAt(inc'[l]) = ReplyAt(inc[l])
        BY <1>4, <4>1 DEF ReplyAt, IncAt
      <4>3. IncAt(l, inc'[l], thread)
        BY <1>4, <4>1, <4>2 DEF IncAt
      <4>4. QED
        BY <1>2, <1>3, <3>2, <4>3 DEF Incs
    <3>3. QED
      BY <2>4, <3>1, <3>2
  <2>6. DOMAIN node' = Proc /\ \A n \in Proc : NodeAt(n, node'[n], thread, out)
    <3>1. CASE CarryStart(l)
      <4> DEFINE e1 == [op |-> "recv start", link |-> l, msg |-> out[l].startBuf[w.ctx]]
                 e2 == [op |-> "sent start", link |-> l, ctx |-> w.ctx]
      <4>1. w.ctx \in 1 .. Depth /\ out[l].startBuf[w.ctx] \in OnLink(l, thread)
        BY <1>4, <2>2, <3>1, OrderFacts DEF CarryStart
      <4>2. e1 \in EventAt(l.dst, thread, out) /\ e2 \in EventAt(l.src, thread, out)
        BY <4>1, EventMakes
      <4>3. node' = CompleteBoth(node, l.dst, e1, l.src, e2)
        BY <3>1 DEF CarryStart
      <4> HIDE DEF e1, e2
      <4>4. QED
        BY <1>4, <4>2, <4>3, CompleteBothAt
    <3>2. CASE CarryWrite(l)
      <4> DEFINE e1 == [op |-> "written", link |-> l, idx |-> w.idx]
                 e2 == [op |-> "wrote", link |-> l, ctx |-> w.ctx]
                 e3 == [op |-> "error", link |-> l]
                 f == [node EXCEPT ![l.dst].mem = Put(@, w.to, w.msg)]
      <4>1. /\ w.ctx \in 1 .. Depth /\ w.ctx \in DOMAIN out[l].writeBuf /\ w.to \in Nat
            /\ w.idx \in 1 .. MaxEntries /\ w.msg \in OnLink(l, thread)
        BY <1>4, <2>2, <3>2, OrderFacts DEF CarryWrite
      <4>2. /\ e1 \in EventAt(l.dst, thread, out) /\ e2 \in EventAt(l.src, thread, out)
            /\ e3 \in EventAt(l.src, thread, out)
        BY <4>1, EventMakes
      <4>3. \A n \in Proc : NodeAt(n, f[n], thread, out)
        <5> DEFINE g == Put(node[l.dst].mem, w.to, w.msg)
        <5>1. g \in Map(Nat, Msg)
          <6>1. node[l.dst].mem \in Map(Nat, Msg) /\ w.msg \in Msg
            BY <1>1, <1>4, <4>1 DEF NodeAt, OnLink, Begun
          <6>2. \A h \in Map(Nat, Msg) : \A x \in Nat, v \in Msg : Put(h, x, v) \in Map(Nat, Msg)
            BY PutDrop
          <6> HIDE DEF w
          <6>3. QED
            BY <4>1, <6>1, <6>2
        <5> HIDE DEF g
        <5>2. NodeAt(l.dst, [node[l.dst] EXCEPT !.mem = g], thread, out)
          <6>1. PICK r : r = node[l.dst] /\ NodeAt(l.dst, r, thread, out)
            BY <1>1, <1>4
          <6>2. NodeAt(l.dst, [r EXCEPT !.mem = g], thread, out)
            BY <5>1, <6>1 DEF NodeAt
          <6>3. QED
            BY <6>1, <6>2
        <5>3. f[l.dst] = [node[l.dst] EXCEPT !.mem = g] /\ \A n \in Proc \ {l.dst} : f[n] = node[n]
          BY <1>1, <1>3 DEF Nodes, g
        <5> HIDE DEF f
        <5>4. QED
          BY <1>4, <5>2, <5>3
      <4>4. CASE Registered(w.msg)
        <5>1. node' = CompleteBoth(f, l.dst, e1, l.src, e2)
          BY <3>2, <4>4 DEF CarryWrite
        <5>2. e1 \in EventAt(l.dst, thread, out) /\ e2 \in EventAt(l.src, thread, out)
          BY <4>2
        <5> HIDE DEF e1, e2, f, w
        <5>3. DOMAIN CompleteBoth(f, l.dst, e1, l.src, e2) = Proc
              /\ \A n \in Proc : NodeAt(n, CompleteBoth(f, l.dst, e1, l.src, e2)[n], thread, out)
          BY <4>3, <5>2, CompleteBothAt
        <5>4. QED
          BY <5>1, <5>3
      <4>5. CASE ~ Registered(w.msg)
        <5>1. node' = [node EXCEPT ![l.src] = Complete(node[l.src], e3)]
          BY <3>2, <4>5 DEF CarryWrite
        <5> HIDE DEF e3
        <5>2. NodeAt(l.src, Complete(node[l.src], e3), thread, out)
          BY <1>1, <1>4, <4>2, CompleteAt
        <5>3. QED
          BY <1>1, <1>3, <1>4, <5>1, <5>2 DEF Nodes
      <4>6. QED
        BY <4>4, <4>5
    <3>3. QED
      BY <1>5, <3>1, <3>2
  <2>7. \A n \in Proc : NodeAt(n, node'[n], thread', out')
    BY <1>3, <2>3, <2>6, NodeLater
  <2>8. QED
    BY <1>3, <2>3, <2>5, <2>6, <2>7, TypedStep
<1>6. CASE CarryReply(l)
  <2> DEFINE w == Head(inc[l].sq)
             q == Tail(inc[l].sq)
             v == inc[l].replyBuf[w.ctx]
             e1 == [op |-> "recv reply", link |-> l, reply |-> v]
             e2 == [op |-> "sent reply", link |-> l, ctx |-> w.ctx]
  <2>1. inc[l].sq # <<>> /\ inc' = [inc EXCEPT ![l].sq = q] /\ out' = [out EXCEPT ![l].rx = out[l].rx - 1]
    BY <1>3, <1>4, <1>6 DEF CarryReply, Incs, IncAt, OutAt, Outs
  <2>2. w \in ReplyAt(inc[l]) /\ q \in Seq(ReplyAt(inc[l]))
    BY <1>4, <2>1, QueueFacts DEF IncAt
  <2>3. w.ctx \in 1 .. ReplyDepth /\ v \in Replies(l, thread)
    <3>1. inc[l].replyBuf \in Map(1 .. ReplyDepth, Replies(l, thread)) /\ w.ctx \in DOMAIN inc[l].replyBuf
      BY <1>4, <2>2 DEF IncAt, ReplyAt
    <3>2. /\ DOMAIN inc[l].replyBuf \subseteq 1 .. ReplyDepth
          /\ \A x \in DOMAIN inc[l].replyBuf : inc[l].replyBuf[x] \in Replies(l, thread)
      <4> DEFINE S == 1 .. ReplyDepth
                 T == Replies(l, thread)
      <4>1. inc[l].replyBuf \in Map(S, T)
        BY <3>1
      <4> HIDE DEF S, T
      <4>2. DOMAIN inc[l].replyBuf \subseteq S /\ \A x \in DOMAIN inc[l].replyBuf : inc[l].replyBuf[x] \in T
        BY <4>1, PutDrop
      <4>3. QED
        BY <4>2 DEF S, T
    <3> HIDE DEF w
    <3>3. QED
      BY <3>1, <3>2
  <2>4. e1 \in EventAt(l.src, thread, out) /\ e2 \in EventAt(l.dst, thread, out)
    BY <2>3, EventMakes
  <2>5. node' = CompleteBoth(node, l.src, e1, l.dst, e2)
    BY <1>6 DEF CarryReply
  <2> HIDE DEF e1, e2
  <2>6. DOMAIN node' = Proc /\ \A n \in Proc : NodeAt(n, node'[n], thread, out)
    BY <1>4, <2>4, <2>5, CompleteBothAt
  <2> HIDE DEF q, w, v
  <2>7. /\ DOMAIN inc' = Link /\ (\A k \in Link \ {l} : inc'[k] = inc[k])
        /\ inc'[l] = [inc[l] EXCEPT !.sq = q]
    BY <1>3, <2>1 DEF Incs
  <2>8. IncAt(l, inc'[l], thread')
    <3>1. ReplyAt(inc'[l]) = ReplyAt(inc[l])
      BY <1>4, <2>7 DEF ReplyAt, IncAt
    <3>2. QED
      BY <1>2, <1>4, <2>2, <2>7, <3>1 DEF IncAt
  <2>9. /\ DOMAIN out' = Link /\ (\A k \in Link \ {l} : out'[k] = out[k])
        /\ out'[l] = [out[l] EXCEPT !.rx = out[l].rx - 1]
    BY <1>3, <2>1 DEF Outs
  <2>10. OutAt(l, out'[l], thread') /\ Fuller(out, out')
    <3>1. out'[l].startBuf = out[l].startBuf /\ out'[l].writeBuf = out[l].writeBuf
          /\ out[l].rx - 1 \in Int
      BY <1>4, <2>9 DEF OutAt
    <3>2. OrderAt(l, out'[l], thread) = OrderAt(l, out[l], thread)
      BY <3>1 DEF OrderAt
    <3>3. OutAt(l, out'[l], thread)
      BY <1>4, <2>9, <3>1, <3>2 DEF OutAt
    <3>4. QED
      BY <1>2, <2>9, <3>1, <3>3 DEF Fuller
  <2>11. \A n \in Proc : NodeAt(n, node'[n], thread', out')
    BY <1>3, <2>6, <2>10, NodeLater
  <2>12. QED
    BY <1>3, <2>6, <2>7, <2>8, <2>9, <2>10, <2>11, TypedStep
<1>7. QED
  BY <1>5, <1>6 DEF Carry

(* A completion is taken off its queue.                                      *)
LEMMA PolledAt ==
  ASSUME Typed, NEW n \in Proc, node[n].cq # <<>>
  PROVE  /\ NodeAt(n, Polled(n), thread, out)
         /\ Head(node[n].cq) \in EventAt(n, thread, out)
         /\ \A f \in {"listening", "pool", "mem", "mr", "free", "table", "recv", "blocks", "ended"} :
              Polled(n)[f] = node[n][f]
<1>1. NodeAt(n, node[n], thread, out)
  BY DEF Typed, Nodes
<1> DEFINE q == Tail(node[n].cq)
<1>2. Head(node[n].cq) \in EventAt(n, thread, out) /\ q \in Seq(EventAt(n, thread, out))
  <2>1. node[n].cq \in Seq(EventAt(n, thread, out))
    BY <1>1 DEF NodeAt
  <2>2. QED
    BY <2>1, QueueFacts
<1>3. Polled(n) = [node[n] EXCEPT !.cq = q]
  BY DEF Polled
<1> HIDE DEF q
<1>4. NodeAt(n, Polled(n), thread, out)
  BY <1>1, <1>2, <1>3 DEF NodeAt
<1>5. QED
  BY <1>1, <1>2, <1>3, <1>4 DEF NodeAt

(* A process that stops with a failed check keeps its types.                 *)
LEMMA FailTyped ==
  ASSUME RdmaAssumption, Typed, NEW n \in Proc,
         NEW why \in {"wc.status", "table_[idx]", "deleted", "ptr"}, Fail(n, why),
         UNCHANGED <<out, inc, thread, bufs>>
  PROVE  Typed'
<1>1. Later(thread, thread') /\ Threads' /\ Bufs' /\ Nodes /\ Outs /\ Incs
  BY LaterSame, BufsSame DEF Typed
<1>2. NodeAt(n, node[n], thread, out) /\ node' = [node EXCEPT ![n].ended = why]
  BY <1>1 DEF Nodes, Fail
<1>3. NodeAt(n, [node[n] EXCEPT !.ended = why], thread, out)
  BY <1>2 DEF NodeAt
<1>4. node'[n] = [node[n] EXCEPT !.ended = why] /\ DOMAIN node' = Proc
      /\ \A k \in Proc \ {n} : node'[k] = node[k]
  BY <1>1, <1>2 DEF Nodes
<1>5. Fuller(out, out') /\ NodeAt(n, node'[n], thread', out')
  BY <1>3, <1>4 DEF Fuller
<1>6. QED
  BY <1>1, <1>4, <1>5, TypedStep DEF Outs, Incs

(* A link's record with a longer queue of free contexts, or with a receive   *)
(* posted again.                                                             *)
LEMMA OutFree ==
  \A l, r, th : OutAt(l, r, th) => \A c \in 1 .. Depth :
    /\ OutAt(l, [r EXCEPT !.start = Append(@, c)], th)
    /\ OutAt(l, [r EXCEPT !.write = Append(@, c)], th)
    /\ [r EXCEPT !.start = Append(@, c)].writeBuf = r.writeBuf
    /\ [r EXCEPT !.write = Append(@, c)].writeBuf = r.writeBuf
<1> SUFFICES ASSUME NEW l, NEW r, NEW th, OutAt(l, r, th), NEW c \in 1 .. Depth
             PROVE  /\ OutAt(l, [r EXCEPT !.start = Append(@, c)], th)
                    /\ OutAt(l, [r EXCEPT !.write = Append(@, c)], th)
                    /\ [r EXCEPT !.start = Append(@, c)].writeBuf = r.writeBuf
                    /\ [r EXCEPT !.write = Append(@, c)].writeBuf = r.writeBuf
  OBVIOUS
<1> DEFINE q1 == Append(r.start, c)
           q2 == Append(r.write, c)
           s1 == [r EXCEPT !.start = q1]
           s2 == [r EXCEPT !.write = q2]
<1>1. q1 \in Seq(1 .. Depth) /\ q2 \in Seq(1 .. Depth)
  BY QueueFacts DEF OutAt
<1>2. [r EXCEPT !.start = Append(@, c)] = s1 /\ [r EXCEPT !.write = Append(@, c)] = s2
  BY DEF OutAt
<1> HIDE DEF q1, q2
<1>3. s1.startBuf = r.startBuf /\ s1.writeBuf = r.writeBuf /\ s2.startBuf = r.startBuf /\ s2.writeBuf = r.writeBuf
  BY DEF OutAt
<1>4. OrderAt(l, s1, th) = OrderAt(l, r, th) /\ OrderAt(l, s2, th) = OrderAt(l, r, th)
  BY <1>3 DEF OrderAt
<1>5. OutAt(l, s1, th)
  BY <1>1, <1>4 DEF OutAt
<1>6. OutAt(l, s2, th)
  BY <1>1, <1>4 DEF OutAt
<1> HIDE DEF s1, s2
<1>7. QED
  BY <1>2, <1>3, <1>5, <1>6

(* A receiving end keeps its types when a context of it is freed or a        *)
(* receive is posted.                                                        *)
LEMMA IncFree ==
  \A l, r, th : IncAt(l, r, th) =>
    /\ \A c \in 1 .. ReplyDepth : IncAt(l, [r EXCEPT !.reply = Append(@, c)], th)
    /\ IncAt(l, [r EXCEPT !.rx = @ + 1], th)
<1> SUFFICES ASSUME NEW l, NEW r, NEW th, IncAt(l, r, th)
             PROVE  /\ \A c \in 1 .. ReplyDepth : IncAt(l, [r EXCEPT !.reply = Append(@, c)], th)
                    /\ IncAt(l, [r EXCEPT !.rx = @ + 1], th)
  OBVIOUS
<1>1. ASSUME NEW c \in 1 .. ReplyDepth PROVE IncAt(l, [r EXCEPT !.reply = Append(@, c)], th)
  <2> DEFINE q == Append(r.reply, c)
             s == [r EXCEPT !.reply = q]
  <2>1. q \in Seq(1 .. ReplyDepth) /\ [r EXCEPT !.reply = Append(@, c)] = s
    BY QueueFacts DEF IncAt
  <2> HIDE DEF q
  <2>2. ReplyAt(s) = ReplyAt(r)
    BY DEF ReplyAt, IncAt
  <2>3. IncAt(l, s, th)
    BY <2>1, <2>2 DEF IncAt
  <2> HIDE DEF s
  <2>4. QED
    BY <2>1, <2>3
<1>2. IncAt(l, [r EXCEPT !.rx = @ + 1], th)
  <2> DEFINE v == r.rx + 1
             s == [r EXCEPT !.rx = v]
  <2>1. v \in Int /\ [r EXCEPT !.rx = @ + 1] = s
    BY DEF IncAt
  <2> HIDE DEF v
  <2>2. ReplyAt(s) = ReplyAt(r)
    BY DEF ReplyAt, IncAt
  <2>3. IncAt(l, s, th)
    BY <2>1, <2>2 DEF IncAt
  <2> HIDE DEF s
  <2>4. QED
    BY <2>1, <2>3
<1>3. QED
  BY <1>1, <1>2

(* Polling the completion of a send keeps the types.                         *)
LEMMA TypedPollSent ==
  ASSUME RdmaAssumption, Typed, NEW n \in Proc, PollSent(n)
  PROVE  Typed'
<1> DEFINE e == Head(node[n].cq)
           l == e.link
<1>1. UNCHANGED <<thread, bufs>> /\ node[n].cq # <<>> /\ node' = [node EXCEPT ![n] = Polled(n)]
  BY DEF PollSent, Polls
<1>2. Later(thread, thread') /\ Threads' /\ Bufs' /\ Nodes /\ Outs /\ Incs
  BY <1>1, LaterSame, BufsSame DEF Typed
<1>3. NodeAt(n, Polled(n), thread, out) /\ e \in EventAt(n, thread, out)
  BY <1>1, PolledAt
<1>4. l \in Link /\ (e.op = "sent start" => e.ctx \in 1 .. Depth)
      /\ (e.op = "sent reply" => e.ctx \in 1 .. ReplyDepth)
  BY <1>3, EventFacts
<1>5. OutAt(l, out[l], thread) /\ IncAt(l, inc[l], thread)
  BY <1>2, <1>4 DEF Outs, Incs
<1>6. DOMAIN node' = Proc /\ node'[n] = Polled(n) /\ \A k \in Proc \ {n} : node'[k] = node[k]
  BY <1>1, <1>2 DEF Nodes
<1>7. CASE Polls(n, "sent start")
  <2> DEFINE r == [out[l] EXCEPT !.start = Append(@, e.ctx)]
  <2>1. OutAt(l, r, thread) /\ r.writeBuf = out[l].writeBuf
    <3>1. e.ctx \in 1 .. Depth
      BY <1>4, <1>7 DEF Polls
    <3> HIDE DEF e, l
    <3>2. QED
      BY <1>5, <3>1, OutFree
  <2>2. out' = [out EXCEPT ![l] = r] /\ inc' = inc
    BY <1>7 DEF PollSent, Polls
  <2> HIDE DEF l, r, e
  <2>3. DOMAIN out' = Link /\ out'[l] = r /\ \A k \in Link \ {l} : out'[k] = out[k]
    BY <1>2, <1>4, <2>2 DEF Outs
  <2>4. Fuller(out, out') /\ OutAt(l, out'[l], thread')
    BY <1>1, <2>1, <2>3 DEF Fuller
  <2>5. NodeAt(n, node'[n], thread', out')
    BY <1>2, <1>3, <1>6, <2>4, NodeLater
  <2>6. QED
    BY <1>2, <1>6, <2>2, <2>3, <2>4, <2>5, TypedStep DEF Incs
<1>8. CASE Polls(n, "sent reply")
  <2> DEFINE r == [inc[l] EXCEPT !.reply = Append(@, e.ctx)]
  <2>1. IncAt(l, r, thread)
    <3>1. e.ctx \in 1 .. ReplyDepth
      BY <1>4, <1>8 DEF Polls
    <3> HIDE DEF e, l
    <3>2. QED
      BY <1>5, <3>1, IncFree
  <2>2. inc' = [inc EXCEPT ![l] = r] /\ out' = out
    BY <1>8 DEF PollSent, Polls
  <2> HIDE DEF l, r, e
  <2>3. DOMAIN inc' = Link /\ inc'[l] = r /\ \A k \in Link \ {l} : inc'[k] = inc[k]
    BY <1>2, <1>4, <2>2 DEF Incs
  <2>4. Fuller(out, out') /\ IncAt(l, inc'[l], thread')
    BY <1>1, <2>1, <2>2, <2>3 DEF Fuller
  <2>5. NodeAt(n, node'[n], thread', out')
    BY <1>2, <1>3, <1>6, <2>4, NodeLater
  <2>6. QED
    BY <1>2, <1>6, <2>2, <2>3, <2>4, <2>5, TypedStep DEF Outs
<1>9. QED
  BY <1>7, <1>8 DEF PollSent

(* Polling a rendezvous start keeps the types: the block taken for the       *)
(* message is recorded under a free index.                                   *)
LEMMA TypedPollStart ==
  ASSUME PoolAssumption, RdmaAssumption, Typed, \A n \in Proc : PoolSound(node[n].pool),
         NEW n \in Proc, PollStart(n)
  PROVE  Typed'
<1> DEFINE e == Head(node[n].cq)
           l == e.link
           size == BodyOf(e.msg).meta + BodyOf(e.msg).bytes
           i == Head(inc[l].reply)
           idx == Head(node[n].free)
<1>1. UNCHANGED <<thread, bufs, out>> /\ node[n].cq # <<>> /\ Polls(n, "recv start") /\ inc[l].reply # <<>>
  BY DEF PollStart, Polls
<1>2. Later(thread, thread') /\ Threads' /\ Bufs' /\ Nodes /\ Outs /\ Incs /\ Fuller(out, out')
  BY <1>1, LaterSame, BufsSame DEF Typed, Fuller
<1>3. NodeAt(n, Polled(n), thread, out) /\ e \in EventAt(n, thread, out) /\ Polled(n).free = node[n].free
      /\ Polled(n).pool = node[n].pool /\ Polled(n).table = node[n].table
  BY <1>1, PolledAt
<1>4. l \in Link /\ e.msg \in OnLink(l, thread) /\ e.msg \in Msg
  <2>1. e.op = "recv start"
    BY <1>1 DEF Polls
  <2>2. l \in Link /\ e.msg \in OnLink(l, thread)
    BY <1>3, <2>1, EventFacts
  <2>3. QED
    BY <2>2 DEF OnLink, Begun
<1>5. size \in Nat \ {0}
  BY <1>4, MessageSizes
<1> HIDE DEF size
<1>6. IncAt(l, inc[l], thread) /\ i \in 1 .. ReplyDepth /\ Tail(inc[l].reply) \in Seq(1 .. ReplyDepth)
  <2>1. IncAt(l, inc[l], thread)
    BY <1>2, <1>4 DEF Incs
  <2>2. inc[l].reply \in Seq(1 .. ReplyDepth)
    BY <2>1 DEF IncAt
  <2>3. QED
    BY <1>1, <2>1, <2>2, QueueFacts
<1>7. CASE node[n].free = <<>>
  BY <1>1, <1>7, FailTyped DEF PollStart
<1>8. CASE node[n].free # <<>>
  <2>1. PICK a \in Alloc(node[n].pool, size) :
          /\ node' = [node EXCEPT ![n] =
               StoreAddress([Polled(n) EXCEPT !.pool = a.pool], [addr |-> a.addr, msg |-> e.msg])]
          /\ inc' = [inc EXCEPT
               ![l].reply = Tail(@), ![l].rx = @ + 1,
               ![l].replyBuf = Put(@, i, [to |-> a.addr, msg |-> e.msg, idx |-> idx]),
               ![l].sq = Append(@, [op |-> "reply", ctx |-> i])]
    BY <1>8 DEF PollStart, size
  <2>2. a.pool \in Pool /\ a.addr \in Nat
    BY <1>3, <1>5, AllocSound, AllocUsed DEF NodeAt
  <2>3. idx \in 1 .. MaxEntries /\ Tail(node[n].free) \in Seq(1 .. MaxEntries)
    <3>1. node[n].free \in Seq(1 .. MaxEntries)
      BY <1>3 DEF NodeAt
    <3>2. QED
      BY <1>8, <3>1, QueueFacts
  <2> DEFINE c == [addr |-> a.addr, msg |-> e.msg]
             z == Tail(node[n].free)
             T == Put(node[n].table, idx, c)
             r == [Polled(n) EXCEPT !.pool = a.pool, !.free = z, !.table = T]
  <2>4. c \in [addr : Nat, msg : Msg]
    BY <1>4, <2>2
  <2>5. T \in Map(1 .. MaxEntries, [addr : Nat, msg : Msg])
    <3>1. node[n].table \in Map(1 .. MaxEntries, [addr : Nat, msg : Msg])
      BY <1>3 DEF NodeAt
    <3> DEFINE S == 1 .. MaxEntries
               C == [addr : Nat, msg : Msg]
    <3>2. idx \in S /\ c \in C /\ node[n].table \in Map(S, C)
      BY <2>3, <2>4, <3>1
    <3> HIDE DEF c, idx, S, C
    <3>3. T \in Map(S, C)
      BY <3>2, PutDrop
    <3>4. QED
      BY <3>3 DEF S, C
  <2>6. node'[n] = r /\ DOMAIN node' = Proc /\ \A k \in Proc \ {n} : node'[k] = node[k]
    <3>1. StoreAddress([Polled(n) EXCEPT !.pool = a.pool], c) = r
      BY <1>3 DEF StoreAddress, NodeAt
    <3>2. QED
      BY <1>2, <2>1, <3>1 DEF Nodes
  <2>7. NodeAt(n, r, thread, out)
    <3> HIDE DEF c, z, T
    <3>1. z \in Seq(1 .. MaxEntries)
      BY <2>3 DEF z
    <3>2. QED
      BY <1>3, <2>2, <2>5, <3>1 DEF NodeAt
  <2>8. NodeAt(n, node'[n], thread', out')
    BY <1>1, <2>6, <2>7
  <2> DEFINE v == [to |-> a.addr, msg |-> e.msg, idx |-> idx]
             w == [op |-> "reply", ctx |-> i]
             B == Put(inc[l].replyBuf, i, v)
             q == Append(inc[l].sq, w)
             x == inc[l].rx + 1
             y == Tail(inc[l].reply)
             s == [inc[l] EXCEPT !.reply = y, !.rx = x, !.replyBuf = B, !.sq = q]
  <2>9. inc'[l] = s /\ DOMAIN inc' = Link /\ \A k \in Link \ {l} : inc'[k] = inc[k]
    BY <1>2, <1>4, <1>6, <2>1 DEF Incs, IncAt
  <2>10. B \in Map(1 .. ReplyDepth, Replies(l, thread)) /\ DOMAIN B = DOMAIN inc[l].replyBuf \cup {i}
    <3>1. v \in Replies(l, thread)
      BY <1>4, <2>2, <2>3 DEF Replies
    <3>2. inc[l].replyBuf \in Map(1 .. ReplyDepth, Replies(l, thread))
      BY <1>6 DEF IncAt
    <3> HIDE DEF v, i, l
    <3>3. QED
      BY <1>6, <3>1, <3>2, PutDrop, PutFacts
  <2>11. q \in Seq(ReplyAt(s)) /\ x \in Int
    <3>1. s.replyBuf = B
      BY <1>6 DEF IncAt
    <3> HIDE DEF B, s
    <3>2. ReplyAt(inc[l]) \subseteq ReplyAt(s) /\ w \in ReplyAt(s)
      BY <2>10, <3>1 DEF ReplyAt
    <3>3. inc[l].sq \in Seq(ReplyAt(s))
      BY <1>6, <3>2, Wider DEF IncAt
    <3> HIDE DEF w
    <3>4. q \in Seq(ReplyAt(s))
      BY <3>2, <3>3, QueueFacts
    <3>5. x \in Int
      BY <1>6 DEF IncAt
    <3>6. QED
      BY <3>4, <3>5
  <2>12. y \in Seq(1 .. ReplyDepth)
    BY <1>6
  <2>13. IncAt(l, inc'[l], thread')
    <3> HIDE DEF y, x, B, q
    <3>1. IncAt(l, s, thread)
      <4>1. s \in [reply : Seq(1 .. ReplyDepth), replyBuf : Map(1 .. ReplyDepth, Replies(l, thread)),
                   rx : Int, sq : Seq(ReplyAt(s))]
        <5> DEFINE Q == Seq(ReplyAt(s))
        <5>1. q \in Q /\ x \in Int
          BY <2>11
        <5> HIDE DEF Q
        <5>2. s \in [reply : Seq(1 .. ReplyDepth), replyBuf : Map(1 .. ReplyDepth, Replies(l, thread)),
                     rx : Int, sq : Q]
          BY <1>6, <2>10, <2>12, <5>1 DEF IncAt
        <5>3. QED
          BY <5>2 DEF Q
      <4> HIDE DEF s
      <4>2. QED
        BY <4>1 DEF IncAt
    <3> HIDE DEF s
    <3>2. QED
      BY <1>1, <2>9, <3>1
  <2> HIDE DEF l, e, r
  <2>14. QED
    BY <1>1, <1>2, <2>6, <2>8, <2>9, <2>13, TypedStep DEF Outs
<1>9. QED
  BY <1>7, <1>8

(* Polling a rendezvous reply keeps the types: the buffer that waited for    *)
(* it is posted to be written.                                               *)
LEMMA TypedPollReply ==
  ASSUME RdmaAssumption, Typed, NEW n \in Proc, PollReply(n)
  PROVE  Typed'
<1> DEFINE e == Head(node[n].cq)
           l == e.link
           m == e.reply.msg
           i == bufs[m].write
<1>1. UNCHANGED <<thread, bufs, inc>> /\ node[n].cq # <<>> /\ Polls(n, "recv reply")
  BY DEF PollReply, Polls
<1>2. Later(thread, thread') /\ Threads' /\ Bufs' /\ Nodes /\ Outs /\ Incs /\ Bufs
  BY <1>1, LaterSame, BufsSame DEF Typed
<1>3. NodeAt(n, Polled(n), thread, out) /\ e \in EventAt(n, thread, out)
  BY <1>1, PolledAt
<1>4. l \in Link /\ m \in OnLink(l, thread) /\ e.reply.to \in Nat /\ e.reply.idx \in 1 .. MaxEntries
  <2>1. e.op = "recv reply"
    BY <1>1 DEF Polls
  <2>2. QED
    BY <1>3, <2>1, EventFacts
<1>5. OutAt(l, out[l], thread)
  BY <1>2, <1>4 DEF Outs
<1>6. CASE m \notin DOMAIN bufs
  BY <1>1, <1>6, FailTyped DEF PollReply
<1>7. CASE m \in DOMAIN bufs
  <2> DEFINE w == [op |-> "write", ctx |-> i, to |-> e.reply.to, idx |-> e.reply.idx, msg |-> m]
             B == Put(out[l].writeBuf, i, m)
             q == Append(out[l].sq, w)
             x == out[l].rx + 1
             s == [out[l] EXCEPT !.rx = x, !.writeBuf = B, !.sq = q]
  <2>1. i \in 1 .. Depth
    <3>1. BufAt(m, bufs[m], thread)
      BY <1>2, <1>7 DEF Bufs
    <3>2. m[2] < thread[m[1]].next /\ m \in Msg
      BY <1>4 DEF OnLink, Begun
    <3> HIDE DEF m
    <3>3. m[1] \in Thread /\ thread[m[1]].next \in Nat /\ m[2] \in Nat
      <4>1. m[1] \in Thread /\ m[2] \in Nat
        BY <3>2, MsgFacts
      <4>2. Threads
        BY DEF Typed
      <4>3. QED
        BY <4>1, <4>2 DEF Threads, ThreadAt
    <3>4. QED
      BY <3>1, <3>2, <3>3 DEF BufAt
  <2>2. node' = [node EXCEPT ![n] = Polled(n)] /\ out'[l] = s /\ DOMAIN out' = Link
        /\ \A k \in Link \ {l} : out'[k] = out[k]
    BY <1>2, <1>4, <1>5, <1>7 DEF PollReply, Outs, OutAt
  <2>3. B \in Map(1 .. Depth, OnLink(l, thread)) /\ DOMAIN B = DOMAIN out[l].writeBuf \cup {i}
    <3>1. out[l].writeBuf \in Map(1 .. Depth, OnLink(l, thread))
      BY <1>5 DEF OutAt
    <3> HIDE DEF m, l, i
    <3>2. QED
      BY <1>4, <2>1, <3>1, PutDrop, PutFacts
  <2>4. s.startBuf = out[l].startBuf /\ s.writeBuf = B
    BY <1>5 DEF OutAt
  <2> HIDE DEF B, s
  <2>5. OrderAt(l, out[l], thread) \subseteq OrderAt(l, s, thread) /\ w \in OrderAt(l, s, thread)
    <3>1. w \in [op : {"write"}, ctx : DOMAIN s.writeBuf, to : Nat, idx : 1 .. MaxEntries, msg : OnLink(l, thread)]
      BY <1>4, <2>3, <2>4
    <3> HIDE DEF w, l
    <3>2. QED
      BY <2>3, <2>4, <3>1 DEF OrderAt
  <2>6. q \in Seq(OrderAt(l, s, thread)) /\ x \in Int
    <3>0. Seq(OrderAt(l, out[l], thread)) \subseteq Seq(OrderAt(l, s, thread))
      <4> HIDE DEF l
      <4>1. QED
        BY <2>5, Wider
    <3>1. out[l].sq \in Seq(OrderAt(l, s, thread)) /\ x \in Int
      BY <1>5, <3>0 DEF OutAt
    <3> HIDE DEF w, l
    <3>2. QED
      BY <2>5, <3>1, QueueFacts
  <2>7. OutAt(l, s, thread)
    <3> DEFINE Q == Seq(OrderAt(l, s, thread))
    <3> HIDE DEF x, q
    <3>1. q \in Q /\ x \in Int
      BY <2>6
    <3> HIDE DEF Q
    <3>2. s \in [status : Status, rejects : Nat, start : Seq(1 .. Depth), write : Seq(1 .. Depth),
                 startBuf : Map(1 .. Depth, OnLink(l, thread)), writeBuf : Map(1 .. Depth, OnLink(l, thread)),
                 rx : Int, sq : Q]
      BY <1>5, <2>3, <3>1 DEF OutAt, s
    <3>3. QED
      BY <3>2 DEF OutAt, Q
  <2>8. OutAt(l, out'[l], thread') /\ Fuller(out, out')
    BY <1>1, <2>2, <2>3, <2>4, <2>7 DEF Fuller
  <2>9. node'[n] = Polled(n) /\ DOMAIN node' = Proc /\ \A k \in Proc \ {n} : node'[k] = node[k]
    BY <1>2, <2>2 DEF Nodes
  <2>10. NodeAt(n, node'[n], thread', out')
    BY <1>2, <1>3, <2>8, <2>9, NodeLater
  <2> HIDE DEF l, e
  <2>11. QED
    BY <1>1, <1>2, <2>2, <2>8, <2>9, <2>10, TypedStep DEF Incs
<1>8. QED
  BY <1>6, <1>7

(* Polling the completion of a write at the sender keeps the types.          *)
LEMMA TypedPollWrote ==
  ASSUME RdmaAssumption, Typed, \A n \in Proc : PoolSound(node[n].pool),
         NEW n \in Proc, PollWrote(n)
  PROVE  Typed'
<1> DEFINE e == Head(node[n].cq)
           l == e.link
           m == out[l].writeBuf[e.ctx]
           r == [out[l] EXCEPT !.write = Append(@, e.ctx)]
           p == Free(node[n].pool, bufs[m].inline)
           s == [Polled(n) EXCEPT !.pool = p]
<1>1. UNCHANGED <<thread, inc>> /\ node[n].cq # <<>> /\ Polls(n, "wrote")
  BY DEF PollWrote, Polls
<1>2. Later(thread, thread') /\ Threads' /\ Nodes /\ Outs /\ Incs /\ Bufs
  BY <1>1, LaterSame DEF Typed
<1>3. NodeAt(n, Polled(n), thread, out) /\ e \in EventAt(n, thread, out) /\ Polled(n).pool = node[n].pool
  BY <1>1, PolledAt
<1>4. l \in Link /\ e.ctx \in 1 .. Depth
  <2>1. e.op = "wrote"
    BY <1>1 DEF Polls
  <2>2. QED
    BY <1>3, <2>1, EventFacts
<1>5. OutAt(l, out[l], thread)
  BY <1>2, <1>4 DEF Outs
<1>6. CASE m \notin DOMAIN bufs
  BY <1>1, <1>6, FailTyped DEF PollWrote
<1>7. CASE m \in DOMAIN bufs
  <2>1. /\ node' = [node EXCEPT ![n] = [Polled(n) EXCEPT !.pool = Free(@, bufs[m].inline)]]
        /\ bufs' = Drop(bufs, m) /\ out' = [out EXCEPT ![l].write = Append(@, e.ctx)]
    BY <1>7 DEF PollWrote
  <2>2. node'[n] = s /\ DOMAIN node' = Proc /\ \A k \in Proc \ {n} : node'[k] = node[k]
    BY <1>2, <1>3, <2>1 DEF Nodes, NodeAt
  <2>3. out'[l] = r /\ DOMAIN out' = Link /\ \A k \in Link \ {l} : out'[k] = out[k]
    BY <1>2, <1>4, <2>1 DEF Outs
  <2>4. OutAt(l, r, thread) /\ r.writeBuf = out[l].writeBuf
    <3> HIDE DEF e, l
    <3>1. QED
      BY <1>4, <1>5, OutFree
  <2>5. NodeAt(n, s, thread, out)
    <3>1. p \in Pool
      BY <1>3, FreeSound DEF NodeAt
    <3> HIDE DEF p
    <3>2. QED
      BY <1>3, <3>1 DEF NodeAt
  <2>6. Bufs'
    <3>1. DOMAIN bufs' = DOMAIN bufs \ {m} /\ \A k \in DOMAIN bufs' : bufs'[k] = bufs[k]
      <4> HIDE DEF m
      <4>1. QED
        BY <2>1 DEF Drop
    <3>2. QED
      BY <1>1, <1>2, <3>1 DEF Bufs
  <2> HIDE DEF l, e, m, r, s
  <2>7. Fuller(out, out') /\ OutAt(l, out'[l], thread')
    BY <1>1, <2>3, <2>4 DEF Fuller
  <2>8. NodeAt(n, node'[n], thread', out')
    BY <1>2, <2>2, <2>5, <2>7, NodeLater
  <2>9. QED
    BY <1>1, <1>2, <2>2, <2>3, <2>6, <2>7, <2>8, TypedStep DEF Incs
<1>8. QED
  BY <1>6, <1>7

(* Polling a completed write at the receiver keeps the types.                *)
LEMMA TypedPollWritten ==
  ASSUME RdmaAssumption, Typed, NEW n \in Proc, PollWritten(n)
  PROVE  Typed'
<1> DEFINE e == Head(node[n].cq)
           l == e.link
           c == node[n].table[e.idx]
           f == Append(node[n].free, e.idx)
           T == Drop(node[n].table, e.idx)
           v == Append(node[n].recv, [link |-> l, ctx |-> c])
           s == [Polled(n) EXCEPT !.free = f, !.table = T, !.recv = v]
           r == [inc[l] EXCEPT !.rx = @ + 1]
<1>1. UNCHANGED <<thread, bufs, out>> /\ node[n].cq # <<>> /\ Polls(n, "written")
  BY DEF PollWritten, Polls
<1>2. Later(thread, thread') /\ Threads' /\ Nodes /\ Outs /\ Incs /\ Bufs' /\ Fuller(out, out')
  BY <1>1, LaterSame, BufsSame DEF Typed, Fuller
<1>3. NodeAt(n, Polled(n), thread, out) /\ e \in EventAt(n, thread, out)
      /\ Polled(n).free = node[n].free /\ Polled(n).table = node[n].table /\ Polled(n).recv = node[n].recv
  BY <1>1, PolledAt
<1>4. l \in Link /\ e.idx \in 1 .. MaxEntries
  <2>1. e.op = "written"
    BY <1>1 DEF Polls
  <2>2. QED
    BY <1>3, <2>1, EventFacts
<1>5. IncAt(l, inc[l], thread)
  BY <1>2, <1>4 DEF Incs
<1>6. CASE e.idx \notin DOMAIN node[n].table
  BY <1>1, <1>6, FailTyped DEF PollWritten
<1>7. CASE e.idx \in DOMAIN node[n].table
  <2>1. /\ node' = [node EXCEPT ![n] =
             [GetAddressAndRelease(Polled(n), e.idx) EXCEPT !.recv = Append(@, [link |-> l, ctx |-> c])]]
        /\ inc' = [inc EXCEPT ![l].rx = @ + 1]
    BY <1>7 DEF PollWritten
  <2>2. node'[n] = s /\ DOMAIN node' = Proc /\ \A k \in Proc \ {n} : node'[k] = node[k]
    BY <1>2, <1>3, <2>1 DEF Nodes, NodeAt, GetAddressAndRelease
  <2>3. inc'[l] = r /\ DOMAIN inc' = Link /\ \A k \in Link \ {l} : inc'[k] = inc[k]
    BY <1>2, <1>4, <2>1 DEF Incs
  <2>4. IncAt(l, r, thread)
    <3> HIDE DEF l
    <3>1. QED
      BY <1>5, IncFree
  <2>5. c \in [addr : Nat, msg : Msg] /\ T \in Map(1 .. MaxEntries, [addr : Nat, msg : Msg])
    <3> DEFINE S == 1 .. MaxEntries
               C == [addr : Nat, msg : Msg]
               i == e.idx
    <3>1. node[n].table \in Map(S, C)
      BY <1>3 DEF NodeAt
    <3>2. i \in DOMAIN node[n].table
      BY <1>7
    <3> HIDE DEF S, C, i
    <3>3. node[n].table[i] \in C /\ Drop(node[n].table, i) \in Map(S, C)
      BY <3>1, <3>2, PutDrop
    <3>4. QED
      BY <3>3 DEF S, C, i
  <2>6. f \in Seq(1 .. MaxEntries) /\ v \in Seq([link : Link, ctx : [addr : Nat, msg : Msg]])
    <3> DEFINE S == 1 .. MaxEntries
               C == [link : Link, ctx : [addr : Nat, msg : Msg]]
               d == [link |-> l, ctx |-> c]
    <3>1. node[n].free \in Seq(S) /\ node[n].recv \in Seq(C)
      BY <1>3 DEF NodeAt
    <3>2. d \in C /\ e.idx \in S
      BY <1>4, <2>5
    <3> HIDE DEF S, C, d, e
    <3>3. Append(node[n].free, e.idx) \in Seq(S) /\ Append(node[n].recv, d) \in Seq(C)
      BY <3>1, <3>2, QueueFacts
    <3>4. QED
      BY <3>3 DEF S, C, d
  <2> HIDE DEF f, v, T
  <2>7. NodeAt(n, s, thread, out)
    BY <1>3, <2>5, <2>6 DEF NodeAt
  <2> HIDE DEF l, e, r, s
  <2>8. NodeAt(n, node'[n], thread', out') /\ IncAt(l, inc'[l], thread')
    BY <1>1, <2>2, <2>3, <2>4, <2>7
  <2>9. QED
    BY <1>1, <1>2, <2>2, <2>3, <2>8, TypedStep DEF Outs
<1>8. QED
  BY <1>6, <1>7

(* Taking a message out of the receive queue and releasing its block keep    *)
(* the types.                                                                *)
LEMMA TypedReceive ==
  ASSUME RdmaAssumption, Typed, \A n \in Proc : PoolSound(node[n].pool),
         NEW n \in Proc, RecvMsg(n) \/ Release(n)
  PROVE  Typed'
<1>1. UNCHANGED <<thread, bufs, out, inc>>
  BY DEF RecvMsg, Release
<1>2. Later(thread, thread') /\ Threads' /\ Nodes /\ Outs /\ Incs /\ Bufs' /\ Fuller(out, out')
      /\ NodeAt(n, node[n], thread, out)
  BY <1>1, LaterSame, BufsSame DEF Typed, Nodes, Fuller
<1>3. node[n].pool \in Pool /\ \A a : Free(node[n].pool, a) \in Pool
  <2>1. node[n].pool \in Pool
    BY <1>2 DEF NodeAt
  <2>2. QED
    BY <2>1, FreeSound
<1>4. /\ \A a \in Nat, k \in Nat \ {0} : Put(node[n].blocks, a, k) \in Map(Nat, Nat \ {0})
      /\ \A a : Drop(node[n].blocks, a) \in Map(Nat, Nat \ {0})
      /\ \A a : Drop(node[n].mem, a) \in Map(Nat, Msg)
      /\ DOMAIN node[n].blocks \subseteq Nat
      /\ \A a \in DOMAIN node[n].blocks : node[n].blocks[a] \in Nat \ {0}
      /\ node[n].blocks \in Map(Nat, Nat \ {0})
  <2> DEFINE S == Nat \ {0}
  <2>1. node[n].blocks \in Map(Nat, S) /\ node[n].mem \in Map(Nat, Msg)
    BY <1>2 DEF NodeAt
  <2> HIDE DEF S
  <2>2. /\ \A a \in Nat, k \in S : Put(node[n].blocks, a, k) \in Map(Nat, S)
        /\ \A a : Drop(node[n].blocks, a) \in Map(Nat, S)
        /\ \A a : Drop(node[n].mem, a) \in Map(Nat, Msg)
        /\ DOMAIN node[n].blocks \subseteq Nat
        /\ \A a \in DOMAIN node[n].blocks : node[n].blocks[a] \in S
    <3>1. /\ \A a \in Nat, k \in S : Put(node[n].blocks, a, k) \in Map(Nat, S)
          /\ \A a : Drop(node[n].blocks, a) \in Map(Nat, S)
          /\ DOMAIN node[n].blocks \subseteq Nat
          /\ \A a \in DOMAIN node[n].blocks : node[n].blocks[a] \in S
      <4> DEFINE b == node[n].blocks
      <4>1. b \in Map(Nat, S)
        BY <2>1
      <4> HIDE DEF b
      <4>2. /\ \A a \in Nat, k \in S : Put(b, a, k) \in Map(Nat, S)
            /\ \A a : Drop(b, a) \in Map(Nat, S)
        BY <4>1, PutDrop
      <4>3. DOMAIN b \subseteq Nat /\ \A a \in DOMAIN b : b[a] \in S
        BY <4>1, PutDrop
      <4>4. QED
        BY <4>2, <4>3 DEF b
    <3>2. \A a : Drop(node[n].mem, a) \in Map(Nat, Msg)
      BY <2>1, PutDrop
    <3>3. QED
      BY <3>1, <3>2
  <2>3. QED
    BY <2>1, <2>2 DEF S
<1>5. NodeAt(n, node'[n], thread, out) /\ DOMAIN node' = Proc /\ \A k \in Proc \ {n} : node'[k] = node[k]
  <2>1. CASE RecvMsg(n)
    <3> DEFINE R == Head(node[n].recv)
               a == R.ctx.addr
               arrays == BodyOf(R.ctx.msg).arrays
               q == Tail(node[n].recv)
               M == Drop(node[n].mem, a)
               B == IF arrays > 0 THEN Put(node[n].blocks, a, arrays) ELSE node[n].blocks
               p == IF arrays > 0 THEN node[n].pool ELSE Free(node[n].pool, a)
               s == [node[n] EXCEPT !.recv = q, !.mem = M, !.blocks = B, !.pool = p]
    <3>1. node'[n] = s /\ DOMAIN node' = Proc /\ \A k \in Proc \ {n} : node'[k] = node[k]
      BY <1>2, <2>1 DEF RecvMsg, Nodes, NodeAt
    <3>2. /\ R \in [link : Link, ctx : [addr : Nat, msg : Msg]]
          /\ q \in Seq([link : Link, ctx : [addr : Nat, msg : Msg]])
      <4> DEFINE C == [link : Link, ctx : [addr : Nat, msg : Msg]]
      <4>1. node[n].recv \in Seq(C) /\ node[n].recv # <<>>
        BY <1>2, <2>1 DEF NodeAt, RecvMsg
      <4> HIDE DEF C
      <4>2. R \in C /\ q \in Seq(C)
        BY <4>1, QueueFacts
      <4>3. QED
        BY <4>2 DEF C
    <3> HIDE DEF R, q
    <3>3. a \in Nat /\ arrays \in Nat
      BY <3>2, MsgFacts DEF Body
    <3> HIDE DEF a, arrays
    <3>4. B \in Map(Nat, Nat \ {0}) /\ M \in Map(Nat, Msg) /\ p \in Pool
      BY <1>3, <1>4, <3>3
    <3> HIDE DEF B, M, p
    <3>5. NodeAt(n, s, thread, out)
      BY <1>2, <3>2, <3>4 DEF NodeAt
    <3>6. QED
      BY <3>1, <3>5
  <2>2. CASE Release(n)
    <3>1. PICK a \in DOMAIN node[n].blocks :
            node' = [node EXCEPT
              ![n].blocks = IF @[a] = 1 THEN Drop(@, a) ELSE Put(@, a, @[a] - 1),
              ![n].pool = IF node[n].blocks[a] = 1 THEN Free(@, a) ELSE @]
      BY <2>2 DEF Release
    <3> DEFINE B == IF node[n].blocks[a] = 1 THEN Drop(node[n].blocks, a)
                    ELSE Put(node[n].blocks, a, node[n].blocks[a] - 1)
               p == IF node[n].blocks[a] = 1 THEN Free(node[n].pool, a) ELSE node[n].pool
               s == [node[n] EXCEPT !.blocks = B, !.pool = p]
    <3>2. node'[n] = s /\ DOMAIN node' = Proc /\ \A k \in Proc \ {n} : node'[k] = node[k]
      BY <1>2, <3>1 DEF Nodes, NodeAt
    <3>3. p \in Pool
      BY <1>3
    <3>4. B \in Map(Nat, Nat \ {0})
      BY <1>4
    <3> HIDE DEF B, p
    <3>5. NodeAt(n, s, thread, out)
      BY <1>2, <3>3, <3>4 DEF NodeAt
    <3>6. QED
      BY <3>2, <3>5
  <2>3. QED
    BY <2>1, <2>2
<1>6. NodeAt(n, node'[n], thread', out')
  BY <1>1, <1>5
<1>7. QED
  BY <1>1, <1>2, <1>5, <1>6, TypedStep DEF Outs, Incs

(* All steps together.                                                       *)
LEMMA TypedNext ==
  ASSUME PoolAssumption, RdmaAssumption, Typed, \A n \in Proc : PoolSound(node[n].pool), Next
  PROVE  Typed'
<1>1. CASE \E n \in Proc : Bind(n)
  BY <1>1, TypedConnections
<1>2. ASSUME NEW n \in Proc, PollCQ(n) PROVE Typed'
  <2>1. CASE PollError(n)
    BY <2>1, FailTyped DEF PollError
  <2>2. QED
    BY <1>2, <2>1, TypedPollSent, TypedPollStart, TypedPollReply, TypedPollWrote, TypedPollWritten DEF PollCQ
<1>3. CASE \E n \in Proc : RecvMsg(n) \/ Release(n)
  BY <1>3, TypedReceive
<1>4. CASE \E l \in Link : Connect(l) \/ PollEvents(l)
  BY <1>4, TypedConnections
<1>5. CASE \E l \in Link : Carry(l)
  BY <1>5, TypedCarry
<1>6. CASE \E t \in Thread : Send(t)
  BY <1>6, TypedSend
<1>7. QED
  BY <1>1, <1>2, <1>3, <1>4, <1>5, <1>6 DEF Next

----------------------------------------------------------------------------
(* The blocks of a pool and their owners.                                    *)

(* The owners of a process's blocks, by kind, as in Owners.                  *)
SendOwners(n, b) == {<<"send", m, b[m].inline>> : m \in {x \in DOMAIN b : LinkOf(x).src = n}}
TableOwners(T) == {<<"table", i, T[i].addr>> : i \in DOMAIN T}
RecvOwners(q) == {<<"recv", i, q[i].ctx.addr>> : i \in DOMAIN q}
BlockOwners(B) == {<<"block", None, a>> : a \in DOMAIN B}
OwnersOf(n, r, b) == SendOwners(n, b) \cup TableOwners(r.table) \cup RecvOwners(r.recv) \cup BlockOwners(r.blocks)

(* Each owner's block is in use, each block in use has an owner and only one.*)
OneOwner(O, U) ==
  /\ \A o \in O : \E u \in U : u.addr = o[3]
  /\ \A u \in U : \E o \in O : o[3] = u.addr
  /\ \A o1, o2 \in O : o1[3] = o2[3] => o1 = o2

(* The indices of an AddressPool are in the queue, once, or in the table.    *)
IndicesAt(r) ==
  /\ \A i, j \in DOMAIN r.free : r.free[i] = r.free[j] => i = j
  /\ \A i \in DOMAIN r.free : r.free[i] \notin DOMAIN r.table

KeptAt(n, r, b) ==
  /\ PoolSound(r.pool) /\ IsFiniteSet(r.pool.used)
  /\ IndicesAt(r)
  /\ OneOwner(OwnersOf(n, r, b), r.pool.used)
Kept == \A n \in Proc : KeptAt(n, node[n], bufs)

(* How one step of an owner changes the blocks in use.                       *)
LEMMA OwnerAdded ==
  ASSUME NEW O, NEW U, OneOwner(O, U), NEW o, NEW u, u.addr = o[3], \A v \in U : v.addr # u.addr
  PROVE  OneOwner(O \cup {o}, U \cup {u})
BY DEF OneOwner

(* An owner that frees its block leaves the others with theirs.              *)
LEMMA OwnerGone ==
  ASSUME NEW O, NEW U, OneOwner(O, U), NEW o \in O, NEW V, V = {u \in U : u.addr # o[3]}
  PROVE  OneOwner(O \ {o}, V)
BY DEF OneOwner

(* An owner that hands its block to another leaves one owner.                *)
LEMMA OwnerPassed ==
  ASSUME NEW O, NEW U, OneOwner(O, U), NEW o \in O, NEW p, p[3] = o[3]
  PROVE  OneOwner((O \ {o}) \cup {p}, U)
BY DEF OneOwner

(* Owners renamed one to one keep their blocks.                              *)
LEMMA OwnersRenamed ==
  ASSUME NEW O, NEW U, OneOwner(O, U), NEW P, NEW g \in [P -> O],
         \A p \in P : g[p][3] = p[3],
         \A p, q \in P : g[p] = g[q] => p = q,
         \A o \in O : \E p \in P : g[p] = o
  PROVE  OneOwner(P, U)
<1>1. \A p \in P : \E u \in U : u.addr = p[3]
  BY DEF OneOwner
<1>2. ASSUME NEW u \in U PROVE \E p \in P : p[3] = u.addr
  <2>1. PICK o \in O : o[3] = u.addr
    BY DEF OneOwner
  <2>2. PICK p \in P : g[p] = o
    OBVIOUS
  <2>3. QED
    BY <2>1, <2>2
<1>3. \A p, q \in P : p[3] = q[3] => p = q
  BY DEF OneOwner
<1>4. QED
  BY <1>1, <1>2, <1>3 DEF OneOwner

(* How the sets of owners change.                                            *)
LEMMA SendOwnersPut ==
  ASSUME NEW n, NEW b, NEW m, m \notin DOMAIN b, NEW v
  PROVE  SendOwners(n, Put(b, m, v)) =
           IF LinkOf(m).src = n THEN SendOwners(n, b) \cup {<<"send", m, v.inline>>} ELSE SendOwners(n, b)
<1>1. /\ DOMAIN Put(b, m, v) = DOMAIN b \cup {m} /\ Put(b, m, v)[m] = v
      /\ \A k \in DOMAIN b : Put(b, m, v)[k] = b[k]
  BY DEF Put
<1>2. QED
  BY <1>1 DEF SendOwners

(* A buffer that is dropped is the only owner lost.                          *)
LEMMA SendOwnersDrop ==
  ASSUME NEW n, NEW b, NEW m \in DOMAIN b
  PROVE  SendOwners(n, Drop(b, m)) = SendOwners(n, b) \ {<<"send", m, b[m].inline>>}
<1>1. DOMAIN Drop(b, m) = DOMAIN b \ {m} /\ \A k \in DOMAIN b \ {m} : Drop(b, m)[k] = b[k]
  BY DEF Drop
<1>2. QED
  BY <1>1 DEF SendOwners

(* A table entry added or dropped is the only owner that changes.            *)
LEMMA TableOwnersChange ==
  ASSUME NEW T, NEW i, NEW c
  PROVE  /\ i \notin DOMAIN T => TableOwners(Put(T, i, c)) = TableOwners(T) \cup {<<"table", i, c.addr>>}
         /\ i \in DOMAIN T => TableOwners(Drop(T, i)) = TableOwners(T) \ {<<"table", i, T[i].addr>>}
<1>1. /\ DOMAIN Put(T, i, c) = DOMAIN T \cup {i} /\ Put(T, i, c)[i] = c
      /\ \A k \in DOMAIN T \ {i} : Put(T, i, c)[k] = T[k]
  BY DEF Put
<1>2. DOMAIN Drop(T, i) = DOMAIN T \ {i} /\ \A k \in DOMAIN T \ {i} : Drop(T, i)[k] = T[k]
  BY DEF Drop
<1>3. i \notin DOMAIN T => TableOwners(Put(T, i, c)) = TableOwners(T) \cup {<<"table", i, c.addr>>}
  BY <1>1 DEF TableOwners
<1>4. i \in DOMAIN T => TableOwners(Drop(T, i)) = TableOwners(T) \ {<<"table", i, T[i].addr>>}
  BY <1>2 DEF TableOwners
<1>5. QED
  BY <1>3, <1>4

(* An entry put into the receive queue is the only owner added.              *)
LEMMA RecvOwnersAppend ==
  ASSUME NEW S, NEW q \in Seq(S), NEW e
  PROVE  RecvOwners(Append(q, e)) = RecvOwners(q) \cup {<<"recv", Len(q) + 1, e.ctx.addr>>}
<1>1. DOMAIN Append(q, e) = DOMAIN q \cup {Len(q) + 1} /\ Append(q, e)[Len(q) + 1] = e
      /\ \A k \in DOMAIN q : Append(q, e)[k] = q[k]
  OBVIOUS
<1> DEFINE Q == Append(q, e)
           k == Len(q) + 1
<1> HIDE DEF Q, k
<1>2. DOMAIN Q = DOMAIN q \cup {k} /\ Q[k] = e /\ \A j \in DOMAIN q : Q[j] = q[j]
  BY <1>1 DEF Q, k
<1>3. k \notin DOMAIN q
  BY DEF k
<1>4. RecvOwners(Q) = RecvOwners(q) \cup {<<"recv", k, e.ctx.addr>>}
  BY <1>2, <1>3 DEF RecvOwners
<1>5. QED
  BY <1>4 DEF Q, k

(* A block given to the application, or back from it, is the only owner      *)
(* that changes.                                                             *)
LEMMA BlockOwnersChange ==
  ASSUME NEW B, NEW a, NEW v
  PROVE  /\ BlockOwners(Put(B, a, v)) = BlockOwners(B) \cup {<<"block", None, a>>}
         /\ BlockOwners(Drop(B, a)) = BlockOwners(B) \ {<<"block", None, a>>}
BY DEF BlockOwners, Put, Drop

(* The blocks in use after Free.                                             *)
LEMMA FreeUsed ==
  ASSUME NEW p \in Pool, NEW a
  PROVE  Free(p, a).used = {u \in p.used : u.addr # a}
BY DEF Free, Pool

(* A record that a step has changed only elsewhere.                          *)
Same(r1, r2) ==
  /\ r2.pool = r1.pool /\ r2.free = r1.free /\ r2.table = r1.table
  /\ r2.recv = r1.recv /\ r2.blocks = r1.blocks

(* A process whose pool, table, receive queue and blocks do not change, nor  *)
(* the buffers it sends from, keeps one owner for each block.                *)
LEMMA SameKept ==
  ASSUME NEW n, NEW r1, NEW r2, NEW b1, NEW b2, KeptAt(n, r1, b1), Same(r1, r2),
         SendOwners(n, b2) = SendOwners(n, b1)
  PROVE  KeptAt(n, r2, b2)
<1>1. OwnersOf(n, r2, b2) = OwnersOf(n, r1, b1)
  BY DEF Same, OwnersOf
<1>2. IndicesAt(r2)
  BY DEF KeptAt, Same, IndicesAt
<1>3. QED
  BY <1>1, <1>2 DEF KeptAt, Same

(* A step keeps Kept when it does so for each process it changes.            *)
LEMMA KeptStep ==
  ASSUME Kept,
         \A n \in Proc : \/ KeptAt(n, node'[n], bufs')
                         \/ Same(node[n], node'[n]) /\ SendOwners(n, bufs') = SendOwners(n, bufs)
  PROVE  Kept'
<1>1. ASSUME NEW n \in Proc, Same(node[n], node'[n]), SendOwners(n, bufs') = SendOwners(n, bufs)
      PROVE  KeptAt(n, node'[n], bufs')
  BY <1>1, SameKept DEF Kept
<1>2. QED
  BY <1>1 DEF Kept

(* The initial states are Kept: no block is in use.                          *)
LEMMA KeptInit == ASSUME PoolAssumption, RdmaAssumption, Init PROVE Kept
<1> SUFFICES ASSUME NEW n \in Proc PROVE KeptAt(n, node[n], bufs)
  BY DEF Kept
<1>1. node[n] = InitContext /\ bufs = <<>>
  BY DEF Init
<1>2. PoolSound(NewPool) /\ NewPool.used = {}
  BY NewPoolSound DEF NewPool
<1>3. IsFiniteSet({})
  BY FS_EmptySet
<1>4. IndicesAt(InitContext)
  <2>1. MaxEntries \in Nat
    BY DEF RdmaAssumption
  <2>2. \A i \in 1 .. MaxEntries : AddressPool[i] = i
    BY DEF AddressPool, Contexts
  <2>3. DOMAIN AddressPool = 1 .. MaxEntries
    BY DEF AddressPool, Contexts
  <2>4. QED
    BY <2>2, <2>3 DEF IndicesAt, InitContext
<1>5. OwnersOf(n, InitContext, <<>>) = {}
  BY DEF OwnersOf, SendOwners, TableOwners, RecvOwners, BlockOwners, InitContext
<1>6. InitContext.pool = NewPool
  BY DEF InitContext
<1>7. OneOwner({}, {})
  BY DEF OneOwner
<1>8. KeptAt(n, InitContext, <<>>)
  BY <1>2, <1>3, <1>4, <1>5, <1>6, <1>7 DEF KeptAt
<1>9. QED
  BY <1>1, <1>8

(* Steps that only add completions, take them away or end a process.         *)
LEMMA KeptSame ==
  ASSUME RdmaAssumption, Typed, Kept,
         \/ \E n \in Proc : Bind(n) \/ PollSent(n) \/ PollError(n) \/ PollReply(n)
         \/ \E l \in Link : Connect(l) \/ PollEvents(l) \/ Carry(l)
         \/ \E t \in Thread : TakeWriteContext(t)
  PROVE  Kept'
<1>1. UNCHANGED bufs
  BY DEF Bind, PollSent, PollError, PollReply, Connect, PollEvents, OnRouteResolved, OnRejected,
         OnConnectRequest, OnConnected, Carry, CarryStart, CarryWrite, CarryReply, TakeWriteContext
<1>2. Nodes /\ \A n \in Proc : NodeAt(n, node[n], thread, out)
  BY DEF Typed, Nodes
<1>3. \A n \in Proc : {"listening", "cq", "mem", "mr", "ended", "pool", "free", "table", "recv", "blocks"} = DOMAIN node[n]
  BY <1>2 DEF NodeAt
<1>4. \A n \in Proc : Same(node[n], node'[n])
  <2>1. ASSUME NEW n \in Proc, Bind(n) \/ PollSent(n) \/ PollError(n) \/ PollReply(n)
        PROVE  \A k \in Proc : Same(node[k], node'[k])
    <3>1. \/ node' = [node EXCEPT ![n].listening = TRUE]
          \/ node' = [node EXCEPT ![n] = Polled(n)]
          \/ \E why : node' = [node EXCEPT ![n].ended = why]
      BY <2>1 DEF Bind, PollSent, PollError, PollReply, Fail
    <3>2. Same(node[n], Polled(n))
      BY <1>3 DEF Same, Polled
    <3>3. QED
      BY <1>2, <1>3, <3>1, <3>2 DEF Same, Nodes
  <2>2. ASSUME NEW l \in Link, Carry(l) PROVE \A k \in Proc : Same(node[k], node'[k])
    <3>1. ASSUME NEW f, NEW n1, NEW e1, NEW n2, NEW e2, \A k \in Proc : Same(node[k], f[k]) /\ "cq" \in DOMAIN f[k],
                 node' = CompleteBoth(f, n1, e1, n2, e2)
          PROVE  \A k \in Proc : Same(node[k], node'[k])
      <4>1. \A r, e : Same(r, Complete(r, e))
        BY DEF Same, Complete
      <4>2. \A r1, r2, r3 : Same(r1, r2) /\ Same(r2, r3) => Same(r1, r3)
        BY DEF Same
      <4> DEFINE R(n) == IF n = n1 THEN Complete(f[n], e1) ELSE f[n]
      <4>3. \A k \in Proc : Same(node[k], R(k))
        BY <3>1, <4>1, <4>2
      <4>4. \A k \in Proc : node'[k] = IF k = n2 THEN Complete(R(k), e2) ELSE R(k)
        BY <3>1 DEF CompleteBoth
      <4> HIDE DEF R
      <4>5. QED
        BY <4>1, <4>2, <4>3, <4>4
    <3>2. \A k \in Proc : Same(node[k], node[k]) /\ "cq" \in DOMAIN node[k]
      BY <1>3 DEF Same
    <3>3. CASE CarryStart(l)
      BY <3>1, <3>2, <3>3 DEF CarryStart
    <3>4. CASE CarryWrite(l)
      <4> DEFINE w == Head(out[l].sq)
                 f == [node EXCEPT ![l.dst].mem = Put(@, w.to, w.msg)]
      <4>1. \A k \in Proc : Same(node[k], f[k]) /\ "cq" \in DOMAIN f[k]
        BY <1>2, <1>3, <3>2 DEF Same, Nodes
      <4> DEFINE e1 == [op |-> "written", link |-> l, idx |-> w.idx]
                 e2 == [op |-> "wrote", link |-> l, ctx |-> w.ctx]
      <4>2. CASE Registered(w.msg)
        <5>1. node' = CompleteBoth(f, l.dst, e1, l.src, e2)
          BY <3>4, <4>2 DEF CarryWrite
        <5> HIDE DEF e1, e2, f
        <5>2. QED
          BY <3>1, <4>1, <5>1
      <4>3. CASE ~ Registered(w.msg)
        <5>1. node' = [node EXCEPT ![l.src] = Complete(node[l.src], [op |-> "error", link |-> l])]
          BY <3>4, <4>3 DEF CarryWrite
        <5>2. \A r, e : Same(r, Complete(r, e))
          BY DEF Same, Complete
        <5>3. QED
          BY <1>2, <3>2, <5>1, <5>2 DEF Nodes
      <4>4. QED
        BY <4>2, <4>3
    <3>5. CASE CarryReply(l)
      BY <3>1, <3>2, <3>5 DEF CarryReply
    <3>6. QED
      BY <2>2, <3>3, <3>4, <3>5 DEF Carry
  <2>3. CASE UNCHANGED node
    BY <2>3 DEF Same
  <2>4. QED
    BY <2>1, <2>2, <2>3 DEF Connect, PollEvents, OnRouteResolved, OnRejected,
         OnConnectRequest, OnConnected, TakeWriteContext
<1>5. QED
  BY <1>1, <1>4, KeptStep

(* A thread that takes a block for a message, or stops doing so, keeps one   *)
(* owner for each block.                                                     *)
LEMMA KeptSend ==
  ASSUME PoolAssumption, RdmaAssumption, Typed, Kept, NEW t \in Thread, Prepare(t) \/ PostStart(t)
  PROVE  Kept'
<1> DEFINE l == Via[t]
           m == <<t, thread[t].next>>
           b == BodyOf(m)
<1>1. l \in Link /\ l.src \in Proc /\ Outbox[t] \in Seq(Body)
  BY DEF RdmaAssumption
<1>2. Nodes /\ Threads /\ Bufs /\ ThreadAt(t, thread[t]) /\ NodeAt(l.src, node[l.src], thread, out)
  BY <1>1 DEF Typed, Threads, Nodes
<1>3. thread[t].next \in Nat \ {0} /\ m[1] = t /\ m[2] = thread[t].next /\ LinkOf(m) = l
  BY <1>2 DEF ThreadAt, LinkOf
<1>4. CASE Prepare(t)
  <2>1. m \in Msg /\ thread[t].pc = "idle"
    <3>1. thread[t].pc = "idle" /\ thread[t].next <= Len(Outbox[t])
      BY <1>4 DEF Prepare
    <3>2. thread[t].next \in 1 .. Len(Outbox[t])
      BY <1>1, <1>3, <3>1
    <3>3. QED
      BY <3>1, <3>2 DEF Msg
  <2>2. InlineLen(b) \in Nat \ {0}
    BY <2>1, MessageSizes
  <2>3. PICK a \in Alloc(node[l.src].pool, InlineLen(b)), v \in {[inline |-> x, write |-> None] : x \in Nat} :
          /\ v.inline = a.addr
          /\ \E x : node' = [node EXCEPT ![l.src].pool = a.pool, ![l.src].mr = x]
          /\ bufs' = Put(bufs, m, v)
    <3>1. PICK a \in Alloc(node[l.src].pool, InlineLen(b)) :
          /\ \E x : node' = [node EXCEPT ![l.src].pool = a.pool, ![l.src].mr = x]
          /\ bufs' = Put(bufs, m, [inline |-> a.addr, write |-> None])
      BY <1>2, <1>4 DEF Prepare, NodeAt
    <3>2. a.addr \in Nat
      BY <1>1, <1>2, <2>2, AllocUsed DEF NodeAt, Kept, KeptAt
    <3>3. [inline |-> a.addr, write |-> None] \in {[inline |-> x, write |-> None] : x \in Nat}
      BY <3>2
    <3>4. QED
      BY <3>1, <3>3
  <2>4. m \notin DOMAIN bufs
    <3>1. m \in DOMAIN bufs => BufAt(m, bufs[m], thread)
      BY <1>2 DEF Bufs
    <3>2. m[1] = t /\ m[2] = thread[t].next /\ thread[t].next \in Nat
      BY <1>3
    <3>3. ~ BufAt(m, bufs[m], thread)
      BY <2>1, <3>2 DEF BufAt
    <3>4. QED
      BY <3>1, <3>3
  <2> DEFINE s == node[l.src]
  <2>5. KeptAt(l.src, s, bufs) /\ s.pool \in Pool
    BY <1>1, <1>2 DEF Kept, NodeAt
  <2>6. a.pool \in Pool /\ PoolSound(a.pool) /\ ~ IsUsed(s.pool, a.addr)
    BY <2>2, <2>5, AllocSound, AllocUsed DEF KeptAt
  <2>7. PICK u : u.addr = a.addr /\ a.pool.used = s.pool.used \cup {u}
    <3>1. \E k \in Nat : a.pool.used = s.pool.used \cup {[addr |-> a.addr, size |-> k]}
      BY <2>2, <2>5, AllocUsed DEF KeptAt
    <3>2. QED
      BY <3>1
  <2>8. IsFiniteSet(a.pool.used)
    <3> DEFINE U == s.pool.used
    <3>1. IsFiniteSet(U) /\ a.pool.used = U \cup {u}
      BY <2>5, <2>7 DEF KeptAt
    <3> HIDE DEF U
    <3>2. IsFiniteSet(U \cup {u})
      BY <3>1, FS_AddElement
    <3>3. QED
      BY <3>1, <3>2
  <2> DEFINE r == node'[l.src]
  <2>9. /\ r.pool = a.pool /\ r.free = s.free /\ r.table = s.table /\ r.recv = s.recv /\ r.blocks = s.blocks
        /\ \A k \in Proc \ {l.src} : node'[k] = node[k]
    BY <1>1, <1>2, <2>3 DEF Nodes, NodeAt
  <2> DEFINE o == <<"send", m, v.inline>>
             O == OwnersOf(l.src, s, bufs)
  <2>10. SendOwners(l.src, bufs') = SendOwners(l.src, bufs) \cup {o}
         /\ \A k \in Proc \ {l.src} : SendOwners(k, bufs') = SendOwners(k, bufs)
    <3>1. LinkOf(m).src = l.src /\ bufs' = Put(bufs, m, v) /\ m \notin DOMAIN bufs
      BY <1>3, <2>3, <2>4
    <3> HIDE DEF m, l
    <3>2. ASSUME NEW k
          PROVE  SendOwners(k, Put(bufs, m, v)) =
            IF LinkOf(m).src = k THEN SendOwners(k, bufs) \cup {<<"send", m, v.inline>>} ELSE SendOwners(k, bufs)
      <4>1. m \notin DOMAIN bufs
        BY <3>1
      <4>2. QED
        BY <4>1, SendOwnersPut, Zenon
    <3>3. QED
      BY <3>1, <3>2
  <2>11. OwnersOf(l.src, r, bufs') = O \cup {o}
    BY <2>9, <2>10 DEF OwnersOf
  <2>12. OneOwner(O \cup {o}, a.pool.used)
    <3>1. OneOwner(O, s.pool.used) /\ o[3] = u.addr /\ \A w \in s.pool.used : w.addr # u.addr
      BY <2>3, <2>5, <2>6, <2>7 DEF KeptAt, IsUsed
    <3> DEFINE U == s.pool.used
    <3>2. u.addr = o[3] /\ OneOwner(O, U) /\ \A w \in U : w.addr # u.addr
      BY <3>1
    <3>3. a.pool.used = U \cup {u}
      BY <2>7
    <3> HIDE DEF O, o, U
    <3>4. OneOwner(O \cup {o}, U \cup {u})
      BY <3>2, OwnerAdded
    <3>5. QED
      BY <3>3, <3>4
  <2>13. KeptAt(l.src, r, bufs')
    <3>1. IndicesAt(r)
      BY <2>5, <2>9 DEF KeptAt, IndicesAt
    <3>2. QED
      BY <2>6, <2>8, <2>9, <2>11, <2>12, <3>1 DEF KeptAt
  <2>14. \A k \in Proc \ {l.src} : Same(node[k], node'[k])
    BY <2>9 DEF Same
  <2>15. QED
    BY <2>10, <2>13, <2>14, KeptStep
<1>5. CASE PostStart(t)
  <2>1. bufs' = [bufs EXCEPT ![m].write = thread[t].write] /\ UNCHANGED node
    BY <1>5 DEF PostStart
  <2>2. DOMAIN bufs' = DOMAIN bufs /\ \A k \in DOMAIN bufs : bufs'[k].inline = bufs[k].inline
    <3> HIDE DEF m
    <3>1. \A k \in DOMAIN bufs : bufs[k] \in [inline : Nat, write : {None} \cup 1 .. Depth]
      BY <1>2 DEF Bufs, BufAt
    <3>2. QED
      BY <2>1, <3>1
  <2>3. \A n \in Proc : SendOwners(n, bufs') = SendOwners(n, bufs)
    BY <2>2 DEF SendOwners
  <2>4. QED
    BY <2>1, <2>3, KeptStep DEF Same
<1>6. QED
  BY <1>4, <1>5

(* A process's part after a step, by what it does to the owners.             *)
LEMMA KeptNew ==
  ASSUME NEW n, NEW r1, NEW b1, KeptAt(n, r1, b1), NEW r2, NEW b2, NEW o, NEW u, u.addr = o[3],
         \A v \in r1.pool.used : v.addr # u.addr,
         PoolSound(r2.pool), r2.pool.used = r1.pool.used \cup {u}, IndicesAt(r2),
         OwnersOf(n, r2, b2) = OwnersOf(n, r1, b1) \cup {o}
  PROVE  KeptAt(n, r2, b2)
<1> DEFINE U == r1.pool.used
           O == OwnersOf(n, r1, b1)
<1>1. OneOwner(O, U) /\ IsFiniteSet(U)
  BY DEF KeptAt
<1>2. IsFiniteSet(U \cup {u})
  <2> HIDE DEF U
  <2>1. QED
    BY <1>1, FS_AddElement
<1>3. OneOwner(O \cup {o}, U \cup {u})
  <2>1. \A v \in U : v.addr # u.addr
    OBVIOUS
  <2> HIDE DEF U, O
  <2>2. QED
    BY <1>1, <2>1, OwnerAdded
<1>4. QED
  BY <1>2, <1>3 DEF KeptAt

(* A process that frees the block of an owner, which is then gone, is Kept.  *)
LEMMA KeptFreed ==
  ASSUME NEW n, NEW r1, NEW b1, KeptAt(n, r1, b1), NEW r2, NEW b2, NEW o \in OwnersOf(n, r1, b1),
         r1.pool \in Pool, r2.pool = Free(r1.pool, o[3]), IndicesAt(r2),
         OwnersOf(n, r2, b2) = OwnersOf(n, r1, b1) \ {o}
  PROVE  KeptAt(n, r2, b2)
<1> DEFINE U == r1.pool.used
           O == OwnersOf(n, r1, b1)
           V == {u \in U : u.addr # o[3]}
<1>1. OneOwner(O, U) /\ IsFiniteSet(U) /\ PoolSound(r1.pool)
  BY DEF KeptAt
<1>2. PoolSound(r2.pool) /\ r2.pool.used = V
  BY <1>1, FreeSound, FreeUsed
<1>3. IsFiniteSet(V)
  <2> HIDE DEF U
  <2>1. QED
    BY <1>1, FS_Subset
<1>4. OneOwner(O \ {o}, V)
  <2> HIDE DEF U, O
  <2>1. QED
    BY <1>1, OwnerGone DEF O
<1>5. QED
  BY <1>2, <1>3, <1>4 DEF KeptAt

(* A process that passes a block from an owner to a new one is Kept.         *)
LEMMA KeptPassed ==
  ASSUME NEW n, NEW r1, NEW b1, KeptAt(n, r1, b1), NEW r2, NEW b2, NEW o \in OwnersOf(n, r1, b1), NEW p,
         p[3] = o[3], r2.pool = r1.pool, IndicesAt(r2),
         OwnersOf(n, r2, b2) = (OwnersOf(n, r1, b1) \ {o}) \cup {p}
  PROVE  KeptAt(n, r2, b2)
<1> DEFINE U == r1.pool.used
           O == OwnersOf(n, r1, b1)
<1>1. OneOwner(O, U) /\ IsFiniteSet(U) /\ PoolSound(r1.pool)
  BY DEF KeptAt
<1>2. OneOwner((O \ {o}) \cup {p}, U)
  <2> HIDE DEF U, O
  <2>1. QED
    BY <1>1, OwnerPassed DEF O
<1>3. QED
  BY <1>1, <1>2 DEF KeptAt

(* A step of one process that leaves the message buffers of the others.      *)
LEMMA KeptOne ==
  ASSUME Kept, NEW n \in Proc, \A k \in Proc \ {n} : node'[k] = node[k],
         \A k \in Proc \ {n} : SendOwners(k, bufs') = SendOwners(k, bufs),
         KeptAt(n, node'[n], bufs')
  PROVE  Kept'
BY KeptStep DEF Same

(* The block taken for a rendezvous start has the new table entry as its     *)
(* owner.                                                                    *)
LEMMA KeptPollStart ==
  ASSUME PoolAssumption, RdmaAssumption, Typed, Kept, NEW n \in Proc, PollStart(n)
  PROVE  Kept'
<1> DEFINE e == Head(node[n].cq)
           l == e.link
           size == BodyOf(e.msg).meta + BodyOf(e.msg).bytes
           idx == Head(node[n].free)
           s == node[n]
<1>1. UNCHANGED bufs /\ node[n].cq # <<>> /\ Polls(n, "recv start") /\ Nodes
  BY DEF PollStart, Polls, Typed
<1>2. NodeAt(n, Polled(n), thread, out) /\ e \in EventAt(n, thread, out) /\ Same(s, Polled(n))
  BY <1>1, PolledAt DEF Same
<1>3. e.msg \in Msg
  <2>1. e.op = "recv start"
    BY <1>1 DEF Polls
  <2>2. e.msg \in OnLink(l, thread)
    BY <1>2, <2>1, EventFacts
  <2>3. QED
    BY <2>2 DEF OnLink, Begun
<1>4. size \in Nat \ {0}
  BY <1>3, MessageSizes
<1> HIDE DEF size
<1>5. CASE s.free = <<>>
  <2>1. Same(s, node'[n]) /\ \A k \in Proc \ {n} : node'[k] = node[k]
    <3>1. node' = [node EXCEPT ![n].ended = "table_[idx]"]
      BY <1>5 DEF PollStart, Fail
    <3>2. QED
      BY <1>1, <3>1 DEF Same, Nodes, NodeAt
  <2>2. QED
    BY <1>1, <2>1, KeptStep DEF Same
<1>6. CASE s.free # <<>>
  <2>1. PICK a \in Alloc(s.pool, size) : \E c : c.addr = a.addr /\
          node' = [node EXCEPT ![n] = StoreAddress([Polled(n) EXCEPT !.pool = a.pool], c)]
    <3>1. PICK a \in Alloc(s.pool, size) :
            node' = [node EXCEPT ![n] = StoreAddress([Polled(n) EXCEPT !.pool = a.pool], [addr |-> a.addr, msg |-> e.msg])]
      BY <1>6 DEF PollStart, size
    <3>2. [addr |-> a.addr, msg |-> e.msg].addr = a.addr
      OBVIOUS
    <3>3. QED
      BY <3>1, <3>2
  <2>2. PICK c : c.addr = a.addr /\
          node' = [node EXCEPT ![n] = StoreAddress([Polled(n) EXCEPT !.pool = a.pool], c)]
    BY <2>1
  <2> DEFINE r == node'[n]
  <2>3. /\ r.pool = a.pool /\ r.free = Tail(s.free) /\ r.table = Put(s.table, idx, c)
        /\ r.recv = s.recv /\ r.blocks = s.blocks /\ \A k \in Proc \ {n} : node'[k] = node[k]
    BY <1>1, <1>2, <2>2 DEF StoreAddress, Same, Nodes, NodeAt
  <2>4. KeptAt(n, s, bufs) /\ s.pool \in Pool /\ s.free \in Seq(1 .. MaxEntries)
    BY <1>1 DEF Kept, Nodes, NodeAt
  <2>5. PoolSound(a.pool) /\ \A v \in s.pool.used : v.addr # a.addr
    BY <1>4, <2>4, AllocSound, AllocUsed DEF KeptAt, IsUsed
  <2>6. PICK u : u.addr = a.addr /\ a.pool.used = s.pool.used \cup {u}
    <3>1. \E k \in Nat : a.pool.used = s.pool.used \cup {[addr |-> a.addr, size |-> k]}
      BY <1>4, <2>4, AllocUsed DEF KeptAt
    <3>2. QED
      BY <3>1
  <2>7. idx \notin DOMAIN s.table /\ IndicesAt(r)
    <3> DEFINE q == s.free
               z == Tail(q)
    <3>1. /\ \A i, j \in DOMAIN q : q[i] = q[j] => i = j
          /\ \A i \in DOMAIN q : q[i] \notin DOMAIN s.table
      BY <2>4 DEF KeptAt, IndicesAt
    <3>2. /\ 1 \in DOMAIN q /\ idx = q[1]
          /\ \A i \in DOMAIN z : i \in Nat /\ i + 1 \in DOMAIN q /\ z[i] = q[i + 1] /\ i + 1 # 1
      BY <1>6, <2>4
    <3> HIDE DEF q, idx, z
    <3>3. DOMAIN Put(s.table, idx, c) = DOMAIN s.table \cup {idx}
      BY DEF Put
    <3>4. \A i, j \in DOMAIN z : z[i] = z[j] => i = j
      <4>1. \A i, j \in DOMAIN z : z[i] = z[j] => i + 1 = j + 1
        BY <3>1, <3>2
      <4>2. QED
        BY <3>2, <4>1
    <3>5. \A i \in DOMAIN z : z[i] \notin DOMAIN s.table /\ z[i] # idx
      BY <3>1, <3>2
    <3>6. r.free = z /\ DOMAIN r.table = DOMAIN s.table \cup {idx}
      BY <2>3, <3>3 DEF z, q
    <3> HIDE DEF r
    <3>7. IndicesAt(r)
      BY <3>4, <3>5, <3>6 DEF IndicesAt
    <3>8. QED
      BY <3>1, <3>2, <3>7
  <2> DEFINE o == <<"table", idx, c.addr>>
  <2>8. OwnersOf(n, r, bufs) = OwnersOf(n, s, bufs) \cup {o}
    <3>1. TableOwners(Put(s.table, idx, c)) = TableOwners(s.table) \cup {o}
      BY <2>7, TableOwnersChange
    <3>2. QED
      BY <2>3, <3>1 DEF OwnersOf
  <2>9. u.addr = o[3] /\ (\A v \in s.pool.used : v.addr # u.addr) /\ PoolSound(r.pool)
        /\ r.pool.used = s.pool.used \cup {u}
    BY <2>2, <2>3, <2>5, <2>6
  <2> HIDE DEF o, r, s
  <2>10. KeptAt(n, r, bufs)
    <3>1. /\ KeptAt(n, s, bufs) /\ u.addr = o[3] /\ IndicesAt(r) /\ PoolSound(r.pool)
          /\ r.pool.used = s.pool.used \cup {u} /\ OwnersOf(n, r, bufs) = OwnersOf(n, s, bufs) \cup {o}
      BY <2>4, <2>7, <2>8, <2>9
    <3>2. \A v \in s.pool.used : v.addr # u.addr
      BY <2>9
    <3>3. QED
      BY <3>1, <3>2, KeptNew, SMTT(60)
  <2>11. QED
    BY <1>1, <2>3, <2>10, KeptOne DEF r
<1>7. QED
  BY <1>5, <1>6

(* The message of a write context is one that its process sends.             *)
LEMMA WroteMessage ==
  ASSUME Typed, NEW n \in Proc, node[n].cq # <<>>, Polls(n, "wrote")
  PROVE  LET e == Head(node[n].cq) IN LinkOf(out[e.link].writeBuf[e.ctx]).src = n
<1>1. PICK e : e = Head(node[n].cq)
  OBVIOUS
<1>2. e \in EventAt(n, thread, out) /\ e.op = "wrote"
  BY <1>1, PolledAt DEF Polls
<1>3. e.link \in Link /\ e.ctx \in DOMAIN out[e.link].writeBuf
  BY <1>2, EventFacts
<1>4. e.link.src = n
  BY <1>2, EventEnds
<1>5. out[e.link].writeBuf \in Map(1 .. Depth, OnLink(e.link, thread))
  BY <1>3 DEF Typed, Outs, OutAt
<1> DEFINE T == OnLink(e.link, thread)
           f == out[e.link].writeBuf
           S == 1 .. Depth
<1>6. f \in Map(S, T) /\ e.ctx \in DOMAIN f
  BY <1>3, <1>5
<1> HIDE DEF T, f, S
<1>7. f[e.ctx] \in T
  BY <1>6, PutDrop
<1>8. QED
  BY <1>1, <1>4, <1>7 DEF T, f, OnLink

(* The block of a message that has been written is freed with its buffer.    *)
LEMMA KeptPollWrote ==
  ASSUME RdmaAssumption, Typed, Kept, NEW n \in Proc, PollWrote(n)
  PROVE  Kept'
<1> DEFINE e == Head(node[n].cq)
           l == e.link
           m == out[l].writeBuf[e.ctx]
           s == node[n]
           r == node'[n]
           o == <<"send", m, bufs[m].inline>>
<1>1. node[n].cq # <<>> /\ Polls(n, "wrote") /\ Nodes /\ Outs
  BY DEF PollWrote, Polls, Typed
<1>2. e \in EventAt(n, thread, out) /\ Same(s, Polled(n)) /\ NodeAt(n, Polled(n), thread, out)
  BY <1>1, PolledAt DEF Same
<1>3. LinkOf(m).src = n
  BY <1>1, WroteMessage
<1>4. CASE m \notin DOMAIN bufs
  <2>1. node' = [node EXCEPT ![n].ended = "deleted"] /\ UNCHANGED bufs
    BY <1>4 DEF PollWrote, Fail
  <2>2. Same(s, r) /\ \A k \in Proc \ {n} : node'[k] = node[k]
    BY <1>1, <2>1 DEF Same, Nodes, NodeAt
  <2>3. QED
    BY <2>1, <2>2, KeptStep DEF Same
<1>5. CASE m \in DOMAIN bufs
  <2>1. /\ node' = [node EXCEPT ![n] = [Polled(n) EXCEPT !.pool = Free(@, bufs[m].inline)]]
        /\ bufs' = Drop(bufs, m)
    BY <1>5 DEF PollWrote
  <2>2. /\ r.pool = Free(s.pool, o[3]) /\ r.free = s.free /\ r.table = s.table /\ r.recv = s.recv
        /\ r.blocks = s.blocks /\ \A k \in Proc \ {n} : node'[k] = node[k]
    BY <1>1, <1>2, <2>1 DEF Same, Nodes, NodeAt
  <2>3. KeptAt(n, s, bufs) /\ s.pool \in Pool
    BY <1>1 DEF Kept, Nodes, NodeAt
  <2>4. \A k \in Proc : SendOwners(k, bufs') = SendOwners(k, bufs) \ {o}
    <3> HIDE DEF m
    <3>1. QED
      BY <1>5, <2>1, SendOwnersDrop
  <2>5. o \in SendOwners(n, bufs) /\ \A k \in Proc \ {n} : o \notin SendOwners(k, bufs)
    <3> HIDE DEF m
    <3>1. QED
      BY <1>3, <1>5 DEF SendOwners
  <2>6. OwnersOf(n, r, bufs') = OwnersOf(n, s, bufs) \ {o}
    <3>1. o \notin TableOwners(s.table) /\ o \notin RecvOwners(s.recv) /\ o \notin BlockOwners(s.blocks)
      BY DEF TableOwners, RecvOwners, BlockOwners
    <3>2. QED
      BY <2>2, <2>4, <3>1 DEF OwnersOf
  <2>7. o \in OwnersOf(n, s, bufs) /\ IndicesAt(r)
    BY <2>2, <2>3, <2>5 DEF OwnersOf, KeptAt, IndicesAt
  <2> HIDE DEF o, r, s
  <2>8. KeptAt(n, r, bufs')
    <3>1. KeptAt(n, s, bufs) /\ o \in OwnersOf(n, s, bufs) /\ s.pool \in Pool /\ r.pool = Free(s.pool, o[3])
          /\ IndicesAt(r) /\ OwnersOf(n, r, bufs') = OwnersOf(n, s, bufs) \ {o}
      BY <2>2, <2>3, <2>6, <2>7
    <3>2. QED
      BY <3>1, KeptFreed, SMTT(60)
  <2>9. \A k \in Proc \ {n} : SendOwners(k, bufs') = SendOwners(k, bufs)
    BY <2>4, <2>5
  <2>10. QED
    BY <2>2, <2>8, <2>9, KeptOne DEF r
<1>6. QED
  BY <1>4, <1>5

(* The block of a message that has arrived goes from the table to the        *)
(* receive queue.                                                            *)
LEMMA KeptPollWritten ==
  ASSUME RdmaAssumption, Typed, Kept, NEW n \in Proc, PollWritten(n)
  PROVE  Kept'
<1> DEFINE e == Head(node[n].cq)
           i == e.idx
           s == node[n]
           r == node'[n]
           c == s.table[i]
           o == <<"table", i, c.addr>>
           p == <<"recv", Len(s.recv) + 1, c.addr>>
<1>1. node[n].cq # <<>> /\ Nodes /\ UNCHANGED bufs
  BY DEF PollWritten, Polls, Typed
<1>2. Same(s, Polled(n)) /\ NodeAt(n, Polled(n), thread, out)
  BY <1>1, PolledAt DEF Same
<1>3. CASE i \notin DOMAIN s.table
  <2>1. node' = [node EXCEPT ![n].ended = "ptr"]
    BY <1>3 DEF PollWritten, Fail
  <2>2. Same(s, r) /\ \A k \in Proc \ {n} : node'[k] = node[k]
    BY <1>1, <2>1 DEF Same, Nodes, NodeAt
  <2>3. QED
    BY <1>1, <2>2, KeptStep DEF Same
<1>4. CASE i \in DOMAIN s.table
  <2>1. PICK d : d.ctx = c /\ node' = [node EXCEPT ![n] =
          [GetAddressAndRelease(Polled(n), i) EXCEPT !.recv = Append(@, d)]]
    <3>1. node' = [node EXCEPT ![n] =
            [GetAddressAndRelease(Polled(n), i) EXCEPT !.recv = Append(@, [link |-> e.link, ctx |-> c])]]
      BY <1>4 DEF PollWritten
    <3>2. [link |-> e.link, ctx |-> c].ctx = c
      OBVIOUS
    <3>3. QED
      BY <3>1, <3>2
  <2>2. /\ r.pool = s.pool /\ r.free = Append(s.free, i) /\ r.table = Drop(s.table, i)
        /\ r.recv = Append(s.recv, d) /\ r.blocks = s.blocks /\ \A k \in Proc \ {n} : node'[k] = node[k]
    BY <1>1, <1>2, <2>1 DEF Same, Nodes, NodeAt, GetAddressAndRelease
  <2>3. KeptAt(n, s, bufs) /\ s.free \in Seq(1 .. MaxEntries)
        /\ s.recv \in Seq([link : Link, ctx : [addr : Nat, msg : Msg]])
    BY <1>1 DEF Kept, Nodes, NodeAt
  <2>4. IndicesAt(r)
    <3> DEFINE q == s.free
               z == Append(q, i)
               k == Len(q) + 1
    <3>1. /\ \A a, b \in DOMAIN q : q[a] = q[b] => a = b
          /\ \A a \in DOMAIN q : q[a] \notin DOMAIN s.table
      BY <2>3 DEF KeptAt, IndicesAt
    <3>2. DOMAIN z = DOMAIN q \cup {k} /\ z[k] = i /\ \A a \in DOMAIN q : z[a] = q[a]
      <4> HIDE DEF i
      <4>1. q \in Seq(1 .. MaxEntries)
        BY <2>3
      <4> HIDE DEF q
      <4>2. QED
        BY <4>1
    <3>3. DOMAIN Drop(s.table, i) = DOMAIN s.table \ {i}
      BY DEF Drop
    <3>4. r.free = z /\ DOMAIN r.table = DOMAIN s.table \ {i}
      BY <2>2, <3>3
    <3> HIDE DEF q, z, k, i, r, s
    <3>5. QED
      BY <1>4, <3>1, <3>2, <3>4 DEF IndicesAt
  <2>5. RecvOwners(r.recv) = RecvOwners(s.recv) \cup {p}
    <3>1. RecvOwners(Append(s.recv, d)) = RecvOwners(s.recv) \cup {<<"recv", Len(s.recv) + 1, d.ctx.addr>>}
      BY <2>3, RecvOwnersAppend
    <3>2. QED
      BY <2>1, <2>2, <3>1
  <2>6. TableOwners(r.table) = TableOwners(s.table) \ {o}
    <3> DEFINE T == s.table
    <3>1. i \in DOMAIN T
      BY <1>4
    <3> HIDE DEF T, i
    <3>2. TableOwners(Drop(T, i)) = TableOwners(T) \ {<<"table", i, T[i].addr>>}
      BY <3>1, TableOwnersChange
    <3>3. QED
      BY <2>2, <3>2 DEF T
  <2>7. o \in TableOwners(s.table) /\ o \notin SendOwners(n, bufs) /\ o \notin RecvOwners(s.recv)
        /\ o \notin BlockOwners(s.blocks)
    BY <1>4 DEF TableOwners, SendOwners, RecvOwners, BlockOwners
  <2>8. OwnersOf(n, r, bufs) = (OwnersOf(n, s, bufs) \ {o}) \cup {p} /\ o \in OwnersOf(n, s, bufs)
    <3> HIDE DEF o, p
    <3>1. QED
      BY <2>2, <2>5, <2>6, <2>7 DEF OwnersOf
  <2>9. p[3] = o[3]
    OBVIOUS
  <2> HIDE DEF o, p, r, s
  <2>10. KeptAt(n, r, bufs)
    <3>1. KeptAt(n, s, bufs) /\ o \in OwnersOf(n, s, bufs) /\ p[3] = o[3] /\ r.pool = s.pool
          /\ IndicesAt(r) /\ OwnersOf(n, r, bufs) = (OwnersOf(n, s, bufs) \ {o}) \cup {p}
      BY <2>2, <2>3, <2>4, <2>8, <2>9
    <3>2. QED
      BY <3>1, KeptPassed, SMTT(60)
  <2>11. QED
    BY <1>1, <2>2, <2>10, KeptOne DEF r
<1>5. QED
  BY <1>3, <1>4

(* The queue of received buffers moves on: the owners in it change places.   *)
LEMMA RecvOwnersTail ==
  ASSUME NEW S, NEW q \in Seq(S), q # <<>>, NEW X, \A x \in X : x[1] # "recv", NEW U,
         NEW O, O = X \cup (RecvOwners(q) \ {<<"recv", 1, Head(q).ctx.addr>>}), OneOwner(O, U)
  PROVE  OneOwner(X \cup RecvOwners(Tail(q)), U)
<1> DEFINE z == Tail(q)
           P == X \cup RecvOwners(z)
           g == [x \in P |-> IF x \in X THEN x ELSE <<"recv", x[2] + 1, x[3]>>]
<1>1. /\ 1 \in DOMAIN q /\ Head(q) = q[1]
      /\ \A i \in DOMAIN z : i \in Nat /\ i + 1 \in DOMAIN q /\ z[i] = q[i + 1] /\ i + 1 # 1
      /\ \A j \in DOMAIN q : j \in Nat /\ (j # 1 => j - 1 \in DOMAIN z)
  OBVIOUS
<1> HIDE DEF z
<1>2. \A x \in P : x \in X \/ \E i \in DOMAIN z : x = <<"recv", i, z[i].ctx.addr>>
  BY DEF RecvOwners
<1>3. \A x \in P : g[x] \in O /\ g[x][3] = x[3]
  <2> SUFFICES ASSUME NEW x \in P PROVE g[x] \in O /\ g[x][3] = x[3]
    OBVIOUS
  <2>1. CASE x \in X
    BY <2>1
  <2>2. CASE x \notin X
    <3>1. PICK i \in DOMAIN z : x = <<"recv", i, z[i].ctx.addr>>
      BY <1>2, <2>2
    <3>2. g[x] = <<"recv", i + 1, q[i + 1].ctx.addr>> /\ i + 1 # 1 /\ i + 1 \in DOMAIN q
      BY <1>1, <2>2, <3>1
    <3>3. QED
      BY <1>1, <3>1, <3>2 DEF RecvOwners
  <2>3. QED
    BY <2>1, <2>2
<1>4. g \in [P -> O]
  BY <1>3
<1>5. \A x, y \in P : g[x] = g[y] => x = y
  <2> SUFFICES ASSUME NEW x \in P, NEW y \in P, g[x] = g[y] PROVE x = y
    OBVIOUS
  <2>1. CASE x \in X /\ y \in X
    BY <2>1
  <2>2. CASE x \in X /\ y \notin X
    BY <2>2
  <2>3. CASE x \notin X /\ y \in X
    BY <2>3
  <2>4. CASE x \notin X /\ y \notin X
    <3>1. PICK i \in DOMAIN z : x = <<"recv", i, z[i].ctx.addr>>
      BY <1>2, <2>4
    <3>2. PICK j \in DOMAIN z : y = <<"recv", j, z[j].ctx.addr>>
      BY <1>2, <2>4
    <3>3. i + 1 = j + 1 /\ i \in Nat /\ j \in Nat
      BY <1>1, <2>4, <3>1, <3>2
    <3>4. QED
      BY <3>1, <3>2, <3>3
  <2>5. QED
    BY <2>1, <2>2, <2>3, <2>4
<1>6. \A o \in O : \E x \in P : g[x] = o
  <2> SUFFICES ASSUME NEW o \in O PROVE \E x \in P : g[x] = o
    OBVIOUS
  <2>1. CASE o \in X
    BY <2>1
  <2>2. CASE o \notin X
    <3>1. PICK j \in DOMAIN q : o = <<"recv", j, q[j].ctx.addr>>
      BY <2>2 DEF RecvOwners
    <3>2. j # 1 /\ j \in Nat /\ j - 1 \in DOMAIN z
      BY <1>1, <2>2, <3>1
    <3> DEFINE i == j - 1
               x == <<"recv", i, z[i].ctx.addr>>
    <3>3. i + 1 = j /\ z[i] = q[j]
      BY <1>1, <3>2
    <3>4. x \in P /\ x \notin X
      BY <3>2 DEF RecvOwners
    <3>5. g[x] = o
      BY <3>1, <3>3, <3>4
    <3>6. QED
      BY <3>4, <3>5
  <2>3. QED
    BY <2>1, <2>2
<1>7. OneOwner(O, U)
  OBVIOUS
<1> HIDE DEF g, P
<1>8. OneOwner(P, U)
  BY <1>3, <1>4, <1>5, <1>6, <1>7, OwnersRenamed
<1>9. QED
  BY <1>8 DEF P, z

(* The block at the head of the receive queue goes to the application, or    *)
(* is freed when the message has no data.                                    *)
LEMMA KeptRecvMsg ==
  ASSUME RdmaAssumption, Typed, Kept, NEW n \in Proc, RecvMsg(n)
  PROVE  Kept'
<1> DEFINE s == node[n]
           r == node'[n]
           q == s.recv
           a == Head(q).ctx.addr
           arrays == BodyOf(Head(q).ctx.msg).arrays
           o == <<"recv", 1, a>>
           p == <<"block", None, a>>
           C == [link : Link, ctx : [addr : Nat, msg : Msg]]
           X == SendOwners(n, bufs) \cup TableOwners(s.table) \cup BlockOwners(s.blocks)
           Y == SendOwners(n, bufs) \cup TableOwners(s.table) \cup BlockOwners(r.blocks)
           O == OwnersOf(n, s, bufs)
<1>1. q # <<>> /\ Nodes /\ UNCHANGED bufs /\ NodeAt(n, s, thread, out) /\ KeptAt(n, s, bufs)
  BY DEF RecvMsg, Typed, Nodes, Kept
<1>2. /\ r.recv = Tail(q) /\ r.free = s.free /\ r.table = s.table
      /\ r.blocks = (IF arrays > 0 THEN Put(s.blocks, a, arrays) ELSE s.blocks)
      /\ r.pool = (IF arrays > 0 THEN s.pool ELSE Free(s.pool, a))
      /\ \A k \in Proc \ {n} : node'[k] = node[k]
  BY <1>1 DEF RecvMsg, Nodes, NodeAt
<1>3. q \in Seq(C) /\ s.pool \in Pool
  BY <1>1 DEF NodeAt
<1>4. o \in RecvOwners(q)
  <2>1. 1 \in DOMAIN q /\ Head(q) = q[1]
    BY <1>1, <1>3
  <2>2. QED
    BY <2>1 DEF RecvOwners
<1>5. o \notin X /\ \A x \in X : x[1] # "recv"
  BY DEF SendOwners, TableOwners, BlockOwners
<1>6. O = X \cup RecvOwners(q) /\ O \ {o} = X \cup (RecvOwners(q) \ {o}) /\ o \in O
  <2>1. O = X \cup RecvOwners(q)
    BY DEF OwnersOf
  <2> HIDE DEF O, X, o
  <2>2. QED
    BY <1>4, <1>5, <2>1
<1>7. OneOwner(O, s.pool.used) /\ IsFiniteSet(s.pool.used) /\ PoolSound(s.pool) /\ IndicesAt(s)
  BY <1>1 DEF KeptAt
<1>8. IndicesAt(r)
  BY <1>2, <1>7 DEF IndicesAt
<1>9. OwnersOf(n, r, bufs) = Y \cup RecvOwners(Tail(q)) /\ \A x \in Y : x[1] # "recv"
  <2>1. OwnersOf(n, r, bufs) = Y \cup RecvOwners(Tail(q))
    BY <1>2 DEF OwnersOf
  <2>2. \A x \in Y : x[1] # "recv"
    <3> HIDE DEF r, s
    <3>1. QED
      BY DEF SendOwners, TableOwners, BlockOwners
  <2>3. QED
    BY <2>1, <2>2
<1>10. CASE arrays > 0
  <2>1. Y = X \cup {p} /\ r.pool = s.pool
    <3>1. BlockOwners(r.blocks) = BlockOwners(s.blocks) \cup {p}
      <4>1. r.blocks = Put(s.blocks, a, arrays)
        BY <1>2, <1>10
      <4> HIDE DEF r, s, a, arrays
      <4>2. QED
        BY <4>1, BlockOwnersChange
    <3>2. QED
      BY <1>2, <1>10, <3>1
  <2>2. OneOwner((O \ {o}) \cup {p}, s.pool.used)
    <3>1. p[3] = o[3]
      OBVIOUS
    <3> HIDE DEF O, o, p, s
    <3>2. QED
      BY <1>6, <1>7, <3>1, OwnerPassed
  <2>3. (O \ {o}) \cup {p} = Y \cup (RecvOwners(q) \ {o})
    <3> HIDE DEF O, o, p, X, Y
    <3>1. QED
      BY <1>6, <2>1
  <2>4. OneOwner(Y \cup RecvOwners(Tail(q)), s.pool.used)
    <3> DEFINE U == s.pool.used
    <3> DEFINE Z == Y \cup (RecvOwners(q) \ {<<"recv", 1, Head(q).ctx.addr>>})
    <3>1. OneOwner(Z, U)
      BY <2>2, <2>3
    <3>2. q \in Seq(C) /\ q # <<>> /\ \A x \in Y : x[1] # "recv"
      BY <1>1, <1>3, <1>9
    <3> HIDE DEF Y, U, q, C
    <3>3. OneOwner(Y \cup RecvOwners(Tail(q)), U)
      <4>1. Z = Y \cup (RecvOwners(q) \ {<<"recv", 1, Head(q).ctx.addr>>})
        OBVIOUS
      <4> HIDE DEF Z
      <4>2. QED
        BY <3>1, <3>2, <4>1, RecvOwnersTail
    <3>4. QED
      BY <3>3 DEF U
  <2>5. KeptAt(n, r, bufs)
    <3> HIDE DEF r, s, Y, q
    <3>1. QED
      BY <1>7, <1>8, <1>9, <2>1, <2>4 DEF KeptAt
  <2>6. QED
    BY <1>1, <1>2, <2>5, KeptOne
<1>11. CASE ~ (arrays > 0)
  <2>1. Y = X /\ r.pool = Free(s.pool, a)
    BY <1>2, <1>11
  <2> DEFINE V == {u \in s.pool.used : u.addr # a}
  <2>2. OneOwner(O \ {o}, V)
    <3> DEFINE U == s.pool.used
    <3>1. V = {u \in U : u.addr # o[3]}
      OBVIOUS
    <3>2. OneOwner(O, U) /\ o \in O
      BY <1>6, <1>7
    <3> HIDE DEF O, o, U
    <3> HIDE DEF V
    <3>3. QED
      BY <3>1, <3>2, OwnerGone
  <2>3. OneOwner(Y \cup RecvOwners(Tail(q)), V)
    <3> DEFINE Z == Y \cup (RecvOwners(q) \ {<<"recv", 1, Head(q).ctx.addr>>})
    <3>1. OneOwner(Z, V)
      BY <1>6, <2>1, <2>2
    <3>2. q \in Seq(C) /\ q # <<>> /\ \A x \in Y : x[1] # "recv"
      BY <1>1, <1>3, <1>9
    <3> HIDE DEF Y, V, q, C
    <3>3. Z = Y \cup (RecvOwners(q) \ {<<"recv", 1, Head(q).ctx.addr>>})
      OBVIOUS
    <3> HIDE DEF Z
    <3>4. QED
      BY <3>1, <3>2, <3>3, RecvOwnersTail
  <2>4. PoolSound(r.pool) /\ r.pool.used = V /\ IsFiniteSet(V)
    <3>1. PoolSound(r.pool) /\ r.pool.used = V
      BY <1>3, <1>7, <2>1, FreeSound, FreeUsed
    <3>2. IsFiniteSet(V)
      <4> DEFINE U == s.pool.used
      <4>1. IsFiniteSet(U) /\ V \in SUBSET U
        BY <1>7
      <4> HIDE DEF U, V
      <4>2. QED
        BY <4>1, FS_Subset
    <3>3. QED
      BY <3>1, <3>2
  <2>5. KeptAt(n, r, bufs)
    <3> HIDE DEF r, s, Y, q, V
    <3>1. QED
      BY <1>8, <1>9, <2>3, <2>4 DEF KeptAt
  <2>6. QED
    BY <1>1, <1>2, <2>5, KeptOne
<1>12. QED
  BY <1>10, <1>11

(* A block of the application is freed when the last array that shares it    *)
(* is released.                                                              *)
LEMMA KeptRelease ==
  ASSUME RdmaAssumption, Typed, Kept, NEW n \in Proc, Release(n)
  PROVE  Kept'
<1> DEFINE s == node[n]
           r == node'[n]
<1>1. Nodes /\ UNCHANGED bufs /\ NodeAt(n, s, thread, out) /\ KeptAt(n, s, bufs) /\ s.pool \in Pool
  BY DEF Release, Typed, Nodes, Kept, NodeAt
<1>2. PICK a \in DOMAIN s.blocks : node' = [node EXCEPT
         ![n].blocks = IF @[a] = 1 THEN Drop(@, a) ELSE Put(@, a, @[a] - 1),
         ![n].pool = IF node[n].blocks[a] = 1 THEN Free(@, a) ELSE @]
  BY DEF Release
<1>3. /\ r.blocks = (IF s.blocks[a] = 1 THEN Drop(s.blocks, a) ELSE Put(s.blocks, a, s.blocks[a] - 1))
      /\ r.pool = (IF s.blocks[a] = 1 THEN Free(s.pool, a) ELSE s.pool)
      /\ r.recv = s.recv /\ r.free = s.free /\ r.table = s.table
      /\ \A k \in Proc \ {n} : node'[k] = node[k]
  BY <1>1, <1>2 DEF Nodes, NodeAt
<1> DEFINE o == <<"block", None, a>>
<1>4. IndicesAt(r) /\ o \in BlockOwners(s.blocks)
  BY <1>1, <1>3 DEF KeptAt, IndicesAt, BlockOwners
<1>5. CASE s.blocks[a] = 1
  <2>1. BlockOwners(r.blocks) = BlockOwners(s.blocks) \ {o}
    BY <1>3, <1>5, BlockOwnersChange
  <2>2. o \notin SendOwners(n, bufs) /\ o \notin TableOwners(s.table) /\ o \notin RecvOwners(s.recv)
    BY DEF SendOwners, TableOwners, RecvOwners
  <2>3. OwnersOf(n, r, bufs) = OwnersOf(n, s, bufs) \ {o} /\ o \in OwnersOf(n, s, bufs)
    <3> HIDE DEF o
    <3>1. QED
      BY <1>3, <1>4, <2>1, <2>2 DEF OwnersOf
  <2>4. r.pool = Free(s.pool, o[3])
    BY <1>3, <1>5
  <2>5. KeptAt(n, r, bufs)
    <3>1. KeptAt(n, s, bufs) /\ o \in OwnersOf(n, s, bufs) /\ s.pool \in Pool /\ r.pool = Free(s.pool, o[3])
          /\ IndicesAt(r) /\ OwnersOf(n, r, bufs) = OwnersOf(n, s, bufs) \ {o}
      BY <1>1, <1>4, <2>3, <2>4
    <3> HIDE DEF r, s, o
    <3>2. QED
      BY <3>1, KeptFreed, SMTT(60)
  <2>6. QED
    BY <1>1, <1>3, <2>5, KeptOne
<1>6. CASE s.blocks[a] # 1
  <2>1. BlockOwners(r.blocks) = BlockOwners(s.blocks) /\ r.pool = s.pool
    <3>1. BlockOwners(r.blocks) = BlockOwners(s.blocks) \cup {o}
      BY <1>3, <1>6, BlockOwnersChange
    <3>2. QED
      BY <1>3, <1>4, <1>6, <3>1
  <2>2. OwnersOf(n, r, bufs) = OwnersOf(n, s, bufs)
    BY <1>3, <2>1 DEF OwnersOf
  <2>3. KeptAt(n, r, bufs)
    BY <1>1, <1>4, <2>1, <2>2 DEF KeptAt
  <2>4. QED
    BY <1>1, <1>3, <2>3, KeptOne
<1>7. QED
  BY <1>5, <1>6

(* Every step keeps one owner for each block.                                *)
LEMMA KeptNext ==
  ASSUME PoolAssumption, RdmaAssumption, Typed, Kept, Next
  PROVE  Kept'
<1>1. CASE \E n \in Proc : Bind(n)
  BY <1>1, KeptSame
<1>2. ASSUME NEW n \in Proc, PollCQ(n) PROVE Kept'
  BY <1>2, KeptSame, KeptPollStart, KeptPollWrote, KeptPollWritten DEF PollCQ
<1>3. CASE \E n \in Proc : RecvMsg(n) \/ Release(n)
  BY <1>3, KeptRecvMsg, KeptRelease
<1>4. CASE \E l \in Link : Connect(l) \/ PollEvents(l) \/ Carry(l)
  BY <1>4, KeptSame
<1>5. ASSUME NEW t \in Thread, Send(t) PROVE Kept'
  BY <1>5, KeptSame, KeptSend DEF Send
<1>6. QED
  BY <1>1, <1>2, <1>3, <1>4, <1>5 DEF Next

(* As many owners as blocks.                                                 *)
LEMMA OwnersCounted ==
  ASSUME NEW O, NEW U, OneOwner(O, U), IsFiniteSet(U),
         \A u, v \in U : u.addr = v.addr => u = v
  PROVE  Cardinality(O) = Cardinality(U)
<1> DEFINE h == [o \in O |-> CHOOSE u \in U : u.addr = o[3]]
<1>1. \A o \in O : h[o] \in U /\ h[o].addr = o[3]
  BY DEF OneOwner
<1>2. h \in [O -> U]
  BY <1>1
<1> HIDE DEF h
<1>3. \A o1, o2 \in O : h[o1] = h[o2] => o1 = o2
  BY <1>1 DEF OneOwner
<1>4. \A u \in U : \E o \in O : h[o] = u
  <2> SUFFICES ASSUME NEW u \in U PROVE \E o \in O : h[o] = u
    OBVIOUS
  <2>1. PICK o \in O : o[3] = u.addr
    BY DEF OneOwner
  <2>2. h[o] = u
    BY <1>1, <2>1
  <2>3. QED
    BY <2>2
<1>5. h \in Injection(O, U) /\ h \in Surjection(O, U)
  BY <1>2, <1>3, <1>4 DEF Injection, IsInjective, Surjection
<1>6. QED
  BY <1>5, FS_Injection

(* Types and owners are kept together by every step.                         *)
LEMMA TypedKeptStep ==
  ASSUME PoolAssumption, RdmaAssumption, Typed, Kept, [Next]_vars
  PROVE  (Typed /\ Kept)'
<1>1. CASE Next
  <2>1. \A n \in Proc : PoolSound(node[n].pool)
    BY DEF Kept, KeptAt
  <2>2. QED
    BY <1>1, <2>1, TypedNext, KeptNext
<1>2. CASE UNCHANGED vars
  <2>1. Kept'
    BY <1>2 DEF vars, Kept
  <2>2. Typed'
    BY <1>2 DEF vars, Typed, Nodes, Outs, Incs, Threads, Bufs
  <2>3. QED
    BY <2>1, <2>2
<1>3. QED
  BY <1>1, <1>2

(* In every state of the transport, for all processes, links, threads and    *)
(* messages, all rejections, and any choice of the allocator: no two blocks  *)
(* of a pool overlap, none is lost, and the key that goes with a block's     *)
(* address is that of the region it lies in (SimpleMempool).                 *)
THEOREM RdmaPoolsSound == PoolAssumption /\ RdmaAssumption /\ Spec => []PoolsSound
<1> SUFFICES ASSUME PoolAssumption, RdmaAssumption PROVE Spec => []PoolsSound
  OBVIOUS
<1>1. Init => Typed /\ Kept
  BY TypedInit, KeptInit
<1>2. Typed /\ Kept /\ [Next]_vars => (Typed /\ Kept)'
  BY TypedKeptStep
<1>3. Typed /\ Kept => PoolsSound
  <2> SUFFICES ASSUME Typed, Kept, NEW n \in Proc
               PROVE  PoolSound(node[n].pool) /\ KeysRight(node[n].pool)
    BY DEF PoolsSound
  <2>1. node[n].pool \in Pool /\ PoolSound(node[n].pool)
    BY DEF Typed, Nodes, NodeAt, Kept, KeptAt
  <2>2. QED
    BY <2>1, KeysFound
<1>4. QED
  BY <1>1, <1>2, <1>3, PTL DEF Spec

(* In every state of the transport, for all processes, links, threads and    *)
(* messages, all rejections, and any choice of the allocator: the pools are  *)
(* sound, and every block in use is owned by just one of the buffer of a     *)
(* message being sent, an index of the AddressPool, a received buffer and a  *)
(* delivered array, and each of those has its block (SendMsg, PollCQ,        *)
(* RecvMsg and Block free every block once).                                 *)
THEOREM RdmaBlocksHaveOneOwner ==
  PoolAssumption /\ RdmaAssumption /\ Spec => []BlocksHaveOneOwner
<1> SUFFICES ASSUME PoolAssumption, RdmaAssumption PROVE Spec => []BlocksHaveOneOwner
  OBVIOUS
<1>1. Init => Typed /\ Kept
  BY TypedInit, KeptInit
<1>2. Typed /\ Kept /\ [Next]_vars => (Typed /\ Kept)'
  BY TypedKeptStep
<1>3. Typed /\ Kept => BlocksHaveOneOwner
  <2> SUFFICES ASSUME Typed, Kept, NEW n \in Proc
               PROVE  /\ \A o \in Owners(n) : IsUsed(node[n].pool, o[3])
                      /\ Cardinality(Owners(n)) = Cardinality(node[n].pool.used)
    BY DEF BlocksHaveOneOwner
  <2>1. KeptAt(n, node[n], bufs) /\ node[n].pool \in Pool
    BY DEF Kept, Typed, Nodes, NodeAt
  <2>2. Owners(n) = OwnersOf(n, node[n], bufs)
    BY DEF Owners, OwnersOf, SendOwners, TableOwners, RecvOwners, BlockOwners
  <2> DEFINE U == node[n].pool.used
             O == Owners(n)
  <2>3. OneOwner(O, U) /\ IsFiniteSet(U)
    BY <2>1, <2>2 DEF KeptAt
  <2>4. \A u, v \in U : u.addr = v.addr => u = v
    <3>1. U \subseteq Block /\ \A u, v \in U : u = v \/ Disjoint(u, v)
      BY <2>1 DEF KeptAt, PoolSound, BlocksDisjoint, Pool
    <3>2. QED
      BY <3>1 DEF Disjoint, End, Block
  <2>5. \A o \in O : IsUsed(node[n].pool, o[3])
    BY <2>3 DEF OneOwner, IsUsed
  <2>6. Cardinality(O) = Cardinality(U)
    <3> HIDE DEF O, U
    <3>1. QED
      BY <2>3, <2>4, OwnersCounted
  <2>7. QED
    BY <2>5, <2>6
<1>4. QED
  BY <1>1, <1>2, <1>3, PTL DEF Spec

----------------------------------------------------------------------------
(* The receives of the queue pairs.                                          *)

(* The elements of a queue that are in a set.                                *)
Chosen(S, q) == {i \in DOMAIN q : q[i] \in S}

(* An element put into a queue is counted once.                              *)
LEMMA ChosenAppend ==
  ASSUME NEW T, NEW q \in Seq(T), NEW S
  PROVE  /\ Cardinality(Chosen(S, q)) \in Nat
         /\ \A e : Cardinality(Chosen(S, Append(q, e))) =
                     Cardinality(Chosen(S, q)) + (IF e \in S THEN 1 ELSE 0)
<1> SUFFICES ASSUME NEW e
    PROVE  /\ Cardinality(Chosen(S, q)) \in Nat
           /\ Cardinality(Chosen(S, Append(q, e))) = Cardinality(Chosen(S, q)) + (IF e \in S THEN 1 ELSE 0)
  OBVIOUS
<1> DEFINE H == Chosen(S, q)
           k == Len(q) + 1
<1>1. IsFiniteSet(H) /\ k \notin H
  <2>1. H \subseteq 1 .. Len(q) /\ IsFiniteSet(1 .. Len(q))
    BY FS_Interval DEF Chosen
  <2>2. k \notin 1 .. Len(q)
    OBVIOUS
  <2> HIDE DEF H, k
  <2>3. QED
    BY <2>1, <2>2, FS_Subset
<1>2. Chosen(S, Append(q, e)) = IF e \in S THEN H \cup {k} ELSE H
  <2> DEFINE Q == Append(q, e)
  <2>1. DOMAIN Q = DOMAIN q \cup {k} /\ Q[k] = e /\ k \notin DOMAIN q /\ \A j \in DOMAIN q : Q[j] = q[j]
    OBVIOUS
  <2> HIDE DEF Q, k
  <2>2. Chosen(S, Q) = IF e \in S THEN H \cup {k} ELSE H
    BY <2>1 DEF Chosen
  <2>3. QED
    BY <2>2 DEF Q
<1> HIDE DEF H, k
<1>3. Cardinality(H) \in Nat /\ Cardinality(H \cup {k}) = Cardinality(H) + 1
  BY <1>1, FS_CardinalityType, FS_AddElement
<1>4. QED
  BY <1>2, <1>3 DEF H

(* An element taken from a queue is no longer counted.                       *)
LEMMA ChosenTail ==
  ASSUME NEW T, NEW q \in Seq(T), q # <<>>, NEW S
  PROVE  /\ Head(q) \in T /\ Tail(q) \in Seq(T)
         /\ Cardinality(Chosen(S, q)) = Cardinality(Chosen(S, Tail(q))) + (IF Head(q) \in S THEN 1 ELSE 0)
<1> DEFINE z == Tail(q)
           H == Chosen(S, z)
           G == Chosen(S, q) \ {1}
           f == [i \in H |-> i + 1]
<1>1. /\ 1 \in DOMAIN q /\ Head(q) = q[1]
      /\ \A i \in DOMAIN z : i \in Nat /\ i + 1 \in DOMAIN q /\ z[i] = q[i + 1] /\ i + 1 # 1
      /\ \A j \in DOMAIN q : j \in Nat /\ (j # 1 => j - 1 \in DOMAIN z)
      /\ DOMAIN q = 1 .. Len(q)
  OBVIOUS
<1>0. Head(q) \in T /\ z \in Seq(T)
  OBVIOUS
<1> HIDE DEF z
<1>2. IsFiniteSet(Chosen(S, q)) /\ IsFiniteSet(G)
  <2>1. Chosen(S, q) \subseteq 1 .. Len(q) /\ IsFiniteSet(1 .. Len(q)) /\ G \subseteq 1 .. Len(q)
    BY FS_Interval DEF Chosen
  <2> HIDE DEF G
  <2>2. QED
    BY <2>1, FS_Subset
<1>3. f \in [H -> G] /\ \A i, j \in H : f[i] = f[j] => i = j
  <2>1. \A i \in H : i + 1 \in G /\ i \in Nat
    BY <1>1 DEF Chosen
  <2> HIDE DEF H, G
  <2>2. QED
    BY <2>1
<1>4. \A j \in G : \E i \in H : f[i] = j
  <2> SUFFICES ASSUME NEW j \in G PROVE \E i \in H : f[i] = j
    OBVIOUS
  <2>1. j \in DOMAIN q /\ j # 1 /\ j \in Nat /\ j - 1 \in DOMAIN z /\ q[j] \in S
    BY <1>1 DEF Chosen
  <2>2. z[j - 1] = q[j]
    <3>1. (j - 1) + 1 = j
      BY <2>1
    <3>2. QED
      BY <1>1, <2>1, <3>1
  <2>3. j - 1 \in H
    BY <2>1, <2>2 DEF Chosen
  <2>4. f[j - 1] = j
    BY <2>1, <2>3
  <2>5. QED
    BY <2>3, <2>4
<1> HIDE DEF f
<1>5. f \in Injection(H, G) /\ f \in Surjection(H, G)
  BY <1>3, <1>4 DEF Injection, IsInjective, Surjection
<1>6. Cardinality(H) = Cardinality(G) /\ Cardinality(G) \in Nat
  <2> HIDE DEF H, G
  <2>1. QED
    BY <1>2, <1>5, FS_Injection, FS_CardinalityType
<1>7. Cardinality(Chosen(S, q)) = Cardinality(G) + (IF Head(q) \in S THEN 1 ELSE 0)
  <2>1. 1 \in Chosen(S, q) <=> Head(q) \in S
    BY <1>1 DEF Chosen
  <2>2. Cardinality(Chosen(S, q)) \in Nat
    BY <1>2, FS_CardinalityType
  <2>3. Cardinality(G) = IF 1 \in Chosen(S, q) THEN Cardinality(Chosen(S, q)) - 1
                         ELSE Cardinality(Chosen(S, q))
    BY <1>2, FS_RemoveElement
  <2>4. QED
    BY <2>1, <2>2, <2>3
<1>8. QED
  BY <1>0, <1>6, <1>7 DEF z

(* The completions of some kinds and one link in a queue, and the work       *)
(* requests of a kind.                                                       *)
Tally(ops, l, q) == Cardinality({i \in DOMAIN q : q[i].op \in ops /\ q[i].link = l})
One(ops, l, e) == IF e.op \in ops /\ e.link = l THEN 1 ELSE 0
Orders(op, q) == Cardinality({i \in DOMAIN q : q[i].op = op})
Gain(m, n, ops, l, e) == IF n = m THEN One(ops, l, e) ELSE 0
(* A process's queue with one completion at n1 and one at n2.                *)
Longer(m, n, q, e) == IF n = m THEN Append(q, e) ELSE q
Both(q, n, n1, e1, n2, e2) == Longer(n2, n, Longer(n1, n, q, e1), e2)

(* A completion put into a queue is counted once.                            *)
LEMMA TallyAppend ==
  ASSUME NEW T, NEW q \in Seq(T), NEW ops, NEW l, NEW e
  PROVE  /\ Tally(ops, l, q) \in Nat
         /\ Tally(ops, l, Append(q, e)) = Tally(ops, l, q) + One(ops, l, e)
<1> DEFINE S == {x \in T \cup {e} : x.op \in ops /\ x.link = l}
           Q == Append(q, e)
<1>1. q \in Seq(T \cup {e}) /\ Q \in Seq(T \cup {e})
  OBVIOUS
<1>2. \A s \in Seq(T \cup {e}) : \A i \in DOMAIN s : s[i] \in T \cup {e}
  OBVIOUS
<1> HIDE DEF Q
<1>3. \A s \in Seq(T \cup {e}) : Chosen(S, s) = {i \in DOMAIN s : s[i].op \in ops /\ s[i].link = l}
  BY <1>2 DEF Chosen
<1>4. Tally(ops, l, q) = Cardinality(Chosen(S, q)) /\ Tally(ops, l, Q) = Cardinality(Chosen(S, Q))
  BY <1>1, <1>3 DEF Tally
<1>5. One(ops, l, e) = IF e \in S THEN 1 ELSE 0
  BY DEF One
<1> HIDE DEF S
<1>6. QED
  BY <1>4, <1>5, ChosenAppend DEF Q

(* A completion taken from a queue is no longer counted.                     *)
LEMMA TallyTail ==
  ASSUME NEW T, NEW q \in Seq(T), q # <<>>, NEW ops, NEW l
  PROVE  Tally(ops, l, q) = Tally(ops, l, Tail(q)) + One(ops, l, Head(q))
<1> DEFINE S == {x \in T : x.op \in ops /\ x.link = l}
<1>1. \A s \in Seq(T) : \A i \in DOMAIN s : s[i] \in T
  OBVIOUS
<1>2. \A s \in Seq(T) : Tally(ops, l, s) = Cardinality(Chosen(S, s))
  <2>1. \A s \in Seq(T) : Chosen(S, s) = {i \in DOMAIN s : s[i].op \in ops /\ s[i].link = l}
    BY <1>1 DEF Chosen
  <2>2. QED
    BY <2>1 DEF Tally
<1>3. Head(q) \in T => One(ops, l, Head(q)) = IF Head(q) \in S THEN 1 ELSE 0
  BY DEF One
<1>4. Head(q) \in T /\ Tail(q) \in Seq(T)
  BY ChosenTail
<1>5. Tally(ops, l, q) = Cardinality(Chosen(S, q)) /\ Tally(ops, l, Tail(q)) = Cardinality(Chosen(S, Tail(q)))
  BY <1>2, <1>4
<1> HIDE DEF S
<1>6. QED
  BY <1>3, <1>4, <1>5, ChosenTail

(* The same of work requests.                                                *)
LEMMA OrdersChange ==
  ASSUME NEW T, NEW q \in Seq(T), NEW op
  PROVE  /\ Orders(op, q) \in Nat
         /\ \A e : Orders(op, Append(q, e)) = Orders(op, q) + (IF e.op = op THEN 1 ELSE 0)
         /\ q # <<>> => Orders(op, q) = Orders(op, Tail(q)) + (IF Head(q).op = op THEN 1 ELSE 0)
                        /\ Orders(op, Tail(q)) \in Nat
<1>1. ASSUME NEW U, NEW s \in Seq(U)
      PROVE  Orders(op, s) = Cardinality(Chosen({x \in U : x.op = op}, s))
  <2>1. \A i \in DOMAIN s : s[i] \in U
    OBVIOUS
  <2>2. Chosen({x \in U : x.op = op}, s) = {i \in DOMAIN s : s[i].op = op}
    BY <2>1 DEF Chosen
  <2>3. QED
    BY <2>2 DEF Orders
<1>2. ASSUME NEW e PROVE Orders(op, Append(q, e)) = Orders(op, q) + (IF e.op = op THEN 1 ELSE 0)
  <2> DEFINE S == {x \in T \cup {e} : x.op = op}
             Q == Append(q, e)
  <2>1. q \in Seq(T \cup {e}) /\ Q \in Seq(T \cup {e}) /\ (e \in S <=> e.op = op)
    OBVIOUS
  <2> HIDE DEF Q
  <2>2. Orders(op, q) = Cardinality(Chosen(S, q)) /\ Orders(op, Q) = Cardinality(Chosen(S, Q))
    BY <1>1, <2>1
  <2> HIDE DEF S
  <2>3. QED
    BY <2>1, <2>2, ChosenAppend DEF Q
<1>3. ASSUME NEW s \in Seq(T) PROVE Orders(op, s) \in Nat
  <2> DEFINE S == {x \in T : x.op = op}
  <2>1. Orders(op, s) = Cardinality(Chosen(S, s))
    BY <1>1
  <2> HIDE DEF S
  <2>2. QED
    BY <2>1, ChosenAppend
<1>4. ASSUME q # <<>> PROVE Orders(op, q) = Orders(op, Tail(q)) + (IF Head(q).op = op THEN 1 ELSE 0)
  <2> DEFINE S == {x \in T : x.op = op}
  <2>1. Head(q) \in T /\ Tail(q) \in Seq(T)
    BY <1>4, ChosenTail
  <2>2. Head(q) \in S <=> Head(q).op = op
    BY <2>1
  <2>3. Orders(op, q) = Cardinality(Chosen(S, q)) /\ Orders(op, Tail(q)) = Cardinality(Chosen(S, Tail(q)))
    BY <1>1, <2>1
  <2> HIDE DEF S
  <2>4. QED
    BY <1>4, <2>2, <2>3, ChosenTail
<1>5. QED
  <2>1. q # <<>> => Tail(q) \in Seq(T)
    BY ChosenTail
  <2>2. QED
    BY <1>2, <1>3, <1>4, <2>1

(* A queue without completions of a link counts none.                        *)
LEMMA TallyNone ==
  ASSUME NEW ops, NEW l, NEW q, \A i \in DOMAIN q : q[i].link # l
  PROVE  Tally(ops, l, q) = 0
<1>1. {i \in DOMAIN q : q[i].op \in ops /\ q[i].link = l} = {}
  OBVIOUS
<1>2. QED
  BY <1>1, FS_EmptySet DEF Tally

(* The receives of a link that wait for a request, and the requests that     *)
(* have come in, are as many as were posted.                                 *)
Quiet(l) ==
  /\ \A t \in Thread : Via[t] = l => thread[t].pc = "idle"
  /\ out[l].sq = <<>> /\ inc[l].sq = <<>>
  /\ \A n \in Proc : \A i \in DOMAIN node[n].cq : node[n].cq[i].link # l
Announcing == {"recv start", "written"}
Replying == {"recv reply"}
AtTarget(l) == Tally(Announcing, l, node[l.dst].cq)
AtSource(l) == Tally(Replying, l, node[l.src].cq)
ReceivesAt(l) ==
  /\ out[l].status # "connected" => Quiet(l)
  /\ out[l].status = "rejected" => out[l].rejects # 0
  /\ inc[l].rx \in Nat /\ out[l].rx \in Nat
  /\ inc[l].rx + AtTarget(l) = IF out[l].status \in {"accepted", "connected"} THEN RxDepth ELSE 0
  /\ out[l].rx + AtSource(l) =
       IF out[l].status \in {"idle", "connecting"} /\ out[l].rejects = 0 THEN 0 ELSE RxDepth
Receives == \A l \in Link : ReceivesAt(l)

(* A link keeps its receives when a step moves as many into completions as   *)
(* it takes from those that wait.                                            *)
LEMMA ReceivesStep ==
  ASSUME NEW l \in Link, ReceivesAt(l),
         out'[l].status = out[l].status, out'[l].rejects = out[l].rejects,
         inc'[l].rx \in Nat, out'[l].rx \in Nat,
         inc'[l].rx + AtTarget(l)' = inc[l].rx + AtTarget(l),
         out'[l].rx + AtSource(l)' = out[l].rx + AtSource(l),
         out[l].status # "connected" => Quiet(l)'
  PROVE  ReceivesAt(l)'
BY DEF ReceivesAt

(* No link has receives before it begins to connect.                         *)
LEMMA ReceivesInit == ASSUME RdmaAssumption, Init PROVE Receives
<1> SUFFICES ASSUME NEW l \in Link PROVE ReceivesAt(l)
  BY DEF Receives
<1>1. l.src \in Proc /\ l.dst \in Proc
  BY DEF RdmaAssumption
<1>2. \A n \in Proc : node[n].cq = <<>>
  BY DEF Init, InitContext
<1>3. AtTarget(l) = 0 /\ AtSource(l) = 0
  <2>1. \A ops : Tally(ops, l, <<>>) = 0
    BY TallyNone
  <2>2. QED
    BY <1>1, <1>2, <2>1 DEF AtTarget, AtSource
<1>4. Quiet(l)
  BY <1>2 DEF Init, Quiet, Endpoint, IncomingEndpoint
<1>5. QED
  BY <1>3, <1>4 DEF ReceivesAt, Init, Endpoint, IncomingEndpoint

(* Steps that complete nothing and take no completion.                       *)
LEMMA ReceivesQueuesKept ==
  ASSUME RdmaAssumption, Receives, UNCHANGED inc,
         \A n \in Proc : node'[n].cq = node[n].cq,
         \A l \in Link : /\ out'[l].status = out[l].status /\ out'[l].rejects = out[l].rejects
                         /\ out'[l].rx = out[l].rx
                         /\ \/ out[l].status = "connected"
                            \/ /\ out'[l].sq = out[l].sq
                               /\ \A t \in Thread : Via[t] = l => thread'[t].pc = thread[t].pc
  PROVE  Receives'
<1> SUFFICES ASSUME NEW l \in Link PROVE ReceivesAt(l)'
  BY DEF Receives
<1>1. ReceivesAt(l) /\ l.src \in Proc /\ l.dst \in Proc
  BY DEF Receives, RdmaAssumption
<1>2. AtTarget(l)' = AtTarget(l) /\ AtSource(l)' = AtSource(l)
  BY <1>1 DEF AtTarget, AtSource
<1>3. out[l].status # "connected" => Quiet(l)'
  <2> SUFFICES ASSUME out[l].status # "connected" PROVE Quiet(l)'
    OBVIOUS
  <2>1. Quiet(l)
    BY <1>1 DEF ReceivesAt
  <2>2. /\ \A t \in Thread : Via[t] = l => thread'[t].pc = "idle"
        /\ out'[l].sq = <<>> /\ inc'[l].sq = <<>>
    BY <2>1 DEF Quiet
  <2>3. ASSUME NEW n \in Proc, NEW i \in DOMAIN node'[n].cq PROVE node'[n].cq[i].link # l
    <3>1. i \in DOMAIN node[n].cq /\ node'[n].cq[i] = node[n].cq[i]
      BY <2>3
    <3>2. QED
      BY <2>1, <3>1 DEF Quiet
  <2>4. QED
    BY <2>2, <2>3 DEF Quiet
<1>4. inc'[l].rx \in Nat /\ out'[l].rx \in Nat
  BY <1>1 DEF ReceivesAt
<1>5. QED
  BY <1>1, <1>2, <1>3, <1>4, ReceivesStep

(* Connecting and handling connection events post the receives of an end     *)
(* once, and drop those of a rejected one.                                   *)
LEMMA ReceivesConnections ==
  ASSUME RdmaAssumption, Typed, Receives, NEW k \in Link, Connect(k) \/ PollEvents(k)
  PROVE  Receives'
<1> SUFFICES ASSUME NEW l \in Link PROVE ReceivesAt(l)'
  BY DEF Receives
<1>1. ReceivesAt(l) /\ l.src \in Proc /\ l.dst \in Proc /\ OutAt(l, out[l], thread) /\ IncAt(l, inc[l], thread)
      /\ Outs /\ Incs
  BY DEF Receives, RdmaAssumption, Typed, Outs, Incs
<1>2. UNCHANGED <<node, thread>>
  BY DEF Connect, PollEvents, OnRouteResolved, OnRejected, OnConnectRequest, OnConnected
<1>3. AtTarget(l)' = AtTarget(l) /\ AtSource(l)' = AtSource(l)
  BY <1>2 DEF AtTarget, AtSource
<1>4. CASE k # l
  <2>1. out'[l] = out[l] /\ inc'[l] = inc[l]
    BY <1>1, <1>4 DEF Connect, PollEvents, OnRouteResolved, OnRejected, OnConnectRequest, OnConnected, Outs, Incs
  <2>2. Quiet(l) => Quiet(l)'
    BY <1>2, <2>1 DEF Quiet
  <2>3. QED
    BY <1>1, <1>3, <2>1, <2>2 DEF ReceivesAt
<1>5. CASE k = l
  <2>1. out[l].status # "connected" /\ Quiet(l)
    BY <1>1, <1>5 DEF Connect, PollEvents, OnRouteResolved, OnRejected, OnConnectRequest, OnConnected, ReceivesAt
  <2>2. AtTarget(l) = 0 /\ AtSource(l) = 0
    BY <1>1, <2>1, TallyNone DEF Quiet, AtTarget, AtSource
  <2>3. out'[l].sq = out[l].sq /\ inc'[l].sq = inc[l].sq
    <3>1. Connect(l) \/ OnRejected(l) \/ OnConnected(l) => out'[l].sq = out[l].sq /\ inc' = inc
      BY <1>1 DEF Connect, OnRejected, OnConnected, Outs, OutAt
    <3>2. OnRouteResolved(l) => out'[l].sq = out[l].sq /\ inc' = inc
      BY <1>1 DEF OnRouteResolved, InitEndpoint, Outs, OutAt
    <3>3. OnConnectRequest(l) => out'[l].sq = out[l].sq
      BY <1>1 DEF OnConnectRequest, Outs, OutAt
    <3>4. OnConnectRequest(l) => inc'[l].sq = inc[l].sq
      BY <1>1 DEF OnConnectRequest, Incs, IncAt
    <3>5. QED
      BY <1>5, <3>1, <3>2, <3>3, <3>4 DEF PollEvents
  <2>4. Quiet(l)'
    BY <1>2, <2>1, <2>3 DEF Quiet
  <2>5. RxDepth \in Nat /\ out[l].rejects \in Nat
    BY <1>1, Constants DEF OutAt
  <2>6. CASE Connect(l)
    <3>1. out'[l].status = "connecting" /\ out'[l].rx = out[l].rx /\ out'[l].rejects = out[l].rejects
          /\ inc' = inc /\ out[l].status \in {"idle", "rejected"}
      BY <1>1, <2>6 DEF Connect, Outs, OutAt
    <3>2. QED
      BY <1>1, <1>3, <2>4, <3>1 DEF ReceivesAt
  <2>7. CASE OnRouteResolved(l)
    <3>1. out'[l].status = "requested" /\ out'[l].rx = RxDepth
          /\ inc' = inc /\ out[l].status = "connecting"
      BY <1>1, <2>7 DEF OnRouteResolved, InitEndpoint, Outs, OutAt
    <3>2. QED
      BY <1>1, <1>3, <2>2, <2>4, <2>5, <3>1 DEF ReceivesAt
  <2>8. CASE OnRejected(l)
    <3>1. out'[l].status = "rejected" /\ out'[l].rx = out[l].rx /\ out'[l].rejects = out[l].rejects + 1
          /\ inc' = inc /\ out[l].status = "requested"
      BY <1>1, <2>8 DEF OnRejected, Outs, OutAt
    <3>2. QED
      BY <1>1, <1>3, <2>4, <2>5, <3>1 DEF ReceivesAt
  <2>9. CASE OnConnectRequest(l)
    <3>1. out'[l].status = "accepted" /\ out'[l].rx = out[l].rx
          /\ inc'[l].rx = RxDepth /\ out[l].status = "requested"
      BY <1>1, <2>9 DEF OnConnectRequest, Outs, OutAt, Incs, IncAt
    <3>2. QED
      BY <1>1, <1>3, <2>2, <2>4, <2>5, <3>1 DEF ReceivesAt
  <2>10. CASE OnConnected(l)
    <3>1. out'[l].status = "connected" /\ out'[l].rx = out[l].rx
          /\ inc' = inc /\ out[l].status = "accepted"
      BY <1>1, <2>10 DEF OnConnected, Outs, OutAt
    <3>2. QED
      BY <1>1, <1>3, <3>1 DEF ReceivesAt
  <2>11. QED
    BY <1>5, <2>6, <2>7, <2>8, <2>9, <2>10 DEF PollEvents
<1>6. QED
  BY <1>4, <1>5

(* A sending thread changes no completion queue.                             *)
LEMMA SendQueues ==
  ASSUME RdmaAssumption, Typed, NEW t \in Thread, Send(t)
  PROVE  \A n \in Proc : node'[n].cq = node[n].cq
<1> DEFINE l == Via[t]
<1>1. Nodes /\ l \in Link /\ l.src \in Proc
  BY DEF Typed, RdmaAssumption
<1>2. CASE Prepare(t)
  <2>1. \E x, y : node' = [node EXCEPT ![l.src].pool = x, ![l.src].mr = y]
    BY <1>1, <1>2 DEF Prepare, Nodes, NodeAt
  <2>2. QED
    BY <1>1, <2>1 DEF Nodes, NodeAt
<1>3. CASE UNCHANGED node
  BY <1>3
<1>4. QED
  BY <1>2, <1>3 DEF Send, TakeWriteContext, PostStart

(* A sending thread changes no receive.                                      *)
LEMMA ReceivesSend ==
  ASSUME RdmaAssumption, Typed, Receives, NEW t \in Thread, Send(t)
  PROVE  Receives'
<1> DEFINE l == Via[t]
<1>1. Nodes /\ Outs /\ Threads /\ l \in Link /\ OutAt(l, out[l], thread) /\ l.src \in Proc
      /\ ThreadAt(t, thread[t])
  BY DEF Typed, RdmaAssumption, Outs, Threads
<1>2. UNCHANGED inc /\ \A k \in Thread \ {t} : thread'[k] = thread[k]
  BY <1>1 DEF Send, Prepare, TakeWriteContext, PostStart, Threads
<1>3. out[l].status = "connected"
  <2>1. Prepare(t) => out[l].status = "connected"
    BY DEF Prepare
  <2>2. TakeWriteContext(t) \/ PostStart(t) => thread[t].pc # "idle"
    BY DEF TakeWriteContext, PostStart
  <2>3. ReceivesAt(l)
    BY <1>1 DEF Receives
  <2>4. QED
    BY <1>1, <2>1, <2>2, <2>3 DEF Send, ReceivesAt, Quiet
<1>4. \A n \in Proc : node'[n].cq = node[n].cq
  BY SendQueues
<1>5. \A k \in Link : /\ out'[k].status = out[k].status /\ out'[k].rejects = out[k].rejects
                      /\ out'[k].rx = out[k].rx /\ (k # l => out'[k].sq = out[k].sq)
  <2>1. Prepare(t) => out' = out
    BY DEF Prepare
  <2>2. TakeWriteContext(t) => out' = [out EXCEPT ![l].write = Tail(@)]
    BY DEF TakeWriteContext
  <2>3. PostStart(t) => /\ out'[l].status = out[l].status /\ out'[l].rejects = out[l].rejects
                        /\ out'[l].rx = out[l].rx /\ \A k \in Link \ {l} : out'[k] = out[k]
    BY <1>1 DEF PostStart, Outs, OutAt
  <2> HIDE DEF l
  <2>4. CASE out' = out
    BY <2>4
  <2>5. CASE out' = [out EXCEPT ![l].write = Tail(@)]
    BY <1>1, <2>5 DEF Outs, OutAt
  <2>7. QED
    BY <2>1, <2>2, <2>3, <2>4, <2>5 DEF Send
<1>6. QED
  BY <1>1, <1>2, <1>3, <1>4, <1>5, ReceivesQueuesKept

(* Binding, stopping, taking a message and releasing a block change no       *)
(* completion queue and nothing but the process.                             *)
LEMMA OwnQueues ==
  ASSUME Typed, NEW n \in Proc, Bind(n) \/ PollError(n) \/ RecvMsg(n) \/ Release(n)
  PROVE  UNCHANGED <<out, inc, thread, bufs>> /\ \A k \in Proc : node'[k].cq = node[k].cq
<1>1. Nodes /\ NodeAt(n, node[n], thread, out)
  BY DEF Typed, Nodes
<1>2. UNCHANGED <<out, inc, thread, bufs>>
  BY DEF Bind, PollError, RecvMsg, Release
<1>3. \A k \in Proc : node'[k].cq = node[k].cq
  <2>1. Bind(n) => node' = [node EXCEPT ![n].listening = TRUE]
    BY DEF Bind
  <2>2. PollError(n) => node' = [node EXCEPT ![n].ended = "wc.status"]
    BY DEF PollError, Fail
  <2>3. CASE RecvMsg(n)
    <3> DEFINE s == node[n]
               r == node'[n]
    <3>1. r.cq = s.cq /\ \A k \in Proc \ {n} : node'[k] = node[k]
      BY <1>1, <2>3 DEF RecvMsg, Nodes, NodeAt
    <3>2. QED
      BY <3>1
  <2>4. Release(n) => \E x, y : node' = [node EXCEPT ![n].blocks = x, ![n].pool = y]
    BY DEF Release
  <2>5. CASE node' = [node EXCEPT ![n].listening = TRUE]
    BY <1>1, <2>5 DEF Nodes, NodeAt
  <2>6. CASE node' = [node EXCEPT ![n].ended = "wc.status"]
    BY <1>1, <2>6 DEF Nodes, NodeAt
  <2>8. CASE \E x, y : node' = [node EXCEPT ![n].blocks = x, ![n].pool = y]
    BY <1>1, <2>8 DEF Nodes, NodeAt
  <2>9. QED
    BY <2>1, <2>2, <2>3, <2>4, <2>5, <2>6, <2>8
<1>4. QED
  BY <1>2, <1>3

(* So they change no receive.                                                *)
LEMMA ReceivesOwn ==
  ASSUME RdmaAssumption, Typed, Receives, NEW n \in Proc,
         Bind(n) \/ PollError(n) \/ RecvMsg(n) \/ Release(n)
  PROVE  Receives'
BY OwnQueues, ReceivesQueuesKept

(* Steps that change one link at work, complete requests of that link or     *)
(* take its completions.                                                     *)
LEMMA ReceivesOneLink ==
  ASSUME Receives, NEW l \in Link, out[l].status = "connected", UNCHANGED thread,
         \A k \in Link \ {l} : out'[k] = out[k] /\ inc'[k] = inc[k],
         out'[l].status = out[l].status, out'[l].rejects = out[l].rejects,
         \A n \in Proc : \A i \in DOMAIN node'[n].cq :
            \/ node'[n].cq[i].link = l
            \/ \E j \in DOMAIN node[n].cq : node[n].cq[j] = node'[n].cq[i],
         \A k \in Link \ {l} : AtTarget(k)' = AtTarget(k) /\ AtSource(k)' = AtSource(k),
         inc'[l].rx \in Nat, out'[l].rx \in Nat,
         inc'[l].rx + AtTarget(l)' = inc[l].rx + AtTarget(l),
         out'[l].rx + AtSource(l)' = out[l].rx + AtSource(l)
  PROVE  Receives'
<1>1. ReceivesAt(l)'
  <2>1. ReceivesAt(l)
    BY DEF Receives
  <2>2. QED
    BY <2>1, ReceivesStep
<1>2. ASSUME NEW k \in Link \ {l} PROVE ReceivesAt(k)'
  <2>1. ReceivesAt(k)
    BY DEF Receives
  <2>2. out[k].status # "connected" => Quiet(k)'
    <3> SUFFICES ASSUME out[k].status # "connected" PROVE Quiet(k)'
      OBVIOUS
    <3>1. Quiet(k)
      BY <2>1 DEF ReceivesAt
    <3>2. /\ \A t \in Thread : Via[t] = k => thread'[t].pc = "idle"
          /\ out'[k].sq = <<>> /\ inc'[k].sq = <<>>
      BY <3>1 DEF Quiet
    <3>3. ASSUME NEW n \in Proc, NEW i \in DOMAIN node'[n].cq PROVE node'[n].cq[i].link # k
      BY <3>1, <3>3 DEF Quiet
    <3>4. QED
      BY <3>2, <3>3 DEF Quiet
  <2>3. out'[k] = out[k] /\ inc'[k] = inc[k] /\ AtTarget(k)' = AtTarget(k) /\ AtSource(k)' = AtSource(k)
    OBVIOUS
  <2>4. QED
    BY <2>1, <2>2, <2>3 DEF ReceivesAt
<1>3. QED
  BY <1>1, <1>2 DEF Receives

(* A link with a work request or a completion is connected.                  *)
LEMMA Working ==
  ASSUME Receives, NEW l \in Link,
         \/ out[l].sq # <<>> \/ inc[l].sq # <<>>
         \/ \E n \in Proc : \E i \in DOMAIN node[n].cq : node[n].cq[i].link = l
  PROVE  out[l].status = "connected" /\ ReceivesAt(l)
BY DEF Receives, ReceivesAt, Quiet

(* A queue with a completion more.                                           *)
LEMMA LongerTyped ==
  \A T, e, m, n : \A q \in Seq(T) : Longer(m, n, q, e) \in Seq(T \cup {e})
BY DEF Longer

(* A queue that grows when its process is the one meant counts the           *)
(* completion just then.                                                     *)
LEMMA LongerTally ==
  ASSUME NEW T, NEW q \in Seq(T), NEW e, NEW m, NEW n, NEW ops, NEW l
  PROVE  /\ Tally(ops, l, q) \in Nat
         /\ Tally(ops, l, Longer(m, n, q, e)) = Tally(ops, l, q) + Gain(m, n, ops, l, e)
<1>1. Tally(ops, l, q) \in Nat
  BY TallyAppend
<1>2. CASE n = m
  <2>1. Tally(ops, l, Append(q, e)) = Tally(ops, l, q) + One(ops, l, e)
    BY TallyAppend
  <2>2. QED
    BY <1>1, <1>2, <2>1 DEF Longer, Gain
<1>3. CASE n # m
  BY <1>1, <1>3 DEF Longer, Gain
<1>4. QED
  BY <1>2, <1>3

(* The completions in it are those of before and the new one.                *)
LEMMA LongerHolds ==
  ASSUME NEW T, NEW q \in Seq(T), NEW e, NEW m, NEW n, NEW i \in DOMAIN Longer(m, n, q, e)
  PROVE  Longer(m, n, q, e)[i] = e \/ \E j \in DOMAIN q : q[j] = Longer(m, n, q, e)[i]
<1>1. CASE n = m
  <2>1. \A k \in DOMAIN Append(q, e) : Append(q, e)[k] = e \/ \E j \in DOMAIN q : q[j] = Append(q, e)[k]
    OBVIOUS
  <2>2. Longer(m, n, q, e) = Append(q, e)
    BY <1>1 DEF Longer
  <2>3. QED
    BY <2>1, <2>2
<1>2. CASE n # m
  BY <1>2 DEF Longer
<1>3. QED
  BY <1>1, <1>2

(* The queues after a carried request: what they gain are two completions.   *)
LEMMA BothTally ==
  ASSUME NEW T, NEW q \in Seq(T), NEW n, NEW n1, NEW n2, NEW e1, NEW e2, NEW ops, NEW l
  PROVE  /\ Tally(ops, l, q) \in Nat
         /\ Tally(ops, l, Both(q, n, n1, e1, n2, e2)) =
              Tally(ops, l, q) + Gain(n1, n, ops, l, e1) + Gain(n2, n, ops, l, e2)
<1>1. PICK r : r = Longer(n1, n, q, e1)
  OBVIOUS
<1>2. /\ r \in Seq(T \cup {e1}) /\ Tally(ops, l, q) \in Nat
      /\ Tally(ops, l, r) = Tally(ops, l, q) + Gain(n1, n, ops, l, e1)
  BY <1>1, LongerTally, LongerTyped
<1>3. Both(q, n, n1, e1, n2, e2) = Longer(n2, n, r, e2)
  BY <1>1 DEF Both
<1>4. /\ Tally(ops, l, r) \in Nat
      /\ Tally(ops, l, Longer(n2, n, r, e2)) = Tally(ops, l, r) + Gain(n2, n, ops, l, e2)
  <2>1. PICK U : r \in Seq(U)
    BY <1>2
  <2>2. QED
    BY <2>1, LongerTally
<1>5. QED
  BY <1>2, <1>3, <1>4

(* A queue that two completions may have been put into holds those and the   *)
(* ones it held.                                                             *)
LEMMA BothHolds ==
  ASSUME NEW T, NEW q \in Seq(T), NEW n, NEW n1, NEW n2, NEW e1, NEW e2,
         NEW i \in DOMAIN Both(q, n, n1, e1, n2, e2)
  PROVE  \/ Both(q, n, n1, e1, n2, e2)[i] \in {e1, e2}
         \/ \E j \in DOMAIN q : q[j] = Both(q, n, n1, e1, n2, e2)[i]
<1>1. PICK r, s : r = Longer(n1, n, q, e1) /\ s = Longer(n2, n, r, e2)
  OBVIOUS
<1>2. s = Both(q, n, n1, e1, n2, e2) /\ i \in DOMAIN s
  BY <1>1 DEF Both
<1>3. r \in Seq(T \cup {e1})
  BY <1>1, LongerTyped
<1>4. s[i] = e2 \/ \E j \in DOMAIN r : r[j] = s[i]
  <2>1. PICK U : r \in Seq(U)
    BY <1>3
  <2>2. i \in DOMAIN Longer(n2, n, r, e2)
    BY <1>1, <1>2
  <2>3. Longer(n2, n, r, e2)[i] = e2 \/ \E j \in DOMAIN r : r[j] = Longer(n2, n, r, e2)[i]
    BY <2>1, <2>2, LongerHolds
  <2>4. QED
    BY <1>1, <2>3
<1>5. \A k \in DOMAIN r : r[k] = e1 \/ \E j \in DOMAIN q : q[j] = r[k]
  BY <1>1, LongerHolds
<1>6. QED
  BY <1>2, <1>4, <1>5

(* A step that completes a request of a link at two processes.               *)
Completes(l, n1, e1, n2, e2) ==
  /\ e1.link = l /\ e2.link = l
  /\ \A n \in Proc : node'[n].cq = Both(node[n].cq, n, n1, e1, n2, e2)

(* After a carried request every completion is an old one or the link's.     *)
LEMMA HoldsAdded ==
  ASSUME Typed, NEW l, NEW n1, NEW n2, NEW e1, NEW e2, Completes(l, n1, e1, n2, e2),
         NEW n \in Proc, NEW i \in DOMAIN node'[n].cq
  PROVE  node'[n].cq[i].link = l \/ \E j \in DOMAIN node[n].cq : node[n].cq[j] = node'[n].cq[i]
<1>1. PICK q, T : q = node[n].cq /\ q \in Seq(T)
  BY DEF Typed, Nodes, NodeAt
<1>2. /\ i \in DOMAIN Both(q, n, n1, e1, n2, e2) /\ node'[n].cq = Both(q, n, n1, e1, n2, e2)
      /\ e1.link = l /\ e2.link = l
  BY <1>1 DEF Completes
<1>3. \/ Both(q, n, n1, e1, n2, e2)[i] \in {e1, e2}
      \/ \E j \in DOMAIN q : q[j] = Both(q, n, n1, e1, n2, e2)[i]
  BY <1>1, <1>2, BothHolds
<1>4. QED
  BY <1>1, <1>2, <1>3

(* The tallies of the links after it.                                        *)
LEMMA TalliesAdded ==
  ASSUME RdmaAssumption, Typed, NEW l, NEW n1, NEW n2, NEW e1, NEW e2, Completes(l, n1, e1, n2, e2),
         NEW k \in Link
  PROVE  /\ AtTarget(k) \in Nat /\ AtSource(k) \in Nat
         /\ AtTarget(k)' = AtTarget(k) + Gain(n1, k.dst, Announcing, k, e1) + Gain(n2, k.dst, Announcing, k, e2)
         /\ AtSource(k)' = AtSource(k) + Gain(n1, k.src, Replying, k, e1) + Gain(n2, k.src, Replying, k, e2)
<1>1. k.src \in Proc /\ k.dst \in Proc
  BY DEF RdmaAssumption
<1>2. PICK q, T : q = node[k.dst].cq /\ q \in Seq(T)
  BY <1>1 DEF Typed, Nodes, NodeAt
<1>3. PICK p, S : p = node[k.src].cq /\ p \in Seq(S)
  BY <1>1 DEF Typed, Nodes, NodeAt
<1>4. /\ AtTarget(k) = Tally(Announcing, k, q) /\ AtSource(k) = Tally(Replying, k, p)
      /\ AtTarget(k)' = Tally(Announcing, k, Both(q, k.dst, n1, e1, n2, e2))
      /\ AtSource(k)' = Tally(Replying, k, Both(p, k.src, n1, e1, n2, e2))
  BY <1>1, <1>2, <1>3 DEF AtTarget, AtSource, Completes
<1>5. /\ Tally(Announcing, k, q) \in Nat
      /\ Tally(Announcing, k, Both(q, k.dst, n1, e1, n2, e2)) =
           Tally(Announcing, k, q) + Gain(n1, k.dst, Announcing, k, e1) + Gain(n2, k.dst, Announcing, k, e2)
  BY <1>2, BothTally
<1>6. /\ Tally(Replying, k, p) \in Nat
      /\ Tally(Replying, k, Both(p, k.src, n1, e1, n2, e2)) =
           Tally(Replying, k, p) + Gain(n1, k.src, Replying, k, e1) + Gain(n2, k.src, Replying, k, e2)
  BY <1>3, BothTally
<1>7. QED
  BY <1>4, <1>5, <1>6

(* A request that the target has to look at, and one that the source has to. *)
LEMMA Announced ==
  ASSUME RdmaAssumption, Typed, NEW l \in Link, NEW e1, NEW e2, Completes(l, l.dst, e1, l.src, e2),
         e1.op \in Announcing, e2.op \notin Announcing \cup Replying
  PROVE  /\ \A n \in Proc : \A i \in DOMAIN node'[n].cq :
              node'[n].cq[i].link = l \/ \E j \in DOMAIN node[n].cq : node[n].cq[j] = node'[n].cq[i]
         /\ \A k \in Link : /\ AtTarget(k) \in Nat /\ AtSource(k) \in Nat
                            /\ AtTarget(k)' = AtTarget(k) + (IF k = l THEN 1 ELSE 0)
                            /\ AtSource(k)' = AtSource(k)
<1>1. \A n \in Proc : \A i \in DOMAIN node'[n].cq :
         node'[n].cq[i].link = l \/ \E j \in DOMAIN node[n].cq : node[n].cq[j] = node'[n].cq[i]
  BY HoldsAdded
<1>2. ASSUME NEW k \in Link
      PROVE  /\ AtTarget(k) \in Nat /\ AtSource(k) \in Nat
             /\ AtTarget(k)' = AtTarget(k) + (IF k = l THEN 1 ELSE 0) /\ AtSource(k)' = AtSource(k)
  <2>1. /\ Gain(l.dst, k.dst, Announcing, k, e1) = (IF k = l THEN 1 ELSE 0)
        /\ Gain(l.src, k.dst, Announcing, k, e2) = 0
        /\ Gain(l.dst, k.src, Replying, k, e1) = 0
        /\ Gain(l.src, k.src, Replying, k, e2) = 0
    BY DEF Gain, One, Completes, Announcing, Replying
  <2>2. /\ AtTarget(k) \in Nat /\ AtSource(k) \in Nat
        /\ AtTarget(k)' = AtTarget(k) + Gain(l.dst, k.dst, Announcing, k, e1)
                                      + Gain(l.src, k.dst, Announcing, k, e2)
        /\ AtSource(k)' = AtSource(k) + Gain(l.dst, k.src, Replying, k, e1)
                                      + Gain(l.src, k.src, Replying, k, e2)
    BY TalliesAdded
  <2>3. QED
    BY <2>1, <2>2
<1>3. QED
  BY <1>1, <1>2

(* The same of a reply.                                                      *)
LEMMA Replied ==
  ASSUME RdmaAssumption, Typed, NEW l \in Link, NEW e1, NEW e2, Completes(l, l.src, e1, l.dst, e2),
         e1.op \in Replying, e2.op \notin Announcing \cup Replying
  PROVE  /\ \A n \in Proc : \A i \in DOMAIN node'[n].cq :
              node'[n].cq[i].link = l \/ \E j \in DOMAIN node[n].cq : node[n].cq[j] = node'[n].cq[i]
         /\ \A k \in Link : /\ AtTarget(k) \in Nat /\ AtSource(k) \in Nat
                            /\ AtTarget(k)' = AtTarget(k)
                            /\ AtSource(k)' = AtSource(k) + (IF k = l THEN 1 ELSE 0)
<1>1. \A n \in Proc : \A i \in DOMAIN node'[n].cq :
         node'[n].cq[i].link = l \/ \E j \in DOMAIN node[n].cq : node[n].cq[j] = node'[n].cq[i]
  BY HoldsAdded
<1>2. ASSUME NEW k \in Link
      PROVE  /\ AtTarget(k) \in Nat /\ AtSource(k) \in Nat
             /\ AtTarget(k)' = AtTarget(k) /\ AtSource(k)' = AtSource(k) + (IF k = l THEN 1 ELSE 0)
  <2>1. /\ Gain(l.src, k.dst, Announcing, k, e1) = 0
        /\ Gain(l.dst, k.dst, Announcing, k, e2) = 0
        /\ Gain(l.src, k.src, Replying, k, e1) = (IF k = l THEN 1 ELSE 0)
        /\ Gain(l.dst, k.src, Replying, k, e2) = 0
    BY DEF Gain, One, Completes, Announcing, Replying
  <2>2. /\ AtTarget(k) \in Nat /\ AtSource(k) \in Nat
        /\ AtTarget(k)' = AtTarget(k) + Gain(l.src, k.dst, Announcing, k, e1)
                                      + Gain(l.dst, k.dst, Announcing, k, e2)
        /\ AtSource(k)' = AtSource(k) + Gain(l.src, k.src, Replying, k, e1)
                                      + Gain(l.dst, k.src, Replying, k, e2)
    BY TalliesAdded
  <2>3. QED
    BY <2>1, <2>2
<1>3. QED
  BY <1>1, <1>2

(* The change of both queues by CompleteBoth.                                *)
LEMMA CompletesBoth ==
  ASSUME NEW f, NEW l, NEW n1, NEW n2, NEW e1, NEW e2,
         \A n \in Proc : "cq" \in DOMAIN f[n] /\ f[n].cq = node[n].cq,
         node' = CompleteBoth(f, n1, e1, n2, e2), e1.link = l, e2.link = l
  PROVE  Completes(l, n1, e1, n2, e2)
<1>1. ASSUME NEW n \in Proc PROVE node'[n].cq = Both(node[n].cq, n, n1, e1, n2, e2)
  BY DEF CompleteBoth, Complete, Both, Longer
<1>2. QED
  BY <1>1 DEF Completes

(* A step of the network that completes a request.                           *)
LEMMA ReceivesAnnounced ==
  ASSUME RdmaAssumption, Typed, Receives, NEW l \in Link, out[l].sq # <<>>, UNCHANGED thread,
         NEW e1, NEW e2, Completes(l, l.dst, e1, l.src, e2),
         e1.op \in Announcing, e2.op \notin Announcing \cup Replying, inc[l].rx > 0,
         inc' = [inc EXCEPT ![l].rx = @ - 1], out' = [out EXCEPT ![l].sq = Tail(@)]
  PROVE  Receives'
<1>1. Outs /\ Incs /\ OutAt(l, out[l], thread) /\ IncAt(l, inc[l], thread)
  BY DEF Typed, Outs, Incs
<1>2. out[l].status = "connected" /\ ReceivesAt(l)
  BY Working
<1>3. inc[l].rx \in Nat /\ out[l].rx \in Nat
  BY <1>2 DEF ReceivesAt
<1>4. /\ \A k \in Link \ {l} : out'[k] = out[k] /\ inc'[k] = inc[k]
      /\ out'[l].rx = out[l].rx /\ out'[l].status = out[l].status /\ out'[l].rejects = out[l].rejects
  BY <1>1 DEF Outs, OutAt, Incs
<1>5. inc'[l].rx = inc[l].rx - 1
  BY <1>1 DEF Incs, IncAt
<1>6. /\ \A n \in Proc : \A i \in DOMAIN node'[n].cq :
              node'[n].cq[i].link = l \/ \E j \in DOMAIN node[n].cq : node[n].cq[j] = node'[n].cq[i]
      /\ \A k \in Link : /\ AtTarget(k) \in Nat /\ AtSource(k) \in Nat
                         /\ AtTarget(k)' = AtTarget(k) + (IF k = l THEN 1 ELSE 0)
                         /\ AtSource(k)' = AtSource(k)
  BY Announced
<1>7. \A k \in Link \ {l} : AtTarget(k)' = AtTarget(k) /\ AtSource(k)' = AtSource(k)
  BY <1>6
<1>8. AtTarget(l) \in Nat /\ AtTarget(l)' = AtTarget(l) + 1 /\ AtSource(l)' = AtSource(l)
  BY <1>6
<1>9. inc'[l].rx \in Nat /\ inc'[l].rx + AtTarget(l)' = inc[l].rx + AtTarget(l)
  <2>1. \A x, y, u, v : x \in Nat /\ y \in Nat /\ y > 0 /\ u = y - 1 /\ v = x + 1 => u \in Nat /\ u + v = y + x
    OBVIOUS
  <2>2. QED
    BY <1>3, <1>5, <1>8, <2>1
<1>10. QED
  BY <1>2, <1>3, <1>4, <1>6, <1>7, <1>8, <1>9, ReceivesOneLink

(* A reply that reaches the sender takes one of its receives and completes   *)
(* it.                                                                       *)
LEMMA ReceivesReplied ==
  ASSUME RdmaAssumption, Typed, Receives, NEW l \in Link, inc[l].sq # <<>>, UNCHANGED thread,
         NEW e1, NEW e2, Completes(l, l.src, e1, l.dst, e2),
         e1.op \in Replying, e2.op \notin Announcing \cup Replying, out[l].rx > 0,
         inc' = [inc EXCEPT ![l].sq = Tail(@)], out' = [out EXCEPT ![l].rx = @ - 1]
  PROVE  Receives'
<1>1. Outs /\ Incs /\ OutAt(l, out[l], thread) /\ IncAt(l, inc[l], thread)
  BY DEF Typed, Outs, Incs
<1>2. out[l].status = "connected" /\ ReceivesAt(l)
  BY Working
<1>3. inc[l].rx \in Nat /\ out[l].rx \in Nat
  BY <1>2 DEF ReceivesAt
<1>4. /\ \A k \in Link \ {l} : out'[k] = out[k] /\ inc'[k] = inc[k]
      /\ inc'[l].rx = inc[l].rx
  BY <1>1 DEF Outs, Incs, IncAt
<1>5. out'[l].rx = out[l].rx - 1 /\ out'[l].status = out[l].status /\ out'[l].rejects = out[l].rejects
  BY <1>1 DEF Outs, OutAt
<1>6. /\ \A n \in Proc : \A i \in DOMAIN node'[n].cq :
              node'[n].cq[i].link = l \/ \E j \in DOMAIN node[n].cq : node[n].cq[j] = node'[n].cq[i]
      /\ \A k \in Link : /\ AtTarget(k) \in Nat /\ AtSource(k) \in Nat
                         /\ AtTarget(k)' = AtTarget(k)
                         /\ AtSource(k)' = AtSource(k) + (IF k = l THEN 1 ELSE 0)
  BY Replied
<1>7. \A k \in Link \ {l} : AtTarget(k)' = AtTarget(k) /\ AtSource(k)' = AtSource(k)
  BY <1>6
<1>8. AtSource(l) \in Nat /\ AtSource(l)' = AtSource(l) + 1 /\ AtTarget(l)' = AtTarget(l)
  BY <1>6
<1>9. out'[l].rx \in Nat /\ out'[l].rx + AtSource(l)' = out[l].rx + AtSource(l)
  <2>1. \A x, y, u, v : x \in Nat /\ y \in Nat /\ y > 0 /\ u = y - 1 /\ v = x + 1 => u \in Nat /\ u + v = y + x
    OBVIOUS
  <2>2. QED
    BY <1>3, <1>5, <1>8, <2>1
<1>10. QED
  BY <1>2, <1>3, <1>4, <1>5, <1>6, <1>7, <1>8, <1>9, ReceivesOneLink

(* A failed write is only reported to its source.                            *)
LEMMA ReceivesFailed ==
  ASSUME RdmaAssumption, Typed, Receives, NEW l \in Link, out[l].sq # <<>>, UNCHANGED <<inc, thread>>,
         NEW e, e.link = l, e.op \notin Announcing \cup Replying,
         node' = [node EXCEPT ![l.src] = Complete(@, e)], out' = [out EXCEPT ![l].sq = Tail(@)]
  PROVE  Receives'
<1>1. Nodes /\ Outs /\ OutAt(l, out[l], thread) /\ l.src \in Proc
  BY DEF Typed, Outs, RdmaAssumption
<1>2. out[l].status = "connected" /\ ReceivesAt(l)
  BY Working
<1>3. /\ \A k \in Link \ {l} : out'[k] = out[k] /\ inc'[k] = inc[k]
      /\ out'[l].rx = out[l].rx /\ out'[l].status = out[l].status /\ out'[l].rejects = out[l].rejects
      /\ inc' = inc
  BY <1>1 DEF Outs, OutAt
<1>4. PICK q, T : q = node[l.src].cq /\ q \in Seq(T)
  BY <1>1 DEF Nodes, NodeAt
<1>5. /\ node'[l.src].cq = Append(q, e)
      /\ \A n \in Proc \ {l.src} : node'[n] = node[n]
  BY <1>1, <1>4 DEF Complete, Nodes, NodeAt
<1>6. \A n \in Proc : \A i \in DOMAIN node'[n].cq :
         node'[n].cq[i].link = l \/ \E j \in DOMAIN node[n].cq : node[n].cq[j] = node'[n].cq[i]
  <2>1. \A i \in DOMAIN Append(q, e) : Append(q, e)[i] = e \/ \E j \in DOMAIN q : q[j] = Append(q, e)[i]
    BY <1>4
  <2>2. \A i \in DOMAIN node'[l.src].cq :
           node'[l.src].cq[i].link = l \/ \E j \in DOMAIN node[l.src].cq : node[l.src].cq[j] = node'[l.src].cq[i]
    <3>1. PICK s : s = Append(q, e)
      OBVIOUS
    <3>2. \A i \in DOMAIN s : s[i].link = l \/ \E j \in DOMAIN q : q[j] = s[i]
      BY <2>1, <3>1
    <3>3. node'[l.src].cq = s /\ node[l.src].cq = q
      BY <1>4, <1>5, <3>1
    <3>4. QED
      BY <3>2, <3>3
  <2>3. QED
    BY <1>5, <2>2
<1>7. \A k \in Link : Tally(Announcing, k, node'[k.dst].cq) = Tally(Announcing, k, node[k.dst].cq)
                      /\ Tally(Replying, k, node'[k.src].cq) = Tally(Replying, k, node[k.src].cq)
  <2>1. ASSUME NEW k, NEW ops \in {Announcing, Replying}
        PROVE  Tally(ops, k, Append(q, e)) = Tally(ops, k, q)
    <3>1. One(ops, k, e) = 0
      BY DEF One
    <3>2. Tally(ops, k, q) \in Nat /\ Tally(ops, k, Append(q, e)) = Tally(ops, k, q) + One(ops, k, e)
      BY <1>4, TallyAppend
    <3>3. QED
      BY <3>1, <3>2
  <2>2. QED
    BY <1>4, <1>5, <2>1 DEF RdmaAssumption
<1>8. \A k \in Link : AtTarget(k)' = AtTarget(k) /\ AtSource(k)' = AtSource(k)
  BY <1>7 DEF AtTarget, AtSource
<1>9. inc'[l].rx \in Nat /\ out'[l].rx \in Nat
  BY <1>2, <1>3 DEF ReceivesAt
<1>10. /\ inc'[l].rx + AtTarget(l)' = inc[l].rx + AtTarget(l)
       /\ out'[l].rx + AtSource(l)' = out[l].rx + AtSource(l)
  BY <1>3, <1>8
<1>11. \A k \in Link \ {l} : AtTarget(k)' = AtTarget(k) /\ AtSource(k)' = AtSource(k)
  BY <1>8
<1>12. QED
  BY <1>2, <1>3, <1>6, <1>9, <1>10, <1>11, ReceivesOneLink

(* The wire takes one receive of an end for each completion of a receive it  *)
(* makes.                                                                    *)
LEMMA ReceivesCarry ==
  ASSUME RdmaAssumption, Typed, Receives, NEW l \in Link, Carry(l)
  PROVE  Receives'
<1>1. \A n \in Proc : "cq" \in DOMAIN node[n] /\ node[n].cq = node[n].cq
  BY DEF Typed, Nodes, NodeAt
<1>2. CASE CarryStart(l)
  <2> DEFINE w == Head(out[l].sq)
             e1 == [op |-> "recv start", link |-> l, msg |-> out[l].startBuf[w.ctx]]
             e2 == [op |-> "sent start", link |-> l, ctx |-> w.ctx]
  <2>1. /\ node' = CompleteBoth(node, l.dst, e1, l.src, e2)
        /\ out[l].sq # <<>> /\ UNCHANGED thread /\ inc[l].rx > 0
        /\ inc' = [inc EXCEPT ![l].rx = @ - 1] /\ out' = [out EXCEPT ![l].sq = Tail(@)]
    BY <1>2 DEF CarryStart
  <2>2. /\ e1.link = l /\ e2.link = l
        /\ e1.op \in Announcing /\ e2.op \notin Announcing \cup Replying
    BY DEF Announcing, Replying
  <2> HIDE DEF e1, e2
  <2>3. Completes(l, l.dst, e1, l.src, e2)
    BY <1>1, <2>1, <2>2, CompletesBoth
  <2>4. QED
    BY <2>1, <2>2, <2>3, ReceivesAnnounced
<1>3. CASE CarryWrite(l)
  <2> DEFINE w == Head(out[l].sq)
             e1 == [op |-> "written", link |-> l, idx |-> w.idx]
             e2 == [op |-> "wrote", link |-> l, ctx |-> w.ctx]
             e3 == [op |-> "error", link |-> l]
             f == [node EXCEPT ![l.dst].mem = Put(@, w.to, w.msg)]
  <2>1. /\ out[l].sq # <<>> /\ UNCHANGED thread /\ out' = [out EXCEPT ![l].sq = Tail(@)]
        /\ \/ /\ inc[l].rx > 0 /\ inc' = [inc EXCEPT ![l].rx = @ - 1]
              /\ node' = CompleteBoth(f, l.dst, e1, l.src, e2)
           \/ inc' = inc /\ node' = [node EXCEPT ![l.src] = Complete(@, e3)]
    BY <1>3 DEF CarryWrite
  <2>2. /\ e1.link = l /\ e2.link = l /\ e3.link = l /\ e3.op \notin Announcing \cup Replying
        /\ e1.op \in Announcing /\ e2.op \notin Announcing \cup Replying
    BY DEF Announcing, Replying
  <2>3. \A n \in Proc : "cq" \in DOMAIN f[n] /\ f[n].cq = node[n].cq
    BY DEF Typed, Nodes, NodeAt
  <2> HIDE DEF e1, e2, e3, f
  <2>4. CASE /\ inc[l].rx > 0 /\ inc' = [inc EXCEPT ![l].rx = @ - 1]
             /\ node' = CompleteBoth(f, l.dst, e1, l.src, e2)
    <3>1. Completes(l, l.dst, e1, l.src, e2)
      BY <2>2, <2>3, <2>4, CompletesBoth
    <3>2. QED
      BY <2>1, <2>2, <2>4, <3>1, ReceivesAnnounced
  <2>5. CASE inc' = inc /\ node' = [node EXCEPT ![l.src] = Complete(@, e3)]
    BY <2>1, <2>2, <2>5, ReceivesFailed
  <2>6. QED
    BY <2>1, <2>4, <2>5
<1>4. CASE CarryReply(l)
  <2> DEFINE w == Head(inc[l].sq)
             e1 == [op |-> "recv reply", link |-> l, reply |-> inc[l].replyBuf[w.ctx]]
             e2 == [op |-> "sent reply", link |-> l, ctx |-> w.ctx]
  <2>1. /\ node' = CompleteBoth(node, l.src, e1, l.dst, e2)
        /\ inc[l].sq # <<>> /\ UNCHANGED thread /\ out[l].rx > 0
        /\ inc' = [inc EXCEPT ![l].sq = Tail(@)] /\ out' = [out EXCEPT ![l].rx = @ - 1]
    BY <1>4 DEF CarryReply
  <2>2. /\ e1.link = l /\ e2.link = l
        /\ e1.op \in Replying /\ e2.op \notin Announcing \cup Replying
    BY DEF Announcing, Replying
  <2> HIDE DEF e1, e2
  <2>3. Completes(l, l.src, e1, l.dst, e2)
    BY <1>1, <2>1, <2>2, CompletesBoth
  <2>4. QED
    BY <2>1, <2>2, <2>3, ReceivesReplied
<1>5. QED
  BY <1>2, <1>3, <1>4 DEF Carry

(* A completion is taken off its queue.                                      *)
Takes(n, e) ==
  /\ node[n].cq # <<>> /\ e = Head(node[n].cq)
  /\ node'[n].cq = Tail(node[n].cq) /\ \A k \in Proc \ {n} : node'[k] = node[k]

(* A completion of a receive is at the end of the link it is for.            *)
LEMMA ReceiveEnds ==
  \A n, th, o : \A e \in EventAt(n, th, o) :
    /\ e.link \in Link
    /\ e.op \in Announcing => e.link.dst = n
    /\ e.op \in Replying => e.link.src = n
<1>1. ASSUME NEW n, NEW th, NEW o, NEW e \in EventAt(n, th, o), e.op = "recv reply" PROVE e.link.src = n
  BY <1>1, EventEnds
<1>2. ASSUME NEW n, NEW th, NEW o, NEW e \in EventAt(n, th, o), e.op \in Announcing PROVE e.link.dst = n
  BY <1>2, EventEnds DEF Announcing
<1>3. \A n, th, o : \A e \in EventAt(n, th, o) : e.link \in Link
  BY EventFacts
<1>4. QED
  BY <1>1, <1>2, <1>3 DEF Replying

(* What is known of the links then: a completion that counts has gone.       *)
LEMMA Taken ==
  ASSUME RdmaAssumption, Typed, Receives, NEW n \in Proc, NEW e, Takes(n, e)
  PROVE  /\ e.link \in Link /\ out[e.link].status = "connected" /\ ReceivesAt(e.link)
         /\ \A i \in Proc : \A j \in DOMAIN node'[i].cq : \E h \in DOMAIN node[i].cq : node[i].cq[h] = node'[i].cq[j]
         /\ \A k \in Link : /\ AtTarget(k)' \in Nat /\ AtSource(k)' \in Nat
                            /\ AtTarget(k) = AtTarget(k)' + One(Announcing, k, e)
                            /\ AtSource(k) = AtSource(k)' + One(Replying, k, e)
<1> DEFINE T == EventAt(n, thread, out)
<1>1. PICK q : q = node[n].cq /\ q \in Seq(T) /\ q # <<>> /\ e = Head(q)
  BY DEF Typed, Nodes, NodeAt, Takes
<1>2. /\ e \in T /\ Tail(q) \in Seq(T) /\ e = q[1] /\ 1 \in DOMAIN q
      /\ \A j \in DOMAIN Tail(q) : j + 1 \in DOMAIN q /\ Tail(q)[j] = q[j + 1]
  <2> HIDE DEF T
  <2>1. QED
    BY <1>1
<1>3. /\ e.link \in Link
      /\ e.op \in Announcing => e.link.dst = n
      /\ e.op \in Replying => e.link.src = n
  <2>1. e \in EventAt(n, thread, out)
    BY <1>2
  <2>2. QED
    BY <2>1, ReceiveEnds
<1> HIDE DEF T
<1>4. out[e.link].status = "connected" /\ ReceivesAt(e.link)
  BY <1>1, <1>2, <1>3, Working
<1>5. node'[n].cq = Tail(q) /\ \A k \in Proc \ {n} : node'[k] = node[k]
  BY <1>1 DEF Takes
<1>6. \A i \in Proc : \A j \in DOMAIN node'[i].cq : \E h \in DOMAIN node[i].cq : node[i].cq[h] = node'[i].cq[j]
  <2>1. \A j \in DOMAIN node'[n].cq : \E h \in DOMAIN node[n].cq : node[n].cq[h] = node'[n].cq[j]
    BY <1>1, <1>2, <1>5
  <2>2. QED
    BY <1>5, <2>1
<1>7. ASSUME NEW ops, NEW k
      PROVE  /\ Tally(ops, k, Tail(q)) \in Nat
             /\ Tally(ops, k, q) = Tally(ops, k, Tail(q)) + One(ops, k, e)
  <2>1. Tally(ops, k, q) = Tally(ops, k, Tail(q)) + One(ops, k, e)
    BY <1>1, TallyTail
  <2>2. Tally(ops, k, Tail(q)) \in Nat
    BY <1>2, TallyAppend
  <2>3. QED
    BY <2>1, <2>2
<1>8. ASSUME NEW k \in Link
      PROVE  /\ AtTarget(k)' \in Nat /\ AtSource(k)' \in Nat
             /\ AtTarget(k) = AtTarget(k)' + One(Announcing, k, e)
             /\ AtSource(k) = AtSource(k)' + One(Replying, k, e)
  <2>1. k.src \in Proc /\ k.dst \in Proc
    BY DEF RdmaAssumption
  <2>2. \A i \in Proc : \A ops : Tally(ops, k, node[i].cq) \in Nat
    <3>1. ASSUME NEW i \in Proc, NEW ops PROVE Tally(ops, k, node[i].cq) \in Nat
      <4>1. PICK p, S : p = node[i].cq /\ p \in Seq(S)
        BY DEF Typed, Nodes, NodeAt
      <4>2. QED
        BY <4>1, TallyAppend
    <3>2. QED
      BY <3>1
  <2>3. AtTarget(k)' \in Nat /\ AtTarget(k) = AtTarget(k)' + One(Announcing, k, e)
    <3>1. CASE k.dst = n
      BY <1>1, <1>5, <1>7, <3>1 DEF AtTarget
    <3>2. CASE k.dst # n
      <4>1. One(Announcing, k, e) = 0
        BY <1>3, <3>2 DEF One
      <4>2. AtTarget(k)' = AtTarget(k) /\ AtTarget(k) \in Nat
        BY <1>5, <2>1, <2>2, <3>2 DEF AtTarget
      <4>3. QED
        BY <4>1, <4>2
    <3>3. QED
      BY <3>1, <3>2
  <2>4. AtSource(k)' \in Nat /\ AtSource(k) = AtSource(k)' + One(Replying, k, e)
    <3>1. CASE k.src = n
      BY <1>1, <1>5, <1>7, <3>1 DEF AtSource
    <3>2. CASE k.src # n
      <4>1. One(Replying, k, e) = 0
        BY <1>3, <3>2 DEF One
      <4>2. AtSource(k)' = AtSource(k) /\ AtSource(k) \in Nat
        BY <1>5, <2>1, <2>2, <3>2 DEF AtSource
      <4>3. QED
        BY <4>1, <4>2
    <3>3. QED
      BY <3>1, <3>2
  <2>5. QED
    BY <2>3, <2>4
<1>9. QED
  BY <1>3, <1>4, <1>6, <1>8

(* Whoever takes the completion of a receive posts it again.                 *)
LEMMA ReceivesTaken ==
  ASSUME RdmaAssumption, Typed, Receives, NEW n \in Proc, NEW e, Takes(n, e), UNCHANGED thread,
         \A k \in Link \ {e.link} : out'[k] = out[k] /\ inc'[k] = inc[k],
         out'[e.link].status = out[e.link].status, out'[e.link].rejects = out[e.link].rejects,
         inc'[e.link].rx = inc[e.link].rx + One(Announcing, e.link, e),
         out'[e.link].rx = out[e.link].rx + One(Replying, e.link, e)
  PROVE  Receives'
<1>1. PICK l : l = e.link
  OBVIOUS
<1>2. /\ l \in Link /\ out[l].status = "connected" /\ ReceivesAt(l)
      /\ \A i \in Proc : \A j \in DOMAIN node'[i].cq : \E h \in DOMAIN node[i].cq : node[i].cq[h] = node'[i].cq[j]
      /\ \A k \in Link : /\ AtTarget(k)' \in Nat /\ AtSource(k)' \in Nat
                         /\ AtTarget(k) = AtTarget(k)' + One(Announcing, k, e)
                         /\ AtSource(k) = AtSource(k)' + One(Replying, k, e)
  BY <1>1, Taken
<1>3. \A k \in Link \ {l} : AtTarget(k)' = AtTarget(k) /\ AtSource(k)' = AtSource(k)
  <2>1. ASSUME NEW k \in Link \ {l} PROVE AtTarget(k)' = AtTarget(k) /\ AtSource(k)' = AtSource(k)
    <3>1. One(Announcing, k, e) = 0 /\ One(Replying, k, e) = 0
      BY <1>1 DEF One
    <3>2. QED
      BY <1>2, <3>1
  <2>2. QED
    BY <2>1
<1>4. One(Announcing, l, e) \in Nat /\ One(Replying, l, e) \in Nat
  BY DEF One
<1>5. inc[l].rx \in Nat /\ out[l].rx \in Nat
  BY <1>2 DEF ReceivesAt
<1>6. \A x, y, z, u, v : x \in Nat /\ y \in Nat /\ z \in Nat /\ u = x + y /\ v = z + y => u \in Nat /\ u + z = x + v
  OBVIOUS
<1>7. inc'[l].rx \in Nat /\ inc'[l].rx + AtTarget(l)' = inc[l].rx + AtTarget(l)
  <2>1. inc'[l].rx = inc[l].rx + One(Announcing, l, e)
    BY <1>1
  <2>2. AtTarget(l)' \in Nat /\ AtTarget(l) = AtTarget(l)' + One(Announcing, l, e)
    BY <1>2
  <2>3. QED
    BY <1>4, <1>5, <1>6, <2>1, <2>2
<1>8. out'[l].rx \in Nat /\ out'[l].rx + AtSource(l)' = out[l].rx + AtSource(l)
  <2>1. out'[l].rx = out[l].rx + One(Replying, l, e)
    BY <1>1
  <2>2. AtSource(l)' \in Nat /\ AtSource(l) = AtSource(l)' + One(Replying, l, e)
    BY <1>2
  <2>3. QED
    BY <1>4, <1>5, <1>6, <2>1, <2>2
<1>9. \A i \in Proc : \A j \in DOMAIN node'[i].cq :
         node'[i].cq[j].link = l \/ \E h \in DOMAIN node[i].cq : node[i].cq[h] = node'[i].cq[j]
  BY <1>2
<1>10. /\ \A k \in Link \ {l} : out'[k] = out[k] /\ inc'[k] = inc[k]
       /\ out'[l].status = out[l].status /\ out'[l].rejects = out[l].rejects
  BY <1>1
<1>11. l \in Link /\ out[l].status = "connected"
  BY <1>2
<1>12. QED
  BY <1>3, <1>7, <1>8, <1>9, <1>10, <1>11, ReceivesOneLink

(* A failed CHECK leaves everything else as it is.                           *)
LEMMA ReceivesFail ==
  ASSUME RdmaAssumption, Typed, Receives, NEW n \in Proc, NEW why, Fail(n, why),
         UNCHANGED <<out, inc, thread>>
  PROVE  Receives'
<1>1. \A k \in Proc : node'[k].cq = node[k].cq
  BY DEF Typed, Nodes, NodeAt, Fail
<1>2. QED
  BY <1>1, ReceivesQueuesKept

(* The record a process has after it has taken a completion.                 *)
LEMMA TakesRecord ==
  ASSUME Typed, NEW n \in Proc, node[n].cq # <<>>, NEW r, node' = [node EXCEPT ![n] = r],
         r.cq = Polled(n).cq
  PROVE  Takes(n, Head(node[n].cq))
BY DEF Takes, Typed, Nodes, NodeAt, Polled

(* Polling the completion of a send changes no receive.                      *)
LEMMA ReceivesPollSent ==
  ASSUME RdmaAssumption, Typed, Receives, NEW n \in Proc, PollSent(n)
  PROVE  Receives'
<1> DEFINE e == Head(node[n].cq)
           l == e.link
<1>1. node[n].cq # <<>> /\ node' = [node EXCEPT ![n] = Polled(n)] /\ UNCHANGED thread
  BY DEF PollSent, Polls
<1>2. Takes(n, e)
  BY <1>1, TakesRecord
<1>3. Outs /\ Incs /\ l \in Link /\ OutAt(l, out[l], thread) /\ IncAt(l, inc[l], thread) /\ ReceivesAt(l)
  BY <1>2, Taken DEF Typed, Outs, Incs
<1>4. One(Announcing, l, e) = 0 /\ One(Replying, l, e) = 0
  BY DEF PollSent, Polls, One, Announcing, Replying
<1>5. /\ \/ inc' = inc /\ out' = [out EXCEPT ![l].start = Append(@, e.ctx)]
         \/ out' = out /\ inc' = [inc EXCEPT ![l].reply = Append(@, e.ctx)]
  BY DEF PollSent
<1> HIDE DEF l, e
<1>6. /\ \A k \in Link \ {l} : out'[k] = out[k] /\ inc'[k] = inc[k]
      /\ out'[l].status = out[l].status /\ out'[l].rejects = out[l].rejects
      /\ inc'[l].rx = inc[l].rx /\ out'[l].rx = out[l].rx
  <2>1. CASE inc' = inc /\ out' = [out EXCEPT ![l].start = Append(@, e.ctx)]
    BY <1>3, <2>1 DEF Outs, OutAt
  <2>2. CASE out' = out /\ inc' = [inc EXCEPT ![l].reply = Append(@, e.ctx)]
    BY <1>3, <2>2 DEF Incs, IncAt
  <2>3. QED
    BY <1>5, <2>1, <2>2
<1>7. inc[l].rx \in Nat /\ out[l].rx \in Nat
  BY <1>3 DEF ReceivesAt
<1>8. inc'[l].rx = inc[l].rx + One(Announcing, l, e) /\ out'[l].rx = out[l].rx + One(Replying, l, e)
  BY <1>4, <1>6, <1>7
<1>9. QED
  BY <1>1, <1>2, <1>6, <1>8, ReceivesTaken DEF l

(* Polling a rendezvous start posts the receive it used again.               *)
LEMMA ReceivesPollStart ==
  ASSUME RdmaAssumption, Typed, Receives, NEW n \in Proc, PollStart(n)
  PROVE  Receives'
<1> DEFINE e == Head(node[n].cq)
           l == e.link
           i == Head(inc[l].reply)
           idx == Head(node[n].free)
<1>1. CASE node[n].free = <<>>
  <2>1. Fail(n, "table_[idx]") /\ UNCHANGED <<out, inc, thread>>
    BY <1>1 DEF PollStart
  <2>2. QED
    BY <2>1, ReceivesFail
<1>2. CASE node[n].free # <<>>
  <2>1. PICK a : /\ node' = [node EXCEPT ![n] =
                      StoreAddress([Polled(n) EXCEPT !.pool = a.pool], [addr |-> a.addr, msg |-> e.msg])]
                 /\ inc' = [inc EXCEPT
                      ![l].reply = Tail(@), ![l].rx = @ + 1,
                      ![l].replyBuf = Put(@, i, [to |-> a.addr, msg |-> e.msg, idx |-> idx]),
                      ![l].sq = Append(@, [op |-> "reply", ctx |-> i])]
    BY <1>2 DEF PollStart
  <2> DEFINE r == StoreAddress([Polled(n) EXCEPT !.pool = a.pool], [addr |-> a.addr, msg |-> e.msg])
  <2>2. node[n].cq # <<>> /\ UNCHANGED <<out, thread>> /\ e.op = "recv start"
    BY DEF PollStart, Polls
  <2>3. r.cq = Polled(n).cq
    BY <2>2, PolledAt DEF StoreAddress, NodeAt
  <2>4. node' = [node EXCEPT ![n] = r]
    BY <2>1
  <2> HIDE DEF r
  <2>5. Takes(n, e)
    BY <2>2, <2>3, <2>4, TakesRecord
  <2>6. Incs /\ l \in Link /\ IncAt(l, inc[l], thread) /\ ReceivesAt(l)
    BY <2>5, Taken DEF Typed, Incs
  <2>7. One(Announcing, l, e) = 1 /\ One(Replying, l, e) = 0
    BY <2>2 DEF One, Announcing, Replying
  <2>8. \A k \in Link \ {l} : inc'[k] = inc[k]
    BY <2>1, <2>6 DEF Incs
  <2>9. inc'[l].rx = inc[l].rx + 1
    BY <2>1, <2>6 DEF Incs, IncAt
  <2>10. out[l].rx \in Nat
    BY <2>6 DEF ReceivesAt
  <2> HIDE DEF l, e
  <2>11. inc'[l].rx = inc[l].rx + One(Announcing, l, e) /\ out'[l].rx = out[l].rx + One(Replying, l, e)
    <3>1. inc'[l].rx = inc[l].rx + One(Announcing, l, e)
      BY <2>7, <2>9
    <3>2. out'[l].rx = out[l].rx + One(Replying, l, e)
      <4>1. out'[l].rx = out[l].rx
        BY <2>2
      <4>2. out[l].rx + 0 = out[l].rx
        BY <2>10
      <4>3. QED
        BY <2>7, <4>1, <4>2
    <3>3. QED
      BY <3>1, <3>2
  <2>12. /\ \A k \in Link \ {l} : out'[k] = out[k] /\ inc'[k] = inc[k]
         /\ out'[l].status = out[l].status /\ out'[l].rejects = out[l].rejects
    BY <2>2, <2>8
  <2>13. QED
    BY <2>2, <2>5, <2>11, <2>12, ReceivesTaken DEF l
<1>3. QED
  BY <1>1, <1>2

(* Polling a rendezvous reply posts the receive it used again.               *)
LEMMA ReceivesPollReply ==
  ASSUME RdmaAssumption, Typed, Receives, NEW n \in Proc, PollReply(n)
  PROVE  Receives'
<1> DEFINE e == Head(node[n].cq)
           l == e.link
           m == e.reply.msg
           i == bufs[m].write
<1>1. CASE m \notin DOMAIN bufs
  <2>1. Fail(n, "deleted") /\ UNCHANGED <<out, inc, thread>>
    BY <1>1 DEF PollReply
  <2>2. QED
    BY <2>1, ReceivesFail
<1>2. CASE m \in DOMAIN bufs
  <2>1. /\ node' = [node EXCEPT ![n] = Polled(n)]
        /\ out' = [out EXCEPT ![l].rx = @ + 1, ![l].writeBuf = Put(@, i, m),
                              ![l].sq = Append(@, [op |-> "write", ctx |-> i, to |-> e.reply.to,
                                                   idx |-> e.reply.idx, msg |-> m])]
    BY <1>2 DEF PollReply
  <2>2. node[n].cq # <<>> /\ UNCHANGED <<inc, thread>> /\ e.op = "recv reply"
    BY DEF PollReply, Polls
  <2>3. Takes(n, e)
    BY <2>1, <2>2, TakesRecord
  <2>4. Outs /\ l \in Link /\ OutAt(l, out[l], thread) /\ ReceivesAt(l)
    BY <2>3, Taken DEF Typed, Outs
  <2>5. One(Announcing, l, e) = 0 /\ One(Replying, l, e) = 1
    BY <2>2 DEF One, Announcing, Replying
  <2>6. \A k \in Link \ {l} : out'[k] = out[k]
    BY <2>1, <2>4 DEF Outs
  <2>7. out'[l].rx = out[l].rx + 1 /\ out'[l].status = out[l].status /\ out'[l].rejects = out[l].rejects
    BY <2>1, <2>4 DEF Outs, OutAt
  <2>8. inc[l].rx \in Nat
    BY <2>4 DEF ReceivesAt
  <2> HIDE DEF l, e
  <2>9. inc'[l].rx = inc[l].rx + One(Announcing, l, e) /\ out'[l].rx = out[l].rx + One(Replying, l, e)
    <3>1. inc'[l].rx = inc[l].rx + One(Announcing, l, e)
      <4>1. inc'[l].rx = inc[l].rx
        BY <2>2
      <4>2. inc[l].rx + 0 = inc[l].rx
        BY <2>8
      <4>3. QED
        BY <2>5, <4>1, <4>2
    <3>2. out'[l].rx = out[l].rx + One(Replying, l, e)
      BY <2>5, <2>7
    <3>3. QED
      BY <3>1, <3>2
  <2>10. /\ \A k \in Link \ {l} : out'[k] = out[k] /\ inc'[k] = inc[k]
         /\ out'[l].status = out[l].status /\ out'[l].rejects = out[l].rejects
    BY <2>2, <2>6, <2>7
  <2>11. QED
    BY <2>2, <2>3, <2>9, <2>10, ReceivesTaken DEF l
<1>3. QED
  BY <1>1, <1>2

(* Polling the completion of a write at the sender changes no receive.       *)
LEMMA ReceivesPollWrote ==
  ASSUME RdmaAssumption, Typed, Receives, NEW n \in Proc, PollWrote(n)
  PROVE  Receives'
<1> DEFINE e == Head(node[n].cq)
           l == e.link
           m == out[l].writeBuf[e.ctx]
<1>1. CASE m \notin DOMAIN bufs
  <2>1. Fail(n, "deleted") /\ UNCHANGED <<out, inc, thread>>
    BY <1>1 DEF PollWrote
  <2>2. QED
    BY <2>1, ReceivesFail
<1>2. CASE m \in DOMAIN bufs
  <2> DEFINE r == [Polled(n) EXCEPT !.pool = Free(@, bufs[m].inline)]
  <2>1. /\ node' = [node EXCEPT ![n] = r] /\ out' = [out EXCEPT ![l].write = Append(@, e.ctx)]
    BY <1>2 DEF PollWrote
  <2>2. node[n].cq # <<>> /\ UNCHANGED <<inc, thread>> /\ e.op = "wrote"
    BY DEF PollWrote, Polls
  <2>3. r.cq = Polled(n).cq
    BY <2>2, PolledAt DEF NodeAt
  <2> HIDE DEF r
  <2>4. Takes(n, e)
    BY <2>1, <2>2, <2>3, TakesRecord
  <2>5. Outs /\ l \in Link /\ OutAt(l, out[l], thread) /\ ReceivesAt(l)
    BY <2>4, Taken DEF Typed, Outs
  <2>6. One(Announcing, l, e) = 0 /\ One(Replying, l, e) = 0
    BY <2>2 DEF One, Announcing, Replying
  <2>7. /\ \A k \in Link \ {l} : out'[k] = out[k]
        /\ out'[l].rx = out[l].rx /\ out'[l].status = out[l].status /\ out'[l].rejects = out[l].rejects
    BY <2>1, <2>5 DEF Outs, OutAt
  <2>8. inc[l].rx \in Nat /\ out[l].rx \in Nat
    BY <2>5 DEF ReceivesAt
  <2> HIDE DEF l, e
  <2>9. inc'[l].rx = inc[l].rx + One(Announcing, l, e) /\ out'[l].rx = out[l].rx + One(Replying, l, e)
    BY <2>2, <2>6, <2>7, <2>8
  <2>10. /\ \A k \in Link \ {l} : out'[k] = out[k] /\ inc'[k] = inc[k]
         /\ out'[l].status = out[l].status /\ out'[l].rejects = out[l].rejects
    BY <2>2, <2>7
  <2>11. QED
    BY <2>2, <2>4, <2>9, <2>10, ReceivesTaken DEF l
<1>3. QED
  BY <1>1, <1>2

(* Polling a completed write at the receiver posts the receive it used       *)
(* again.                                                                    *)
LEMMA ReceivesPollWritten ==
  ASSUME RdmaAssumption, Typed, Receives, NEW n \in Proc, PollWritten(n)
  PROVE  Receives'
<1> DEFINE e == Head(node[n].cq)
           l == e.link
<1>1. CASE e.idx \notin DOMAIN node[n].table
  <2>1. Fail(n, "ptr") /\ UNCHANGED <<out, inc, thread>>
    BY <1>1 DEF PollWritten
  <2>2. QED
    BY <2>1, ReceivesFail
<1>2. CASE e.idx \in DOMAIN node[n].table
  <2> DEFINE r == [GetAddressAndRelease(Polled(n), e.idx) EXCEPT
                     !.recv = Append(@, [link |-> l, ctx |-> node[n].table[e.idx]])]
  <2>1. node' = [node EXCEPT ![n] = r] /\ inc' = [inc EXCEPT ![l].rx = @ + 1]
    BY <1>2 DEF PollWritten
  <2>2. node[n].cq # <<>> /\ UNCHANGED <<out, thread>> /\ e.op = "written"
    BY DEF PollWritten, Polls
  <2>3. r.cq = Polled(n).cq
    BY <2>2, PolledAt DEF GetAddressAndRelease, NodeAt
  <2> HIDE DEF r
  <2>4. Takes(n, e)
    BY <2>1, <2>2, <2>3, TakesRecord
  <2>5. Incs /\ l \in Link /\ IncAt(l, inc[l], thread) /\ ReceivesAt(l)
    BY <2>4, Taken DEF Typed, Incs
  <2>6. One(Announcing, l, e) = 1 /\ One(Replying, l, e) = 0
    BY <2>2 DEF One, Announcing, Replying
  <2>7. (\A k \in Link \ {l} : inc'[k] = inc[k]) /\ inc'[l].rx = inc[l].rx + 1
    BY <2>1, <2>5 DEF Incs, IncAt
  <2>8. out[l].rx \in Nat
    BY <2>5 DEF ReceivesAt
  <2> HIDE DEF l, e
  <2>9. inc'[l].rx = inc[l].rx + One(Announcing, l, e) /\ out'[l].rx = out[l].rx + One(Replying, l, e)
    BY <2>2, <2>6, <2>7, <2>8
  <2>10. /\ \A k \in Link \ {l} : out'[k] = out[k] /\ inc'[k] = inc[k]
         /\ out'[l].status = out[l].status /\ out'[l].rejects = out[l].rejects
    BY <2>2, <2>7
  <2>11. QED
    BY <2>2, <2>4, <2>9, <2>10, ReceivesTaken DEF l
<1>3. QED
  BY <1>1, <1>2

(* Every step keeps the receives of every link.                              *)
LEMMA ReceivesNext ==
  ASSUME RdmaAssumption, Typed, Receives, Next
  PROVE  Receives'
<1>1. ASSUME NEW n \in Proc, Bind(n) \/ PollCQ(n) \/ RecvMsg(n) \/ Release(n) PROVE Receives'
  BY <1>1, ReceivesOwn, ReceivesPollSent, ReceivesPollStart, ReceivesPollReply, ReceivesPollWrote,
     ReceivesPollWritten DEF PollCQ
<1>2. ASSUME NEW l \in Link, Connect(l) \/ PollEvents(l) PROVE Receives'
  BY <1>2, ReceivesConnections
<1>3. ASSUME NEW l \in Link, Carry(l) PROVE Receives'
  BY <1>3, ReceivesCarry
<1>4. ASSUME NEW t \in Thread, Send(t) PROVE Receives'
  BY <1>4, ReceivesSend
<1>5. QED
  BY <1>1, <1>2, <1>3, <1>4 DEF Next

(* The transport's state has its types in every run; and no queue pair has   *)
(* more receives than were posted when it was made, nor a negative number:   *)
(* each completion that uses one up posts one again, no matter how the two   *)
(* ends, the network and rejected attempts to connect interleave.            *)
THEOREM RdmaTypeCorrect ==
  PoolAssumption /\ RdmaAssumption /\ Spec => []TypeOK
<1> SUFFICES ASSUME PoolAssumption, RdmaAssumption PROVE Spec => []TypeOK
  OBVIOUS
<1>1. Init => Typed /\ Kept /\ Receives
  BY TypedInit, KeptInit, ReceivesInit
<1>2. Typed /\ Kept /\ Receives /\ [Next]_vars => (Typed /\ Kept /\ Receives)'
  <2> SUFFICES ASSUME Typed, Kept, Receives, [Next]_vars PROVE (Typed /\ Kept /\ Receives)'
    OBVIOUS
  <2>1. (Typed /\ Kept)'
    BY TypedKeptStep
  <2>2. CASE Next
    BY <2>1, <2>2, ReceivesNext
  <2>3. CASE UNCHANGED vars
    <3>1. Receives'
      BY <2>3 DEF vars, Receives, ReceivesAt, Quiet, AtTarget, AtSource
    <3>2. QED
      BY <2>1, <3>1
  <2>4. QED
    BY <2>2, <2>3
<1>3. Typed /\ Kept /\ Receives => TypeOK
  <2> SUFFICES ASSUME Typed, Receives PROVE TypeOK
    OBVIOUS
  <2>1. Nodes /\ Outs /\ Incs /\ Threads /\ Bufs /\ RxDepth \in Nat
    BY Constants DEF Typed
  <2>2. ASSUME NEW n \in Proc
        PROVE  /\ node[n].listening \in BOOLEAN
               /\ node[n].pool \in Pool
               /\ node[n].free \in Seq(1 .. MaxEntries)
               /\ DOMAIN node[n].table \subseteq 1 .. MaxEntries
               /\ node[n].ended \in {None, "wc.status", "table_[idx]", "deleted", "ptr"}
    <3>1. NodeAt(n, node[n], thread, out)
      BY <2>1 DEF Nodes
    <3>2. node[n].table \in Map(1 .. MaxEntries, [addr : Nat, msg : Msg])
      BY <3>1 DEF NodeAt
    <3>3. DOMAIN node[n].table \subseteq 1 .. MaxEntries
      BY <3>2, PutDrop
    <3>4. QED
      BY <3>1, <3>3 DEF NodeAt
  <2>3. ASSUME NEW l \in Link
        PROVE  /\ out[l].status \in {"idle", "connecting", "requested", "accepted", "connected", "rejected"}
               /\ out[l].start \in Seq(1 .. Depth) /\ out[l].write \in Seq(1 .. Depth)
               /\ out[l].rx \in 0 .. RxDepth /\ inc[l].rx \in 0 .. RxDepth
               /\ inc[l].reply \in Seq(1 .. ReplyDepth)
    <3>1. OutAt(l, out[l], thread) /\ IncAt(l, inc[l], thread) /\ ReceivesAt(l)
          /\ l.src \in Proc /\ l.dst \in Proc
      BY <2>1 DEF Outs, Incs, Receives, RdmaAssumption
    <3>2. AtTarget(l) \in Nat /\ AtSource(l) \in Nat
      <4>1. PICK q, T : q = node[l.dst].cq /\ q \in Seq(T)
        BY <2>1, <3>1 DEF Nodes, NodeAt
      <4>2. PICK p, S : p = node[l.src].cq /\ p \in Seq(S)
        BY <2>1, <3>1 DEF Nodes, NodeAt
      <4>3. QED
        BY <4>1, <4>2, TallyAppend DEF AtTarget, AtSource
    <3>3. \A x, y, z : x \in Nat /\ y \in Nat /\ z \in Nat /\ (x + y = z \/ x + y = 0) => x \in 0 .. z
      OBVIOUS
    <3>4. /\ inc[l].rx \in Nat /\ out[l].rx \in Nat
          /\ inc[l].rx + AtTarget(l) = RxDepth \/ inc[l].rx + AtTarget(l) = 0
          /\ out[l].rx + AtSource(l) = RxDepth \/ out[l].rx + AtSource(l) = 0
      BY <3>1 DEF ReceivesAt
    <3>5. out[l].rx \in 0 .. RxDepth /\ inc[l].rx \in 0 .. RxDepth
      BY <2>1, <3>2, <3>3, <3>4
    <3>6. QED
      BY <3>1, <3>5 DEF OutAt, IncAt, Status
  <2>4. \A t \in Thread : thread[t].pc \in {"idle", "prepared", "reserved"}
    BY <2>1 DEF Threads, ThreadAt
  <2>5. QED
    BY <2>1, <2>2, <2>3, <2>4 DEF TypeOK, Bufs
<1>4. QED
  BY <1>1, <1>2, <1>3, PTL DEF Spec
=============================================================================
