------------------------------ MODULE Mempool ------------------------------
(* The memory pool of the RDMA transport, SimpleMempool in                   *)
(* src/ibverbs_van.h, as operators on the value of a pool:                   *)
(*   regions   the registered memory regions (mr_list),                      *)
(*   free      the blocks on the free list, a multimap from size to address, *)
(*   used      the blocks that are handed out, a map from address to size,   *)
(*   total     total_allocated_size.                                         *)
(* Addresses are byte offsets. Blocks of equal size on the free list are     *)
(* told apart by their addresses only; which of them lower_bound finds       *)
(* first is left open.                                                       *)
EXTENDS Integers

CONSTANTS
  Alignment,   \* kAlignment
  PoolSize,    \* the size of the first region
  Base,        \* where the first region lies
  Place,       \* where aligned_alloc may put another region
  Gap          \* what the allocator keeps between two regions, its header

ASSUME PoolAssumption ==
  /\ Alignment \in Nat \ {0}
  /\ PoolSize \in Nat \ {0}
  /\ Base \in Nat
  /\ Place \subseteq Nat
  /\ Gap \in Nat \ {0}

Block == [addr : Nat, size : Nat \ {0}]
Pool == [regions : SUBSET Block, free : SUBSET Block, used : SUBSET Block, total : Nat]

End(b) == b.addr + b.size
Bytes(b) == b.addr .. (End(b) - 1)
Disjoint(b, c) == End(b) <= c.addr \/ End(c) <= b.addr
Apart(b, c) == End(b) + Gap <= c.addr \/ End(c) + Gap <= b.addr
Within(b, r) == r.addr <= b.addr /\ End(b) <= End(r)

AlignCeil(v) == (v + Alignment - 1) - ((v + Alignment - 1) % Alignment)

NewPool == LET all == [addr |-> Base, size |-> PoolSize]
           IN  [regions |-> {all}, free |-> {all}, used |-> {}, total |-> PoolSize]

(* The size that the total has when n fits, doubled as often as needed. *)
NewSizes(p, n) ==
  IF p.total >= n THEN {p.total}
  ELSE {s \in n .. 2 * n - 1 : \E k \in 1 .. n : s = p.total * 2^k}

(* Registering one more region, which goes onto the free list as a whole. *)
Grown(p, n) ==
  {[p EXCEPT !.regions = @ \cup {r}, !.free = @ \cup {r}, !.total = @ + r.size] :
     r \in {q \in [addr : Place, size : NewSizes(p, n)] : \A o \in p.regions : Apart(q, o)}}

Fitting(p, n) == {b \in p.free : b.size >= n}
BestFit(p, n) == {b \in Fitting(p, n) : \A c \in Fitting(p, n) : b.size <= c.size}

(* Mutant: the address found is not taken off the free list when it is split. *)
TakeKeepsWhole(p, b, n) ==
  [p EXCEPT !.used = @ \cup {[addr |-> b.addr, size |-> n]},
            !.free = IF b.size = n THEN @ \ {b} ELSE @ \cup {[addr |-> b.addr + n, size |-> b.size - n]}]

(* Handing out the first n bytes of a free block, the rest stays free. *)
Take(p, b, n) ==
  [p EXCEPT !.used = @ \cup {[addr |-> b.addr, size |-> n]},
            !.free = (@ \ {b}) \cup
                     (IF b.size = n THEN {} ELSE {[addr |-> b.addr + n, size |-> b.size - n]})]

(* What Alloc(size) may do: the pool after it and the address returned. *)
Alloc(p, size) ==
  LET n == AlignCeil(size)
      room == IF Fitting(p, n) = {} THEN Grown(p, n) ELSE {p}
  IN  UNION {{[pool |-> Take(q, b, n), addr |-> b.addr] : b \in BestFit(q, n)} : q \in room}

IsUsed(p, a) == \E b \in p.used : b.addr = a

(* Free(addr), after its CHECK IsUsed: nothing is merged with neighbours. *)
Free(p, a) ==
  LET gone == {b \in p.used : b.addr = a}
  IN  [p EXCEPT !.used = @ \ gone, !.free = @ \cup gone]

(* Addr2MR: the region with the least end that is not below the address. *)
RegionOf(p, a) ==
  CHOOSE r \in p.regions : End(r) >= a /\ \A q \in p.regions : End(q) >= a => End(r) <= End(q)

----------------------------------------------------------------------------
(* A pool is sound: its regions are apart, every block lies in one, no two   *)
(* blocks overlap, and every byte of a region belongs to a block, so that    *)
(* nothing is handed out twice and nothing is lost.                          *)
BlocksInRegions(p) == \A b \in p.free \cup p.used : \E r \in p.regions : Within(b, r)
BlocksDisjoint(p) ==
  /\ \A b, c \in p.free \cup p.used : b = c \/ Disjoint(b, c)
  /\ p.free \cap p.used = {}
BytesCovered(p) ==
  \A r \in p.regions : \A x \in Bytes(r) : \E b \in p.free \cup p.used : x \in Bytes(b)
RegionsApart(p) == \A r, s \in p.regions : r = s \/ Apart(r, s)

(* The keys that go with an address are those of the region that holds it:   *)
(* the search by ends finds the wrong one only where two regions touch.      *)
KeysRight(p) == \A b \in p.used : Within(b, RegionOf(p, b.addr))

PoolSound(p) ==
  RegionsApart(p) /\ BlocksInRegions(p) /\ BlocksDisjoint(p) /\ BytesCovered(p)
=============================================================================
