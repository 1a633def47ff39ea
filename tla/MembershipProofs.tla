--------------------------- MODULE MembershipProofs ---------------------------
(***************************************************************************)
(* What holds of Membership for every set of processes, every order of     *)
(* their addresses and every number of crashes: no two running processes   *)
(* have one id, every id is in use, and messages reach the holder of an id.*)
(***************************************************************************)
EXTENDS Membership, FiniteSetTheorems, WellFoundedInduction, TLAPS

\* The id that p has or takes with the next list it reads
Due(p) == IF inbox[p] = <<>> THEN myID[p] ELSE LocalID(p, Head(inbox[p]))

\* p does not have the id i and never will
Gone(p, i) == p \in crashed \/ Due(p) \notin {None, i}

\* p has gone, or knows its id or is about to
Settled(p) == p \in crashed \/ Due(p) # None

\* p and i share a place of the list
Place(p, i) == \E k \in 1 .. Num : nodes[k].proc = p /\ nodes[k].id = i

Names(list) == {list[k].proc : k \in 1 .. Len(list)}

----------------------------------------------------------------------------
Phase ==
  /\ (assigned \/ aborted) =>
       Len(nodes) = Num /\ \A k \in 1 .. Num : nodes[k].id \in AnyID
  /\ ~(assigned \/ aborted) =>
       /\ Len(nodes) < Num
       /\ \A k \in 1 .. Len(nodes) : nodes[k] = NewSlot(nodes[k].proc)
       /\ \A p \in Proc : inbox[p] = <<>> /\ myID[p] = None /\ addrs[p] = {}
       /\ shared = {} /\ stale = {} /\ recovered = <<>> /\ ready = {}

\* The threads of a role that have registered are in the list or on their way
InList(role) == {k \in 1 .. Len(nodes) : Role[nodes[k].proc] = role}
OnTheWay(role) == {m \in joins : Role[m.thread[1]] = role}
Asked(role) == {t \in asked : Role[t[1]] = role}
Counted ==
  /\ IsFiniteSet(asked) /\ IsFiniteSet(joins)
  /\ \A m \in joins : m.thread \in asked
  /\ crashed = {} => asked \subseteq Launched
  /\ ~(assigned \/ aborted) => \A role \in {"server", "worker"} :
       Cardinality(InList(role)) + Cardinality(OnTheWay(role)) = Cardinality(Asked(role))

Placed ==
  \A p \in Alive : Due(p) # None => Place(p, Due(p)) /\ sockets[Due(p)] = p

Informed ==
  \A p \in Alive :
    /\ inbox[p] # <<>> \/ addrs[p] # {} => Due(p) # None
    /\ p \in ready => myID[p] # None

OneOwner ==
  assigned \/ aborted => \A k, l \in 1 .. Num :
    nodes[k].id = nodes[l].id =>
      \/ nodes[k].proc = nodes[l].proc
      \/ /\ \E j \in 1 .. Len(recovered) : recovered[j].id = nodes[k].id
         /\ Gone(nodes[k].proc, nodes[k].id) \/ Gone(nodes[l].proc, nodes[k].id)

Running ==
  assigned /\ ~aborted =>
    /\ Len(recovered) <= 1
    /\ \A j \in 1 .. Len(recovered) :
         /\ sockets[recovered[j].id] = recovered[j].proc
         /\ Place(recovered[j].proc, recovered[j].id)
    /\ \A i \in AnyID : sockets[i] # None => Settled(sockets[i])
    /\ \A k \in 1 .. Num :
         /\ sockets[nodes[k].id] # None
         /\ Settled(nodes[k].proc)
         /\ nodes[k].id \in stale => Gone(nodes[k].proc, nodes[k].id)
    /\ \A p \in Alive :
         /\ \A x \in addrs[p] : Settled(x)
         /\ \A j \in 1 .. Len(inbox[p]) : \A x \in Names(inbox[p][j]) : Settled(x)

\* In the lists from the k-th on, the id i stands for q only
Only(p, q, i, k) ==
  \A j \in k .. Len(inbox[p]) : \A e \in 1 .. Len(inbox[p][j]) :
    inbox[p][j][e].id = i => inbox[p][j][e].proc = q

\* The k-th list is the first to name q, and gives it the id i
First(p, q, i, k) ==
  /\ \E e \in 1 .. Len(inbox[p][k]) : inbox[p][k][e].proc = q /\ inbox[p][k][e].id = i
  /\ \A j \in 1 .. k - 1 : q \notin Names(inbox[p][j])

Linked(p, q, i) ==
  \/ q \in addrs[p] /\ conn[p][i] = q /\ Only(p, q, i, 1)
  \/ q \notin addrs[p] /\ \E k \in 1 .. Len(inbox[p]) : First(p, q, i, k) /\ Only(p, q, i, k)

Connected ==
  \A p, q \in Alive :
    Due(p) # None /\ Due(q) # None /\ Role[p] # Role[q] => Linked(p, q, Due(q))

MembershipInv ==
  TypeOK /\ Phase /\ Counted /\ IDsCovered /\ Placed /\ Informed /\ OneOwner /\ Running
    /\ Connected

----------------------------------------------------------------------------
\* The constants are numbers
LEMMA NumFacts ==
  /\ NumServers \in Nat /\ NumWorkers \in Nat /\ Num \in Nat /\ Num > 0
  /\ None \notin Nat /\ None \notin Proc
  /\ IsFiniteSet(1 .. Num) /\ Cardinality(1 .. Num) = Num
<1>1. \A role : IsFiniteSet({t \in Launched : Role[t[1]] = role})
  BY FS_Subset, ProcAssumption
<1>2. NumServers \in Nat /\ NumWorkers \in Nat
  BY <1>1, FS_CardinalityType, NumAssumption
<1>3. Num \in Nat /\ Num > 0
  BY <1>2, NumAssumption DEF Num
<1>. QED
  BY <1>2, <1>3, NoneAssumption, FS_Interval

\* Ids are numbers, another for each role and rank
LEMMA IDFacts ==
  /\ \A role \in {"server", "worker"}, a \in Nat : RankToID(role, a) \in Nat
  /\ \A r, s \in {"server", "worker"}, a, b \in Nat :
       RankToID(r, a) = RankToID(s, b) => r = s /\ a = b
  /\ AnyID \subseteq Nat /\ NodeIDs \subseteq AnyID /\ None \notin AnyID
<1>1. \A role \in {"server", "worker"}, a \in Nat : RankToID(role, a) \in Nat
  BY DEF RankToID
<1>2. ASSUME NEW r \in {"server", "worker"}, NEW s \in {"server", "worker"},
             NEW a \in Nat, NEW b \in Nat, RankToID(r, a) = RankToID(s, b)
      PROVE  r = s /\ a = b
  BY <1>2 DEF RankToID
<1>3. 0 .. Num - 1 \subseteq Nat
  OBVIOUS
<1>4. AnyID \subseteq Nat
  BY <1>1, <1>3 DEF AnyID
<1>5. /\ 0 .. NumServers - 1 \subseteq 0 .. Num - 1
      /\ 0 .. NumWorkers - 1 \subseteq 0 .. Num - 1
  BY NumFacts DEF Num
<1>6. NodeIDs \subseteq AnyID
  BY <1>5 DEF NodeIDs, AnyID
<1>. QED
  BY <1>1, <1>2, <1>4, <1>6, NumFacts

\* There are as many ids as nodes
LEMMA NodeIDsSize == IsFiniteSet(NodeIDs) /\ Cardinality(NodeIDs) = Num
<1>. DEFINE ID(k) == IF k <= NumServers THEN RankToID("server", k - 1)
                                        ELSE RankToID("worker", k - NumServers - 1)
            f == [k \in 1 .. Num |-> ID(k)]
<1>1. \A k \in 1 .. Num : ID(k) \in NodeIDs
  <2>. SUFFICES ASSUME NEW k \in 1 .. Num PROVE ID(k) \in NodeIDs
    OBVIOUS
  <2>1. CASE k <= NumServers
    BY <2>1, NumFacts DEF NodeIDs
  <2>2. CASE ~(k <= NumServers)
    <3>1. k - NumServers - 1 \in 0 .. NumWorkers - 1
      BY <2>2, NumFacts DEF Num
    <3>. QED
      BY <2>2, <3>1 DEF NodeIDs
  <2>. QED
    BY <2>1, <2>2
<1>2. \A k, l \in 1 .. Num : ID(k) = ID(l) => k = l
  BY NumFacts DEF Num, RankToID
<1>3. \A i \in NodeIDs : \E k \in 1 .. Num : ID(k) = i
  <2>. SUFFICES ASSUME NEW i \in NodeIDs PROVE \E k \in 1 .. Num : ID(k) = i
    OBVIOUS
  <2>1. CASE \E a \in 0 .. NumServers - 1 : i = RankToID("server", a)
    <3>1. PICK a \in 0 .. NumServers - 1 : i = RankToID("server", a)
      BY <2>1
    <3>2. a + 1 \in 1 .. Num /\ a + 1 <= NumServers /\ (a + 1) - 1 = a
      BY NumFacts DEF Num
    <3>. QED
      BY <3>1, <3>2
  <2>2. CASE \E a \in 0 .. NumWorkers - 1 : i = RankToID("worker", a)
    <3>1. PICK a \in 0 .. NumWorkers - 1 : i = RankToID("worker", a)
      BY <2>2
    <3>. DEFINE k == NumServers + a + 1
    <3>2. k \in 1 .. Num /\ ~(k <= NumServers) /\ k - NumServers - 1 = a
      BY NumFacts DEF Num
    <3>. QED
      BY <3>1, <3>2
  <2>. QED
    BY <2>1, <2>2 DEF NodeIDs
<1>4. f \in Bijection(1 .. Num, NodeIDs)
  <2>. HIDE DEF ID
  <2>1. f \in [1 .. Num -> NodeIDs]
    BY <1>1
  <2>2. \A k, l \in 1 .. Num : f[k] = f[l] => k = l
    BY <1>2
  <2>3. \A i \in NodeIDs : \E k \in 1 .. Num : f[k] = i
    BY <1>3
  <2>. QED
    BY <2>1, <2>2, <2>3 DEF Bijection, Injection, Surjection, IsInjective
<1>. QED
  BY <1>4, NumFacts, FS_Bijection DEF ExistsBijection

\* A set of numbers has a least one
LEMMA Least ==
  ASSUME NEW S \in SUBSET Nat, S # {}
  PROVE  \E n \in S : \A m \in S : n <= m
<1>1. PICK n \in S : \A m \in S : ~(<<m, n>> \in OpToRel(<, Nat))
  BY WFMin, NatLessThanWellFounded
<1>2. \A m \in S : ~(m < n)
  BY <1>1 DEF OpToRel
<1>. QED
  BY <1>2

\* The size of the intervals that occur
LEMMA IntervalSize ==
  ASSUME NEW n \in Int
  PROVE  /\ n >= 1 => IsFiniteSet(1 .. n - 1) /\ Cardinality(1 .. n - 1) = n - 1
         /\ n >= 0 => IsFiniteSet(0 .. n - 1) /\ Cardinality(0 .. n - 1) = n
<1>. DEFINE m == n - 1
<1>1. m \in Int
  OBVIOUS
<1>2. /\ IsFiniteSet(1 .. m) /\ Cardinality(1 .. m) = IF 1 > m THEN 0 ELSE m - 1 + 1
      /\ IsFiniteSet(0 .. m) /\ Cardinality(0 .. m) = IF 0 > m THEN 0 ELSE m - 0 + 1
  <2>. HIDE DEF m
  <2>. QED
    BY <1>1, FS_Interval
<1>3. n >= 1 => (IF 1 > m THEN 0 ELSE m - 1 + 1) = n - 1
  OBVIOUS
<1>4. n >= 0 => (IF 0 > m THEN 0 ELSE m - 0 + 1) = n
  OBVIOUS
<1>. QED
  BY <1>2, <1>3, <1>4

\* The ranks of a list: ids of the role of their entry, no two the same
LEMMA RankedFacts ==
  ASSUME NEW s, \A k \in 1 .. Num : s[k].proc \in Proc
  PROVE  /\ \A k \in 1 .. Num :
              /\ RankedID(s, k) \in AnyID
              /\ \E rank \in 0 .. Num - 1 : RankedID(s, k) = RankToID(Role[s[k].proc], rank)
         /\ \A k, l \in 1 .. Num : RankedID(s, k) = RankedID(s, l) => k = l
<1>. DEFINE same(k) == {j \in 1 .. k - 1 : Role[s[j].proc] = Role[s[k].proc]}
            rank(k) == Cardinality(same(k))
<1>1. \A k \in 1 .. Num : Role[s[k].proc] \in {"server", "worker"}
  BY ProcAssumption
<1>2. ASSUME NEW k \in 1 .. Num
      PROVE  IsFiniteSet(same(k)) /\ rank(k) \in 0 .. Num - 1
  <2>1. IsFiniteSet(1 .. k - 1) /\ Cardinality(1 .. k - 1) = k - 1
    <3>1. k \in Int /\ k >= 1
      BY NumFacts
    <3>. QED
      BY <3>1, IntervalSize
  <2>2. IsFiniteSet(same(k)) /\ rank(k) <= k - 1
    BY <2>1, FS_Subset
  <2>3. rank(k) \in Nat
    BY <2>2, FS_CardinalityType
  <2>. QED
    BY <2>2, <2>3, NumFacts
<1>3. \A k \in 1 .. Num : RankedID(s, k) = RankToID(Role[s[k].proc], rank(k))
  BY DEF RankedID
<1>4. ASSUME NEW k \in 1 .. Num, NEW l \in 1 .. Num, k < l,
             Role[s[k].proc] = Role[s[l].proc]
      PROVE  rank(k) # rank(l)
  <2>1. same(k) \cup {k} \subseteq same(l) /\ k \notin same(k)
    BY <1>4, NumFacts
  <2>2. IsFiniteSet(same(k)) /\ IsFiniteSet(same(l)) /\ rank(k) \in Nat /\ rank(l) \in Nat
    BY <1>2
  <2>3. Cardinality(same(k) \cup {k}) = rank(k) + 1
    BY <2>1, <2>2, FS_AddElement
  <2>4. Cardinality(same(k) \cup {k}) <= rank(l)
    BY <2>1, <2>2, FS_Subset
  <2>. QED
    BY <2>2, <2>3, <2>4
<1>5. \A k \in 1 .. Num : rank(k) \in 0 .. Num - 1
  BY <1>2
<1>. HIDE DEF rank, same
<1>6. ASSUME NEW k \in 1 .. Num, NEW l \in 1 .. Num, RankedID(s, k) = RankedID(s, l)
      PROVE  k = l
  <2>1. Role[s[k].proc] = Role[s[l].proc] /\ rank(k) = rank(l)
    <3>1. rank(k) \in Nat /\ rank(l) \in Nat
      BY <1>5
    <3>. QED
      BY <1>1, <1>3, <1>6, <3>1, IDFacts
  <2>2. ~(k < l) /\ ~(l < k)
    BY <2>1, <1>4
  <2>. QED
    BY <2>2, NumFacts
<1>7. \A k \in 1 .. Num : RankedID(s, k) \in AnyID
  BY <1>1, <1>3, <1>5 DEF AnyID
<1>. QED
  BY <1>3, <1>5, <1>6, <1>7

\* The first entry of an address is the same for all the entries of the address
LEMMA FirstFacts ==
  ASSUME NEW s
  PROVE  /\ \A k \in 1 .. Num :
              FirstOf(s, k) \in 1 .. k /\ s[FirstOf(s, k)].proc = s[k].proc
         /\ \A k, l \in 1 .. Num : s[k].proc = s[l].proc => FirstOf(s, k) = FirstOf(s, l)
<1>1. ASSUME NEW k \in 1 .. Num
      PROVE  /\ FirstOf(s, k) \in 1 .. k /\ s[FirstOf(s, k)].proc = s[k].proc
             /\ \A j \in 1 .. FirstOf(s, k) - 1 : s[j].proc # s[k].proc
  <2>. DEFINE S == {j \in 1 .. k : s[j].proc = s[k].proc}
  <2>1. k \in S /\ S \in SUBSET Nat
    BY NumFacts
  <2>2. PICK n \in S : \A m \in S : n <= m
    BY <2>1, Least
  <2>3. \A j \in 1 .. n - 1 : s[j].proc # s[k].proc
    BY <2>2, NumFacts
  <2>4. \E j \in 1 .. k : s[j].proc = s[k].proc /\ \A i \in 1 .. j - 1 : s[i].proc # s[k].proc
    BY <2>2, <2>3
  <2>. QED
    BY <2>4 DEF FirstOf
<1>2. ASSUME NEW k \in 1 .. Num, NEW l \in 1 .. Num, s[k].proc = s[l].proc
      PROVE  FirstOf(s, k) = FirstOf(s, l)
  <2>. DEFINE a == FirstOf(s, k)
              b == FirstOf(s, l)
  <2>1. a \in 1 .. k /\ s[a].proc = s[k].proc /\ \A j \in 1 .. a - 1 : s[j].proc # s[k].proc
    BY <1>1
  <2>2. b \in 1 .. l /\ s[b].proc = s[k].proc /\ \A j \in 1 .. b - 1 : s[j].proc # s[k].proc
    BY <1>1, <1>2
  <2>. HIDE DEF a, b
  <2>3. ~(a < b) /\ ~(b < a)
    BY <2>1, <2>2, NumFacts
  <2>4. a \in Int /\ b \in Int
    BY <2>1, <2>2, NumFacts
  <2>5. a = b
    BY <2>3, <2>4
  <2>. QED
    BY <2>5 DEF a, b
<1>. QED
  BY <1>1, <1>2

\* The order of the list is one in which a finite set of ids can be told
LEMMA NthFacts ==
  ASSUME NEW S \in SUBSET AnyID, IsFiniteSet(S), NEW k \in 1 .. Cardinality(S)
  PROVE  Nth(S, k) \in S
<1>. DEFINE lower(i) == {j \in S : Before(j, i)}
            rank == [i \in S |-> Cardinality(lower(i))]
            n == Cardinality(S)
<1>1. n \in Nat /\ S \subseteq Nat
  BY FS_CardinalityType, IDFacts
<1>2. \A i \in Nat : ~Before(i, i)
  BY DEF Before
<1>3. \A i, j, l \in Nat : Before(i, j) /\ Before(j, l) => Before(i, l)
  BY DEF Before
<1>4. \A i, j \in Nat : i = j \/ Before(i, j) \/ Before(j, i)
  BY DEF Before
<1>5. ASSUME NEW i \in S
      PROVE  IsFiniteSet(lower(i)) /\ rank[i] \in 0 .. n - 1
  <2>1. IsFiniteSet(lower(i))
    BY FS_Subset
  <2>2. i \notin lower(i) /\ lower(i) \cup {i} \subseteq S
    BY <1>1, <1>2
  <2>3. Cardinality(lower(i) \cup {i}) = Cardinality(lower(i)) + 1
    BY <2>1, <2>2, FS_AddElement
  <2>4. Cardinality(lower(i) \cup {i}) <= n
    BY <2>2, FS_Subset
  <2>5. Cardinality(lower(i)) \in Nat
    BY <2>1, FS_CardinalityType
  <2>. QED
    BY <2>1, <2>3, <2>4, <2>5, <1>1
<1>6. ASSUME NEW i \in S, NEW j \in S, Before(i, j)
      PROVE  rank[i] # rank[j]
  <2>1. lower(i) \cup {i} \subseteq lower(j) /\ i \notin lower(i)
    BY <1>1, <1>2, <1>3, <1>6
  <2>2. Cardinality(lower(i) \cup {i}) = Cardinality(lower(i)) + 1
    BY <1>5, <2>1, FS_AddElement
  <2>3. Cardinality(lower(i) \cup {i}) <= Cardinality(lower(j))
    BY <1>5, <2>1, FS_Subset
  <2>4. Cardinality(lower(i)) \in Nat /\ Cardinality(lower(j)) \in Nat
    BY <1>5, FS_CardinalityType
  <2>. QED
    BY <2>2, <2>3, <2>4
<1>7. rank \in Injection(S, 0 .. n - 1)
  <2>1. rank \in [S -> 0 .. n - 1]
    BY <1>5
  <2>2. \A i, j \in S : rank[i] = rank[j] => i = j
    BY <1>1, <1>4, <1>6
  <2>. HIDE DEF rank, n
  <2>. QED
    BY <2>1, <2>2 DEF Injection, IsInjective
<1>8. IsFiniteSet(0 .. n - 1) /\ Cardinality(0 .. n - 1) = n
  BY <1>1, IntervalSize
<1>9. rank \in Surjection(S, 0 .. n - 1)
  <2>. HIDE DEF rank
  <2>. QED
    BY <1>7, <1>8, FS_Injection
<1>10. \E i \in S : rank[i] = k - 1
  <2>. HIDE DEF rank
  <2>1. k - 1 \in 0 .. n - 1
    BY <1>1
  <2>. QED
    BY <1>9, <2>1 DEF Surjection
<1>11. \E i \in S : Cardinality({j \in S : Before(j, i)}) = k - 1
  BY <1>10
<1>. QED
  BY <1>11 DEF Nth

\* What numbering does to a list: the entries of one address have one id, the
\* rank of the first of them
LEMMA NumberedFacts ==
  ASSUME NEW s \in [1 .. Num -> Slot], NEW list \in {Numbered(s)}
  PROVE  /\ list \in [1 .. Num -> Slot]
         /\ \A k \in 1 .. Num :
              /\ list[k].proc = s[k].proc /\ list[k].id \in AnyID
              /\ \E rank \in 0 .. Num - 1 : list[k].id = RankToID(Role[list[k].proc], rank)
              /\ \E j \in 1 .. Num : list[k].id = RankedID(list, j)
         /\ \A k, l \in 1 .. Num : list[k].id = list[l].id <=> list[k].proc = list[l].proc
<1>1. \A k \in 1 .. Num : s[k] \in Slot /\ s[k].proc \in Proc /\ s[k].rec \in BOOLEAN
  BY DEF Slot
<1>2. ASSUME NEW k \in 1 .. Num
      PROVE  /\ FirstOf(s, k) \in 1 .. Num
             /\ s[FirstOf(s, k)].proc = s[k].proc
             /\ RankedID(s, FirstOf(s, k)) \in AnyID
             /\ \E rank \in 0 .. Num - 1 :
                  RankedID(s, FirstOf(s, k)) = RankToID(Role[s[k].proc], rank)
  <2>1. FirstOf(s, k) \in 1 .. k /\ s[FirstOf(s, k)].proc = s[k].proc
    BY FirstFacts
  <2>2. FirstOf(s, k) \in 1 .. Num
    BY <2>1, NumFacts
  <2>. QED
    BY <2>1, <2>2, <1>1, RankedFacts
<1>3. ASSUME NEW k \in 1 .. Num
      PROVE  list[k] = [proc |-> s[k].proc, id |-> RankedID(s, FirstOf(s, k)), rec |-> s[k].rec]
  <2>1. list = Numbered(s)
    OBVIOUS
  <2>2. s[k] = [proc |-> s[k].proc, id |-> s[k].id, rec |-> s[k].rec]
    BY <1>1 DEF Slot
  <2>3. list[k] = [s[k] EXCEPT !.id = RankedID(s, FirstOf(s, k))]
    BY <2>1 DEF Numbered
  <2>. QED
    BY <2>2, <2>3
<1>4. ASSUME NEW k \in 1 .. Num
      PROVE  /\ list[k].proc = s[k].proc /\ list[k].id = RankedID(s, FirstOf(s, k))
             /\ list[k].rec = s[k].rec
  <2>. DEFINE i == RankedID(s, FirstOf(s, k))
  <2>1. list[k] = [proc |-> s[k].proc, id |-> i, rec |-> s[k].rec]
    BY <1>3
  <2>. HIDE DEF i
  <2>2. list[k].proc = s[k].proc /\ list[k].id = i /\ list[k].rec = s[k].rec
    BY <2>1
  <2>. QED
    BY <2>2 DEF i
<1>5. list \in [1 .. Num -> Slot]
  <2>1. ASSUME NEW k \in 1 .. Num PROVE list[k] \in Slot
    <3>. DEFINE i == RankedID(s, FirstOf(s, k))
    <3>1. s[k].proc \in Proc /\ s[k].rec \in BOOLEAN /\ i \in AnyID
      BY <1>1, <1>2
    <3>2. list[k] = [proc |-> s[k].proc, id |-> i, rec |-> s[k].rec]
      BY <1>3
    <3>. HIDE DEF i
    <3>. QED
      BY <3>1, <3>2 DEF Slot
  <2>2. list = [k \in 1 .. Num |-> list[k]]
    BY DEF Numbered
  <2>. QED
    BY <2>1, <2>2
<1>6. ASSUME NEW k \in 1 .. Num PROVE RankedID(list, k) = RankedID(s, k)
  <2>1. \A j \in 1 .. k - 1 : j \in 1 .. Num
    BY NumFacts
  <2>2. {j \in 1 .. k - 1 : Role[list[j].proc] = Role[list[k].proc]}
          = {j \in 1 .. k - 1 : Role[s[j].proc] = Role[s[k].proc]}
    BY <1>4, <2>1
  <2>. QED
    BY <1>4, <2>2 DEF RankedID
<1>7. \A k \in 1 .. Num : \E j \in 1 .. Num : list[k].id = RankedID(list, j)
  BY <1>2, <1>4, <1>6
<1>8. ASSUME NEW k \in 1 .. Num, NEW l \in 1 .. Num
      PROVE  list[k].id = list[l].id <=> list[k].proc = list[l].proc
  <2>1. ASSUME list[k].id = list[l].id PROVE list[k].proc = list[l].proc
    <3>1. FirstOf(s, k) \in 1 .. Num /\ s[FirstOf(s, k)].proc = s[k].proc
      BY <1>2
    <3>2. FirstOf(s, l) \in 1 .. Num /\ s[FirstOf(s, l)].proc = s[l].proc
      BY <1>2
    <3>3. RankedID(s, FirstOf(s, k)) = RankedID(s, FirstOf(s, l))
      BY <2>1, <1>4
    <3>4. \A i \in 1 .. Num : s[i].proc \in Proc
      BY <1>1
    <3>5. FirstOf(s, k) = FirstOf(s, l)
      BY <3>1, <3>2, <3>3, <3>4, RankedFacts
    <3>. QED
      BY <3>1, <3>2, <3>5, <1>4
  <2>2. ASSUME list[k].proc = list[l].proc PROVE list[k].id = list[l].id
    BY <2>2, <1>4, FirstFacts
  <2>. QED
    BY <2>1, <2>2
<1>9. ASSUME NEW k \in 1 .. Num
      PROVE  /\ list[k].proc = s[k].proc /\ list[k].id \in AnyID
             /\ \E rank \in 0 .. Num - 1 : list[k].id = RankToID(Role[list[k].proc], rank)
  BY <1>2, <1>4
<1>. QED
  BY <1>5, <1>7, <1>8, <1>9

\* The ranks of a list are as many as the ids of the job: if one of the two sets
\* is in the other, they are the same
LEMMA RanksCover ==
  ASSUME NEW list, \A k \in 1 .. Num : list[k].proc \in Proc,
         NEW R, R = {RankedID(list, k) : k \in 1 .. Num},
         R \subseteq NodeIDs \/ NodeIDs \subseteq R
  PROVE  R = NodeIDs
<1>. DEFINE f == [k \in 1 .. Num |-> RankedID(list, k)]
<1>1. f \in Bijection(1 .. Num, R)
  <2>1. f \in [1 .. Num -> R]
    OBVIOUS
  <2>2. \A k, l \in 1 .. Num : f[k] = f[l] => k = l
    BY RankedFacts
  <2>3. \A i \in R : \E k \in 1 .. Num : f[k] = i
    OBVIOUS
  <2>. HIDE DEF f
  <2>. QED
    BY <2>1, <2>2, <2>3 DEF Bijection, Injection, Surjection, IsInjective
<1>2. IsFiniteSet(R) /\ Cardinality(R) = Num
  BY <1>1, NumFacts, FS_Bijection DEF ExistsBijection
<1>. QED
  BY <1>2, NodeIDsSize, FS_Subset

\* The lists new are added to the inboxes: lists of ids to the processes that the
\* scheduler reaches under them, and at least one to each unless it stops
Delivers(ids, list, new) ==
  /\ new \in [Proc -> Seq({list[i] : i \in ids})]
  /\ inbox' = [p \in Proc |-> inbox[p] \o new[p]]
  /\ \A p \in Proc : \A k \in 1 .. Len(new[p]) :
       \E i \in ids : sockets'[i] = p /\ new[p][k] = list[i]
  /\ ~aborted' => \A i \in ids : sockets'[i] \in Proc => Len(new[sockets'[i]]) > 0

\* What Broadcast sends: to each process lists of ids that are its own, and at
\* least one to each process that has an id, unless a socket is missing
LEMMA BroadcastFacts ==
  ASSUME NEW ids \in SUBSET AnyID, IsFiniteSet(ids),
         NEW list,
         Broadcast(ids, list)
  PROVE  /\ aborted' = (\E i \in ids : sockets'[i] = None)
         /\ \E new : Delivers(ids, list, new)
<1>. DEFINE missing == {i \in ids : sockets'[i] = None}
            reached == {i \in ids : \A j \in missing : Before(i, j)}
            own(p) == {i \in reached : sockets'[i] = p}
            sent(p) == [k \in 1 .. Cardinality(own(p)) |-> list[Nth(own(p), k)]]
            new == [p \in Proc |-> sent(p)]
<1>1. aborted' = (missing # {}) /\ inbox' = [p \in Proc |-> inbox[p] \o sent(p)]
  BY DEF Broadcast
<1>2. ASSUME NEW p \in Proc
      PROVE  /\ IsFiniteSet(own(p)) /\ own(p) \in SUBSET AnyID
             /\ Cardinality(own(p)) \in Nat
             /\ \A k \in 1 .. Cardinality(own(p)) : Nth(own(p), k) \in own(p)
  <2>1. IsFiniteSet(own(p)) /\ own(p) \in SUBSET AnyID
    BY FS_Subset
  <2>. HIDE DEF own
  <2>2. Cardinality(own(p)) \in Nat
    BY <2>1, FS_CardinalityType
  <2>3. \A k \in 1 .. Cardinality(own(p)) : Nth(own(p), k) \in own(p)
    BY <2>1, NthFacts
  <2>. QED
    BY <2>1, <2>2, <2>3
<1>3. ASSUME NEW p \in Proc
      PROVE  /\ sent(p) \in Seq({list[i] : i \in ids})
             /\ Len(sent(p)) = Cardinality(own(p))
             /\ \A k \in 1 .. Len(sent(p)) : sent(p)[k] = list[Nth(own(p), k)]
  <2>1. \A i \in own(p) : list[i] \in {list[j] : j \in ids}
    OBVIOUS
  <2>2. \A k \in 1 .. Cardinality(own(p)) : list[Nth(own(p), k)] \in {list[j] : j \in ids}
    BY <1>2, <2>1
  <2>. HIDE DEF own
  <2>3. Cardinality(own(p)) \in Nat
    BY <1>2
  <2>. QED
    BY <2>2, <2>3
<1>4. inbox' = [p \in Proc |-> inbox[p] \o new[p]]
  BY <1>1
<1>5. ASSUME NEW p \in Proc, NEW k \in 1 .. Len(new[p])
      PROVE  \E i \in ids : sockets'[i] = p /\ new[p][k] = list[i]
  <2>1. k \in 1 .. Len(sent(p)) /\ new[p][k] = sent(p)[k]
    OBVIOUS
  <2>2. Nth(own(p), k) \in own(p) /\ sent(p)[k] = list[Nth(own(p), k)]
    <3>. HIDE DEF own, sent
    <3>. QED
      BY <2>1, <1>2, <1>3
  <2>3. \A i \in own(p) : i \in ids /\ sockets'[i] = p
    OBVIOUS
  <2>. HIDE DEF own, sent, new
  <2>. QED
    BY <2>1, <2>2, <2>3
<1>6. ASSUME ~aborted', NEW i \in ids, sockets'[i] \in Proc
      PROVE  Len(new[sockets'[i]]) > 0
  <2>. DEFINE p == sockets'[i]
  <2>1. missing = {}
    BY <1>1, <1>6
  <2>2. i \in own(p)
    BY <2>1
  <2>3. Cardinality(own(p)) # 0
    <3>. HIDE DEF own
    <3>1. IsFiniteSet(own(p))
      BY <1>2, <1>6
    <3>. QED
      BY <2>2, <3>1, FS_EmptySet
  <2>4. Len(new[p]) = Cardinality(own(p)) /\ Cardinality(own(p)) \in Nat
    <3>1. new[p] = sent(p)
      BY <1>6
    <3>. HIDE DEF own, sent, new
    <3>. QED
      BY <3>1, <1>2, <1>3, <1>6
  <2>. HIDE DEF new, own, p
  <2>5. Len(new[p]) > 0
    BY <2>3, <2>4
  <2>. QED
    BY <2>5 DEF p
<1>7. new \in [Proc -> Seq({list[i] : i \in ids})]
  <2>. HIDE DEF sent
  <2>. QED
    BY <1>3
<1>8. aborted' = (\E i \in ids : sockets'[i] = None)
  <2>1. (missing # {}) <=> \E i \in ids : sockets'[i] = None
    OBVIOUS
  <2>. QED
    BY <1>1, <2>1
<1>. HIDE DEF new
<1>9. Delivers(ids, list, new)
  BY <1>4, <1>5, <1>6, <1>7 DEF Delivers
<1>. QED
  BY <1>8, <1>9

----------------------------------------------------------------------------
\* Nobody comes back, and nobody's id changes any more
Keeps ==
  /\ crashed \subseteq crashed'
  /\ \A p \in Proc \ crashed' : Due(p) # None => Due(p)' = Due(p)

\* Who has gone stays away, who has settled stays so
LEMMA KeepsGone ==
  ASSUME Keeps
  PROVE  /\ \A p \in Proc : \A i : Gone(p, i) => Gone(p, i)'
         /\ \A p \in Proc : Settled(p) => Settled(p)'
BY DEF Keeps, Gone, Settled

\* Messages at the end of an inbox leave what its process is due unchanged
LEMMA AppendsKeep ==
  ASSUME TypeOK, NEW new \in [Proc -> Seq(Seq(Slot))],
         inbox' = [p \in Proc |-> inbox[p] \o new[p]],
         UNCHANGED <<myID, crashed>>
  PROVE  /\ Keeps
         /\ \A p \in Proc : new[p] = <<>> \/ inbox[p] # <<>> => Due(p)' = Due(p)
<1>1. ASSUME NEW p \in Proc, inbox[p] # <<>> PROVE Due(p)' = Due(p)
  <2>1. inbox[p] \in Seq(Seq(Slot)) /\ new[p] \in Seq(Seq(Slot))
    BY DEF TypeOK
  <2>2. inbox'[p] = inbox[p] \o new[p]
    OBVIOUS
  <2>3. inbox'[p] # <<>> /\ Head(inbox'[p]) = Head(inbox[p])
    BY <1>1, <2>1, <2>2
  <2>. QED
    BY <1>1, <2>3 DEF Due, LocalID
<1>2. ASSUME NEW p \in Proc, new[p] = <<>> PROVE Due(p)' = Due(p)
  <2>1. inbox'[p] = inbox[p]
    BY <1>2 DEF TypeOK
  <2>. QED
    BY <2>1 DEF Due, LocalID
<1>3. ASSUME NEW p \in Proc, inbox[p] = <<>>, Due(p) # None PROVE Due(p)' = Due(p)
  BY <1>3 DEF Due, LocalID
<1>. QED
  BY <1>1, <1>2, <1>3 DEF Keeps

----------------------------------------------------------------------------
\* The first state
LEMMA InvInit ==
  ASSUME Init PROVE MembershipInv
<1>. USE DEF Init
<1>1. TypeOK
  <2>1. nodes = <<>> /\ recovered = <<>> /\ Len(<<>>) <= Num
    BY NumFacts
  <2>2. nodes \in Seq(Slot) /\ recovered \in Seq({e \in Slot : e.id # None /\ e.rec})
    BY <2>1
  <2>3. inbox \in [Proc -> Seq(Seq(Slot))]
    OBVIOUS
  <2>. QED
    BY <2>1, <2>2, <2>3 DEF TypeOK
<1>2. Phase
  BY NumFacts DEF Phase
<1>3. Counted
  <2>1. 1 .. Len(nodes) = {}
    OBVIOUS
  <2>2. \A role : InList(role) = {} /\ OnTheWay(role) = {} /\ Asked(role) = {}
    BY <2>1 DEF InList, OnTheWay, Asked
  <2>3. Cardinality({}) + Cardinality({}) = Cardinality({}) /\ IsFiniteSet({})
    BY FS_EmptySet
  <2>. QED
    BY <2>2, <2>3 DEF Counted
<1>4. \A p \in Proc : Due(p) = None
  BY DEF Due
<1>5. IDsCovered /\ Placed /\ Informed /\ OneOwner /\ Running /\ Connected
  BY <1>4 DEF IDsCovered, Placed, Informed, OneOwner, Running, Connected, Alive
<1>. QED
  BY <1>1, <1>2, <1>3, <1>5 DEF MembershipInv

\* A step that leaves the lists, the ids and the nodes alone
LEMMA InvFrame ==
  ASSUME MembershipInv, TypeOK', Counted',
         UNCHANGED <<nodes, recovered, assigned, shared, sockets, stale, aborted, inbox,
                     members, crashed>>
  PROVE  MembershipInv'
<1>. USE DEF MembershipInv, members
<1>1. /\ \A p : Due(p)' = Due(p) /\ Settled(p)' = Settled(p)
      /\ \A p, i : Gone(p, i)' = Gone(p, i)
  BY DEF Due, LocalID, Settled, Gone
<1>2. Phase' /\ IDsCovered'
  BY DEF Phase, IDsCovered
<1>3. Placed' /\ Informed'
  BY <1>1 DEF Placed, Informed, Place, Alive
<1>4. OneOwner'
  BY <1>1 DEF OneOwner
<1>5. Running'
  BY <1>1 DEF Running, Alive, Place
<1>6. \A p, q, i : Linked(p, q, i)' = Linked(p, q, i)
  BY DEF Linked, Only, First
<1>7. Connected'
  BY <1>1, <1>6 DEF Connected, Alive
<1>. QED
  BY <1>2, <1>3, <1>4, <1>5, <1>7

\* The entries of lists are processes
LEMMA NamesFacts ==
  /\ \A list \in Seq(Slot) : Names(list) \subseteq Proc
  /\ \A list \in Seq(Slot) : \A k \in 1 .. Len(list) :
       list[k] \in Slot /\ list[k].proc \in Proc /\ list[k].proc \in Names(list)
<1>1. ASSUME NEW list \in Seq(Slot), NEW k \in 1 .. Len(list)
      PROVE  list[k] \in Slot /\ list[k].proc \in Proc /\ list[k].proc \in Names(list)
  <2>1. list[k] \in Slot
    OBVIOUS
  <2>. QED
    BY <2>1 DEF Slot, Names
<1>. QED
  BY <1>1 DEF Names

\* The places of the list, once it is complete
LEMMA SlotFacts ==
  ASSUME TypeOK, Phase, assigned \/ aborted
  PROVE  \A k \in 1 .. Num : nodes[k] \in Slot /\ nodes[k].proc \in Proc /\ nodes[k].id \in AnyID
<1>1. nodes \in Seq(Slot) /\ Len(nodes) = Num
  BY DEF TypeOK, Phase
<1>2. \A k \in 1 .. Num : nodes[k].id \in AnyID
  BY DEF Phase
<1>. QED
  BY <1>1, <1>2, NamesFacts

\* A thread registers
LEMMA InvRegister ==
  ASSUME MembershipInv, NEW t \in Thread, Register(t)
  PROVE  MembershipInv'
<1>. DEFINE p == t[1]
            m == [thread |-> t, known |-> myID[p] # None]
<1>1. /\ t \in Thread /\ t \notin asked /\ asked' = asked \cup {t} /\ joins' = joins \cup {m}
      /\ p \in Late => \E q \in crashed : Role[q] = Role[p]
      /\ UNCHANGED <<scheduler, inbox, members, crashed>>
  BY DEF Register
<1>2. m.thread = t /\ m \in [thread : Thread, known : BOOLEAN]
  OBVIOUS
<1>3. TypeOK'
  BY <1>1, <1>2 DEF TypeOK, MembershipInv, scheduler, members
<1>4. m \notin joins
  BY <1>1, <1>2 DEF MembershipInv, Counted
<1>5. IsFiniteSet(asked') /\ IsFiniteSet(joins')
  BY <1>1, FS_AddElement DEF MembershipInv, Counted
<1>6. ASSUME NEW role \in {"server", "worker"}, ~(assigned \/ aborted)
      PROVE  Cardinality(InList(role))' + Cardinality(OnTheWay(role))' = Cardinality(Asked(role))'
  <2>. DEFINE way == OnTheWay(role)
              done == Asked(role)
  <2>1. /\ IsFiniteSet(way) /\ IsFiniteSet(done)
        /\ Cardinality(way) \in Nat /\ Cardinality(done) \in Nat
    BY FS_Subset, FS_CardinalityType DEF MembershipInv, Counted, OnTheWay, Asked
  <2>2. /\ IsFiniteSet(InList(role)) /\ Cardinality(InList(role)) \in Nat
        /\ InList(role)' = InList(role)
    <3>1. Len(nodes) \in Int
      BY DEF MembershipInv, TypeOK
    <3>2. IsFiniteSet(1 .. Len(nodes))
      BY <3>1, FS_Interval
    <3>. QED
      BY <1>1, <3>2, FS_Subset, FS_CardinalityType DEF InList, scheduler
  <2>3. Cardinality(InList(role)) + Cardinality(way) = Cardinality(done)
    BY <1>6 DEF MembershipInv, Counted
  <2>4. CASE Role[p] = role
    <3>1. OnTheWay(role)' = way \cup {m} /\ Asked(role)' = done \cup {t}
      BY <1>1, <1>2, <2>4 DEF OnTheWay, Asked
    <3>2. m \notin way /\ t \notin done
      BY <1>1, <1>4 DEF OnTheWay, Asked
    <3>3. /\ Cardinality(way \cup {m}) = Cardinality(way) + 1
          /\ Cardinality(done \cup {t}) = Cardinality(done) + 1
      <4>. HIDE DEF way, done, m
      <4>. QED
        BY <2>1, <3>2, FS_AddElement
    <3>. HIDE DEF way, done, m
    <3>. QED
      BY <2>1, <2>2, <2>3, <3>1, <3>3
  <2>5. CASE Role[p] # role
    <3>1. OnTheWay(role)' = way /\ Asked(role)' = done
      BY <1>1, <1>2, <2>5 DEF OnTheWay, Asked
    <3>. HIDE DEF way, done, m
    <3>. QED
      BY <2>2, <2>3, <3>1
  <2>. QED
    BY <2>4, <2>5
<1>7. crashed' = {} => asked' \subseteq Launched
  BY <1>1 DEF MembershipInv, Counted, Launched
<1>8. \A n \in joins' : n.thread \in asked'
  BY <1>1, <1>2 DEF MembershipInv, Counted
<1>9. assigned' = assigned /\ aborted' = aborted
  BY <1>1 DEF scheduler
<1>10. Counted'
  BY <1>5, <1>6, <1>7, <1>8, <1>9 DEF Counted
<1>. QED
  BY <1>1, <1>3, <1>10, InvFrame DEF scheduler

\* Before the last registration nobody is due an id
LEMMA NoneDue ==
  ASSUME Phase, ~(assigned \/ aborted)
  PROVE  \A p \in Proc : Due(p) = None
BY DEF Phase, Due

\* The scheduler takes a registration into its list
LEMMA InvJoinEarly ==
  ASSUME MembershipInv, NEW m \in joins, JoinEarly(m)
  PROVE  MembershipInv'
<1>. DEFINE slot == NewSlot(m.thread[1])
<1>1. /\ ~(assigned \/ aborted) /\ Len(nodes) + 1 < Num
      /\ joins' = joins \ {m} /\ nodes' = Append(nodes, slot)
      /\ UNCHANGED <<asked, recovered, assigned, shared, sockets, stale, aborted, inbox,
                     members, crashed>>
  BY DEF JoinEarly
<1>2. TypeOK /\ Phase /\ Counted
  BY DEF MembershipInv
<1>3. m.thread \in Thread /\ m.thread[1] \in Proc
  BY <1>2 DEF TypeOK, Thread
<1>4. slot \in Slot /\ slot.proc = m.thread[1] /\ slot = NewSlot(slot.proc)
  BY <1>3 DEF Slot, NewSlot
<1>5. nodes \in Seq(Slot) /\ Len(nodes) \in Nat
  BY <1>2 DEF TypeOK
<1>6. /\ nodes' \in Seq(Slot) /\ Len(nodes') = Len(nodes) + 1
      /\ \A k \in 1 .. Len(nodes) : nodes'[k] = nodes[k]
      /\ nodes'[Len(nodes) + 1] = slot
  <2>. HIDE DEF slot
  <2>. QED
    BY <1>1, <1>4, <1>5
<1>7. 1 .. Len(nodes') = (1 .. Len(nodes)) \cup {Len(nodes) + 1}
  BY <1>5, <1>6
<1>8. TypeOK'
  BY <1>1, <1>2, <1>6, NumFacts DEF TypeOK, members
<1>9. Phase'
  <2>1. \A k \in 1 .. Len(nodes') : nodes'[k] = NewSlot(nodes'[k].proc)
    BY <1>1, <1>2, <1>4, <1>6, <1>7 DEF Phase
  <2>2. Len(nodes') < Num
    BY <1>1, <1>6
  <2>. QED
    BY <1>1, <1>2, <2>1, <2>2 DEF Phase, members
<1>10. ASSUME NEW role \in {"server", "worker"}
       PROVE  Cardinality(InList(role))' + Cardinality(OnTheWay(role))' = Cardinality(Asked(role))'
  <2>. DEFINE way == OnTheWay(role)
              list == InList(role)
              n == Len(nodes) + 1
  <2>1. IsFiniteSet(way) /\ Cardinality(way) \in Nat
    BY <1>2, FS_Subset, FS_CardinalityType DEF Counted, OnTheWay
  <2>2. IsFiniteSet(list) /\ Cardinality(list) \in Nat
    <3>1. IsFiniteSet(1 .. Len(nodes))
      BY <1>5, FS_Interval
    <3>. QED
      BY <3>1, FS_Subset, FS_CardinalityType DEF InList
  <2>3. Cardinality(list) + Cardinality(way) = Cardinality(Asked(role))
    BY <1>1, <1>2 DEF Counted
  <2>4. Asked(role)' = Asked(role)
    BY <1>1 DEF Asked
  <2>5. n \notin list
    BY <1>5 DEF InList
  <2>6. CASE Role[m.thread[1]] = role
    <3>1. OnTheWay(role)' = way \ {m} /\ m \in way
      BY <1>1, <2>6 DEF OnTheWay
    <3>2. InList(role)' = list \cup {n}
      BY <1>4, <1>6, <1>7, <2>6 DEF InList
    <3>3. Cardinality(way \ {m}) = Cardinality(way) - 1 /\ Cardinality(list \cup {n}) = Cardinality(list) + 1
      <4>. HIDE DEF way, list, n
      <4>. QED
        BY <2>1, <2>2, <2>5, <3>1, FS_AddElement, FS_RemoveElement
    <3>. HIDE DEF way, list, n
    <3>. QED
      BY <2>1, <2>2, <2>3, <2>4, <3>1, <3>2, <3>3
  <2>7. CASE Role[m.thread[1]] # role
    <3>1. OnTheWay(role)' = way
      BY <1>1, <2>7 DEF OnTheWay
    <3>2. InList(role)' = list
      BY <1>4, <1>6, <1>7, <2>7 DEF InList
    <3>. HIDE DEF way, list, n
    <3>. QED
      BY <2>3, <2>4, <3>1, <3>2
  <2>. QED
    BY <2>6, <2>7
<1>11. Counted'
  <2>1. IsFiniteSet(joins')
    BY <1>1, <1>2, FS_RemoveElement DEF Counted
  <2>. QED
    BY <1>1, <1>2, <1>10, <2>1 DEF Counted
<1>12. \A p \in Proc : Due(p)' = None
  BY <1>1, <1>2 DEF Phase, Due, members
<1>13. IDsCovered' /\ Placed' /\ OneOwner' /\ Running' /\ Connected'
  BY <1>1, <1>12 DEF IDsCovered, Placed, OneOwner, Running, Connected, Alive
<1>14. Informed'
  BY <1>1, <1>2 DEF Phase, Informed, Alive, members
<1>. QED
  BY <1>8, <1>9, <1>11, <1>13, <1>14 DEF MembershipInv

\* The time of a heartbeat runs out
LEMMA InvExpire ==
  ASSUME MembershipInv, NEW i \in AnyID, Expire(i)
  PROVE  MembershipInv'
<1>. USE DEF MembershipInv, members
<1>1. /\ assigned /\ ~aborted /\ Renewing(i) = {} /\ stale' = stale \cup {i}
      /\ UNCHANGED <<asked, joins, nodes, recovered, assigned, shared, sockets, aborted, inbox,
                     members, crashed>>
  BY DEF Expire
<1>2. /\ \A p : Due(p)' = Due(p) /\ Settled(p)' = Settled(p)
      /\ \A p, j : Gone(p, j)' = Gone(p, j)
  BY <1>1 DEF Due, LocalID, Settled, Gone
<1>3. TypeOK'
  BY <1>1 DEF TypeOK
<1>4. Phase'
  BY <1>1 DEF Phase
<1>5. Counted'
  BY <1>1 DEF Counted
<1>6. IDsCovered'
  BY <1>1 DEF IDsCovered
<1>7. Placed' /\ Informed'
  BY <1>1, <1>2 DEF Placed, Informed, Place, Alive
<1>8. OneOwner'
  BY <1>1, <1>2 DEF OneOwner
<1>9. ASSUME NEW k \in 1 .. Num, nodes[k].id = i PROVE Gone(nodes[k].proc, i)
  <2>1. ~Beats(nodes[k].proc, i)
    BY <1>1, <1>9 DEF Renewing
  <2>. QED
    BY <2>1 DEF Beats, Gone, Due, LocalID
<1>10. Running'
  <2>1. ASSUME NEW k \in 1 .. Num, nodes[k].id \in stale'
        PROVE  Gone(nodes[k].proc, nodes[k].id)
    BY <1>1, <1>9, <2>1 DEF Running
  <2>. QED
    BY <1>1, <1>2, <2>1 DEF Running, Alive, Place
<1>11. \A p, q, j : Linked(p, q, j)' = Linked(p, q, j)
  BY <1>1 DEF Linked, Only, First
<1>12. Connected'
  BY <1>1, <1>2, <1>11 DEF Connected, Alive
<1>. QED
  BY <1>3, <1>4, <1>5, <1>6, <1>7, <1>8, <1>10, <1>12

\* A process crashes
LEMMA InvCrash ==
  ASSUME MembershipInv, NEW p \in Proc, Crash(p)
  PROVE  MembershipInv'
<1>. USE DEF MembershipInv, members, scheduler
<1>1. /\ p \notin crashed /\ crashed' = crashed \cup {p}
      /\ inbox' = [inbox EXCEPT ![p] = <<>>]
      /\ UNCHANGED <<asked, joins, scheduler, members>>
  BY DEF Crash
<1>2. inbox \in [Proc -> Seq(Seq(Slot))]
  BY DEF TypeOK
<1>3. \A q \in Proc \ {p} : inbox'[q] = inbox[q]
  BY <1>1, <1>2
<1>4. \A q \in Proc \ {p} : Due(q)' = Due(q)
  BY <1>1, <1>3 DEF Due, LocalID
<1>5. Alive' = Alive \ {p}
  BY <1>1 DEF Alive
<1>6. Keeps
  BY <1>1, <1>4 DEF Keeps
<1>7. TypeOK'
  <2>1. <<>> \in Seq(Seq(Slot))
    OBVIOUS
  <2>2. inbox' \in [Proc -> Seq(Seq(Slot))]
    BY <1>1, <1>2, <2>1
  <2>. QED
    BY <1>1, <2>2 DEF TypeOK
<1>8. Phase'
  <2>1. inbox'[p] = <<>>
    BY <1>1, <1>2
  <2>. QED
    BY <1>1, <1>3, <2>1 DEF Phase
<1>9. Counted'
  BY <1>1 DEF Counted, InList, OnTheWay, Asked
<1>10. IDsCovered'
  BY <1>1 DEF IDsCovered
<1>11. Placed'
  BY <1>1, <1>4, <1>5 DEF Placed, Place, Alive
<1>12. Informed'
  BY <1>1, <1>3, <1>4, <1>5 DEF Informed, Alive
<1>13. \A k \in 1 .. Num : assigned \/ aborted => nodes[k].proc \in Proc
  BY SlotFacts
<1>14. OneOwner'
  <2>1. ASSUME NEW k \in 1 .. Num, NEW l \in 1 .. Num, assigned \/ aborted,
               nodes[k].id = nodes[l].id, nodes[k].proc # nodes[l].proc
        PROVE  /\ \E j \in 1 .. Len(recovered) : recovered[j].id = nodes[k].id
               /\ Gone(nodes[k].proc, nodes[k].id)' \/ Gone(nodes[l].proc, nodes[k].id)'
    <3>1. /\ \E j \in 1 .. Len(recovered) : recovered[j].id = nodes[k].id
          /\ Gone(nodes[k].proc, nodes[k].id) \/ Gone(nodes[l].proc, nodes[k].id)
      BY <2>1 DEF OneOwner
    <3>2. nodes'[k] = nodes[k] /\ nodes'[l] = nodes[l]
      BY <1>1
    <3>. QED
      BY <2>1, <3>1, <3>2, <1>1, <1>6, <1>13, KeepsGone
  <2>. QED
    BY <1>1, <2>1 DEF OneOwner
<1>15. Running'
  <2>. SUFFICES ASSUME assigned, ~aborted
                PROVE  Running'
    BY <1>1 DEF Running
  <2>1. \A i \in AnyID : sockets[i] # None => Settled(sockets[i])'
    BY <1>1, <1>6, KeepsGone DEF Running, TypeOK
  <2>2. ASSUME NEW k \in 1 .. Num
        PROVE  /\ sockets[nodes[k].id] # None
               /\ Settled(nodes[k].proc)'
               /\ nodes[k].id \in stale => Gone(nodes[k].proc, nodes[k].id)'
    BY <1>1, <1>6, <1>13, KeepsGone DEF Running
  <2>3. ASSUME NEW q \in Alive'
        PROVE  /\ \A x \in addrs[q] : Settled(x)'
               /\ \A j \in 1 .. Len(inbox[q]) : \A x \in Names(inbox[q][j]) : Settled(x)'
    <3>1. q \in Alive /\ addrs[q] \subseteq Proc
      BY <1>5 DEF TypeOK, Alive
    <3>2. \A j \in 1 .. Len(inbox[q]) : Names(inbox[q][j]) \subseteq Proc
      <4>1. inbox[q] \in Seq(Seq(Slot))
        BY <1>2, <3>1 DEF Alive
      <4>2. \A j \in 1 .. Len(inbox[q]) : inbox[q][j] \in Seq(Slot)
        BY <4>1
      <4>. QED
        BY <4>2, NamesFacts
    <3>. QED
      BY <1>6, <3>1, <3>2, KeepsGone DEF Running
  <2>4. \A q \in Alive' : inbox'[q] = inbox[q]
    BY <1>3, <1>5 DEF Alive
  <2>. QED
    BY <1>1, <2>1, <2>2, <2>3, <2>4 DEF Running, Place
<1>16. Connected'
  <2>1. ASSUME NEW q \in Alive', NEW r \in Alive', NEW i
        PROVE  Linked(q, r, i)' = Linked(q, r, i)
    <3>1. inbox'[q] = inbox[q] /\ addrs' = addrs /\ conn' = conn
      BY <1>1, <1>3, <1>5 DEF Alive
    <3>. QED
      BY <3>1 DEF Linked, Only, First
  <2>. QED
    BY <1>4, <1>5, <2>1 DEF Connected, Alive
<1>. QED
  BY <1>7, <1>8, <1>9, <1>10, <1>11, <1>12, <1>14, <1>15, <1>16

\* A set of numbers with a bound has a greatest one
LEMMA Greatest ==
  ASSUME NEW n \in Nat, NEW S \in SUBSET (1 .. n), S # {}
  PROVE  Max(S) \in S
<1>. DEFINE T == {m \in Nat : n - m \in S}
<1>1. T # {}
  <2>1. PICK x \in S : TRUE
    OBVIOUS
  <2>2. n - x \in Nat /\ n - (n - x) = x
    OBVIOUS
  <2>. QED
    BY <2>1, <2>2
<1>2. PICK m \in T : \A l \in T : m <= l
  <2>1. T \in SUBSET Nat
    OBVIOUS
  <2>. HIDE DEF T
  <2>. QED
    BY <1>1, <2>1, Least
<1>3. n - m \in S /\ m \in Nat
  BY <1>2
<1>4. \A y \in S : n - m >= y
  <2>. SUFFICES ASSUME NEW y \in S PROVE n - m >= y
    OBVIOUS
  <2>1. n - y \in Nat /\ n - (n - y) = y
    OBVIOUS
  <2>2. n - y \in T
    BY <2>1
  <2>3. m <= n - y
    BY <1>2, <2>2
  <2>. QED
    BY <1>3, <2>3
<1>. QED
  BY <1>3, <1>4 DEF Max

\* What a node has read, it keeps: a list that links p to q is still to come or
\* has been taken in
LEMMA UpdateLinks ==
  ASSUME TypeOK, NEW p \in Proc, Update(p), NEW q \in Proc, NEW i \in AnyID,
         Role[p] # Role[q], Linked(p, q, i)
  PROVE  Linked(p, q, i)'
<1>. DEFINE list == Head(inbox[p])
            new == {k \in 1 .. Len(list) : list[k].proc \notin addrs[p]}
            joined == {k \in new : list[k].id = i /\ Connects(p, list[k], myID'[p])}
<1>1. /\ inbox[p] \in Seq(Seq(Slot)) /\ inbox[p] # <<>>
      /\ addrs \in [Proc -> SUBSET Proc] /\ conn \in [Proc -> [AnyID -> Proc \cup {None}]]
  BY DEF TypeOK, Update
<1>2. /\ inbox'[p] = Tail(inbox[p])
      /\ addrs'[p] = addrs[p] \cup {list[k].proc : k \in new}
      /\ conn'[p][i] = IF joined = {} THEN conn[p][i] ELSE list[Max(joined)].proc
  BY DEF Update, TypeOK
<1>3. /\ Len(inbox[p]) \in Nat /\ Len(inbox[p]) >= 1
      /\ Len(inbox'[p]) = Len(inbox[p]) - 1 /\ list = inbox[p][1] /\ list \in Seq(Slot)
      /\ \A j \in 1 .. Len(inbox'[p]) : inbox'[p][j] = inbox[p][j + 1]
  <2>1. list = inbox[p][1]
    BY <1>1
  <2>2. /\ Len(inbox[p]) \in Nat /\ Len(inbox[p]) >= 1
        /\ Len(inbox'[p]) = Len(inbox[p]) - 1
        /\ \A j \in 1 .. Len(inbox'[p]) : inbox'[p][j] = inbox[p][j + 1]
    <3>1. PICK s \in Seq(Seq(Slot)) : s = inbox[p] /\ s # <<>> /\ inbox'[p] = Tail(s)
      BY <1>1, <1>2
    <3>2. /\ Len(s) \in Nat /\ Len(s) >= 1 /\ Len(Tail(s)) = Len(s) - 1
          /\ \A j \in 1 .. Len(Tail(s)) : Tail(s)[j] = s[j + 1]
      BY <3>1
    <3>. QED
      BY <3>1, <3>2
  <2>3. inbox[p][1] \in Seq(Slot)
    BY <1>1, <2>2
  <2>. QED
    BY <2>1, <2>2, <2>3
<1>4. joined # {} => Max(joined) \in joined
  <2>1. joined \in SUBSET (1 .. Len(list)) /\ Len(list) \in Nat
    BY <1>3
  <2>. HIDE DEF joined
  <2>. QED
    BY <2>1, Greatest
<1>. HIDE DEF list
<1>5. ASSUME NEW k \in Nat, k >= 1, Only(p, q, i, k + 1)
      PROVE  Only(p, q, i, k)'
  <2>. SUFFICES ASSUME NEW j \in k .. Len(inbox'[p]), NEW e \in 1 .. Len(inbox'[p][j]),
                       inbox'[p][j][e].id = i
                PROVE  inbox'[p][j][e].proc = q
    BY DEF Only
  <2>1. j + 1 \in k + 1 .. Len(inbox[p]) /\ inbox'[p][j] = inbox[p][j + 1]
    BY <1>3, <1>5
  <2>. QED
    BY <1>5, <2>1 DEF Only
<1>6. ASSUME Only(p, q, i, 1) PROVE Only(p, q, i, 1)'
  <2>1. Only(p, q, i, 1 + 1)
    BY <1>6, <1>3 DEF Only
  <2>2. 1 \in Nat /\ 1 >= 1
    OBVIOUS
  <2>. QED
    BY <2>1, <2>2, <1>5
<1>7. ASSUME Only(p, q, i, 1), NEW k \in joined PROVE list[k].proc = q
  BY <1>3, <1>7 DEF Only
<1>8. CASE q \in addrs[p] /\ conn[p][i] = q /\ Only(p, q, i, 1)
  <2>1. joined = {}
    BY <1>7, <1>8
  <2>. QED
    BY <1>2, <1>6, <1>8, <2>1 DEF Linked
<1>9. ASSUME q \notin addrs[p], NEW k \in 1 .. Len(inbox[p]),
             First(p, q, i, k), Only(p, q, i, k)
      PROVE  Linked(p, q, i)'
  <2>1. CASE k = 1
    <3>1. PICK e \in 1 .. Len(list) : list[e].proc = q /\ list[e].id = i
      BY <1>3, <1>9, <2>1 DEF First
    <3>2. e \in joined
      BY <1>9, <3>1 DEF Connects
    <3>3. Max(joined) \in joined /\ joined # {}
      BY <1>4, <3>2
    <3>4. Only(p, q, i, 1)
      BY <1>9, <2>1
    <3>5. list[Max(joined)].proc = q
      BY <1>7, <3>3, <3>4
    <3>6. conn'[p][i] = q
      BY <1>2, <3>3, <3>5
    <3>7. q \in addrs'[p]
      BY <1>2, <1>9, <3>1
    <3>. QED
      BY <3>4, <3>6, <3>7, <1>6 DEF Linked
  <2>2. CASE k # 1
    <3>. DEFINE l == k - 1
    <3>1. l \in Nat /\ l >= 1 /\ l + 1 = k /\ l \in 1 .. Len(inbox'[p])
      BY <1>3, <2>2
    <3>. HIDE DEF l
    <3>2. q \notin Names(list)
      BY <1>3, <1>9, <2>2, <3>1 DEF First
    <3>3. q \notin addrs'[p]
      BY <1>2, <1>9, <3>2 DEF Names
    <3>4. Only(p, q, i, l)'
      BY <1>5, <1>9, <3>1
    <3>5. inbox'[p][l] = inbox[p][k]
      BY <1>3, <3>1
    <3>6. ASSUME NEW j \in 1 .. l - 1 PROVE q \notin Names(inbox'[p][j])
      <4>1. j + 1 \in 1 .. k - 1 /\ j \in 1 .. Len(inbox'[p])
        BY <1>3, <3>1
      <4>. QED
        BY <1>3, <1>9, <4>1 DEF First
    <3>7. First(p, q, i, l)'
      BY <1>9, <3>5, <3>6 DEF First, Names
    <3>. QED
      BY <3>1, <3>3, <3>4, <3>7 DEF Linked
  <2>. QED
    BY <2>1, <2>2
<1>. QED
  BY <1>8, <1>9 DEF Linked

\* A node reads a list
LEMMA InvUpdate ==
  ASSUME MembershipInv, NEW p \in Proc, Update(p)
  PROVE  MembershipInv'
<1>. USE DEF MembershipInv, scheduler
<1>. DEFINE list == Head(inbox[p])
            new == {k \in 1 .. Len(list) : list[k].proc \notin addrs[p]}
            joined(i) == {k \in new : list[k].id = i /\ Connects(p, list[k], myID'[p])}
<1>1. /\ inbox[p] # <<>> /\ p \notin crashed /\ p \in Alive
      /\ inbox' = [inbox EXCEPT ![p] = Tail(@)]
      /\ myID' = [myID EXCEPT ![p] = LocalID(p, list)]
      /\ addrs' = [addrs EXCEPT ![p] = @ \cup {list[k].proc : k \in new}]
      /\ conn' = [conn EXCEPT ![p] = [i \in AnyID |->
           IF joined(i) = {} THEN @[i] ELSE list[Max(joined(i))].proc]]
      /\ ready' = ready \cup {p}
      /\ UNCHANGED <<asked, joins, scheduler, crashed>>
  BY DEF Update, Alive
<1>2. /\ inbox \in [Proc -> Seq(Seq(Slot))] /\ myID \in [Proc -> AnyID \cup {None}]
      /\ addrs \in [Proc -> SUBSET Proc] /\ conn \in [Proc -> [AnyID -> Proc \cup {None}]]
      /\ inbox[p] \in Seq(Seq(Slot)) /\ list \in Seq(Slot)
  <2>1. inbox[p] \in Seq(Seq(Slot))
    BY DEF TypeOK
  <2>. QED
    BY <1>1, <2>1 DEF TypeOK
<1>3. assigned \/ aborted
  BY <1>1 DEF Phase
<1>4. Due(p) = LocalID(p, list) /\ Due(p) # None /\ Due(p) \in AnyID
  <2>1. Due(p) = LocalID(p, list) /\ Due(p) # None
    BY <1>1 DEF Due, Informed
  <2>2. Place(p, Due(p))
    BY <1>1, <2>1 DEF Placed
  <2>. QED
    BY <1>3, <2>1, <2>2 DEF Place, Phase
<1>5. myID'[p] = Due(p) /\ \A q \in Proc \ {p} : myID'[q] = myID[q] /\ inbox'[q] = inbox[q]
  BY <1>1, <1>2, <1>4
<1>. HIDE DEF joined, new, list
<1>6. \A q \in Proc : Due(q)' = Due(q)
  <2>1. Due(p)' = Due(p)
    BY <1>4, <1>5 DEF Due, LocalID
  <2>2. \A q \in Proc \ {p} : Due(q)' = Due(q)
    BY <1>5 DEF Due, LocalID
  <2>. QED
    BY <2>1, <2>2
<1>7. TypeOK'
  <2>1. inbox' \in [Proc -> Seq(Seq(Slot))]
    <3>1. Tail(inbox[p]) \in Seq(Seq(Slot))
      BY <1>1, <1>2
    <3>. QED
      BY <1>1, <1>2, <3>1
  <2>2. myID' \in [Proc -> AnyID \cup {None}]
    BY <1>1, <1>2, <1>4
  <2>3. \A k \in 1 .. Len(list) : list[k].proc \in Proc
    BY <1>2, NamesFacts
  <2>4. addrs' \in [Proc -> SUBSET Proc]
    <3>1. {list[k].proc : k \in new} \subseteq Proc
      BY <2>3 DEF new
    <3>. QED
      BY <1>1, <1>2, <3>1
  <2>5. conn' \in [Proc -> [AnyID -> Proc \cup {None}]]
    <3>1. ASSUME NEW i \in AnyID, joined(i) # {} PROVE list[Max(joined(i))].proc \in Proc
      <4>1. joined(i) \in SUBSET (1 .. Len(list)) /\ Len(list) \in Nat
        BY <1>2 DEF joined, new
      <4>2. Max(joined(i)) \in joined(i)
        BY <3>1, <4>1, Greatest
      <4>. QED
        BY <2>3, <4>1, <4>2
    <3>. DEFINE row == [i \in AnyID |-> IF joined(i) = {} THEN conn[p][i] ELSE list[Max(joined(i))].proc]
    <3>2. row \in [AnyID -> Proc \cup {None}]
      BY <3>1, <1>2
    <3>3. conn' = [conn EXCEPT ![p] = row]
      BY <1>1
    <3>. HIDE DEF row
    <3>. QED
      BY <1>2, <3>2, <3>3
  <2>. QED
    BY <1>1, <2>1, <2>2, <2>4, <2>5 DEF TypeOK
<1>8. Phase'
  BY <1>1, <1>3 DEF Phase
<1>9. Counted'
  BY <1>1, <1>3 DEF Counted
<1>10. IDsCovered'
  BY <1>1 DEF IDsCovered
<1>11. Placed'
  BY <1>1, <1>6 DEF Placed, Place, Alive
<1>12. Informed'
  <2>1. \A q \in Proc \ {p} : addrs'[q] = addrs[q]
    BY <1>1, <1>2
  <2>. QED
    BY <1>1, <1>4, <1>5, <1>6, <2>1 DEF Informed, Alive
<1>13. Keeps
  BY <1>1, <1>6 DEF Keeps
<1>14. OneOwner'
  <2>1. ASSUME NEW k \in 1 .. Num, NEW l \in 1 .. Num,
               nodes[k].id = nodes[l].id, nodes[k].proc # nodes[l].proc
        PROVE  /\ \E j \in 1 .. Len(recovered) : recovered[j].id = nodes[k].id
               /\ Gone(nodes[k].proc, nodes[k].id)' \/ Gone(nodes[l].proc, nodes[k].id)'
    <3>1. /\ \E j \in 1 .. Len(recovered) : recovered[j].id = nodes[k].id
          /\ Gone(nodes[k].proc, nodes[k].id) \/ Gone(nodes[l].proc, nodes[k].id)
      BY <1>3, <2>1 DEF OneOwner
    <3>2. nodes[k].proc \in Proc /\ nodes[l].proc \in Proc /\ nodes' = nodes
      BY <1>1, <1>3, SlotFacts
    <3>. QED
      BY <3>1, <3>2, <1>13, KeepsGone
  <2>. QED
    BY <1>1, <2>1 DEF OneOwner
<1>15. Running'
  <2>. SUFFICES ASSUME assigned, ~aborted
                PROVE  Running'
    BY <1>1 DEF Running
  <2>1. \A i \in AnyID : sockets[i] # None => Settled(sockets[i])'
    BY <1>1, <1>13, KeepsGone DEF Running, TypeOK
  <2>2. ASSUME NEW k \in 1 .. Num
        PROVE  /\ sockets[nodes[k].id] # None
               /\ Settled(nodes[k].proc)'
               /\ nodes[k].id \in stale => Gone(nodes[k].proc, nodes[k].id)'
    <3>1. nodes[k].proc \in Proc /\ nodes' = nodes
      BY <1>1, <1>3, SlotFacts
    <3>. QED
      BY <3>1, <1>13, KeepsGone DEF Running
  <2>3. ASSUME NEW q \in Alive
        PROVE  /\ \A x \in addrs[q] : Settled(x)'
               /\ \A j \in 1 .. Len(inbox[q]) : \A x \in Names(inbox[q][j]) : Settled(x)'
    <3>1. addrs[q] \subseteq Proc
      BY DEF TypeOK, Alive
    <3>2. \A j \in 1 .. Len(inbox[q]) : inbox[q][j] \in Seq(Slot)
      BY <1>2 DEF Alive
    <3>. QED
      BY <1>13, <3>1, <3>2, NamesFacts, KeepsGone DEF Running
  <2>4. \A q \in Alive \ {p} : inbox'[q] = inbox[q] /\ addrs'[q] = addrs[q]
    BY <1>1, <1>2 DEF Alive
  <2>5. \A x \in Names(list) : Settled(x)'
    <3>1. list = inbox[p][1] /\ 1 \in 1 .. Len(inbox[p])
      BY <1>1, <1>2 DEF list
    <3>. QED
      BY <1>1, <2>3, <3>1
  <2>6. \A x \in addrs'[p] : Settled(x)'
    <3>1. addrs'[p] = addrs[p] \cup {list[k].proc : k \in new}
      BY <1>1, <1>2
    <3>2. {list[k].proc : k \in new} \subseteq Names(list)
      BY DEF new, Names
    <3>. QED
      BY <1>1, <2>3, <2>5, <3>1, <3>2
  <2>7. \A j \in 1 .. Len(inbox'[p]) : \A x \in Names(inbox'[p][j]) : Settled(x)'
    <3>1. \A j \in 1 .. Len(inbox'[p]) :
            j + 1 \in 1 .. Len(inbox[p]) /\ inbox'[p][j] = inbox[p][j + 1]
      <4>1. inbox'[p] = Tail(inbox[p])
        BY <1>1, <1>2
      <4>. QED
        BY <1>1, <1>2, <4>1
    <3>. QED
      BY <1>1, <2>3, <3>1
  <2>8. Alive' = Alive
    BY <1>1 DEF Alive
  <2>. QED
    BY <1>1, <2>1, <2>2, <2>3, <2>4, <2>6, <2>7, <2>8 DEF Running, Place
<1>16. Connected'
  <2>. SUFFICES ASSUME NEW a \in Alive, NEW q \in Alive, Due(a) # None, Due(q) # None,
                       Role[a] # Role[q]
                PROVE  Linked(a, q, Due(q))'
    BY <1>1, <1>6 DEF Connected, Alive
  <2>1. Linked(a, q, Due(q)) /\ Due(q) \in AnyID
    <3>1. Place(q, Due(q))
      BY DEF Placed
    <3>. QED
      BY <1>3, <3>1, SlotFacts DEF Connected, Place
  <2>2. CASE a = p
    <3>1. PICK i \in AnyID : i = Due(q)
      BY <2>1
    <3>2. q \in Proc /\ Role[p] # Role[q] /\ Linked(p, q, i)
      BY <2>1, <2>2, <3>1 DEF Alive
    <3>3. Linked(p, q, i)'
      BY <3>2, UpdateLinks
    <3>4. Due(q)' = i
      BY <1>6, <3>1, <3>2
    <3>. QED
      BY <2>2, <3>3, <3>4
  <2>3. CASE a # p
    <3>1. inbox'[a] = inbox[a] /\ addrs'[a] = addrs[a] /\ conn'[a] = conn[a]
      BY <1>1, <1>2, <2>3 DEF Alive
    <3>2. ASSUME NEW j, Linked(a, q, j) PROVE Linked(a, q, j)'
      <4>1. \A k : Only(a, q, j, k) => Only(a, q, j, k)'
        BY <3>1 DEF Only
      <4>2. \A k : First(a, q, j, k) => First(a, q, j, k)'
        BY <3>1 DEF First
      <4>. QED
        BY <3>1, <3>2, <4>1, <4>2 DEF Linked
    <3>. QED
      BY <2>1, <3>2, <1>6 DEF Alive
  <2>. QED
    BY <2>2, <2>3
<1>. QED
  BY <1>7, <1>8, <1>9, <1>10, <1>11, <1>12, <1>14, <1>15, <1>16

----------------------------------------------------------------------------
\* A list that names a process has a first entry for it
LEMMA FirstEntry ==
  ASSUME NEW list \in Seq(Slot), NEW p \in Names(list)
  PROVE  LET own == {k \in 1 .. Len(list) : list[k].proc = p}
         IN own # {} /\ Min(own) \in own
<1>. DEFINE own == {k \in 1 .. Len(list) : list[k].proc = p}
<1>1. own # {} /\ own \in SUBSET Nat
  BY DEF Names
<1>. HIDE DEF own
<1>2. \E n \in own : \A m \in own : n <= m
  BY <1>1, Least
<1>3. Min(own) \in own
  BY <1>2 DEF Min
<1>. QED
  BY <1>1, <1>3 DEF own

\* Without crashes, the list has no more entries of a role than the job has nodes
LEMMA RolesFit ==
  ASSUME TypeOK, Counted, ~(assigned \/ aborted), crashed = {}, Len(nodes) + 1 = Num,
         NEW m \in joins, NEW f \in Bijection(1 .. Num, 1 .. Num),
         NEW role \in {"server", "worker"}
  PROVE  LET all == Append(nodes, NewSlot(m.thread[1]))
             ofRole == {k \in 1 .. Num : Role[all[f[k]].proc] = role}
         IN /\ IsFiniteSet(ofRole)
            /\ Cardinality(ofRole) <= IF role = "server" THEN NumServers ELSE NumWorkers
<1>. DEFINE all == Append(nodes, NewSlot(m.thread[1]))
            inAll == {k \in 1 .. Num : Role[all[k].proc] = role}
            ofRole == {k \in 1 .. Num : Role[all[f[k]].proc] = role}
            way == OnTheWay(role)
            list == InList(role)
            start == {t \in Launched : Role[t[1]] = role}
<1>1. /\ nodes \in Seq(Slot) /\ Len(nodes) \in Nat
      /\ \A k \in 1 .. Len(nodes) : all[k] = nodes[k]
      /\ all[Num].proc = m.thread[1]
  <2>1. nodes \in Seq(Slot)
    BY DEF TypeOK
  <2>2. NewSlot(m.thread[1]).proc = m.thread[1]
    BY DEF NewSlot
  <2>. QED
    BY <2>1, <2>2
<1>. HIDE DEF all
<1>2. 1 .. Num = (1 .. Len(nodes)) \cup {Num} /\ Num \notin 1 .. Len(nodes)
  BY <1>1, NumFacts
<1>3. IsFiniteSet(way) /\ Cardinality(way) \in Nat
  BY FS_Subset, FS_CardinalityType DEF Counted, OnTheWay
<1>4. IsFiniteSet(list) /\ Cardinality(list) \in Nat
  <2>1. IsFiniteSet(1 .. Len(nodes))
    BY <1>1, FS_Interval
  <2>. QED
    BY <2>1, FS_Subset, FS_CardinalityType DEF InList
<1>5. Cardinality(list) + Cardinality(way) <= Cardinality(start)
  <2>1. Asked(role) \in SUBSET start
    BY DEF Counted, Asked
  <2>2. IsFiniteSet(start)
    BY ProcAssumption, FS_Subset
  <2>3. Cardinality(Asked(role)) <= Cardinality(start)
    BY <2>1, <2>2, FS_Subset
  <2>. QED
    BY <2>3 DEF Counted
<1>6. Cardinality(start) = IF role = "server" THEN NumServers ELSE NumWorkers
  BY NumAssumption
<1>7. Cardinality(start) \in Nat
  BY <1>6, NumFacts
<1>8. IsFiniteSet(inAll) /\ Cardinality(inAll) \in Nat /\ Cardinality(inAll) <= Cardinality(start)
  <2>1. CASE Role[m.thread[1]] = role
    <3>1. inAll = list \cup {Num} /\ Num \notin list
      BY <1>1, <1>2, <2>1 DEF InList
    <3>2. way # {}
      BY <2>1 DEF OnTheWay
    <3>. HIDE DEF way, list, inAll, start
    <3>3. Cardinality(way) >= 1
      BY <1>3, <3>2, FS_EmptySet
    <3>4. IsFiniteSet(inAll) /\ Cardinality(inAll) = Cardinality(list) + 1
      BY <1>4, <3>1, FS_AddElement
    <3>. QED
      BY <1>3, <1>4, <1>5, <1>7, <3>3, <3>4
  <2>2. CASE Role[m.thread[1]] # role
    <3>1. inAll = list
      BY <1>1, <1>2, <2>2 DEF InList
    <3>. HIDE DEF way, list, inAll, start
    <3>. QED
      BY <1>3, <1>4, <1>5, <1>7, <3>1
  <2>. QED
    BY <2>1, <2>2
<1>9. IsFiniteSet(ofRole) /\ Cardinality(ofRole) <= Cardinality(inAll)
  <2>. DEFINE g == [k \in ofRole |-> f[k]]
  <2>1. f \in [1 .. Num -> 1 .. Num] /\ \A k, l \in 1 .. Num : f[k] = f[l] => k = l
    BY DEF Bijection, Injection, IsInjective
  <2>2. g \in [ofRole -> inAll] /\ \A k, l \in ofRole : g[k] = g[l] => k = l
    BY <2>1
  <2>3. g \in Injection(ofRole, inAll)
    <3>. HIDE DEF g, ofRole, inAll
    <3>. QED
      BY <2>2 DEF Injection, IsInjective
  <2>. HIDE DEF g, ofRole, inAll
  <2>. QED
    BY <1>8, <2>3, FS_Injection
<1>10. Cardinality(ofRole) \in Nat
  BY <1>9, FS_CardinalityType
<1>11. Cardinality(ofRole) <= Cardinality(start)
  <2>. HIDE DEF ofRole, inAll, start
  <2>. QED
    BY <1>7, <1>8, <1>9, <1>10
<1>. QED
  BY <1>6, <1>9, <1>11 DEF all

\* Then every rank of the list is an id of the job
LEMMA RanksFit ==
  ASSUME NEW s, \A k \in 1 .. Num : s[k].proc \in Proc,
         \A role \in {"server", "worker"} :
           LET ofRole == {k \in 1 .. Num : Role[s[k].proc] = role}
           IN /\ IsFiniteSet(ofRole)
              /\ Cardinality(ofRole) <= IF role = "server" THEN NumServers ELSE NumWorkers
  PROVE  \A k \in 1 .. Num : RankedID(s, k) \in NodeIDs
<1>. SUFFICES ASSUME NEW k \in 1 .. Num PROVE RankedID(s, k) \in NodeIDs
  OBVIOUS
<1>. DEFINE role == Role[s[k].proc]
            same == {j \in 1 .. k - 1 : Role[s[j].proc] = role}
            ofRole == {j \in 1 .. Num : Role[s[j].proc] = role}
            N == IF role = "server" THEN NumServers ELSE NumWorkers
<1>1. role \in {"server", "worker"}
  BY ProcAssumption
<1>2. IsFiniteSet(ofRole) /\ Cardinality(ofRole) <= N
  BY <1>1
<1>3. same \cup {k} \subseteq ofRole /\ k \notin same /\ same \subseteq ofRole
  BY NumFacts
<1>4. N \in Nat
  BY NumFacts
<1>5. RankedID(s, k) = RankToID(role, Cardinality(same))
  BY DEF RankedID
<1>6. Cardinality(same) \in 0 .. N - 1
  <2>. HIDE DEF same, ofRole, N
  <2>1. IsFiniteSet(same)
    BY <1>2, <1>3, FS_Subset
  <2>2. Cardinality(same) \in Nat /\ Cardinality(ofRole) \in Nat
    BY <1>2, <2>1, FS_CardinalityType
  <2>3. Cardinality(same \cup {k}) = Cardinality(same) + 1
    BY <1>3, <2>1, FS_AddElement
  <2>4. Cardinality(same \cup {k}) <= Cardinality(ofRole)
    BY <1>2, <1>3, FS_Subset
  <2>. QED
    BY <1>2, <1>4, <2>2, <2>3, <2>4
<1>. HIDE DEF same, ofRole
<1>. QED
  BY <1>1, <1>5, <1>6 DEF NodeIDs

\* The ids of a finite set of ids of the job
LEMMA FiniteIDs ==
  ASSUME NEW ids \in SUBSET NodeIDs
  PROVE  ids \in SUBSET AnyID /\ IsFiniteSet(ids)
BY IDFacts, NodeIDsSize, FS_Subset

\* What the last registration makes: a numbered list, its sockets, and the list in
\* the inbox of those that it reaches
LEMMA JoinLastFacts ==
  ASSUME MembershipInv, NEW m \in joins, JoinLast(m)
  PROVE  /\ ~(assigned \/ aborted) /\ (assigned' \/ aborted') /\ ~(assigned' /\ aborted')
         /\ assigned' \in BOOLEAN /\ aborted' \in BOOLEAN
         /\ nodes' \in [1 .. Num -> Slot]
         /\ \A k \in 1 .. Num :
              /\ nodes'[k].proc \in Proc /\ nodes'[k].id \in AnyID
              /\ \E rank \in 0 .. Num - 1 : nodes'[k].id = RankToID(Role[nodes'[k].proc], rank)
              /\ \E j \in 1 .. Num : nodes'[k].id = RankedID(nodes', j)
              /\ sockets'[nodes'[k].id] = nodes'[k].proc
         /\ \A k, l \in 1 .. Num : nodes'[k].id = nodes'[l].id <=> nodes'[k].proc = nodes'[l].proc
         /\ sockets' \in [AnyID -> Proc \cup {None}]
         /\ \A i \in AnyID : sockets'[i] # None =>
              \E k \in 1 .. Num : nodes'[k].id = i /\ nodes'[k].proc = sockets'[i]
         /\ crashed = {} => \A k \in 1 .. Num : RankedID(nodes', k) \in NodeIDs
<1>. DEFINE all == Append(nodes, NewSlot(m.thread[1]))
            n == nodes'
<1>1. TypeOK /\ Phase /\ Counted
  BY DEF MembershipInv
<1>2. /\ ~(assigned \/ aborted) /\ Len(nodes) + 1 = Num
      /\ assigned' = ~aborted'
      /\ sockets' = [id \in AnyID |->
           IF \E i \in 1 .. Num : nodes'[i].id = id
             THEN nodes'[CHOOSE i \in 1 .. Num : nodes'[i].id = id].proc
             ELSE None]
  BY DEF JoinLast
<1>3. aborted' \in BOOLEAN
  BY DEF JoinLast, Broadcast
<1>4. PICK sorted \in Sorted(all) : nodes' = Numbered(sorted)
  BY DEF JoinLast
<1>5. PICK f \in Bijection(1 .. Num, 1 .. Num) : sorted = [i \in 1 .. Num |-> all[f[i]]]
  BY DEF Sorted
<1>6. \A k \in 1 .. Num : all[k] \in Slot
  <2>1. m.thread[1] \in Proc
    BY <1>1 DEF TypeOK, Thread
  <2>2. NewSlot(m.thread[1]) \in Slot
    BY <2>1 DEF NewSlot, Slot
  <2>3. nodes \in Seq(Slot)
    BY <1>1 DEF TypeOK
  <2>4. all \in Seq(Slot) /\ Len(all) = Num
    BY <1>2, <2>2, <2>3
  <2>. HIDE DEF all
  <2>. QED
    BY <2>4
<1>7. f \in [1 .. Num -> 1 .. Num]
  BY DEF Bijection, Injection
<1>8. sorted \in [1 .. Num -> Slot]
  <2>. HIDE DEF all
  <2>. QED
    BY <1>5, <1>6, <1>7
<1>9. n \in {Numbered(sorted)}
  BY <1>4
<1>10. /\ n \in [1 .. Num -> Slot]
       /\ \A k \in 1 .. Num :
            /\ n[k].proc = sorted[k].proc /\ n[k].id \in AnyID
            /\ \E rank \in 0 .. Num - 1 : n[k].id = RankToID(Role[n[k].proc], rank)
            /\ \E j \in 1 .. Num : n[k].id = RankedID(n, j)
       /\ \A k, l \in 1 .. Num : n[k].id = n[l].id <=> n[k].proc = n[l].proc
  <2>. HIDE DEF n
  <2>. QED
    BY <1>8, <1>9, NumberedFacts
<1>11. \A k \in 1 .. Num : n[k].proc \in Proc
  BY <1>10 DEF Slot
<1>12. crashed = {} => \A k \in 1 .. Num : RankedID(n, k) \in NodeIDs
  <2>. SUFFICES ASSUME crashed = {} PROVE \A k \in 1 .. Num : RankedID(n, k) \in NodeIDs
    OBVIOUS
  <2>. HIDE DEF n
  <2>1. ASSUME NEW role \in {"server", "worker"}
        PROVE  LET ofRole == {k \in 1 .. Num : Role[n[k].proc] = role}
               IN /\ IsFiniteSet(ofRole)
                  /\ Cardinality(ofRole) <= IF role = "server" THEN NumServers ELSE NumWorkers
    <3>1. \A k \in 1 .. Num : n[k].proc = all[f[k]].proc
      <4>. HIDE DEF all
      <4>. QED
        BY <1>5, <1>10
    <3>2. {k \in 1 .. Num : Role[n[k].proc] = role} = {k \in 1 .. Num : Role[all[f[k]].proc] = role}
      BY <3>1
    <3>. DEFINE ofAll == {k \in 1 .. Num : Role[all[f[k]].proc] = role}
    <3>3. IsFiniteSet(ofAll) /\ Cardinality(ofAll) <= IF role = "server" THEN NumServers ELSE NumWorkers
      BY <1>1, <1>2, RolesFit
    <3>. HIDE DEF ofAll
    <3>4. {k \in 1 .. Num : Role[n[k].proc] = role} = ofAll
      BY <3>2 DEF ofAll
    <3>. QED
      BY <3>3, <3>4
  <2>. QED
    BY <1>11, <2>1, RanksFit
<1>13. ASSUME NEW i \in AnyID
       PROVE  /\ sockets'[i] \in Proc \cup {None}
              /\ sockets'[i] # None => \E k \in 1 .. Num : n[k].id = i /\ n[k].proc = sockets'[i]
              /\ \A k \in 1 .. Num : n[k].id = i => sockets'[i] = n[k].proc
  <2>1. CASE \E k \in 1 .. Num : n[k].id = i
    <3>1. PICK k \in 1 .. Num : n[k].id = i /\ sockets'[i] = n[k].proc
      BY <1>2, <2>1
    <3>2. \A l \in 1 .. Num : n[l].id = i => n[l].proc = n[k].proc
      BY <1>10, <3>1
    <3>. QED
      BY <1>11, <3>1, <3>2
  <2>2. CASE ~\E k \in 1 .. Num : n[k].id = i
    BY <1>2, <2>2
  <2>. QED
    BY <2>1, <2>2
<1>14. sockets' \in [AnyID -> Proc \cup {None}]
  BY <1>2, <1>13
<1>15. \A k \in 1 .. Num : sockets'[n[k].id] = n[k].proc
  BY <1>10, <1>13
<1>16. /\ (assigned' \/ aborted') /\ ~(assigned' /\ aborted')
       /\ assigned' \in BOOLEAN /\ aborted' \in BOOLEAN
  BY <1>2, <1>3
<1>17. /\ n \in [1 .. Num -> Slot]
       /\ \A k \in 1 .. Num :
            /\ n[k].proc \in Proc /\ n[k].id \in AnyID
            /\ \E rank \in 0 .. Num - 1 : n[k].id = RankToID(Role[n[k].proc], rank)
            /\ \E j \in 1 .. Num : n[k].id = RankedID(n, j)
            /\ sockets'[n[k].id] = n[k].proc
       /\ \A k, l \in 1 .. Num : n[k].id = n[l].id <=> n[k].proc = n[l].proc
  BY <1>10, <1>11, <1>15
<1>18. \A i \in AnyID : sockets'[i] # None =>
         \E k \in 1 .. Num : n[k].id = i /\ n[k].proc = sockets'[i]
  BY <1>13
<1>. QED
  BY <1>2, <1>12, <1>14, <1>16, <1>17, <1>18

\* A sequence over a set is one over a larger set
LEMMA SeqOfMore ==
  ASSUME NEW S, NEW T, S \subseteq T, NEW s \in Seq(S)
  PROVE  s \in Seq(T)
<1>1. /\ Len(s) \in Nat /\ \A k \in 1 .. Len(s) : s[k] \in S
      /\ s = [k \in 1 .. Len(s) |-> s[k]]
  OBVIOUS
<1>. QED
  BY <1>1

\* The last of the first registrations: the scheduler numbers the nodes
LEMMA InvJoinLast ==
  ASSUME MembershipInv, NEW m \in joins, JoinLast(m)
  PROVE  MembershipInv'
<1>. DEFINE list == nodes'
            ranks == {RankedID(list, k) : k \in 1 .. Num}
            used == {list[k].id : k \in 1 .. Num}
            ids == NodeIDs \ shared'
            lists == [id \in AnyID |-> list]
<1>1. TypeOK /\ Phase /\ Counted
  BY DEF MembershipInv
<1>2. /\ joins' = joins \ {m} /\ shared' = ranks \ used
      /\ assigned' = ~aborted'
      /\ UNCHANGED <<asked, recovered, stale, members, crashed>>
  BY DEF JoinLast
<1>3. /\ ~(assigned \/ aborted) /\ (assigned' \/ aborted') /\ ~(assigned' /\ aborted')
      /\ assigned' \in BOOLEAN /\ aborted' \in BOOLEAN
  BY JoinLastFacts
<1>4. /\ list \in [1 .. Num -> Slot]
      /\ \A k \in 1 .. Num :
           /\ list[k].proc \in Proc /\ list[k].id \in AnyID
           /\ \E rank \in 0 .. Num - 1 : list[k].id = RankToID(Role[list[k].proc], rank)
           /\ \E j \in 1 .. Num : list[k].id = RankedID(list, j)
           /\ sockets'[list[k].id] = list[k].proc
      /\ \A k, l \in 1 .. Num : list[k].id = list[l].id <=> list[k].proc = list[l].proc
  BY JoinLastFacts
<1>5. /\ sockets' \in [AnyID -> Proc \cup {None}]
      /\ \A i \in AnyID : sockets'[i] # None =>
           \E k \in 1 .. Num : list[k].id = i /\ list[k].proc = sockets'[i]
  BY JoinLastFacts
<1>6. crashed = {} => ranks \subseteq NodeIDs
  BY JoinLastFacts
<1>7. list \in Seq(Slot) /\ Len(list) = Num
  BY <1>4, NumFacts
<1>8. /\ \A p \in Proc : inbox[p] = <<>> /\ myID[p] = None /\ addrs[p] = {}
      /\ stale = {} /\ recovered = <<>> /\ ready = {}
  BY <1>1, <1>3 DEF Phase
<1>9. Broadcast(ids, lists)
  BY DEF JoinLast
<1>10. ids \in SUBSET NodeIDs
  OBVIOUS
<1>. HIDE DEF list, ranks, used, ids, lists
<1>11. ids \in SUBSET AnyID /\ IsFiniteSet(ids)
  BY <1>10, FiniteIDs
<1>12. aborted' = (\E i \in ids : sockets'[i] = None) /\ \E new : Delivers(ids, lists, new)
  BY <1>9, <1>11, BroadcastFacts
<1>13. PICK new :
         /\ new \in [Proc -> Seq({lists[i] : i \in ids})]
         /\ inbox' = [p \in Proc |-> inbox[p] \o new[p]]
         /\ \A p \in Proc : \A k \in 1 .. Len(new[p]) :
              \E i \in ids : sockets'[i] = p /\ new[p][k] = lists[i]
         /\ ~aborted' => \A i \in ids : sockets'[i] \in Proc => Len(new[sockets'[i]]) > 0
  BY <1>12 DEF Delivers
<1>14. {lists[i] : i \in ids} \subseteq Seq(Slot)
  BY <1>7, <1>11 DEF lists
<1>15. \A p \in Proc : new[p] \in Seq(Seq(Slot)) /\ inbox'[p] = new[p]
  <2>1. \A p \in Proc : new[p] \in Seq(Seq(Slot))
    BY <1>13, <1>14, SeqOfMore
  <2>. QED
    BY <1>8, <1>13, <2>1
<1>16. ASSUME NEW p \in Proc, NEW j \in 1 .. Len(inbox'[p])
       PROVE  /\ inbox'[p][j] = list
              /\ \E k \in 1 .. Num : list[k].proc = p
  <2>1. PICK i \in ids : sockets'[i] = p /\ new[p][j] = lists[i]
    BY <1>13, <1>15
  <2>2. new[p][j] = list
    BY <1>11, <2>1 DEF lists
  <2>3. sockets'[i] # None
    BY <2>1, NumFacts
  <2>. QED
    BY <1>5, <1>11, <1>15, <2>1, <2>2, <2>3
<1>17. \A p \in Proc : myID'[p] = None /\ addrs'[p] = {}
  BY <1>2, <1>8 DEF members
<1>18. ASSUME NEW p \in Proc, inbox'[p] # <<>>
       PROVE  \E k \in 1 .. Num : list[k].proc = p /\ Due(p)' = list[k].id
  <2>1. Len(inbox'[p]) >= 1 /\ Len(inbox'[p]) \in Nat /\ Head(inbox'[p]) = inbox'[p][1]
    BY <1>15, <1>18
  <2>2. 1 \in 1 .. Len(inbox'[p])
    BY <2>1
  <2>3. Head(inbox'[p]) = list /\ p \in Names(list)
    BY <1>7, <1>16, <2>1, <2>2 DEF Names
  <2>. DEFINE own == {k \in 1 .. Len(list) : list[k].proc = p}
  <2>4. own # {} /\ Min(own) \in own
    BY <1>7, <2>3, FirstEntry
  <2>5. Due(p)' = list[Min(own)].id
    BY <1>17, <1>18, <2>3, <2>4 DEF Due, LocalID
  <2>6. Min(own) \in 1 .. Num /\ list[Min(own)].proc = p
    BY <1>7, <2>4
  <2>. HIDE DEF own
  <2>. QED
    BY <2>5, <2>6
<1>19. \A p \in Proc : inbox'[p] = <<>> => Due(p)' = None
  BY <1>17 DEF Due
<1>20. TypeOK'
  <2>1. inbox' \in [Proc -> Seq(Seq(Slot))]
    <3>1. \A p \in Proc : inbox'[p] \in Seq(Seq(Slot))
      BY <1>15
    <3>. QED
      BY <1>13, <3>1
  <2>2. nodes' \in Seq(Slot) /\ Len(nodes') <= Num
    BY <1>7, NumFacts DEF list
  <2>3. ranks \subseteq AnyID
    BY <1>4, RankedFacts DEF ranks
  <2>. QED
    BY <1>1, <1>2, <1>3, <1>5, <2>1, <2>2, <2>3 DEF TypeOK, members
<1>21. Phase'
  BY <1>3, <1>4, <1>7 DEF Phase, list
<1>22. Counted'
  <2>1. IsFiniteSet(joins')
    BY <1>1, <1>2, FS_RemoveElement DEF Counted
  <2>. QED
    BY <1>1, <1>2, <1>3, <2>1 DEF Counted
<1>23. used \subseteq ranks
  BY <1>4 DEF used, ranks
<1>24. assigned' \/ crashed = {} => ranks = NodeIDs
  <2>1. ASSUME assigned', NEW i \in NodeIDs, i \notin shared' PROVE i \in used
    <3>1. i \in ids /\ i \in AnyID
      BY <2>1, IDFacts DEF ids
    <3>2. sockets'[i] # None
      BY <1>3, <1>12, <2>1, <3>1
    <3>. QED
      BY <1>5, <3>1, <3>2 DEF used
  <2>2. assigned' => NodeIDs \subseteq ranks
    BY <1>2, <1>23, <2>1
  <2>3. assigned' \/ crashed = {} => ranks \subseteq NodeIDs \/ NodeIDs \subseteq ranks
    BY <1>6, <2>2
  <2>4. \A k \in 1 .. Num : list[k].proc \in Proc
    BY <1>4
  <2>5. ranks = {RankedID(list, k) : k \in 1 .. Num}
    BY DEF ranks
  <2>. QED
    BY <2>3, <2>4, <2>5, RanksCover
<1>25. IDsCovered'
  <2>1. assigned' \/ (aborted' /\ crashed' = {}) => assigned' \/ crashed = {}
    BY <1>2
  <2>2. used \cap shared' = {} /\ (ranks = NodeIDs => used \cup shared' = NodeIDs)
    BY <1>2, <1>23
  <2>. QED
    BY <1>4, <1>24, <2>1, <2>2 DEF IDsCovered, used, list
<1>26. Alive' = Alive
  BY <1>2 DEF Alive
<1>27. Placed'
  <2>1. ASSUME NEW p \in Alive, Due(p)' # None PROVE (Place(p, Due(p)) /\ sockets[Due(p)] = p)'
    <3>1. inbox'[p] # <<>> /\ p \in Proc
      BY <1>19, <2>1 DEF Alive
    <3>2. PICK k \in 1 .. Num : list[k].proc = p /\ Due(p)' = list[k].id
      BY <1>18, <3>1
    <3>3. sockets'[list[k].id] = p
      BY <1>4, <3>2
    <3>. QED
      BY <3>2, <3>3 DEF Place, list
  <2>. QED
    BY <1>26, <2>1 DEF Placed
<1>28. \A p \in Proc : inbox'[p] # <<>> => Due(p)' # None
  <2>1. ASSUME NEW p \in Proc, inbox'[p] # <<>> PROVE Due(p)' # None
    <3>1. PICK k \in 1 .. Num : list[k].proc = p /\ Due(p)' = list[k].id
      BY <1>18, <2>1
    <3>2. list[k].id # None
      BY <1>4, IDFacts
    <3>. QED
      BY <3>1, <3>2
  <2>. QED
    BY <2>1
<1>29. Informed'
  BY <1>2, <1>8, <1>17, <1>26, <1>28 DEF Informed, Alive, members
<1>30. OneOwner'
  BY <1>4 DEF OneOwner, list
<1>31. Running'
  <2>. SUFFICES ASSUME assigned', ~aborted' PROVE Running'
    BY DEF Running
  <2>1. ASSUME NEW k \in 1 .. Num, NEW p, p = list[k].proc PROVE Settled(p)'
    <3>1. list[k].id \in ids
      BY <1>2, <1>23, <1>24 DEF used, ids
    <3>2. Len(new[p]) > 0 /\ p \in Proc
      BY <1>4, <1>13, <2>1, <3>1
    <3>3. inbox'[p] = new[p] /\ Len(<<>>) = 0
      BY <1>15, <3>2
    <3>4. inbox'[p] # <<>>
      BY <3>2, <3>3
    <3>. QED
      BY <1>28, <3>2, <3>4 DEF Settled
  <2>2. \A p \in {list[k].proc : k \in 1 .. Num} : Settled(p)'
    BY <2>1
  <2>3. recovered' = <<>> /\ stale' = {} /\ Len(<<>>) <= 1 /\ 1 .. Len(<<>>) = {}
    BY <1>2, <1>8
  <2>4. \A i \in AnyID : sockets'[i] # None => sockets'[i] \in {list[k].proc : k \in 1 .. Num}
    BY <1>5
  <2>5. \A k \in 1 .. Num : sockets'[list[k].id] # None
    BY <1>4, NumFacts
  <2>6. Names(list) \subseteq {list[k].proc : k \in 1 .. Num}
    BY <1>7 DEF Names
  <2>7. \A p \in Alive : \A j \in 1 .. Len(inbox'[p]) : inbox'[p][j] = list
    BY <1>16 DEF Alive
  <2>8. \A p \in Alive : addrs'[p] = {}
    BY <1>17 DEF Alive
  <2>9. \A i \in AnyID : sockets'[i] # None => Settled(sockets[i])'
    BY <2>2, <2>4
  <2>10. \A k \in 1 .. Num : Settled(nodes[k].proc)' /\ sockets'[nodes'[k].id] # None
    <3>1. \A k \in 1 .. Num : \A p : p = nodes'[k].proc => Settled(p)'
      BY <2>1 DEF list
    <3>2. \A k \in 1 .. Num : Settled(nodes[k].proc)'
      BY <3>1 DEF Settled, Due
    <3>. QED
      BY <2>5, <3>2 DEF list
  <2>11. \A p \in Alive : \A j \in 1 .. Len(inbox'[p]) : \A x \in Names(inbox'[p][j]) : Settled(x)'
    BY <2>2, <2>6, <2>7
  <2>. QED
    BY <1>26, <2>3, <2>8, <2>9, <2>10, <2>11 DEF Running
<1>32. Connected'
  <2>1. ASSUME NEW p \in Alive, NEW q \in Alive, Due(p)' # None, Due(q)' # None, NEW i, i = Due(q)'
        PROVE  Linked(p, q, i)'
    <3>1. inbox'[p] # <<>> /\ inbox'[q] # <<>> /\ p \in Proc /\ q \in Proc
      BY <1>19, <2>1 DEF Alive
    <3>2. PICK k \in 1 .. Num : list[k].proc = q /\ i = list[k].id
      BY <1>18, <2>1, <3>1
    <3>3. 1 \in 1 .. Len(inbox'[p]) /\ inbox'[p][1] = list
      <4>1. Len(inbox'[p]) \in Nat /\ Len(inbox'[p]) >= 1
        BY <1>15, <3>1
      <4>2. 1 \in 1 .. Len(inbox'[p])
        BY <4>1
      <4>. QED
        BY <1>16, <3>1, <4>2
    <3>4. First(p, q, i, 1)'
      <4>1. 1 .. 1 - 1 = {}
        OBVIOUS
      <4>. QED
        BY <1>7, <3>2, <3>3, <4>1 DEF First
    <3>5. ASSUME NEW j \in 1 .. Len(inbox'[p]), NEW e \in 1 .. Len(inbox'[p][j]),
                 inbox'[p][j][e].id = i
          PROVE  inbox'[p][j][e].proc = q
      <4>1. inbox'[p][j] = list
        BY <1>16, <3>1
      <4>2. e \in 1 .. Num /\ list[e].id = list[k].id
        BY <1>7, <3>2, <3>5, <4>1
      <4>. QED
        BY <1>4, <3>2, <4>1, <4>2
    <3>6. Only(p, q, i, 1)'
      BY <3>5 DEF Only
    <3>. QED
      BY <1>17, <3>1, <3>3, <3>4, <3>6 DEF Linked
  <2>. QED
    BY <1>26, <2>1 DEF Connected
<1>. QED
  BY <1>20, <1>21, <1>22, <1>25, <1>27, <1>29, <1>30, <1>31, <1>32 DEF MembershipInv

\* A late process takes a place whose holder has gone: the ids stay with their
\* roles, and nobody that still runs loses its place
LEMMA ReplaceFacts ==
  ASSUME MembershipInv, assigned, ~aborted, NEW i \in 1 .. Num, NEW p \in Proc,
         nodes[i].id \in Dead, Role[nodes[i].proc] = Role[p],
         NEW slot \in {[proc |-> p, id |-> nodes[i].id, rec |-> TRUE]},
         nodes' = [nodes EXCEPT ![i] = slot], recovered' = Append(recovered, slot),
         UNCHANGED <<assigned, shared>>
  PROVE  /\ nodes[i].id \in stale /\ nodes[i].id \in NodeIDs
         /\ nodes' \in Seq(Slot) /\ Len(nodes') = Num
         /\ recovered' \in Seq({s \in Slot : s.id # None /\ s.rec})
         /\ Len(recovered') = Len(recovered) + 1 /\ recovered'[Len(recovered')] = slot
         /\ \A k \in 1 .. Num \ {i} : nodes'[k] = nodes[k]
         /\ nodes'[i] = slot
         /\ IDsCovered' /\ (Keeps => OneOwner')
         /\ \A q \in Proc : \A j : Place(q, j) => Place(q, j)' \/ Gone(q, j)
<1>1. TypeOK /\ Phase /\ IDsCovered /\ OneOwner /\ Running
  BY DEF MembershipInv
<1>2. \A k \in 1 .. Num : nodes[k] \in Slot /\ nodes[k].proc \in Proc /\ nodes[k].id \in AnyID
  BY <1>1, SlotFacts
<1>3. nodes[i].id \in stale /\ nodes[i].id \in NodeIDs
  BY <1>1 DEF IDsCovered, Dead
<1>4. nodes \in Seq(Slot) /\ Len(nodes) = Num
  BY <1>1 DEF TypeOK, Phase
<1>5. slot \in Slot /\ slot.proc = p /\ slot.id = nodes[i].id /\ slot.rec = TRUE
  <2>. DEFINE id == nodes[i].id
  <2>1. id \in AnyID /\ TRUE \in BOOLEAN
    BY <1>2
  <2>2. slot = [proc |-> p, id |-> id, rec |-> TRUE]
    OBVIOUS
  <2>. HIDE DEF id
  <2>3. slot \in Slot /\ slot.proc = p /\ slot.id = id /\ slot.rec = TRUE
    BY <2>1, <2>2 DEF Slot
  <2>. QED
    BY <2>3 DEF id
<1>6. slot.id # None
  BY <1>2, <1>5, IDFacts
<1>7. /\ nodes' \in Seq(Slot) /\ Len(nodes') = Num /\ nodes'[i] = slot
      /\ \A k \in 1 .. Num \ {i} : nodes'[k] = nodes[k]
  BY <1>4, <1>5
<1>8. /\ recovered' \in Seq({s \in Slot : s.id # None /\ s.rec})
      /\ Len(recovered') = Len(recovered) + 1 /\ recovered'[Len(recovered')] = slot
      /\ \A j \in 1 .. Len(recovered) : recovered'[j] = recovered[j]
      /\ Len(recovered) \in Nat
  <2>. DEFINE T == {s \in Slot : s.id # None /\ s.rec}
  <2>1. slot \in T /\ recovered \in Seq(T)
    BY <1>1, <1>5, <1>6 DEF TypeOK
  <2>. HIDE DEF T
  <2>2. /\ recovered' \in Seq(T)
        /\ Len(recovered') = Len(recovered) + 1 /\ recovered'[Len(recovered')] = slot
        /\ \A j \in 1 .. Len(recovered) : recovered'[j] = recovered[j]
        /\ Len(recovered) \in Nat
    BY <2>1
  <2>. QED
    BY <2>2 DEF T
<1>9. \A k \in 1 .. Num : nodes'[k].id = nodes[k].id /\ Role[nodes'[k].proc] = Role[nodes[k].proc]
  BY <1>5, <1>7
<1>10. IDsCovered'
  <2>1. {nodes'[k].id : k \in 1 .. Num} = {nodes[k].id : k \in 1 .. Num}
    BY <1>9
  <2>2. \A k \in 1 .. Num : \E rank \in 0 .. Num - 1 :
          nodes'[k].id = RankToID(Role[nodes'[k].proc], rank)
    BY <1>1, <1>9 DEF IDsCovered
  <2>. QED
    BY <1>1, <2>1, <2>2 DEF IDsCovered
<1>11. \A k \in 1 .. Num : nodes[k].id = nodes[i].id => Gone(nodes[k].proc, nodes[k].id)
  BY <1>1, <1>3 DEF Running
<1>12. Keeps => \A k \in 1 .. Num : \A j : Gone(nodes[k].proc, j) => \A q : q = nodes[k].proc => Gone(q, j)'
  BY <1>2, KeepsGone
<1>13. ASSUME Keeps, NEW k \in 1 .. Num, NEW l \in 1 .. Num, nodes'[k].id = nodes'[l].id,
              nodes'[k].proc # nodes'[l].proc, NEW a, a = nodes'[k].proc, NEW b, b = nodes'[l].proc,
              NEW j, j = nodes'[k].id
       PROVE  /\ \E n \in 1 .. Len(recovered') : recovered'[n].id = j
              /\ Gone(a, j)' \/ Gone(b, j)'
  <2>1. Len(recovered') \in 1 .. Len(recovered')
    BY <1>8
  <2>2. CASE k = i
    <3>1. l # i /\ nodes[l].id = nodes[i].id /\ j = nodes[l].id /\ b = nodes[l].proc
      BY <1>5, <1>7, <1>13, <2>2
    <3>2. Gone(b, j)'
      BY <1>11, <1>12, <1>13, <3>1
    <3>. QED
      BY <1>5, <1>8, <1>9, <1>13, <2>1, <2>2, <3>2
  <2>3. CASE l = i
    <3>1. k # i /\ nodes[k].id = nodes[i].id /\ j = nodes[k].id /\ a = nodes[k].proc
      BY <1>5, <1>7, <1>13, <2>3
    <3>2. Gone(a, j)'
      BY <1>11, <1>12, <1>13, <3>1
    <3>. QED
      BY <1>5, <1>8, <1>9, <1>13, <2>1, <3>1, <3>2
  <2>4. CASE k # i /\ l # i
    <3>1. j = nodes[k].id /\ j = nodes[l].id /\ a = nodes[k].proc /\ b = nodes[l].proc /\ a # b
      BY <1>7, <1>13, <2>4
    <3>2. /\ \E n \in 1 .. Len(recovered) : recovered[n].id = j
          /\ Gone(a, j) \/ Gone(b, j)
      BY <1>1, <3>1 DEF OneOwner
    <3>3. \E n \in 1 .. Len(recovered') : recovered'[n].id = j
      BY <1>8, <3>2
    <3>. QED
      BY <1>12, <1>13, <3>1, <3>2, <3>3
  <2>. QED
    BY <2>2, <2>3, <2>4
<1>14. ASSUME Keeps PROVE OneOwner'
  BY <1>13, <1>14 DEF OneOwner, Gone, Due
<1>15. ASSUME NEW q \in Proc, NEW j, Place(q, j) PROVE Place(q, j)' \/ Gone(q, j)
  <2>1. PICK k \in 1 .. Num : nodes[k].proc = q /\ nodes[k].id = j
    BY <1>15 DEF Place
  <2>2. CASE k = i
    BY <1>11, <2>1, <2>2
  <2>3. CASE k # i
    BY <1>7, <2>1, <2>3 DEF Place
  <2>. QED
    BY <2>2, <2>3
<1>. QED
  BY <1>3, <1>7, <1>8, <1>10, <1>14, <1>15

\* Lists at the end of an inbox, in which an id stands for its holder only, leave
\* a link to the holder as it was
LEMMA LinkAppend ==
  ASSUME TypeOK, NEW p \in Proc, NEW q \in Proc, NEW i \in AnyID,
         NEW more \in Seq(Seq(Slot)), inbox'[p] = inbox[p] \o more,
         UNCHANGED <<addrs, conn>>, Linked(p, q, i),
         \A j \in 1 .. Len(more) : \A e \in 1 .. Len(more[j]) :
           more[j][e].id = i => more[j][e].proc = q
  PROVE  Linked(p, q, i)'
<1>. DEFINE old == inbox[p]
            all == inbox'[p]
<1>1. old \in Seq(Seq(Slot))
  BY DEF TypeOK
<1>2. /\ Len(old) \in Nat /\ Len(more) \in Nat /\ Len(all) = Len(old) + Len(more)
      /\ \A j \in 1 .. Len(old) : all[j] = old[j]
      /\ \A j \in 1 .. Len(all) : j > Len(old) =>
           j - Len(old) \in 1 .. Len(more) /\ all[j] = more[j - Len(old)]
  BY <1>1
<1>3. ASSUME NEW k \in Nat, k >= 1, Only(p, q, i, k) PROVE Only(p, q, i, k)'
  <2>. SUFFICES ASSUME NEW j \in k .. Len(all), NEW e \in 1 .. Len(all[j]), all[j][e].id = i
                PROVE  all[j][e].proc = q
    BY DEF Only
  <2>1. CASE j <= Len(old)
    <3>1. j \in k .. Len(old) /\ j \in 1 .. Len(old)
      BY <1>2, <1>3, <2>1
    <3>2. all[j] = old[j]
      BY <1>2, <3>1
    <3>. QED
      BY <1>3, <3>1, <3>2 DEF Only
  <2>2. CASE j > Len(old)
    <3>1. j \in 1 .. Len(all)
      BY <1>2, <1>3
    <3>2. j - Len(old) \in 1 .. Len(more) /\ all[j] = more[j - Len(old)]
      BY <1>2, <2>2, <3>1
    <3>. QED
      BY <3>2
  <2>. QED
    BY <1>2, <1>3, <2>1, <2>2
<1>4. CASE q \in addrs[p] /\ conn[p][i] = q /\ Only(p, q, i, 1)
  <2>1. 1 \in Nat /\ 1 >= 1
    OBVIOUS
  <2>2. Only(p, q, i, 1)'
    BY <1>3, <1>4, <2>1
  <2>. QED
    BY <1>4, <2>2 DEF Linked
<1>5. ASSUME q \notin addrs[p], NEW k \in 1 .. Len(old), First(p, q, i, k), Only(p, q, i, k)
      PROVE  Linked(p, q, i)'
  <2>1. k \in Nat /\ k >= 1 /\ k \in 1 .. Len(all) /\ all[k] = old[k]
    BY <1>2
  <2>2. \A j \in 1 .. k - 1 : all[j] = old[j]
    BY <1>2
  <2>3. First(p, q, i, k)'
    BY <1>5, <2>1, <2>2 DEF First, Names
  <2>4. Only(p, q, i, k)'
    BY <1>3, <1>5, <2>1
  <2>. QED
    BY <1>5, <2>1, <2>3, <2>4 DEF Linked
<1>. QED
  BY <1>4, <1>5 DEF Linked

\* The first list that names a holder links to it
LEMMA LinkNew ==
  ASSUME TypeOK, NEW p \in Proc, NEW q \in Proc, NEW i \in AnyID,
         NEW more \in Seq(Seq(Slot)), inbox'[p] = inbox[p] \o more, UNCHANGED addrs,
         q \notin addrs[p], \A j \in 1 .. Len(inbox[p]) : q \notin Names(inbox[p][j]),
         Len(more) > 0, \E e \in 1 .. Len(more[1]) : more[1][e].proc = q /\ more[1][e].id = i,
         \A j \in 1 .. Len(more) : \A e \in 1 .. Len(more[j]) :
           more[j][e].id = i => more[j][e].proc = q
  PROVE  Linked(p, q, i)'
<1>. DEFINE old == inbox[p]
            all == inbox'[p]
<1>1. old \in Seq(Seq(Slot))
  BY DEF TypeOK
<1>2. /\ Len(old) \in Nat /\ Len(more) \in Nat /\ Len(all) = Len(old) + Len(more)
      /\ \A j \in 1 .. Len(old) : all[j] = old[j]
      /\ \A j \in 1 .. Len(all) : j > Len(old) =>
           j - Len(old) \in 1 .. Len(more) /\ all[j] = more[j - Len(old)]
  BY <1>1
<1>3. PICK k \in Nat : k = Len(old) + 1
  BY <1>2
<1>4. /\ k \in Nat /\ k >= 1 /\ k \in 1 .. Len(all) /\ k > Len(old) /\ k - Len(old) = 1
      /\ \A j \in 1 .. k - 1 : j \in 1 .. Len(old)
      /\ \A j \in k .. Len(all) : j \in 1 .. Len(all) /\ j > Len(old)
  BY <1>3, <1>2
<1>5. Only(p, q, i, k)'
  <2>. SUFFICES ASSUME NEW j \in k .. Len(all), NEW e \in 1 .. Len(all[j]), all[j][e].id = i
                PROVE  all[j][e].proc = q
    BY DEF Only
  <2>1. j \in 1 .. Len(all) /\ j > Len(old)
    BY <1>4
  <2>2. j - Len(old) \in 1 .. Len(more) /\ all[j] = more[j - Len(old)]
    BY <1>2, <2>1
  <2>. QED
    BY <2>2
<1>6. First(p, q, i, k)'
  <2>1. \A j \in 1 .. k - 1 : q \notin Names(all[j])
    BY <1>2, <1>4
  <2>2. all[k] = more[1]
    BY <1>2, <1>4
  <2>3. \E e \in 1 .. Len(all[k]) : all[k][e].proc = q /\ all[k][e].id = i
    BY <2>2
  <2>. QED
    BY <2>1, <2>3 DEF First, Names
<1>. QED
  BY <1>4, <1>5, <1>6 DEF Linked

\* The scheduler sends a recovery around: its node r has the place and the socket
\* of its id, nobody else runs that holds the id, and the other places of the list
\* are as they were
LEMMA InvRecover ==
  ASSUME MembershipInv, assigned, ~aborted,
         NEW r \in Slot, r.id \in AnyID, r.rec, recovered' = <<r>>,
         nodes' \in Seq(Slot), Len(nodes') = Num,
         \A k \in 1 .. Num : nodes'[k] = r \/ \E l \in 1 .. Num : nodes'[k] = nodes[l],
         Place(r.proc, r.id)', IDsCovered', Keeps => OneOwner',
         \A q \in Alive : Due(q) = r.id => q = r.proc,
         \A q \in Proc : \A j : Place(q, j) => Place(q, j)' \/ Gone(q, j),
         joins' \subseteq joins, IsFiniteSet(joins'),
         sockets' = [sockets EXCEPT ![r.id] = r.proc], stale' = stale \ {r.id},
         Broadcast(Told(r), [id \in AnyID |-> IF id = r.id THEN nodes' ELSE recovered']),
         UNCHANGED <<asked, assigned, shared, members, crashed>>
  PROVE  MembershipInv'
<1>. DEFINE lists == [id \in AnyID |-> IF id = r.id THEN nodes' ELSE recovered']
<1>1. TypeOK /\ Phase /\ Counted /\ IDsCovered /\ Placed /\ Informed /\ OneOwner /\ Running /\ Connected
  BY DEF MembershipInv
<1>2. r.proc \in Proc /\ r.proc # None /\ r.id # None
  BY NumFacts, IDFacts DEF Slot
<1>3. /\ inbox \in [Proc -> Seq(Seq(Slot))] /\ sockets \in [AnyID -> Proc \cup {None}]
      /\ myID \in [Proc -> AnyID \cup {None}] /\ addrs \in [Proc -> SUBSET Proc]
  BY <1>1 DEF TypeOK
<1>4. \A k \in 1 .. Num : nodes[k] \in Slot /\ nodes[k].proc \in Proc /\ nodes[k].id \in AnyID
  BY <1>1, SlotFacts
<1>5. /\ \A i \in AnyID : sockets'[i] = IF i = r.id THEN r.proc ELSE sockets[i]
      /\ sockets' \in [AnyID -> Proc \cup {None}]
  BY <1>2, <1>3
<1>6. /\ \A k \in 1 .. Num : nodes'[k].id \in NodeIDs /\ nodes'[k].id \in AnyID
      /\ r.id \in NodeIDs
  <2>1. \A k \in 1 .. Num : nodes'[k].id \in NodeIDs
    BY DEF IDsCovered
  <2>2. r.id \in NodeIDs
    BY <2>1 DEF Place
  <2>. QED
    BY <2>1, <2>2, IDFacts
\* Nobody who is told misses a socket, so the scheduler goes on
<1>7. Told(r) \in SUBSET NodeIDs /\ Told(r) \in SUBSET AnyID /\ IsFiniteSet(Told(r)) /\ r.id \in Told(r)
  <2>1. Told(r) \in SUBSET NodeIDs /\ r.id \in Told(r)
    BY <1>6 DEF Told
  <2>. QED
    BY <2>1, FiniteIDs, IDFacts
<1>8. ASSUME NEW i \in NodeIDs, i \notin Dead PROVE i \in Told(r) /\ sockets[i] # None
  <2>1. i \in Told(r)
    BY <1>8 DEF Told
  <2>2. i \notin shared
    BY <1>8 DEF Dead
  <2>3. \E k \in 1 .. Num : nodes[k].id = i
    <3>1. {nodes[k].id : k \in 1 .. Num} \cup shared = NodeIDs
      BY <1>1 DEF IDsCovered
    <3>2. i \in {nodes[k].id : k \in 1 .. Num}
      BY <1>8, <2>2, <3>1
    <3>. QED
      BY <3>2
  <2>. QED
    BY <1>1, <2>1, <2>3 DEF Running
<1>9. \A i \in Told(r) : sockets'[i] # None
  <2>1. ASSUME NEW i \in Told(r), i # r.id PROVE i \in NodeIDs /\ i \notin Dead
    BY <2>1 DEF Told
  <2>. QED
    BY <1>2, <1>5, <1>7, <1>8, <2>1
<1>10. aborted' = (\E i \in Told(r) : sockets'[i] = None) /\ \E new : Delivers(Told(r), lists, new)
  BY <1>7, BroadcastFacts
<1>11. ~aborted' /\ aborted' \in BOOLEAN
  BY <1>9, <1>10
<1>12. \A i \in AnyID : lists[i] = IF i = r.id THEN nodes' ELSE recovered'
  OBVIOUS
<1>. HIDE DEF lists
<1>13. PICK new :
         /\ new \in [Proc -> Seq({lists[i] : i \in Told(r)})]
         /\ inbox' = [p \in Proc |-> inbox[p] \o new[p]]
         /\ \A p \in Proc : \A k \in 1 .. Len(new[p]) :
              \E i \in Told(r) : sockets'[i] = p /\ new[p][k] = lists[i]
         /\ \A i \in Told(r) : sockets'[i] \in Proc => Len(new[sockets'[i]]) > 0
  BY <1>10, <1>11 DEF Delivers
<1>14. recovered' \in Seq(Slot) /\ Len(recovered') = 1 /\ recovered'[1] = r
  OBVIOUS
<1>15. \A p \in Proc : new[p] \in Seq(Seq(Slot))
  <2>1. {lists[i] : i \in Told(r)} \subseteq Seq(Slot)
    BY <1>7, <1>12, <1>14
  <2>. QED
    BY <1>13, <2>1, SeqOfMore
<1>16. \A p \in Proc : inbox'[p] = inbox[p] \o new[p]
  BY <1>13
\* Only r.proc is sent the whole list
<1>17. ASSUME NEW p \in Proc, NEW k \in 1 .. Len(new[p])
       PROVE  \/ new[p][k] = nodes' /\ p = r.proc
              \/ new[p][k] = recovered' /\ \E i \in AnyID : i # r.id /\ sockets[i] = p
  <2>1. PICK i \in Told(r) : sockets'[i] = p /\ new[p][k] = lists[i]
    BY <1>13
  <2>. QED
    BY <1>5, <1>7, <1>12, <2>1
<1>18. Alive' = Alive /\ \A p \in Alive : p \in Proc /\ p \notin crashed
  BY DEF Alive
<1>19. /\ Keeps
       /\ \A p \in Proc : new[p] = <<>> \/ inbox[p] # <<>> => Due(p)' = Due(p)
  <2>1. new \in [Proc -> Seq(Seq(Slot))]
    BY <1>13, <1>15
  <2>2. UNCHANGED <<myID, crashed>>
    BY DEF members
  <2>. QED
    BY <1>1, <1>13, <2>1, <2>2, AppendsKeep
<1>20. /\ \A p \in Proc : \A i : Gone(p, i) => Gone(p, i)'
       /\ \A p \in Proc : Settled(p) => Settled(p)'
  BY <1>19, KeepsGone
\* Who learns its id now is r.proc
<1>21. ASSUME NEW p \in Alive, Due(p) = None, new[p] # <<>>
       PROVE  /\ p = r.proc /\ Due(p)' = r.id /\ inbox[p] = <<>> /\ addrs[p] = {}
              /\ \A k \in 1 .. Len(new[p]) : new[p][k] = nodes'
              /\ \A k \in 1 .. Num : nodes'[k].proc = p => nodes'[k] = r
  <2>1. inbox[p] = <<>> /\ addrs[p] = {} /\ myID[p] = None /\ ~Settled(p) /\ p \in Proc
    BY <1>1, <1>18, <1>21 DEF Informed, Settled, Due
  <2>2. \A i \in AnyID : sockets[i] # p
    BY <1>1, <1>2, <2>1, NumFacts DEF Running
  <2>3. ASSUME NEW k \in 1 .. Len(new[p]) PROVE new[p][k] = nodes' /\ p = r.proc
    BY <1>17, <2>1, <2>2
  <2>4. ASSUME NEW k \in 1 .. Num, nodes'[k].proc = p PROVE nodes'[k] = r
    BY <1>1, <2>1, <2>4 DEF Running
  <2>5. Len(new[p]) \in Nat /\ Len(new[p]) >= 1 /\ Head(new[p]) = new[p][1]
    BY <1>15, <1>21, <2>1
  <2>6. p = r.proc /\ Head(new[p]) = nodes'
    <3>1. 1 \in 1 .. Len(new[p])
      BY <2>5
    <3>. QED
      BY <2>3, <2>5, <3>1
  <2>7. inbox'[p] # <<>> /\ Head(inbox'[p]) = nodes'
    <3>1. inbox'[p] = inbox[p] \o new[p] /\ new[p] \in Seq(Seq(Slot))
      BY <1>15, <1>16, <2>1
    <3>2. inbox'[p] = new[p]
      BY <2>1, <3>1
    <3>. QED
      BY <1>21, <2>6, <3>2
  <2>. DEFINE own == {k \in 1 .. Len(nodes') : nodes'[k].proc = p}
  <2>8. p \in Names(nodes')
    BY <2>6 DEF Names, Place
  <2>9. own # {} /\ Min(own) \in own
    BY <2>8, FirstEntry
  <2>10. myID'[p] = None
    BY <2>1 DEF members
  <2>11. Due(p)' = nodes'[Min(own)].id
    BY <2>7, <2>9, <2>10 DEF Due, LocalID
  <2>12. nodes'[Min(own)] = r
    BY <2>4, <2>9
  <2>. QED
    BY <2>1, <2>3, <2>4, <2>6, <2>11, <2>12
<1>22. ASSUME NEW p \in Alive PROVE \/ Due(p) # None /\ Due(p)' = Due(p)
                                    \/ Due(p) = None /\ Due(p)' = None /\ new[p] = <<>>
                                    \/ Due(p) = None /\ new[p] # <<>>
  BY <1>18, <1>19 DEF Keeps
<1>23. Settled(r.proc)'
  <2>. SUFFICES ASSUME r.proc \in Alive, Due(r.proc) = None PROVE Settled(r.proc)'
    BY <1>2, <1>20 DEF Settled, Alive
  <2>1. Len(new[r.proc]) > 0 /\ Len(<<>>) = 0
    BY <1>2, <1>5, <1>6, <1>7, <1>13
  <2>2. Due(r.proc)' = r.id
    BY <1>21, <2>1
  <2>. QED
    BY <1>2, <2>2 DEF Settled
<1>24. \A k \in 1 .. Num : nodes'[k] = r \/ (nodes'[k].id \in AnyID /\ sockets[nodes'[k].id] # None /\ \A q : q = nodes'[k].proc => q \in Proc /\ Settled(q)')
  BY <1>1, <1>4, <1>20 DEF Running
<1>25. \A k \in 1 .. Num : \A q : q = nodes'[k].proc => Settled(q)'
  BY <1>23, <1>24
<1>26. TypeOK'
  <2>1. inbox' \in [Proc -> Seq(Seq(Slot))]
    <3>1. ASSUME NEW p \in Proc PROVE inbox'[p] \in Seq(Seq(Slot))
      <4>1. /\ inbox[p] \in Seq(Seq(Slot)) /\ new[p] \in Seq(Seq(Slot))
            /\ inbox'[p] = inbox[p] \o new[p]
        BY <1>3, <1>15, <1>16
      <4>. QED
        BY <4>1
    <3>. QED
      BY <1>13, <3>1
  <2>2. recovered' \in Seq({s \in Slot : s.id # None /\ s.rec})
    <3>. DEFINE T == {s \in Slot : s.id # None /\ s.rec}
    <3>1. r \in T
      BY <1>2
    <3>. HIDE DEF T
    <3>2. recovered' \in Seq(T)
      BY <3>1
    <3>. QED
      BY <3>2 DEF T
  <2>3. nodes' \in Seq(Slot) /\ Len(nodes') <= Num
    BY NumFacts
  <2>. QED
    BY <1>1, <1>5, <1>11, <2>1, <2>2, <2>3 DEF TypeOK, members
<1>27. Phase'
  BY <1>6 DEF Phase
<1>28. Counted'
  BY <1>1 DEF Counted
<1>29. Placed'
  <2>1. ASSUME NEW p \in Alive, Due(p)' # None PROVE (Place(p, Due(p)) /\ sockets[Due(p)] = p)'
    <3>1. CASE Due(p) # None /\ Due(p)' = Due(p)
      <4>1. PICK i : i = Due(p)
        OBVIOUS
      <4>2. Place(p, i) /\ sockets[i] = p /\ ~Gone(p, i)
        BY <1>1, <1>18, <3>1, <4>1 DEF Placed, Gone
      <4>3. i \in AnyID
        BY <1>4, <4>2 DEF Place
      <4>4. Place(p, i)'
        BY <1>18, <4>2
      <4>5. sockets'[i] = p
        BY <1>5, <3>1, <4>1, <4>2, <4>3
      <4>. QED
        BY <3>1, <4>1, <4>4, <4>5 DEF Place
    <3>2. CASE Due(p) = None /\ new[p] # <<>>
      <4>1. p = r.proc /\ Due(p)' = r.id
        BY <1>21, <3>2
      <4>2. sockets'[r.id] = p
        BY <1>5, <4>1
      <4>. QED
        BY <4>1, <4>2 DEF Place
    <3>. QED
      BY <1>22, <2>1, <3>1, <3>2
  <2>2. Alive' = Alive
    BY <1>18
  <2>. QED
    BY <2>1, <2>2 DEF Placed
<1>30. \A p \in Proc : inbox[p] = <<>> /\ new[p] = <<>> => inbox'[p] = <<>>
  BY <1>3, <1>16
<1>31. Informed'
  <2>1. ASSUME NEW p \in Alive
        PROVE  /\ inbox'[p] # <<>> \/ addrs'[p] # {} => Due(p)' # None
               /\ p \in ready' => myID'[p] # None
    <3>1. inbox[p] # <<>> \/ addrs[p] # {} => Due(p) # None
      BY <1>1 DEF Informed
    <3>2. inbox'[p] # <<>> \/ addrs'[p] # {} => Due(p)' # None
      BY <1>2, <1>18, <1>21, <1>22, <1>30, <3>1 DEF members
    <3>. QED
      BY <1>1, <3>2 DEF Informed, members
  <2>2. Alive' = Alive
    BY <1>18
  <2>. QED
    BY <2>1, <2>2 DEF Informed
<1>32. Running'
  <2>1. \A j \in 1 .. Len(recovered') : recovered'[j] = r
    BY <1>14
  <2>2. /\ Len(recovered') <= 1
        /\ \A j \in 1 .. Len(recovered') :
             /\ sockets'[recovered'[j].id] = recovered'[j].proc
             /\ Place(recovered[j].proc, recovered[j].id)'
    BY <1>5, <1>14, <2>1 DEF Place
  <2>3. \A i \in AnyID : sockets'[i] # None => Settled(sockets[i])'
    <3>1. ASSUME NEW i \in AnyID, NEW q, q = sockets'[i], q # None PROVE Settled(q)'
      <4>1. CASE i = r.id
        BY <1>5, <1>23, <3>1, <4>1
      <4>2. CASE i # r.id
        <5>1. q = sockets[i] /\ q \in Proc
          BY <1>3, <1>5, <3>1, <4>2
        <5>. QED
          BY <1>1, <1>20, <3>1, <5>1 DEF Running
      <4>. QED
        BY <4>1, <4>2
    <3>. QED
      BY <3>1 DEF Settled, Due
  <2>4. ASSUME NEW k \in 1 .. Num, NEW q, q = nodes'[k].proc, NEW i, i = nodes'[k].id
        PROVE  /\ sockets'[i] # None
               /\ Settled(q)'
               /\ i \in stale' => Gone(q, i)'
    <3>1. Settled(q)' /\ sockets'[i] # None
      BY <1>2, <1>5, <1>24, <1>25, <2>4
    <3>2. ASSUME i \in stale' PROVE Gone(q, i)'
      <4>1. i \in stale /\ nodes'[k] # r
        BY <2>4, <3>2
      <4>2. PICK l \in 1 .. Num : nodes'[k] = nodes[l]
        BY <4>1
      <4>3. Gone(q, i) /\ q \in Proc
        BY <1>1, <1>4, <2>4, <4>1, <4>2 DEF Running
      <4>. QED
        BY <1>20, <4>3
    <3>. QED
      BY <3>1, <3>2
  <2>5. \A k \in 1 .. Num : /\ sockets'[nodes'[k].id] # None
                            /\ Settled(nodes[k].proc)'
                            /\ nodes'[k].id \in stale' => Gone(nodes[k].proc, nodes[k].id)'
    BY <2>4 DEF Settled, Gone, Due
  <2>6. ASSUME NEW p \in Alive
        PROVE  /\ \A x \in addrs'[p] : Settled(x)'
               /\ \A j \in 1 .. Len(inbox'[p]) : \A x \in Names(inbox'[p][j]) : Settled(x)'
    <3>1. p \in Proc /\ inbox[p] \in Seq(Seq(Slot)) /\ new[p] \in Seq(Seq(Slot)) /\ inbox'[p] = inbox[p] \o new[p]
      BY <1>3, <1>15, <1>16, <1>18
    <3>2. \A x \in addrs'[p] : Settled(x)'
      BY <1>1, <1>3, <1>20, <3>1 DEF Running, members
    <3>3. ASSUME NEW j \in 1 .. Len(inbox'[p]) PROVE \A x \in Names(inbox'[p][j]) : Settled(x)'
      <4>1. CASE j <= Len(inbox[p])
        <5>1. j \in 1 .. Len(inbox[p]) /\ inbox'[p][j] = inbox[p][j]
          BY <3>1, <4>1
        <5>2. inbox[p][j] \in Seq(Slot)
          BY <3>1, <5>1
        <5>. QED
          BY <1>1, <1>20, <5>1, <5>2, NamesFacts DEF Running
      <4>2. CASE j > Len(inbox[p])
        <5>1. j - Len(inbox[p]) \in 1 .. Len(new[p]) /\ inbox'[p][j] = new[p][j - Len(inbox[p])]
          <6>1. /\ Len(inbox[p]) \in Nat /\ Len(new[p]) \in Nat
                /\ Len(inbox'[p]) = Len(inbox[p]) + Len(new[p])
            BY <3>1
          <6>2. j - Len(inbox[p]) \in 1 .. Len(new[p])
            <7>1. \A a, b \in Nat : \A c \in 1 .. a + b : c > a => c - a \in 1 .. b
              OBVIOUS
            <7>2. j \in 1 .. Len(inbox[p]) + Len(new[p])
              BY <6>1
            <7>. QED
              BY <4>2, <6>1, <7>1, <7>2
          <6>. QED
            BY <3>1, <4>2, <6>1, <6>2
        <5>2. inbox'[p][j] = nodes' \/ inbox'[p][j] = recovered'
          BY <1>17, <3>1, <5>1
        <5>3. \A x \in Names(nodes') : Settled(x)'
          BY <1>25 DEF Names
        <5>4. \A x \in Names(recovered') : Settled(x)'
          BY <1>23, <1>14, <2>1 DEF Names
        <5>. QED
          BY <5>2, <5>3, <5>4
      <4>. QED
        BY <3>1, <4>1, <4>2
    <3>. QED
      BY <3>2, <3>3
  <2>7. Alive' = Alive
    BY <1>18
  <2>. QED
    BY <2>2, <2>3, <2>5, <2>6, <2>7 DEF Running
<1>33. Connected'
  <2>1. ASSUME NEW p \in Alive, NEW q \in Alive, Due(p)' # None, Due(q)' # None,
               Role[p] # Role[q], NEW i, i = Due(q)'
        PROVE  Linked(p, q, i)'
    <3>1. p \in Proc /\ q \in Proc /\ p # q
      BY <1>18, <2>1
    <3>2. Place(q, i)'
      BY <1>18, <1>29, <2>1 DEF Placed, Place
    <3>3. PICK l \in 1 .. Num : nodes'[l].proc = q /\ nodes'[l].id = i
      BY <3>2 DEF Place
    <3>4. i \in AnyID
      BY <1>6, <3>3
    <3>5. ASSUME i = r.id PROVE q = r.proc
      <4>1. CASE Due(q) # None /\ Due(q)' = Due(q)
        <5>1. Due(q) = r.id
          BY <2>1, <3>5, <4>1
        <5>. QED
          BY <5>1
      <4>2. CASE Due(q) = None /\ new[q] # <<>>
        BY <1>21, <4>2
      <4>. QED
        BY <1>22, <2>1, <4>1, <4>2
    <3>6. ASSUME NEW j \in 1 .. Len(new[p]), NEW e \in 1 .. Len(new[p][j]), new[p][j][e].id = i
          PROVE  new[p][j][e].proc = q
      <4>1. CASE new[p][j] = recovered'
        BY <1>14, <3>5, <3>6, <4>1
      <4>2. CASE new[p][j] = nodes' /\ p = r.proc
        <5>1. e \in 1 .. Num /\ nodes'[e].id = nodes'[l].id
          BY <3>3, <3>6, <4>2
        <5>2. i # r.id
          BY <3>1, <3>5, <4>2
        <5>3. \A j1 \in 1 .. Len(recovered') : recovered'[j1].id # nodes'[e].id
          BY <1>14, <3>3, <5>1, <5>2
        <5>4. OneOwner'
          BY <1>19
        <5>5. nodes'[e].proc = nodes'[l].proc
          BY <5>1, <5>3, <5>4 DEF OneOwner
        <5>. QED
          BY <3>3, <4>2, <5>5
      <4>. QED
        BY <1>17, <3>1, <4>1, <4>2
    <3>7. CASE Due(p) # None /\ Due(q) # None
      <4>1. i = Due(q)
        BY <1>22, <2>1, <3>7
      <4>2. Linked(p, q, i)
        BY <1>1, <2>1, <3>7, <4>1 DEF Connected
      <4>3. UNCHANGED <<addrs, conn>>
        BY DEF members
      <4>. QED
        BY <1>1, <1>15, <1>16, <3>1, <3>4, <3>6, <4>2, <4>3, LinkAppend
    <3>8. CASE Due(p) # None /\ Due(q) = None
      <4>1. q = r.proc /\ i = r.id /\ ~Settled(q)
        BY <1>21, <1>22, <2>1, <3>8, <1>18 DEF Settled
      <4>2. PICK d : d = Due(p)
        OBVIOUS
      <4>3. Place(p, d) /\ sockets[d] = p /\ d # r.id
        BY <1>1, <3>1, <3>8, <4>1, <4>2 DEF Placed
      <4>4. PICK k \in 1 .. Num : nodes[k].proc = p /\ nodes[k].id = d
        BY <4>3 DEF Place
      <4>5. d \in NodeIDs /\ d \notin shared
        BY <1>1, <4>4 DEF IDsCovered
      <4>6. d \notin stale
        BY <1>1, <1>18, <3>8, <4>2, <4>4 DEF Running, Gone
      <4>7. d \in Told(r) /\ sockets'[d] = p
        BY <1>5, <1>7, <1>8, <4>3, <4>5, <4>6 DEF Dead
      <4>8. Len(new[p]) > 0
        BY <1>13, <3>1, <4>7
      <4>9. 1 \in 1 .. Len(new[p])
        BY <1>15, <3>1, <4>8
      <4>10. new[p][1] = recovered'
        BY <1>17, <3>1, <4>1, <4>9
      <4>11. \E e \in 1 .. Len(new[p][1]) : new[p][1][e].proc = q /\ new[p][1][e].id = i
        <5>1. 1 \in 1 .. Len(recovered') /\ recovered'[1].proc = q /\ recovered'[1].id = i
          BY <1>14, <4>1
        <5>. QED
          BY <4>10, <5>1
      <4>12. q \notin addrs[p] /\ \A j \in 1 .. Len(inbox[p]) : q \notin Names(inbox[p][j])
        BY <1>1, <4>1 DEF Running
      <4>13. UNCHANGED addrs
        BY DEF members
      <4>. QED
        BY <1>1, <1>15, <1>16, <3>1, <3>4, <3>6, <4>8, <4>11, <4>12, <4>13, LinkNew
    <3>9. CASE Due(p) = None /\ Due(q) # None
      <4>1. /\ new[p] # <<>> /\ inbox[p] = <<>> /\ addrs[p] = {}
            /\ \A k \in 1 .. Len(new[p]) : new[p][k] = nodes'
        BY <1>21, <1>22, <2>1, <3>9
      <4>2. Len(new[p]) > 0 /\ 1 \in 1 .. Len(new[p])
        BY <1>15, <3>1, <4>1
      <4>3. \E e \in 1 .. Len(new[p][1]) : new[p][1][e].proc = q /\ new[p][1][e].id = i
        BY <3>3, <4>1, <4>2
      <4>4. q \notin addrs[p] /\ \A j \in 1 .. Len(inbox[p]) : q \notin Names(inbox[p][j])
        <5>1. 1 .. Len(<<>>) = {}
          OBVIOUS
        <5>. QED
          BY <4>1, <5>1
      <4>5. UNCHANGED addrs
        BY DEF members
      <4>. QED
        BY <1>1, <1>15, <1>16, <3>1, <3>4, <3>6, <4>2, <4>3, <4>4, <4>5, LinkNew
    <3>10. CASE Due(p) = None /\ Due(q) = None
      BY <1>21, <1>22, <2>1, <3>1, <3>10
    <3>. QED
      BY <3>7, <3>8, <3>9, <3>10
  <2>2. Alive' = Alive
    BY <1>18
  <2>. QED
    BY <2>1, <2>2 DEF Connected
<1>. QED
  BY <1>19, <1>26, <1>27, <1>28, <1>29, <1>31, <1>32, <1>33 DEF MembershipInv

\* A registration after the first: a recovery, one once more, or nothing
LEMMA InvJoinLate ==
  ASSUME MembershipInv, NEW m \in joins, JoinLate(m)
  PROVE  MembershipInv'
<1>. DEFINE p == m.thread[1]
            places == IF m.known THEN {} ELSE Vacant(Role[p])
            least == CHOOSE k \in places : \A l \in places : k <= l
            slot == [proc |-> p, id |-> nodes[least].id, rec |-> TRUE]
            sent(r) == Broadcast(Told(r), [id \in AnyID |-> IF id = r.id THEN nodes' ELSE recovered'])
<1>1. /\ assigned /\ ~aborted /\ joins' = joins \ {m}
      /\ UNCHANGED <<asked, assigned, shared, members, crashed>>
  BY DEF JoinLate
<1>2. /\ places = {} => nodes' = nodes /\ recovered' = recovered
      /\ places # {} => nodes' = [nodes EXCEPT ![least] = slot] /\ recovered' = Append(recovered, slot)
  BY DEF JoinLate
<1>3. /\ recovered' = <<>> => UNCHANGED <<sockets, stale, aborted, inbox>>
      /\ recovered' # <<>> /\ Len(recovered') > 1 =>
           aborted' = TRUE /\ UNCHANGED <<sockets, stale, inbox>>
      /\ recovered' # <<>> /\ ~(Len(recovered') > 1) =>
           /\ sockets' = [sockets EXCEPT ![recovered'[1].id] = recovered'[1].proc]
           /\ stale' = stale \ {recovered'[1].id}
           /\ sent(recovered'[1])
  BY DEF JoinLate
<1>4. TypeOK /\ Phase /\ Counted /\ IDsCovered /\ Placed /\ Informed /\ OneOwner /\ Running /\ Connected
  BY DEF MembershipInv
<1>5. m.thread \in Thread /\ p \in Proc
  BY <1>4 DEF TypeOK, Thread
<1>6. IsFiniteSet(joins') /\ joins' \subseteq joins
  BY <1>1, <1>4, FS_RemoveElement DEF Counted
<1>7. Counted'
  BY <1>1, <1>4, <1>6 DEF Counted
<1>8. \A k \in 1 .. Num : nodes[k] \in Slot /\ nodes[k].proc \in Proc /\ nodes[k].id \in AnyID
  BY <1>1, <1>4, SlotFacts
<1>9. /\ recovered \in Seq({s \in Slot : s.id # None /\ s.rec}) /\ Len(recovered) <= 1
      /\ nodes \in Seq(Slot) /\ Len(nodes) = Num
  BY <1>1, <1>4 DEF TypeOK, Phase, Running
<1>10. ASSUME places # {}
       PROVE  /\ least \in 1 .. Num
              /\ nodes[least].id \in Dead /\ Role[nodes[least].proc] = Role[p]
  <2>1. places \in SUBSET Nat /\ places \subseteq Vacant(Role[p])
    BY NumFacts DEF Vacant
  <2>. HIDE DEF places
  <2>2. least \in places
    BY <1>10, <2>1, Least
  <2>. HIDE DEF least
  <2>. QED
    BY <2>1, <2>2 DEF Vacant
<1>. HIDE DEF places, least, p, sent
<1>11. CASE places = {} /\ recovered = <<>>
  <2>1. UNCHANGED <<nodes, recovered, assigned, shared, sockets, stale, aborted, inbox, members, crashed>>
    BY <1>1, <1>2, <1>3, <1>11
  <2>2. TypeOK'
    BY <1>1, <1>4, <1>6, <2>1 DEF TypeOK, members
  <2>. QED
    BY <1>7, <2>1, <2>2, InvFrame
<1>12. CASE places = {} /\ recovered # <<>>
  <2>1. Len(recovered) = 1
    <3>. DEFINE T == {s \in Slot : s.id # None /\ s.rec}
    <3>1. recovered \in Seq(T)
      BY <1>9
    <3>. HIDE DEF T
    <3>2. Len(recovered) \in Nat /\ Len(recovered) # 0
      BY <1>12, <3>1
    <3>3. Len(recovered) <= 1
      BY <1>9
    <3>. QED
      BY <3>2, <3>3
  <2>2. PICK r : r = recovered[1]
    OBVIOUS
  <2>3. r \in Slot /\ r.id # None /\ r.rec /\ recovered = <<r>>
    <3>. DEFINE T == {s \in Slot : s.id # None /\ s.rec}
    <3>1. recovered \in Seq(T)
      BY <1>9
    <3>. HIDE DEF T
    <3>2. recovered = <<r>> /\ r \in T
      BY <2>1, <2>2, <3>1
    <3>. QED
      BY <3>2 DEF T
  <2>4. 1 \in 1 .. Len(recovered)
    BY <2>1
  <2>5. sockets[r.id] = r.proc /\ Place(r.proc, r.id)
    BY <1>1, <1>4, <2>2, <2>4 DEF Running
  <2>6. r.id \in AnyID
    BY <1>8, <2>5 DEF Place
  <2>7. nodes' = nodes /\ recovered' = recovered
    BY <1>2, <1>12
  <2>8. recovered'[1] = r /\ recovered' # <<>> /\ ~(Len(recovered') > 1)
    BY <1>12, <2>1, <2>2, <2>7
  <2>9. /\ sockets' = [sockets EXCEPT ![r.id] = r.proc] /\ stale' = stale \ {r.id}
        /\ sent(r)
    BY <1>3, <2>8
  <2>10. \A q : \A j : Place(q, j)' = Place(q, j)
    BY <2>7 DEF Place
  <2>11. IDsCovered'
    BY <1>1, <1>4, <2>7 DEF IDsCovered
  <2>12. ASSUME Keeps PROVE OneOwner'
    <3>1. ASSUME NEW k \in 1 .. Num, NEW l \in 1 .. Num,
                 nodes[k].id = nodes[l].id, nodes[k].proc # nodes[l].proc
          PROVE  /\ \E j \in 1 .. Len(recovered) : recovered[j].id = nodes[k].id
                 /\ Gone(nodes[k].proc, nodes[k].id)' \/ Gone(nodes[l].proc, nodes[k].id)'
      <4>1. /\ \E j \in 1 .. Len(recovered) : recovered[j].id = nodes[k].id
            /\ Gone(nodes[k].proc, nodes[k].id) \/ Gone(nodes[l].proc, nodes[k].id)
        BY <1>1, <1>4, <3>1 DEF OneOwner
      <4>. QED
        BY <1>8, <2>7, <2>12, <4>1, KeepsGone
    <3>. QED
      BY <2>7, <3>1 DEF OneOwner
  <2>13. ASSUME NEW q \in Alive, Due(q) = r.id PROVE q = r.proc
    BY <1>4, <2>3, <2>5, <2>13 DEF Placed
  <2>. QED
    BY <1>1, <1>6, <1>9, <2>3, <2>5, <2>6, <2>7, <2>9, <2>10, <2>11, <2>12, <2>13,
       InvRecover DEF sent
<1>13. ASSUME places # {} PROVE MembershipInv'
  <2>1. PICK i \in 1 .. Num : i = least
    BY <1>10, <1>13
  <2>2. PICK q \in Proc : q = p
    BY <1>5
  <2>3. PICK r : r = [proc |-> q, id |-> nodes[i].id, rec |-> TRUE]
    OBVIOUS
  <2>4. /\ nodes[i].id \in Dead /\ Role[nodes[i].proc] = Role[q]
        /\ nodes' = [nodes EXCEPT ![i] = r] /\ recovered' = Append(recovered, r)
    BY <1>2, <1>10, <1>13, <2>1, <2>2, <2>3
  <2>5. r \in {[proc |-> q, id |-> nodes[i].id, rec |-> TRUE]}
    BY <2>3
  <2>6. UNCHANGED <<assigned, shared>>
    BY <1>1
  <2>7. /\ nodes[i].id \in stale /\ nodes[i].id \in NodeIDs
        /\ nodes' \in Seq(Slot) /\ Len(nodes') = Num
        /\ recovered' \in Seq({s \in Slot : s.id # None /\ s.rec})
        /\ Len(recovered') = Len(recovered) + 1 /\ recovered'[Len(recovered')] = r
        /\ \A k \in 1 .. Num \ {i} : nodes'[k] = nodes[k]
        /\ nodes'[i] = r
        /\ IDsCovered' /\ (Keeps => OneOwner')
        /\ \A x \in Proc : \A j : Place(x, j) => Place(x, j)' \/ Gone(x, j)
    BY <1>1, <2>4, <2>5, <2>6, ReplaceFacts
  <2>8. r \in Slot /\ r.proc = q /\ r.id = nodes[i].id /\ r.rec /\ r.id \in AnyID
    <3>. DEFINE id == nodes[i].id
    <3>1. id \in AnyID /\ TRUE \in BOOLEAN
      BY <1>8
    <3>2. r = [proc |-> q, id |-> id, rec |-> TRUE]
      BY <2>3
    <3>. HIDE DEF id
    <3>3. r \in Slot /\ r.proc = q /\ r.id = id /\ r.rec /\ r.id \in AnyID
      BY <3>1, <3>2 DEF Slot
    <3>. QED
      BY <3>3 DEF id
  <2>9. CASE recovered = <<>>
    <3>1. recovered' = <<r>>
      BY <2>4, <2>9
    <3>2. recovered'[1] = r /\ recovered' # <<>> /\ ~(Len(recovered') > 1)
      BY <3>1
    <3>3. /\ sockets' = [sockets EXCEPT ![r.id] = r.proc] /\ stale' = stale \ {r.id}
          /\ sent(r)
      BY <1>3, <3>2
    <3>4. Place(r.proc, r.id)'
      BY <2>7 DEF Place
    <3>5. ASSUME NEW x \in Alive, Due(x) = r.id PROVE x = r.proc
      <4>1. Place(x, r.id) /\ r.id # None
        BY <1>4, <2>8, <3>5, IDFacts DEF Placed
      <4>2. Gone(x, r.id)
        BY <1>1, <1>4, <2>7, <2>8, <4>1 DEF Running, Place
      <4>. QED
        BY <3>5, <4>1, <4>2 DEF Gone, Alive
    <3>6. \A k \in 1 .. Num : nodes'[k] = r \/ \E l \in 1 .. Num : nodes'[k] = nodes[l]
      BY <2>7
    <3>. QED
      BY <1>1, <1>6, <2>7, <2>8, <3>1, <3>3, <3>4, <3>5, <3>6, InvRecover DEF sent
  <2>10. CASE recovered # <<>>
    <3>1. recovered' # <<>> /\ Len(recovered') > 1
      BY <1>9, <2>7, <2>10
    <3>2. aborted' = TRUE /\ UNCHANGED <<sockets, stale, inbox>>
      BY <1>3, <3>1
    <3>3. /\ \A x : Due(x)' = Due(x) /\ Settled(x)' = Settled(x)
          /\ \A x, j : Gone(x, j)' = Gone(x, j)
          /\ Alive' = Alive
      BY <1>1, <3>2 DEF Due, LocalID, Settled, Gone, Alive, members
    <3>4. Keeps
      BY <1>1, <3>3 DEF Keeps
    <3>5. TypeOK'
      BY <1>1, <1>4, <1>6, <2>7, <3>2, NumFacts DEF TypeOK, members
    <3>6. Phase'
      <4>1. \A k \in 1 .. Num : nodes'[k].id \in AnyID
        BY <1>8, <2>7, <2>8
      <4>. QED
        BY <2>7, <3>2, <4>1 DEF Phase
    <3>7. Placed'
      <4>1. ASSUME NEW x \in Alive, NEW d, d = Due(x), d # None PROVE Place(x, d)' /\ sockets'[d] = x
        <5>1. Place(x, d) /\ sockets[d] = x /\ x \in Proc
          BY <1>4, <4>1 DEF Placed, Alive
        <5>2. ~Gone(x, d)
          BY <4>1 DEF Gone, Alive
        <5>. QED
          BY <2>7, <3>2, <5>1, <5>2
      <4>. QED
        BY <3>3, <4>1 DEF Placed, Place
    <3>8. Informed'
      BY <1>1, <1>4, <3>2, <3>3 DEF Informed, members
    <3>9. Running'
      BY <3>2 DEF Running
    <3>10. \A x, y, j : Linked(x, y, j)' = Linked(x, y, j)
      BY <1>1, <3>2 DEF Linked, Only, First, members
    <3>11. Connected'
      BY <1>4, <3>3, <3>10 DEF Connected
    <3>. QED
      BY <1>7, <2>7, <3>4, <3>5, <3>6, <3>7, <3>8, <3>9, <3>11 DEF MembershipInv
  <2>. QED
    BY <2>9, <2>10
<1>. QED
  BY <1>11, <1>12, <1>13

----------------------------------------------------------------------------
\* For all jobs, all orders of registrations and all crashes: the list, the ids and
\* the links fit together as the parts of MembershipInv say
THEOREM MembershipInvariant == Spec => []MembershipInv
<1>1. ASSUME MembershipInv, [Next]_vars PROVE MembershipInv'
  <2>1. ASSUME NEW t \in Thread, Register(t) PROVE MembershipInv'
    BY <1>1, <2>1, InvRegister
  <2>2. ASSUME NEW m \in joins, JoinEarly(m) PROVE MembershipInv'
    BY <1>1, <2>2, InvJoinEarly
  <2>3. ASSUME NEW m \in joins, JoinLast(m) PROVE MembershipInv'
    BY <1>1, <2>3, InvJoinLast
  <2>4. ASSUME NEW m \in joins, JoinLate(m) PROVE MembershipInv'
    BY <1>1, <2>4, InvJoinLate
  <2>5. ASSUME NEW i \in AnyID, Expire(i) PROVE MembershipInv'
    BY <1>1, <2>5, InvExpire
  <2>6. ASSUME NEW p \in Proc, Update(p) PROVE MembershipInv'
    BY <1>1, <2>6, InvUpdate
  <2>7. ASSUME NEW p \in Proc, Crash(p) PROVE MembershipInv'
    BY <1>1, <2>7, InvCrash
  <2>8. ASSUME UNCHANGED vars PROVE MembershipInv'
    <3>1. TypeOK' /\ Counted'
      BY <1>1, <2>8 DEF MembershipInv, TypeOK, Counted, InList, OnTheWay, Asked, vars, scheduler, members
    <3>. QED
      BY <1>1, <2>8, <3>1, InvFrame DEF vars, scheduler
  <2>. QED
    BY <1>1, <2>1, <2>2, <2>3, <2>4, <2>5, <2>6, <2>7, <2>8 DEF Next
<1>. QED
  BY <1>1, InvInit, PTL DEF Spec

\* The state of the scheduler and of the nodes is of the types the code gives it
THEOREM MembershipTypeCorrect == Spec => []TypeOK
<1>1. MembershipInv => TypeOK
  BY DEF MembershipInv
<1>. QED
  BY <1>1, MembershipInvariant, PTL

\* No two running processes have one id, whatever crashes and is replaced
THEOREM OneHolderEach == Spec => []OneHolder
<1>1. ASSUME MembershipInv PROVE OneHolder
  <2>1. ASSUME NEW p \in Alive, NEW q \in Alive, myID[p] = myID[q], myID[p] # None PROVE p = q
    <3>1. \A x \in Alive : myID[x] # None => Due(x) = myID[x]
      BY DEF Due, LocalID
    <3>2. Due(p) = Due(q) /\ Due(p) # None
      BY <2>1, <3>1
    <3>3. sockets[Due(p)] = p /\ sockets[Due(q)] = q
      BY <1>1, <3>2 DEF MembershipInv, Placed
    <3>. QED
      BY <3>2, <3>3
  <2>. QED
    BY <2>1 DEF OneHolder
<1>. QED
  BY <1>1, MembershipInvariant, PTL

\* Every id that barriers count and broadcasts go to is in use once the nodes are
\* numbered, and recoveries keep it so
THEOREM AllIDsCovered == Spec => []IDsCovered
<1>1. MembershipInv => IDsCovered
  BY DEF MembershipInv
<1>. QED
  BY <1>1, MembershipInvariant, PTL

\* What a node that has read its lists sends to an id reaches its present holder
THEOREM RoutesLeadToHolders == Spec => []RoutesAgree
<1>1. ASSUME MembershipInv PROVE RoutesAgree
  <2>1. ASSUME NEW p \in Alive \cap ready, NEW q \in Alive \cap ready
        PROVE  /\ sockets[myID[q]] = q
               /\ inbox[p] = <<>> /\ Role[p] # Role[q] => conn[p][myID[q]] = q
    <3>1. \A x \in Alive \cap ready : myID[x] # None /\ Due(x) = myID[x]
      BY <1>1 DEF MembershipInv, Informed, Due, LocalID
    <3>2. sockets[myID[q]] = q
      BY <1>1, <3>1 DEF MembershipInv, Placed
    <3>3. ASSUME inbox[p] = <<>>, Role[p] # Role[q] PROVE conn[p][myID[q]] = q
      <4>1. Linked(p, q, myID[q])
        BY <1>1, <3>1, <3>3 DEF MembershipInv, Connected
      <4>2. 1 .. Len(<<>>) = {}
        OBVIOUS
      <4>. QED
        BY <3>3, <4>1, <4>2 DEF Linked
    <3>. QED
      BY <3>2, <3>3
  <2>. QED
    BY <2>1 DEF RoutesAgree
<1>. QED
  BY <1>1, MembershipInvariant, PTL

=============================================================================
