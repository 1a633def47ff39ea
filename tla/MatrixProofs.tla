---------------------------- MODULE MatrixProofs ----------------------------
(* Proofs about the matrix layer, for any clients, servers, matrices, shapes *)
(* and calls. The first parts are about sums over finite sets, about how     *)
(* RowPartition deals out the rows, and about the positions that the slicer  *)
(* finds. Then Inv, the inductive invariant: a client knows the keys of what *)
(* it has pushed, a slice under way has the key of its part, a server holds  *)
(* nothing but parts, each at the key that some client gave it, and a part   *)
(* that has been pushed is held or on its way. The last parts show Sums:     *)
(* among clients that agree on keys each part holds the sum of what its      *)
(* server has served; and what a server's functions read from such a part.   *)
EXTENDS Matrix, FiniteSetTheorems, TLAPS

\* A set of numbers has a least one
LEMMA Least ==
  ASSUME NEW S \in SUBSET Nat, S # {}
  PROVE  \E n \in S : \A m \in S : n <= m
<1>1. PICK n \in S : \A m \in S : ~(<<m, n>> \in OpToRel(<, Nat))
  BY ONLY S \in SUBSET Nat, S # {}, WFMin, NatLessThanWellFounded
<1>2. \A m \in S : ~(m < n)
  BY ONLY <1>1, S \in SUBSET Nat DEF OpToRel
<1>. QED
  BY ONLY <1>2, S \in SUBSET Nat

\* A set of finite sets has one that is smaller than or as large as any other
LEMMA Smallest ==
  ASSUME NEW S, S # {}, \A T \in S : IsFiniteSet(T)
  PROVE  \E T \in S : \A U \in S : Cardinality(T) <= Cardinality(U)
<1>1. {Cardinality(T) : T \in S} \in SUBSET Nat
  BY FS_CardinalityType
<1>2. PICK N : N = {Cardinality(T) : T \in S}
  OBVIOUS
<1>3. N \in SUBSET Nat /\ N # {}
  BY ONLY <1>1, <1>2, S # {}
<1>4. PICK n \in N : \A k \in N : n <= k
  BY ONLY <1>3, Least
<1>. QED
  BY ONLY <1>2, <1>4

(* A set without one of its elements is smaller.                             *)
LEMMA OneLess ==
  ASSUME NEW S, IsFiniteSet(S), NEW x \in S
  PROVE  IsFiniteSet(S \ {x}) /\ Cardinality(S \ {x}) < Cardinality(S)
<1>1. Cardinality(S) \in Nat
  BY FS_CardinalityType
<1>2. IsFiniteSet(S \ {x}) /\ Cardinality(S \ {x}) = Cardinality(S) - 1
  BY FS_RemoveElement
<1>3. PICK n : n = Cardinality(S)
  OBVIOUS
<1>. QED
  BY ONLY <1>1, <1>2, <1>3

----------------------------------------------------------------------------
(* Sums.                                                                     *)

Pick(s) == CHOOSE x \in s : TRUE
Sum(f, S) == SumFunctionOnSet(f, S)

(* g is the function that the definition of a sum recurs with.               *)
SumRule(f, S, g) ==
  g = [s \in SUBSET S |-> IF s = {} THEN 0 ELSE f[Pick(s)] + g[s \ {Pick(s)}]]

(* What is picked is in the set.                                             *)
LEMMA PickIn == \A s : s # {} => Pick(s) \in s
  BY DEF Pick

(* A sum is what some function that satisfies the rule has for the whole     *)
(* set.                                                                      *)
LEMMA SumOf ==
  ASSUME NEW S, NEW f, NEW g, SumRule(f, S, g)
  PROVE  \E h : SumRule(f, S, h) /\ Sum(f, S) = h[S]
  BY DEF Sum, SumRule, Pick, SumFunctionOnSet, FoldFunctionOnSet, MapThenFoldSet

(* What the rule says of the empty set and of others.                        *)
LEMMA RuleAt ==
  ASSUME NEW S, NEW f, NEW g, SumRule(f, S, g)
  PROVE  /\ g[{}] = 0
         /\ \A s \in SUBSET S : s # {} => g[s] = f[Pick(s)] + g[s \ {Pick(s)}]
  BY DEF SumRule

(* Two such functions agree.                                                 *)
LEMMA RulesAgree ==
  ASSUME NEW S, NEW T, NEW f, NEW g, NEW h, SumRule(f, S, g), SumRule(f, T, h),
         NEW U, IsFiniteSet(U), U \subseteq S, U \subseteq T
  PROVE  g[U] = h[U]
<1>. DEFINE Bad == {V \in SUBSET U : g[V] # h[V]}
<1>1. SUFFICES ASSUME Bad # {} PROVE FALSE
  OBVIOUS
<1>2. \A V \in Bad : IsFiniteSet(V)
  BY FS_Subset
<1>3. PICK V \in Bad : \A W \in Bad : Cardinality(V) <= Cardinality(W)
  BY ONLY <1>1, <1>2, Smallest
<1>4. V # {}
  BY <1>3, RuleAt
<1>5. PICK W : W = V \ {Pick(V)}
  OBVIOUS
<1>6. W \subseteq U /\ Cardinality(W) < Cardinality(V)
  <2>1. PICK p : p = Pick(V)
    OBVIOUS
  <2>. QED
    BY <2>1, <1>2, <1>3, <1>4, <1>5, PickIn, OneLess
<1>7. g[V] = f[Pick(V)] + g[W] /\ h[V] = f[Pick(V)] + h[W]
  <2>1. V \in SUBSET S /\ V \in SUBSET T
    BY <1>3
  <2>. QED
    BY ONLY <2>1, <1>4, <1>5, RuleAt, SumRule(f, S, g), SumRule(f, T, h)
<1>8. W \in Bad
  BY <1>3, <1>6, <1>7
<1>. QED
  BY <1>3, <1>6, <1>8, <1>2, FS_CardinalityType

(* There is one for each finite set.                                         *)
LEMMA RuleExists ==
  ASSUME NEW S, IsFiniteSet(S), NEW f
  PROVE  \E g : SumRule(f, S, g)
<1>. DEFINE Bad == {V \in SUBSET S : ~ \E g : SumRule(f, V, g)}
<1>1. SUFFICES ASSUME Bad # {} PROVE FALSE
  OBVIOUS
<1>2. \A V \in SUBSET S : IsFiniteSet(V) /\ Cardinality(V) \in Nat
  BY FS_Subset, FS_CardinalityType
<1>3. PICK U \in Bad : \A W \in Bad : Cardinality(U) <= Cardinality(W)
  BY ONLY <1>1, <1>2, Smallest
<1>4. PICK G : G = [V \in SUBSET S |-> CHOOSE g : SumRule(f, V, g)]
  OBVIOUS
<1>5. ASSUME NEW V \in SUBSET U, V # U PROVE SumRule(f, V, G[V])
  <2>1. Cardinality(V) < Cardinality(U)
    BY <1>2, <1>3, <1>5, FS_Subset
  <2>2. V \notin Bad
    BY <1>2, <1>3, <2>1
  <2>. QED
    BY <1>4, <2>2, <1>3
<1>6. PICK h : h = [s \in SUBSET U |-> IF s = {} THEN 0 ELSE f[Pick(s)] + G[s \ {Pick(s)}][s \ {Pick(s)}]]
  OBVIOUS
<1>7. ASSUME NEW t \in SUBSET U, t # U PROVE h[t] = G[t][t]
  <2>1. SumRule(f, t, G[t])
    BY <1>5, <1>7
  <2>2. CASE t = {}
    BY <2>1, <2>2, <1>6, RuleAt
  <2>3. CASE t # {}
    <3>1. PICK w : w = t \ {Pick(t)}
      OBVIOUS
    <3>2. w \in SUBSET U /\ w # U /\ w \subseteq t /\ IsFiniteSet(w)
      BY <3>1, <2>3, <1>2, <1>3, <1>7, PickIn
    <3>3. SumRule(f, w, G[w])
      BY <3>2, <1>5
    <3>4. G[t][w] = G[w][w]
      BY ONLY <2>1, <3>3, <3>2, RulesAgree
    <3>5. G[t][t] = f[Pick(t)] + G[t][w]
      BY ONLY <2>1, <2>3, <3>1, RuleAt
    <3>. QED
      BY <1>6, <2>3, <3>1, <3>4, <3>5
  <2>. QED
    BY <2>2, <2>3
<1>8. SumRule(f, U, h)
  <2>1. ASSUME NEW s \in SUBSET U, s # {} PROVE h[s] = f[Pick(s)] + h[s \ {Pick(s)}]
    <3>1. s \ {Pick(s)} \in SUBSET U /\ s \ {Pick(s)} # U
      BY <2>1, PickIn
    <3>. QED
      BY <3>1, <1>6, <1>7, <2>1
  <2>2. h = [s \in SUBSET U |-> IF s = {} THEN 0 ELSE f[Pick(s)] + h[s \ {Pick(s)}]]
    <3>1. DOMAIN h = SUBSET U /\ \A s \in SUBSET U : h[s] = IF s = {} THEN 0 ELSE f[Pick(s)] + h[s \ {Pick(s)}]
      BY <1>6, <2>1
    <3>2. h = [s \in SUBSET U |-> h[s]]
      BY <1>6
    <3>. QED
      BY <3>1, <3>2
  <2>. QED
    BY <2>2 DEF SumRule
<1>. QED
  BY <1>3, <1>8

(* A sum takes its elements one by one, in the order of Pick.                *)
LEMMA SumStep ==
  ASSUME NEW S, IsFiniteSet(S), NEW f
  PROVE  /\ Sum(f, {}) = 0
         /\ S # {} => Sum(f, S) = f[Pick(S)] + Sum(f, S \ {Pick(S)})
<1>1. IsFiniteSet({}) /\ IsFiniteSet(S \ {Pick(S)})
  BY FS_EmptySet, FS_RemoveElement
<1>2. PICK z : SumRule(f, {}, z) /\ Sum(f, {}) = z[{}]
  BY <1>1, RuleExists, SumOf
<1>3. PICK g : SumRule(f, S, g) /\ Sum(f, S) = g[S]
  BY RuleExists, SumOf
<1>4. PICK h : SumRule(f, S \ {Pick(S)}, h) /\ Sum(f, S \ {Pick(S)}) = h[S \ {Pick(S)}]
  BY <1>1, RuleExists, SumOf
<1>5. g[S \ {Pick(S)}] = h[S \ {Pick(S)}]
  <2>1. PICK w : w = S \ {Pick(S)}
    OBVIOUS
  <2>. QED
    BY ONLY <1>1, <1>3, <1>4, <2>1, RulesAgree
<1>6. Sum(f, {}) = 0
  BY <1>2, RuleAt
<1>7. S # {} => g[S] = f[Pick(S)] + g[S \ {Pick(S)}]
  BY <1>3, RuleAt
<1>. QED
  BY <1>3, <1>4, <1>5, <1>6, <1>7

(* A sum of integers is one.                                                 *)
LEMMA SumInt ==
  ASSUME NEW S, IsFiniteSet(S), NEW f, \A x \in S : f[x] \in Int
  PROVE  Sum(f, S) \in Int
<1>. DEFINE Bad == {V \in SUBSET S : Sum(f, V) \notin Int}
<1>1. SUFFICES ASSUME Bad # {} PROVE FALSE
  OBVIOUS
<1>2. \A V \in SUBSET S : IsFiniteSet(V) /\ Cardinality(V) \in Nat
  BY FS_Subset, FS_CardinalityType
<1>3. PICK V \in Bad : \A W \in Bad : Cardinality(V) <= Cardinality(W)
  BY ONLY <1>1, <1>2, Smallest
<1>4. V # {}
  BY <1>2, <1>3, SumStep
<1>5. PICK W : W = V \ {Pick(V)}
  OBVIOUS
<1>6. W \in SUBSET S /\ Cardinality(W) < Cardinality(V) /\ Pick(V) \in S
  <2>1. PICK p : p = Pick(V)
    OBVIOUS
  <2>. QED
    BY <2>1, <1>2, <1>3, <1>4, <1>5, PickIn, OneLess
<1>7. Sum(f, V) = f[Pick(V)] + Sum(f, W)
  BY <1>2, <1>3, <1>4, <1>5, SumStep
<1>8. W \in Bad
  BY <1>3, <1>6, <1>7
<1>. QED
  BY <1>2, <1>3, <1>6, <1>8

(* The order does not matter: any element may be taken out.                  *)
LEMMA SumTakes ==
  ASSUME NEW S, IsFiniteSet(S), NEW f, \A x \in S : f[x] \in Int, NEW a \in S
  PROVE  Sum(f, S) = f[a] + Sum(f, S \ {a})
<1>. DEFINE Bad == {V \in SUBSET S : \E x \in V : Sum(f, V) # f[x] + Sum(f, V \ {x})}
<1>1. SUFFICES ASSUME Bad # {} PROVE FALSE
  OBVIOUS
<1>2. \A V \in SUBSET S : IsFiniteSet(V) /\ Cardinality(V) \in Nat /\ Sum(f, V) \in Int
  BY FS_Subset, FS_CardinalityType, SumInt
<1>3. PICK V \in Bad : \A W \in Bad : Cardinality(V) <= Cardinality(W)
  BY ONLY <1>1, <1>2, Smallest
<1>4. PICK x \in V : Sum(f, V) # f[x] + Sum(f, V \ {x})
  BY <1>3
<1>5. PICK y : y = Pick(V)
  OBVIOUS
<1>6. y \in V /\ Sum(f, V) = f[y] + Sum(f, V \ {y}) /\ x # y
  BY <1>2, <1>3, <1>4, <1>5, SumStep, PickIn
<1>7. PICK A, B, C : A = V \ {y} /\ B = V \ {x} /\ C = V \ {x, y}
  OBVIOUS
<1>8. /\ A \in SUBSET S /\ B \in SUBSET S /\ C \in SUBSET S
      /\ Cardinality(A) < Cardinality(V) /\ Cardinality(B) < Cardinality(V)
      /\ x \in A /\ y \in B /\ A \ {x} = C /\ B \ {y} = C
  <2>1. Cardinality(A) < Cardinality(V) /\ Cardinality(B) < Cardinality(V)
    BY <1>2, <1>3, <1>4, <1>6, <1>7, OneLess
  <2>. QED
    BY <1>3, <1>4, <1>6, <1>7, <2>1
<1>9. A \notin Bad /\ B \notin Bad
  BY <1>2, <1>3, <1>8
<1>10. Sum(f, A) = f[x] + Sum(f, C) /\ Sum(f, B) = f[y] + Sum(f, C)
  BY <1>8, <1>9
<1>11. Sum(f, C) \in Int /\ f[x] \in Int /\ f[y] \in Int
  BY <1>2, <1>3, <1>4, <1>6, <1>8
<1>12. Sum(f, V) = f[y] + (f[x] + Sum(f, C)) /\ Sum(f, V \ {x}) = f[y] + Sum(f, C)
  BY <1>6, <1>7, <1>10
<1>13. PICK c : c = Sum(f, C)
  OBVIOUS
<1>14. f[y] + (f[x] + c) = f[x] + (f[y] + c)
  BY ONLY <1>11, <1>13
<1>. QED
  BY ONLY <1>4, <1>12, <1>13, <1>14

(* A sum over other names of the same elements is the same.                  *)
LEMMA SumMap ==
  ASSUME NEW S, IsFiniteSet(S), NEW f, \A x \in S : f[x] \in Int,
         NEW T, NEW g, NEW b \in [S -> T], \A x, y \in S : b[x] = b[y] => x = y,
         T = {b[x] : x \in S}, \A x \in S : f[x] = g[b[x]]
  PROVE  IsFiniteSet(T) /\ Sum(f, S) = Sum(g, T)
<1>. DEFINE Im(V) == {b[x] : x \in V}
            Bad == {V \in SUBSET S : ~ (IsFiniteSet(Im(V)) /\ Sum(f, V) = Sum(g, Im(V)))}
<1>1. SUFFICES ASSUME Bad # {} PROVE FALSE
  OBVIOUS
<1>2. \A V \in SUBSET S : IsFiniteSet(V) /\ Cardinality(V) \in Nat /\ Sum(f, V) \in Int
  BY FS_Subset, FS_CardinalityType, SumInt
<1>3. PICK V \in Bad : \A W \in Bad : Cardinality(V) <= Cardinality(W)
  BY ONLY <1>1, <1>2, Smallest
<1>4. V # {}
  <2>1. Im({}) = {}
    OBVIOUS
  <2>2. Sum(f, {}) = 0 /\ Sum(g, {}) = 0 /\ IsFiniteSet({})
    BY SumStep, FS_EmptySet
  <2>. QED
    BY <1>3, <2>1, <2>2
<1>5. PICK a \in V : TRUE
  BY <1>4
<1>6. PICK W : W = V \ {a}
  OBVIOUS
<1>7. W \in SUBSET S /\ Cardinality(W) < Cardinality(V)
  BY <1>2, <1>3, <1>6, OneLess
<1>8. W \notin Bad
  BY <1>2, <1>3, <1>7
<1>9. IsFiniteSet(Im(W)) /\ Sum(f, W) = Sum(g, Im(W))
  BY <1>7, <1>8
<1>10. Im(V) = Im(W) \cup {b[a]} /\ b[a] \notin Im(W)
  BY <1>3, <1>5, <1>6
<1>11. IsFiniteSet(Im(V)) /\ Im(V) \ {b[a]} = Im(W) /\ b[a] \in Im(V)
  <2>1. PICK y, P, R : y = b[a] /\ P = Im(W) /\ R = Im(V)
    OBVIOUS
  <2>2. IsFiniteSet(P) /\ R = P \cup {y} /\ y \notin P
    BY ONLY <1>9, <1>10, <2>1
  <2>3. IsFiniteSet(R) /\ R \ {y} = P /\ y \in R
    BY ONLY <2>2, FS_AddElement
  <2>. QED
    BY ONLY <2>1, <2>3
<1>12. \A y \in Im(V) : g[y] \in Int
  BY <1>3
<1>13. Sum(g, Im(V)) = g[b[a]] + Sum(g, Im(W))
  <2>. HIDE DEF Im
  <2>. QED
    BY ONLY <1>11, <1>12, SumTakes
<1>14. Sum(f, V) = f[a] + Sum(f, W)
  <2>1. \A x \in V : f[x] \in Int
    BY <1>3
  <2>. QED
    BY <2>1, <1>2, <1>3, <1>5, <1>6, SumTakes
<1>15. a \in S
  BY <1>3, <1>5
<1>. QED
  BY <1>3, <1>9, <1>11, <1>13, <1>14, <1>15

(* The sum depends on the elements alone.                                    *)
LEMMA SumSame ==
  ASSUME NEW S, IsFiniteSet(S), NEW f, NEW g, \A x \in S : f[x] \in Int /\ f[x] = g[x]
  PROVE  Sum(f, S) = Sum(g, S)
<1>1. PICK b : b = [x \in S |-> x]
  OBVIOUS
<1>2. b \in [S -> S] /\ (\A x, y \in S : b[x] = b[y] => x = y) /\ S = {b[x] : x \in S}
      /\ \A x \in S : f[x] = g[b[x]]
  BY <1>1
<1>. QED
  BY <1>2, SumMap

\* SumFunction is a sum over the domain
LEMMA SumWhole == \A f : SumFunction(f) = Sum(f, DOMAIN f)
  BY DEF SumFunction, Sum

\* f counts from 1 what g counts from k
Along(f, g, n, k) ==
  /\ n \in Nat /\ k \in Int /\ DOMAIN f = 1 .. n /\ DOMAIN g = k .. (k + n - 1)
  /\ \A j \in 1 .. n : f[j] \in Int /\ f[j] = g[k + j - 1]

(* The sum of equal rows of numbers, wherever each begins to count.          *)
LEMMA SumAlong ==
  ASSUME NEW f, NEW g, NEW n, NEW k, Along(f, g, n, k)
  PROVE  SumFunction(f) = SumFunction(g)
<1>0. /\ n \in Nat /\ k \in Int /\ DOMAIN f = 1 .. n /\ DOMAIN g = k .. (k + n - 1)
      /\ \A j \in 1 .. n : f[j] \in Int /\ f[j] = g[k + j - 1]
  BY DEF Along
<1>1. PICK b : b = [j \in 1 .. n |-> k + j - 1]
  OBVIOUS
<1>2. b \in [1 .. n -> k .. (k + n - 1)] /\ \A x, y \in 1 .. n : b[x] = b[y] => x = y
  BY <1>0, <1>1
<1>3. k .. (k + n - 1) = {b[x] : x \in 1 .. n}
  <2>1. \A y \in k .. (k + n - 1) : y - k + 1 \in 1 .. n /\ b[y - k + 1] = y
    BY <1>0, <1>1
  <2>. QED
    BY <1>0, <2>1, <1>2
<1>4. IsFiniteSet(1 .. n)
  BY <1>0, FS_Interval
<1>5. PICK T : T = k .. (k + n - 1)
  OBVIOUS
<1>6. Sum(f, 1 .. n) = Sum(g, T)
  <2>1. \A x \in 1 .. n : f[x] \in Int /\ f[x] = g[b[x]]
    BY <1>0, <1>1
  <2>2. PICK I : I = 1 .. n
    OBVIOUS
  <2>. QED
    <3>1. /\ IsFiniteSet(I) /\ b \in [I -> T] /\ T = {b[x] : x \in I}
          /\ \A x \in I : f[x] \in Int /\ f[x] = g[b[x]]
          /\ \A x, y \in I : b[x] = b[y] => x = y
      BY ONLY <1>2, <1>3, <1>4, <1>5, <2>1, <2>2
    <3>2. Sum(f, I) = Sum(g, T)
      BY ONLY <3>1, SumMap
    <3>. QED
      BY ONLY <3>2, <2>2
<1>. QED
  BY <1>0, <1>5, <1>6, SumWhole

----------------------------------------------------------------------------
(* How the rows are dealt out.                                               *)

Quot(m) == ElePerCol(m) \div NumServers
Rest(m) == ElePerCol(m) % NumServers

\* The rows of the servers before i
Before(m, i) == i * Quot(m) + (IF i < Rest(m) THEN i ELSE Rest(m))

(* Numbers of rows and columns, and how the rows divide.                     *)
LEMMA Sizes ==
  ASSUME NEW m \in Matrix
  PROVE  /\ ElePerCol(m) \in Nat \ {0} /\ ElePerRow(m) \in Nat \ {0}
         /\ Shape[m].startRow \in Int /\ Shape[m].endRow = Shape[m].startRow + ElePerCol(m)
         /\ Shape[m].startCol \in Int /\ Shape[m].endCol = Shape[m].startCol + ElePerRow(m)
         /\ Shape[m].matrix = m
         /\ NumServers \in Nat \ {0} /\ Quot(m) \in Nat /\ Rest(m) \in 0 .. NumServers - 1
         /\ ElePerCol(m) = NumServers * Quot(m) + Rest(m)
<1>1. /\ ElePerCol(m) \in Nat \ {0} /\ ElePerRow(m) \in Nat \ {0}
      /\ Shape[m].startRow \in Int /\ Shape[m].endRow = Shape[m].startRow + ElePerCol(m)
      /\ Shape[m].startCol \in Int /\ Shape[m].endCol = Shape[m].startCol + ElePerRow(m)
      /\ Shape[m].matrix = m /\ NumServers \in Nat \ {0}
  BY MatrixAssumption DEF ElePerCol, ElePerRow
<1>2. PICK a, n : a = ElePerCol(m) /\ n = NumServers
  OBVIOUS
<1>3. a = n * (a \div n) + (a % n) /\ a \div n \in Nat /\ a % n \in 0 .. n - 1
  BY ONLY <1>1, <1>2
<1>. QED
  BY <1>1, <1>2, <1>3 DEF Quot, Rest

(* Multiplying keeps the order.                                              *)
LEMMA TimesOrder ==
  ASSUME NEW a \in Int, NEW b \in Int, NEW q \in Nat, a <= b
  PROVE  a * q <= b * q
  OBVIOUS

(* Later servers have at least as many rows before them.                     *)
LEMMA BeforeOrder ==
  ASSUME NEW m \in Matrix, NEW i \in 0 .. NumServers, NEW j \in 0 .. NumServers, i <= j
  PROVE  Before(m, i) \in Nat /\ Before(m, j) \in Nat /\ Before(m, i) <= Before(m, j)
<1>1. PICK q, r : q = Quot(m) /\ r = Rest(m) /\ q \in Nat /\ r \in Nat
  BY Sizes
<1>2. i \in Nat /\ j \in Nat
  BY Sizes
<1>3. i * q \in Nat /\ j * q \in Nat /\ i * q <= j * q
  BY ONLY <1>1, <1>2, i <= j, TimesOrder
<1>. QED
  BY ONLY <1>1, <1>2, <1>3, i <= j DEF Before

(* The parts lie one after the other and make up the matrix.                 *)
LEMMA Parts ==
  ASSUME NEW m \in Matrix
  PROVE  /\ Before(m, 0) = 0 /\ Before(m, NumServers) = ElePerCol(m)
         /\ \A i \in Server : RowNum(m, i) \in Nat /\ Before(m, i + 1) = Before(m, i) + RowNum(m, i)
<1>1. PICK q, r, n : q = Quot(m) /\ r = Rest(m) /\ n = NumServers
  OBVIOUS
<1>2. q \in Nat /\ r \in 0 .. n - 1 /\ n \in Nat \ {0} /\ ElePerCol(m) = n * q + r
  BY <1>1, Sizes
<1>3. Before(m, 0) = 0
  BY ONLY <1>1, <1>2 DEF Before
<1>4. Before(m, NumServers) = ElePerCol(m)
  BY ONLY <1>1, <1>2 DEF Before
<1>5. ASSUME NEW i \in Server
      PROVE  RowNum(m, i) \in Nat /\ Before(m, i + 1) = Before(m, i) + RowNum(m, i)
  <2>1. i \in Nat
    BY <1>1, <1>2 DEF Server
  <2>2. (i + 1) * q = i * q + q /\ i * q \in Nat
    BY ONLY <1>2, <2>1
  <2>3. RowNum(m, i) = q + (IF i < r THEN 1 ELSE 0)
    BY <1>1 DEF RowNum, Quot, Rest
  <2>. QED
    BY ONLY <1>1, <1>2, <2>1, <2>2, <2>3 DEF Before
<1>. QED
  BY <1>3, <1>4, <1>5

(* RowNum falls from server to server, so the first servers have the rows.   *)
LEMMA FirstServers ==
  ASSUME NEW m \in Matrix
  PROVE  /\ RealSize(m) \in 1 .. NumServers
         /\ \A i \in Server : RowNum(m, i) # 0 <=> i < RealSize(m)
<1>1. PICK q, r, n, R : q = Quot(m) /\ r = Rest(m) /\ n = NumServers /\ R = RealSize(m)
  OBVIOUS
<1>2. q \in Nat /\ r \in 0 .. n - 1 /\ n \in Nat \ {0} /\ ElePerCol(m) = n * q + r /\ ElePerCol(m) > 0
  BY <1>1, Sizes
<1>3. Server = 0 .. n - 1 /\ \A i \in Server : RowNum(m, i) = q + (IF i < r THEN 1 ELSE 0)
  BY <1>1 DEF RowNum, Quot, Rest, Server
<1>4. CASE q = 0
  <2>1. {i \in Server : RowNum(m, i) # 0} = 0 .. r - 1
    BY ONLY <1>2, <1>3, <1>4
  <2>2. r > 0
    BY ONLY <1>2, <1>4
  <2>3. Cardinality(0 .. r - 1) = r
    BY ONLY <1>2, <2>2, FS_Interval
  <2>4. RealSize(m) = r
    BY <2>1, <2>3 DEF RealSize
  <2>. QED
    BY ONLY <1>1, <1>2, <1>3, <1>4, <2>2, <2>4
<1>5. CASE q # 0
  <2>1. {i \in Server : RowNum(m, i) # 0} = 0 .. n - 1
    BY ONLY <1>2, <1>3, <1>5
  <2>2. Cardinality(0 .. n - 1) = n
    BY ONLY <1>2, FS_Interval
  <2>3. RealSize(m) = n
    BY <2>1, <2>2 DEF RealSize
  <2>. QED
    BY ONLY <1>1, <1>2, <1>3, <1>5, <2>3
<1>. QED
  BY <1>4, <1>5

(* The servers are numbered from 0.                                          *)
LEMMA ServerBelow ==
  ASSUME NEW i \in Server
  PROVE  /\ i \in Nat /\ i \in 0 .. NumServers /\ i + 1 \in 0 .. NumServers
         /\ i # 0 => i - 1 \in Server /\ i - 1 + 1 = i /\ i - 1 \in 0 .. NumServers
<1>1. NumServers \in Nat \ {0}
  BY MatrixAssumption
<1>. QED
  BY ONLY <1>1, i \in Server DEF Server

(* How StartPos goes from server to server.                                  *)
LEMMA StartRule ==
  ASSUME NEW m \in Matrix
  PROVE  \A i \in Server : StartPos(m)[i] = IF i = 0 THEN Shape[m].startRow
                                            ELSE StartPos(m)[i - 1] + RowNum(m, i - 1)
<1>1. PICK C : C = [i \in Server |-> Shape[m].startRow + Before(m, i)]
  OBVIOUS
<1>2. ASSUME NEW i \in Server
      PROVE  C[i] = IF i = 0 THEN Shape[m].startRow ELSE C[i - 1] + RowNum(m, i - 1)
  <2>1. CASE i = 0
    BY <1>1, <2>1, Parts, Sizes
  <2>2. CASE i # 0
    <3>1. i \in Nat /\ i - 1 \in Server /\ i - 1 + 1 = i /\ i - 1 \in 0 .. NumServers
      BY ONLY <1>2, <2>2, ServerBelow
    <3>2. Before(m, i) = Before(m, i - 1) + RowNum(m, i - 1) /\ RowNum(m, i - 1) \in Nat
      BY <3>1, Parts
    <3>3. Before(m, i - 1) \in Nat /\ Shape[m].startRow \in Int
      BY <3>1, BeforeOrder, Sizes
    <3>4. C[i] = Shape[m].startRow + Before(m, i) /\ C[i - 1] = Shape[m].startRow + Before(m, i - 1)
      BY <1>1, <3>1
    <3>. QED
      BY ONLY <2>2, <3>2, <3>3, <3>4
  <2>. QED
    BY <2>1, <2>2
<1>3. C = [i \in Server |-> IF i = 0 THEN Shape[m].startRow ELSE C[i - 1] + RowNum(m, i - 1)]
  <2>1. C = [i \in Server |-> C[i]]
    BY <1>1
  <2>. QED
    BY <1>2, <2>1
<1>4. StartPos(m) = [i \in Server |-> IF i = 0 THEN Shape[m].startRow
                                      ELSE StartPos(m)[i - 1] + RowNum(m, i - 1)]
  BY <1>3 DEF StartPos
<1>. QED
  BY <1>4

(* A part begins after the rows of the servers before.                       *)
LEMMA StartAt ==
  ASSUME NEW m \in Matrix
  PROVE  \A i \in Server : StartPos(m)[i] = Shape[m].startRow + Before(m, i)
<1>. DEFINE Bad == {i \in Server : StartPos(m)[i] # Shape[m].startRow + Before(m, i)}
<1>1. SUFFICES ASSUME Bad # {} PROVE FALSE
  OBVIOUS
<1>2. Bad \in SUBSET Nat
  BY Sizes DEF Server
<1>3. PICK i \in Bad : \A j \in Bad : i <= j
  BY ONLY <1>1, <1>2, Least
<1>4. i # 0
  BY <1>3, StartRule, Parts, Sizes
<1>5. i \in Nat /\ i - 1 \in Server /\ i - 1 + 1 = i /\ i - 1 \in 0 .. NumServers
  BY <1>3, <1>4, Sizes DEF Server
<1>6. StartPos(m)[i - 1] = Shape[m].startRow + Before(m, i - 1)
  BY <1>3, <1>5
<1>7. StartPos(m)[i] = StartPos(m)[i - 1] + RowNum(m, i - 1)
  BY <1>3, <1>4, StartRule
<1>8. Before(m, i) = Before(m, i - 1) + RowNum(m, i - 1) /\ RowNum(m, i - 1) \in Nat
  BY <1>5, Parts
<1>9. Before(m, i - 1) \in Nat /\ Shape[m].startRow \in Int
  BY <1>5, BeforeOrder, Sizes
<1>10. StartPos(m)[i] # Shape[m].startRow + Before(m, i)
  BY <1>3
<1>. QED
  BY ONLY <1>6, <1>7, <1>8, <1>9, <1>10

\* The rows of server i of the matrix m
PartRows(m, i) == (Shape[m].startRow + Before(m, i)) .. (Shape[m].startRow + Before(m, i) + RowNum(m, i) - 1)

(* Each row is in the part of one server, and that has a part.               *)
LEMMA RowHome ==
  ASSUME NEW m \in Matrix, NEW r \in Rows(m)
  PROVE  /\ \E i \in Server : r \in PartRows(m, i)
         /\ \A i, j \in Server : r \in PartRows(m, i) /\ r \in PartRows(m, j) => i = j
<1>1. PICK a, n : a = Shape[m].startRow /\ n = NumServers
  OBVIOUS
<1>2. a \in Int /\ n \in Nat \ {0} /\ Server = 0 .. n - 1 /\ r \in a .. a + ElePerCol(m) - 1 /\ ElePerCol(m) \in Nat
  BY <1>1, Sizes DEF Server, Rows
<1>3. \A i \in 0 .. n : Before(m, i) \in Nat
  BY <1>1, BeforeOrder
<1>4. PICK i \in {k \in 0 .. n : r < a + Before(m, k)} : \A j \in {k \in 0 .. n : r < a + Before(m, k)} : i <= j
  <2>1. {k \in 0 .. n : r < a + Before(m, k)} \in SUBSET Nat
    BY <1>2
  <2>2. n \in {k \in 0 .. n : r < a + Before(m, k)}
    BY <1>1, <1>2, Parts
  <2>. QED
    BY ONLY <2>1, <2>2, Least
<1>5. i # 0
  BY <1>1, <1>2, <1>4, Parts
<1>6. i - 1 \in Server /\ i - 1 \in 0 .. n /\ i - 1 + 1 = i /\ i \in Nat
  BY ONLY <1>2, <1>4, <1>5
<1>7. ~ r < a + Before(m, i - 1)
  BY ONLY <1>4, <1>6
<1>8. RowNum(m, i - 1) \in Nat /\ Before(m, i) = Before(m, i - 1) + RowNum(m, i - 1)
  BY <1>6, Parts
<1>9. r \in PartRows(m, i - 1)
  <2>1. PICK b, c, w : b = Before(m, i - 1) /\ c = Before(m, i) /\ w = RowNum(m, i - 1)
    OBVIOUS
  <2>2. b \in Nat /\ c = b + w /\ w \in Nat /\ r < a + c /\ ~ r < a + b
    BY ONLY <1>3, <1>4, <1>6, <1>7, <1>8, <2>1
  <2>3. r \in a + b .. a + b + w - 1
    BY ONLY <1>2, <2>2
  <2>. QED
    BY ONLY <1>1, <2>1, <2>3 DEF PartRows
<1>10. ASSUME NEW j \in Server, NEW k \in Server, r \in PartRows(m, j), r \in PartRows(m, k), j < k PROVE FALSE
  <2>1. j \in 0 .. n /\ k \in 0 .. n /\ j + 1 \in 0 .. n /\ j + 1 <= k
    BY ONLY <1>2, <1>10
  <2>2. Before(m, j + 1) <= Before(m, k) /\ Before(m, k) \in Nat /\ Before(m, j + 1) \in Nat
    BY <2>1, <1>1, BeforeOrder
  <2>3. Before(m, j + 1) = Before(m, j) + RowNum(m, j) /\ RowNum(m, j) \in Nat /\ Before(m, j) \in Nat /\ RowNum(m, k) \in Nat
    BY <1>3, <2>1, Parts
  <2>4. r <= a + Before(m, j) + RowNum(m, j) - 1 /\ a + Before(m, k) <= r
    BY ONLY <1>1, <1>2, <1>10, <2>2, <2>3 DEF PartRows
  <2>5. PICK b, c, d, w : b = Before(m, j) /\ c = Before(m, j + 1) /\ d = Before(m, k) /\ w = RowNum(m, j)
    OBVIOUS
  <2>6. b \in Nat /\ c \in Nat /\ d \in Nat /\ w \in Nat /\ c <= d /\ c = b + w /\ r <= a + b + w - 1 /\ a + d <= r
    BY ONLY <2>2, <2>3, <2>4, <2>5
  <2>. QED
    BY ONLY <1>2, <2>6
<1>11. \A j, k \in Server : r \in PartRows(m, j) /\ r \in PartRows(m, k) => j = k
  <2>1. \A j, k \in Server : j = k \/ j < k \/ k < j
    BY <1>2
  <2>. QED
    BY <1>10, <2>1
<1>. QED
  BY <1>6, <1>9, <1>11

\* The server of a row
Home(m, r) == CHOOSE i \in Server : r \in PartRows(m, i)

(* It is one of the first servers, and no other has the row.                 *)
LEMMA HomeIn ==
  ASSUME NEW m \in Matrix, NEW r \in Rows(m)
  PROVE  /\ Home(m, r) \in Server /\ r \in PartRows(m, Home(m, r)) /\ Home(m, r) < RealSize(m)
         /\ \A i \in Server : r \in PartRows(m, i) => i = Home(m, r)
<1>1. Home(m, r) \in Server /\ r \in PartRows(m, Home(m, r))
  BY RowHome DEF Home
<1>2. RowNum(m, Home(m, r)) # 0
  <2>1. PICK i : i = Home(m, r)
    OBVIOUS
  <2>2. Before(m, i) \in Nat /\ Shape[m].startRow \in Int
    BY <1>1, <2>1, BeforeOrder, Sizes DEF Server
  <2>. QED
    BY <1>1, <2>1, <2>2 DEF PartRows
<1>. QED
  BY <1>1, <1>2, RowHome, FirstServers

(* What the meta data of a part says.                                        *)
LEMMA PartAt ==
  ASSUME NEW m \in Matrix, NEW i \in Server
  PROVE  /\ PartMeta(m, i) \in [matrix : {m}, startRow : Int, endRow : Int, startCol : Int, endCol : Int]
         /\ PartMeta(m, i).startRow = Shape[m].startRow + Before(m, i)
         /\ PartMeta(m, i).endRow = Shape[m].startRow + Before(m, i) + RowNum(m, i)
         /\ PartMeta(m, i).startCol = Shape[m].startCol /\ PartMeta(m, i).endCol = Shape[m].endCol
         /\ Before(m, i) \in Nat /\ RowNum(m, i) \in Nat
<1>1. Before(m, i) \in Nat /\ RowNum(m, i) \in Nat
  BY Parts, BeforeOrder, Sizes DEF Server
<1>2. StartPos(m)[i] = Shape[m].startRow + Before(m, i)
  BY StartAt
<1>3. Shape[m] \in [matrix : {m}, startRow : Int, endRow : Int, startCol : Int, endCol : Int]
  BY MatrixAssumption
<1>4. PICK s, b, w : s = Shape[m] /\ b = Before(m, i) /\ w = RowNum(m, i)
  OBVIOUS
<1>5. PartMeta(m, i) = [s EXCEPT !.startRow = s.startRow + b, !.endRow = s.startRow + b + w]
  BY <1>2, <1>4 DEF PartMeta
<1>6. s.startRow + b \in Int /\ s.startRow + b + w \in Int /\ b \in Nat /\ w \in Nat /\ s.startRow \in Int
  BY ONLY <1>1, <1>3, <1>4
<1>7. PICK x, y : x = s.startRow + b /\ y = s.startRow + b + w
  OBVIOUS
<1>8. PICK p : p = [s EXCEPT !.startRow = x, !.endRow = y]
  OBVIOUS
<1>9. /\ p \in [matrix : {m}, startRow : Int, endRow : Int, startCol : Int, endCol : Int]
      /\ p.startRow = x /\ p.endRow = y /\ p.startCol = s.startCol /\ p.endCol = s.endCol
  BY ONLY <1>3, <1>4, <1>6, <1>7, <1>8
<1>10. PartMeta(m, i) = p
  BY ONLY <1>5, <1>7, <1>8
<1>. QED
  BY ONLY <1>1, <1>4, <1>7, <1>9, <1>10
\* Of the values of a matrix, those of the servers before i come first
LEMMA LensTotal ==
  ASSUME NEW m \in Matrix
  PROVE  \A i \in 1 .. RealSize(m) :
           Total(SubSeq(PartLens(m), 1, i - 1)) = Before(m, i - 1) * ElePerRow(m)
<1>1. PICK L, w, R : L = PartLens(m) /\ w = ElePerRow(m) /\ R = RealSize(m)
  OBVIOUS
<1>2. w \in Nat /\ R \in Nat /\ R \in 1 .. NumServers /\ NumServers \in Nat
  BY <1>1, Sizes, FirstServers
<1>3. \A k \in 0 .. R - 1 : k \in Server
  BY ONLY <1>2 DEF Server
<1>4. L = [i \in 1 .. R |-> RowNum(m, i - 1) * w]
  BY <1>1 DEF PartLens
<1>5. \A k \in 0 .. R - 1 : /\ Before(m, k) \in Nat /\ RowNum(m, k) \in Nat
                            /\ Before(m, k + 1) = Before(m, k) + RowNum(m, k)
  BY <1>3, Parts, PartAt
<1>6. \A i \in 1 .. R : L[i] = RowNum(m, i - 1) * w /\ L[i] \in Nat
  <2>1. ASSUME NEW i \in 1 .. R PROVE RowNum(m, i - 1) * w \in Nat
    <3>1. PICK a : a = RowNum(m, i - 1) /\ a \in Nat
      BY <1>2, <1>5, <2>1
    <3>. QED
      BY ONLY <3>1, <1>2
  <2>. QED
    BY <1>4, <2>1
<1>7. L \in Seq(Nat) /\ Len(L) = R
  BY ONLY <1>2, <1>4, <1>6
<1>. DEFINE Bad == {k \in 0 .. R : Sum(L, 1 .. k) # Before(m, k) * w}
<1>8. ASSUME Bad # {} PROVE FALSE
  <2>1. Bad \in SUBSET Nat
    BY <1>2
  <2>2. PICK k \in Bad : \A j \in Bad : k <= j
    BY ONLY <1>8, <2>1, Least
  <2>3. k # 0
    <3>0. 1 .. 0 = {}
      OBVIOUS
    <3>1. Sum(L, {}) = 0
      BY ONLY SumStep, FS_EmptySet
    <3>2. Before(m, 0) * w = 0
      BY <1>2, Parts
    <3>. QED
      BY <2>2, <3>0, <3>1, <3>2
  <2>4. k \in 1 .. R /\ k - 1 \in 0 .. R - 1 /\ k - 1 \in 0 .. R /\ k - 1 + 1 = k /\ k - 1 < k
    BY ONLY <2>2, <2>3, <1>2
  <2>5. Sum(L, 1 .. (k - 1)) = Before(m, k - 1) * w
    <3>1. k - 1 \notin Bad
      BY ONLY <2>2, <2>4, <1>2
    <3>. QED
      BY <2>4, <3>1
  <2>6. PICK I, J : I = 1 .. k /\ J = 1 .. (k - 1)
    OBVIOUS
  <2>7. k \in I /\ I \ {k} = J /\ \A x \in I : L[x] \in Int
    BY ONLY <2>4, <2>6, <1>2, <1>6
  <2>8. IsFiniteSet(I)
    BY ONLY <2>4, <2>6, <1>2, FS_Interval
  <2>9. Sum(L, I) = L[k] + Sum(L, J)
    BY ONLY <2>7, <2>8, SumTakes
  <2>10. PICK a, b, c : a = Before(m, k - 1) /\ b = RowNum(m, k - 1) /\ c = Before(m, k)
    OBVIOUS
  <2>11. a \in Nat /\ b \in Nat /\ c = a + b /\ L[k] = b * w
    BY ONLY <2>4, <2>10, <1>5, <1>6
  <2>12. c * w = b * w + a * w
    BY ONLY <2>11, <1>2
  <2>. QED
    BY <2>2, <2>5, <2>6, <2>9, <2>10, <2>11, <2>12
<1>9. ASSUME NEW i \in 1 .. R PROVE Total(SubSeq(L, 1, i - 1)) = Sum(L, 1 .. i - 1)
  <2>1. PICK M, k : M = SubSeq(L, 1, i - 1) /\ k = i - 1
    OBVIOUS
  <2>2. k \in 0 .. R - 1
    BY ONLY <1>2, <1>9, <2>1
  <2>3. DOMAIN M = 1 .. k /\ \A x \in 1 .. k : M[x] = L[x]
    BY ONLY <1>2, <1>7, <2>1, <2>2
  <2>4. \A x \in 1 .. k : L[x] \in Int
    BY ONLY <1>2, <1>6, <2>2
  <2>5. IsFiniteSet(1 .. k)
    BY ONLY <2>2, <1>2, FS_Interval
  <2>6. PICK I : I = 1 .. k
    OBVIOUS
  <2>7. Sum(M, I) = Sum(L, I)
    BY ONLY <2>3, <2>4, <2>5, <2>6, SumSame
  <2>8. Total(M) = Sum(M, DOMAIN M)
    BY SumWhole DEF Total
  <2>. QED
    BY ONLY <2>1, <2>3, <2>6, <2>7, <2>8
<1>10. ASSUME NEW i \in 1 .. R PROVE Sum(L, 1 .. i - 1) = Before(m, i - 1) * w
  <2>1. i - 1 \in 0 .. R
    BY ONLY <1>2, <1>10
  <2>. QED
    BY <1>8, <2>1
<1>. QED
  BY <1>1, <1>9, <1>10

----------------------------------------------------------------------------
(* The slicer.                                                               *)

Gap == MaxKey \div NumServers

(* Each server has a range of as many keys as there are matrices, or more.   *)
LEMMA GapNat == Gap \in Nat /\ NumServers \in Nat \ {0} /\ Gap >= Cardinality(Matrix)
                /\ Server = 0 .. NumServers - 1 /\ \A i : RangeBegin(i) = Gap * i /\ RangeEnd(i) = Gap * (i + 1)
<1>1. NumServers \in Nat \ {0} /\ MaxKey \in Nat /\ Gap >= Cardinality(Matrix)
  BY MatrixAssumption DEF Gap
<1>2. Gap \in Nat
  BY ONLY <1>1 DEF Gap
<1>. QED
  BY <1>1, <1>2 DEF Server, RangeBegin, RangeEnd, Gap

(* C says for each server how many keys come before its range.               *)
Cuts(keys, C) ==
  /\ C \in [0 .. NumServers -> 0 .. Len(keys)] /\ C[0] = 0
  /\ \A i \in 0 .. NumServers, j \in 1 .. Len(keys) : keys[j] < Gap * i <=> j <= C[i]

(* From one cut to the next the keys of one range are counted.               *)
LEMMA CutsStep ==
  ASSUME NEW keys \in Seq(Int), NEW C, Cuts(keys, C), NEW i \in 1 .. NumServers
  PROVE  /\ C[i - 1] <= C[i]
         /\ C[i - 1] + Cardinality({j \in (C[i - 1] + 1) .. Len(keys) : keys[j] < RangeEnd(i - 1)}) = C[i]
<1>1. PICK n, a, b, k, l : n = NumServers /\ a = C[i - 1] /\ b = C[i] /\ k = Gap * i /\ l = Gap * (i - 1)
  OBVIOUS
<1>2. n \in Nat /\ i \in Nat /\ i - 1 \in Nat /\ i \in 0 .. n /\ i - 1 \in 0 .. n /\ Gap \in Nat
  BY <1>1, GapNat
<1>3. k \in Int /\ l \in Int /\ l <= k
  <2>1. k = l + Gap
    BY ONLY <1>1, <1>2
  <2>. QED
    BY ONLY <1>1, <1>2, <2>1
<1>4. RangeEnd(i - 1) = k
  BY <1>1, <1>2 DEF RangeEnd, Gap
<1>5. a \in 0 .. Len(keys) /\ b \in 0 .. Len(keys) /\ Len(keys) \in Nat
  BY <1>1, <1>2 DEF Cuts
<1>6. \A j \in 1 .. Len(keys) : (keys[j] < l <=> j <= a) /\ (keys[j] < k <=> j <= b) /\ keys[j] \in Int
  <2>1. \A j \in 1 .. Len(keys) : keys[j] \in Int
    OBVIOUS
  <2>2. \A j \in 1 .. Len(keys) : keys[j] < Gap * i <=> j <= C[i]
    BY ONLY <1>1, <1>2, Cuts(keys, C) DEF Cuts
  <2>3. \A j \in 1 .. Len(keys) : keys[j] < Gap * (i - 1) <=> j <= C[i - 1]
    BY ONLY <1>1, <1>2, Cuts(keys, C) DEF Cuts
  <2>. QED
    BY ONLY <1>1, <2>1, <2>2, <2>3
<1>7. a <= b
  BY ONLY <1>3, <1>5, <1>6
<1>8. {j \in (a + 1) .. Len(keys) : keys[j] < k} = (a + 1) .. b
  BY ONLY <1>5, <1>6
<1>9. Cardinality((a + 1) .. b) = b - a
  <2>1. a + 1 \in Int /\ b \in Int
    BY ONLY <1>5
  <2>2. Cardinality((a + 1) .. b) = IF a + 1 > b THEN 0 ELSE b - (a + 1) + 1
    BY ONLY <2>1, FS_Interval
  <2>. QED
    BY ONLY <1>5, <1>7, <2>2
<1>10. {j \in (C[i - 1] + 1) .. Len(keys) : keys[j] < RangeEnd(i - 1)} = (a + 1) .. b
  BY ONLY <1>1, <1>4, <1>8
<1>11. PICK s : s = (a + 1) .. b
  OBVIOUS
<1>12. a + Cardinality(s) = b
  BY ONLY <1>5, <1>9, <1>11
<1>. QED
  BY ONLY <1>1, <1>7, <1>10, <1>11, <1>12

(* No key comes before the first range.                                      *)
LEMMA CutsFirst ==
  ASSUME NEW keys \in Seq(Int), NEW C, Cuts(keys, C)
  PROVE  0 + Cardinality({j \in (0 + 1) .. Len(keys) : keys[j] < RangeBegin(0)}) = C[0]
<1>1. RangeBegin(0) = Gap * 0 /\ Gap \in Nat /\ 0 \in 0 .. NumServers /\ C[0] = 0
  BY GapNat DEF Cuts
<1>2. \A j \in 1 .. Len(keys) : ~ keys[j] < Gap * 0
  BY <1>1 DEF Cuts
<1>3. {j \in (0 + 1) .. Len(keys) : keys[j] < RangeBegin(0)} = {}
  BY <1>1, <1>2
<1>4. Cardinality({j \in (0 + 1) .. Len(keys) : keys[j] < RangeBegin(0)}) = 0
  <2>1. Cardinality({}) = 0
    BY ONLY FS_EmptySet
  <2>. QED
    BY ONLY <1>3, <2>1
<1>. QED
  BY ONLY <1>1, <1>4

(* The slicer finds the cuts.                                                *)
LEMMA PositionsAre ==
  ASSUME NEW keys \in Seq(Int), NEW C, Cuts(keys, C)
  PROVE  \A i \in 0 .. NumServers : Positions(keys)[i] = C[i]
<1>. DEFINE Rule(pos) == pos = [i \in 0 .. NumServers |->
              IF i = 0 THEN 0 + Cardinality({j \in (0 + 1) .. Len(keys) : keys[j] < RangeBegin(0)})
              ELSE pos[i - 1] + Cardinality({j \in (pos[i - 1] + 1) .. Len(keys) : keys[j] < RangeEnd(i - 1)})]
<1>1. Rule(C)
  <2>1. \A i \in 0 .. NumServers : i # 0 => i \in 1 .. NumServers
    BY GapNat
  <2>2. C = [i \in 0 .. NumServers |-> C[i]]
    BY DEF Cuts
  <2>3. \A i \in 0 .. NumServers : C[i] = 
              IF i = 0 THEN 0 + Cardinality({j \in (0 + 1) .. Len(keys) : keys[j] < RangeBegin(0)})
              ELSE C[i - 1] + Cardinality({j \in (C[i - 1] + 1) .. Len(keys) : keys[j] < RangeEnd(i - 1)})
    BY <2>1, CutsStep, CutsFirst
  <2>. QED
    BY <2>2, <2>3
<1>2. Positions(keys) = CHOOSE pos : Rule(pos)
  BY DEF Positions
<1>3. Rule(Positions(keys))
  BY <1>1, <1>2
<1>4. PICK P : P = Positions(keys)
  OBVIOUS
<1>5. \A i \in 0 .. NumServers : P[i] = 
              IF i = 0 THEN 0 + Cardinality({j \in (0 + 1) .. Len(keys) : keys[j] < RangeBegin(0)})
              ELSE P[i - 1] + Cardinality({j \in (P[i - 1] + 1) .. Len(keys) : keys[j] < RangeEnd(i - 1)})
  BY <1>3, <1>4
<1>. HIDE DEF Rule
<1>. DEFINE Bad == {i \in 0 .. NumServers : P[i] # C[i]}
<1>6. ASSUME Bad # {} PROVE FALSE
  <2>1. PICK i \in Bad : \A j \in Bad : i <= j
    <3>1. Bad \in SUBSET Nat
      BY GapNat
    <3>. QED
      BY ONLY <1>6, <3>1, Least
  <2>2. 0 \in 0 .. NumServers
    BY GapNat
  <2>3. P[0] = C[0]
    BY <1>5, <2>2, CutsFirst
  <2>4. i \in 1 .. NumServers /\ i - 1 \in 0 .. NumServers /\ ~ i <= i - 1
    BY <2>1, <2>3, GapNat
  <2>5. P[i - 1] = C[i - 1]
    BY ONLY <2>1, <2>4
  <2>6. C[i - 1] + Cardinality({j \in (C[i - 1] + 1) .. Len(keys) : keys[j] < RangeEnd(i - 1)}) = C[i]
    BY <2>4, CutsStep
  <2>7. P[i] = P[i - 1] + Cardinality({j \in (P[i - 1] + 1) .. Len(keys) : keys[j] < RangeEnd(i - 1)})
    <3>1. i \in 0 .. NumServers /\ i # 0
      BY <2>1, <2>4
    <3>. QED
      BY ONLY <1>5, <3>1
  <2>. QED
    BY ONLY <2>1, <2>5, <2>6, <2>7
<1>. QED
  BY <1>4, <1>6
\* The keys of the parts of a matrix that has the number g at its client
MatrixKeys(m, g) == [i \in 1 .. RealSize(m) |-> RangeBegin(i - 1) + g]

(* Key g of a range lies before the ranges that begin later, and only those. *)
LEMMA RangeOrder ==
  ASSUME NEW t \in Nat, NEW i \in Nat, NEW g \in 0 .. Gap - 1
  PROVE  RangeBegin(t) + g \in Nat /\ (RangeBegin(t) + g < Gap * i <=> t < i)
<1>1. PICK d, a, b : d = Gap /\ a = d * t /\ b = d * i
  OBVIOUS
<1>2. d \in Nat /\ g \in 0 .. d - 1
  BY <1>1, GapNat
<1>3. a \in Nat /\ b \in Nat
  BY ONLY <1>1, <1>2, t \in Nat, i \in Nat
<1>4. RangeBegin(t) = a
  BY <1>1 DEF RangeBegin, Gap
<1>5. CASE t < i
  <2>1. a + d <= b
    <3>1. (t + 1) * d <= i * d
      BY ONLY <1>2, <1>5, t \in Nat, i \in Nat, TimesOrder
    <3>2. (t + 1) * d = a + d /\ i * d = b
      BY ONLY <1>1, <1>2, t \in Nat, i \in Nat
    <3>. QED
      BY ONLY <3>1, <3>2
  <2>. QED
    BY ONLY <1>1, <1>2, <1>3, <1>4, <1>5, <2>1
<1>6. CASE ~ t < i
  <2>1. b <= a
    <3>1. i * d <= t * d
      BY ONLY <1>2, <1>6, t \in Nat, i \in Nat, TimesOrder
    <3>2. t * d = a /\ i * d = b
      BY ONLY <1>1, <1>2, t \in Nat, i \in Nat
    <3>. QED
      BY ONLY <3>1, <3>2
  <2>. QED
    BY ONLY <1>1, <1>2, <1>3, <1>4, <1>6, <2>1
<1>. QED
  BY <1>5, <1>6

(* A request for all parts of a matrix has a slice for each of its servers.  *)
LEMMA PartSlices ==
  ASSUME NEW m \in Matrix, NEW g \in 0 .. Gap - 1, NEW qs
  PROVE  /\ MatrixKeys(m, g) \in Seq(Nat) /\ Len(MatrixKeys(m, g)) = RealSize(m)
         /\ \A i \in 0 .. NumServers : Positions(MatrixKeys(m, g))[i] = IF i < RealSize(m) THEN i ELSE RealSize(m)
         /\ DOMAIN DefaultSlicer(MatrixKeys(m, g), qs) = 0 .. RealSize(m) - 1
         /\ \A s \in 0 .. RealSize(m) - 1 : DefaultSlicer(MatrixKeys(m, g), qs)[s] = [q |-> qs[s + 1], front |-> MatrixKeys(m, g)[s + 1]]
<1>1. PICK k, R, n : k = MatrixKeys(m, g) /\ R = RealSize(m) /\ n = NumServers
  OBVIOUS
<1>2. R \in Nat /\ R \in 1 .. n /\ n \in Nat /\ Server = 0 .. n - 1
  BY <1>1, FirstServers, GapNat
<1>3. k = [i \in 1 .. R |-> RangeBegin(i - 1) + g]
  BY <1>1 DEF MatrixKeys
<1>4. \A i \in 1 .. R : k[i] \in Nat /\ \A j \in 0 .. n : k[i] < Gap * j <=> i <= j
  <2>1. ASSUME NEW i \in 1 .. R, NEW j \in 0 .. n PROVE k[i] \in Nat /\ (k[i] < Gap * j <=> i <= j)
    <3>1. i - 1 \in Nat /\ j \in Nat /\ (i - 1 < j <=> i <= j)
      BY ONLY <1>2, <2>1
    <3>2. k[i] = RangeBegin(i - 1) + g
      BY <1>3
    <3>3. RangeBegin(i - 1) + g \in Nat /\ (RangeBegin(i - 1) + g < Gap * j <=> i - 1 < j)
      BY ONLY <3>1, g \in 0 .. Gap - 1, RangeOrder
    <3>. QED
      BY ONLY <3>1, <3>2, <3>3
  <2>. QED
    BY <2>1, <1>2
<1>5. k \in Seq(Nat) /\ Len(k) = R /\ k \in Seq(Int)
  BY ONLY <1>2, <1>3, <1>4
<1>6. PICK C : C = [i \in 0 .. n |-> IF i < R THEN i ELSE R]
  OBVIOUS
<1>7. Cuts(k, C)
  <2>1. C \in [0 .. n -> 0 .. R] /\ C[0] = 0
    BY ONLY <1>2, <1>6
  <2>2. \A i \in 0 .. n, j \in 1 .. R : k[j] < Gap * i <=> j <= C[i]
    BY ONLY <1>2, <1>4, <1>6
  <2>. QED
    BY ONLY <1>1, <1>5, <2>1, <2>2 DEF Cuts
<1>8. PICK pos : pos = Positions(k)
  OBVIOUS
<1>9. \A i \in 0 .. n : pos[i] = IF i < R THEN i ELSE R
  <2>1. \A i \in 0 .. NumServers : Positions(k)[i] = C[i]
    BY ONLY <1>5, <1>7, PositionsAre
  <2>. QED
    BY ONLY <2>1, <1>1, <1>6, <1>8
<1>10. \A s \in Server : pos[s + 1] > pos[s] <=> s \in 0 .. R - 1
  BY ONLY <1>2, <1>9
<1>11. {s \in Server : pos[s + 1] > pos[s]} = 0 .. R - 1
  BY ONLY <1>2, <1>10
<1>12. \A s \in 0 .. R - 1 : pos[s] = s
  BY ONLY <1>2, <1>9
<1>13. DefaultSlicer(k, qs) = [s \in 0 .. R - 1 |-> [q |-> qs[pos[s] + 1], front |-> k[pos[s] + 1]]]
  BY <1>8, <1>11 DEF DefaultSlicer
<1>. QED
  BY ONLY <1>1, <1>5, <1>8, <1>9, <1>12, <1>13

(* A request with one key has one slice, for the server of its range.        *)
LEMMA KeySlice ==
  ASSUME NEW t \in Server, NEW g \in 0 .. Gap - 1, NEW qs
  PROVE  /\ DOMAIN DefaultSlicer(<<RangeBegin(t) + g>>, qs) = {t}
         /\ DefaultSlicer(<<RangeBegin(t) + g>>, qs)[t] = [q |-> qs[1], front |-> RangeBegin(t) + g]
<1>1. PICK y, k, n : y = RangeBegin(t) + g /\ k = <<y>> /\ n = NumServers
  OBVIOUS
<1>2. n \in Nat /\ Server = 0 .. n - 1 /\ t \in Nat
  BY <1>1, GapNat
<1>3. y \in Nat /\ \A j \in 0 .. n : y < Gap * j <=> t < j
  BY <1>1, <1>2, RangeOrder
<1>5. k \in Seq(Int) /\ Len(k) = 1 /\ k[1] = y
  BY ONLY <1>1, <1>3
<1>6. PICK C : C = [i \in 0 .. n |-> IF i <= t THEN 0 ELSE 1]
  OBVIOUS
<1>7. Cuts(k, C)
  <2>1. C \in [0 .. n -> 0 .. 1] /\ C[0] = 0
    BY ONLY <1>2, <1>6
  <2>2. \A i \in 0 .. n, j \in 1 .. 1 : k[j] < Gap * i <=> j <= C[i]
    BY ONLY <1>2, <1>3, <1>5, <1>6
  <2>. QED
    BY ONLY <1>1, <1>5, <2>1, <2>2 DEF Cuts
<1>8. PICK pos : pos = Positions(k)
  OBVIOUS
<1>9. \A i \in 0 .. n : pos[i] = IF i <= t THEN 0 ELSE 1
  <2>1. \A i \in 0 .. NumServers : Positions(k)[i] = C[i]
    BY ONLY <1>5, <1>7, PositionsAre
  <2>. QED
    BY ONLY <2>1, <1>1, <1>6, <1>8
<1>10. \A s \in Server : pos[s + 1] > pos[s] <=> s = t
  BY ONLY <1>2, <1>9
<1>11. {s \in Server : pos[s + 1] > pos[s]} = {t}
  BY ONLY <1>2, <1>10, t \in Server
<1>12. pos[t] = 0
  BY ONLY <1>2, <1>9, t \in Server
<1>13. DefaultSlicer(k, qs) = [s \in {t} |-> [q |-> qs[pos[s] + 1], front |-> k[pos[s] + 1]]]
  BY <1>8, <1>11 DEF DefaultSlicer
<1>14. DOMAIN DefaultSlicer(k, qs) = {t} /\ DefaultSlicer(k, qs)[t] = [q |-> qs[pos[t] + 1], front |-> k[pos[t] + 1]]
  BY ONLY <1>13
<1>15. pos[t] + 1 = 1
  BY ONLY <1>12
<1>. QED
  BY ONLY <1>1, <1>5, <1>14, <1>15

----------------------------------------------------------------------------
(* What a client knows.                                                      *)

Fields == {"globalId", "keys", "rowKeys", "toPS", "rowPS", "vals", "lens", "ended"}
NumberOf(cl, m) == cl.keys[m][1]

ClientOK(cl) ==
  /\ DOMAIN cl = Fields
  /\ DOMAIN cl.keys \subseteq Matrix /\ cl.globalId = Cardinality(DOMAIN cl.keys)
  /\ DOMAIN cl.rowKeys = DOMAIN cl.keys /\ DOMAIN cl.toPS = DOMAIN cl.keys /\ DOMAIN cl.rowPS = DOMAIN cl.keys
  /\ \A m \in DOMAIN cl.keys :
       /\ NumberOf(cl, m) \in 0 .. cl.globalId - 1 /\ cl.keys[m] = MatrixKeys(m, NumberOf(cl, m))
       /\ cl.rowKeys[m] = [r \in Rows(m) |-> RangeBegin(Home(m, r)) + NumberOf(cl, m)]
       /\ cl.rowPS[m] = [r \in Rows(m) |-> Home(m, r)]
       /\ cl.toPS[m] \in Seq(Server) /\ Len(cl.toPS[m]) >= RealSize(m)
       /\ \A i \in 1 .. RealSize(m) : cl.toPS[m][i] = i - 1
  /\ \A g \in 0 .. cl.globalId - 1 : \E m \in DOMAIN cl.keys : NumberOf(cl, m) = g

(* RowPartition names that server.                                           *)
LEMMA HomeChosen ==
  ASSUME NEW m \in Matrix, NEW r \in Rows(m)
  PROVE  (CHOOSE i \in Server : r \in StartPos(m)[i] .. (StartPos(m)[i] + RowNum(m, i) - 1)) = Home(m, r)
<1>1. \A i \in Server : StartPos(m)[i] .. (StartPos(m)[i] + RowNum(m, i) - 1) = PartRows(m, i)
  BY StartAt DEF PartRows
<1>2. \E i \in Server : r \in StartPos(m)[i] .. (StartPos(m)[i] + RowNum(m, i) - 1)
  <2>1. PICK i \in Server : r \in PartRows(m, i)
    BY HomeIn
  <2>. QED
    BY ONLY <1>1, <2>1
<1>3. PICK j : j = CHOOSE i \in Server : r \in StartPos(m)[i] .. (StartPos(m)[i] + RowNum(m, i) - 1)
  OBVIOUS
<1>4. j \in Server /\ r \in StartPos(m)[j] .. (StartPos(m)[j] + RowNum(m, j) - 1)
  BY ONLY <1>2, <1>3
<1>. QED
  BY <1>1, <1>3, <1>4, HomeIn

(* RowPartition fills MatrixToPS and MatrixToRowToPS for this matrix.        *)
LEMMA Partitioned ==
  ASSUME NEW cl, ClientOK(cl), NEW m \in Matrix, NEW p, p = RowPartition(cl, m)
  PROVE  /\ DOMAIN p = Fields /\ p.globalId = cl.globalId /\ p.keys = cl.keys /\ p.rowKeys = cl.rowKeys
         /\ p.vals = cl.vals /\ p.lens = cl.lens /\ p.ended = cl.ended
         /\ DOMAIN p.toPS = DOMAIN cl.keys \cup {m} /\ DOMAIN p.rowPS = DOMAIN cl.keys \cup {m}
         /\ \A n \in DOMAIN cl.keys \ {m} : p.toPS[n] = cl.toPS[n] /\ p.rowPS[n] = cl.rowPS[n]
         /\ p.rowPS[m] = [r \in Rows(m) |-> Home(m, r)]
         /\ p.toPS[m] \in Seq(Server) /\ Len(p.toPS[m]) >= RealSize(m)
         /\ \A i \in 1 .. RealSize(m) : p.toPS[m][i] = i - 1
         /\ m \notin DOMAIN cl.keys => Len(p.toPS[m]) = RealSize(m)
<1>1. PICK new, old, rows : /\ new = [i \in 1 .. RealSize(m) |-> i - 1]
                            /\ old = (IF m \in DOMAIN cl.toPS THEN cl.toPS[m] ELSE <<>>)
                            /\ rows = [r \in Rows(m) |-> CHOOSE i \in Server :
                                         r \in StartPos(m)[i] .. (StartPos(m)[i] + RowNum(m, i) - 1)]
  OBVIOUS
<1>2. rows = [r \in Rows(m) |-> Home(m, r)]
  BY <1>1, HomeChosen
<1>3. PICK R : R = RealSize(m) /\ R \in Nat /\ R \in 1 .. NumServers /\ Server = 0 .. NumServers - 1 /\ NumServers \in Nat
  BY FirstServers, GapNat
<1>4. new \in Seq(Server) /\ Len(new) = R /\ \A i \in 1 .. R : new[i] = i - 1
  <2>1. \A i \in 1 .. R : i - 1 \in Server
    BY ONLY <1>3
  <2>2. new = [i \in 1 .. R |-> i - 1]
    BY <1>1, <1>3
  <2>. QED
    BY ONLY <1>3, <2>1, <2>2
<1>5. /\ old \in Seq(Server)
      /\ m \in DOMAIN cl.keys => Len(old) >= R /\ \A i \in 1 .. R : old[i] = i - 1
      /\ m \notin DOMAIN cl.keys => old = <<>>
  <2>1. CASE m \in DOMAIN cl.keys
    <3>1. old = cl.toPS[m]
      BY <1>1, <2>1 DEF ClientOK
    <3>2. cl.toPS[m] \in Seq(Server) /\ Len(cl.toPS[m]) >= R /\ \A i \in 1 .. R : cl.toPS[m][i] = i - 1
      BY <1>3, <2>1 DEF ClientOK
    <3>. QED
      BY ONLY <2>1, <3>1, <3>2
  <2>2. CASE m \notin DOMAIN cl.keys
    <3>1. old = <<>>
      BY <1>1, <2>2 DEF ClientOK
    <3>. QED
      BY ONLY <2>2, <3>1
  <2>. QED
    BY <2>1, <2>2
<1>6. PICK both : both = old \o new
  OBVIOUS
<1>7. both \in Seq(Server) /\ Len(both) = Len(old) + R /\ Len(old) \in Nat
      /\ \A i \in 1 .. Len(both) : both[i] = IF i <= Len(old) THEN old[i] ELSE new[i - Len(old)]
  <2>1. old \in Seq(Server) /\ new \in Seq(Server)
    BY ONLY <1>4, <1>5
  <2>2. both \in Seq(Server) /\ Len(both) = Len(old) + Len(new) /\ Len(old) \in Nat
    BY ONLY <2>1, <1>6
  <2>3. \A i \in 1 .. Len(both) : both[i] = IF i <= Len(old) THEN old[i] ELSE new[i - Len(old)]
    BY ONLY <2>1, <2>2, <1>6
  <2>. QED
    BY ONLY <2>2, <2>3, <1>4
<1>8. Len(both) >= R /\ (\A i \in 1 .. R : both[i] = i - 1) /\ (m \notin DOMAIN cl.keys => Len(both) = R)
  <2>1. CASE m \in DOMAIN cl.keys
    <3>1. PICK n : n = Len(old)
      OBVIOUS
    <3>2. n >= R /\ n \in Nat /\ \A i \in 1 .. R : old[i] = i - 1
      BY ONLY <1>5, <1>7, <2>1, <3>1
    <3>3. Len(both) = n + R
      BY ONLY <1>7, <3>1
    <3>4. \A i \in 1 .. R : both[i] = old[i]
      BY ONLY <1>3, <1>7, <3>1, <3>2, <3>3
    <3>. QED
      BY ONLY <1>3, <2>1, <3>2, <3>3, <3>4
  <2>2. CASE m \notin DOMAIN cl.keys
    <3>1. Len(old) = 0
      BY ONLY <1>5, <2>2
    <3>. QED
      BY ONLY <1>3, <1>4, <1>7, <2>2, <3>1
  <2>. QED
    BY <2>1, <2>2
<1>9. p = [cl EXCEPT !.toPS = Put(@, m, both), !.rowPS = Put(@, m, rows)]
  BY <1>1, <1>6 DEF RowPartition
<1>10. /\ DOMAIN p = Fields /\ p.globalId = cl.globalId /\ p.keys = cl.keys /\ p.rowKeys = cl.rowKeys
       /\ p.vals = cl.vals /\ p.lens = cl.lens /\ p.ended = cl.ended
       /\ p.toPS = Put(cl.toPS, m, both) /\ p.rowPS = Put(cl.rowPS, m, rows)
  <2>1. DOMAIN cl = Fields
    BY DEF ClientOK
  <2>. QED
    BY ONLY <1>9, <2>1 DEF Fields
<1>11. DOMAIN cl.toPS = DOMAIN cl.keys /\ DOMAIN cl.rowPS = DOMAIN cl.keys
  BY DEF ClientOK
<1>12. /\ DOMAIN p.toPS = DOMAIN cl.keys \cup {m} /\ p.toPS[m] = both
       /\ \A n \in DOMAIN cl.keys \ {m} : p.toPS[n] = cl.toPS[n]
  BY ONLY <1>10, <1>11 DEF Put
<1>13. /\ DOMAIN p.rowPS = DOMAIN cl.keys \cup {m} /\ p.rowPS[m] = rows
       /\ \A n \in DOMAIN cl.keys \ {m} : p.rowPS[n] = cl.rowPS[n]
  BY ONLY <1>10, <1>11 DEF Put
<1>. QED
  BY ONLY <1>2, <1>3, <1>7, <1>8, <1>10, <1>12, <1>13

(* A client that pushes a matrix knows it from then on, by a number of its   *)
(* own, and knows the others as before.                                      *)
LEMMA ClientPushes ==
  ASSUME NEW cl, ClientOK(cl), NEW m \in Matrix, NEW d, d = FindKey(RowPartition(cl, m), m)
  PROVE  /\ ClientOK(d) /\ d.vals = cl.vals /\ d.lens = cl.lens /\ d.ended = cl.ended
         /\ DOMAIN d.keys = DOMAIN cl.keys \cup {m} /\ \A n \in DOMAIN cl.keys : d.keys[n] = cl.keys[n]
<1>1. PICK p : p = RowPartition(cl, m)
  OBVIOUS
<1>2. /\ DOMAIN p = Fields /\ p.globalId = cl.globalId /\ p.keys = cl.keys /\ p.rowKeys = cl.rowKeys
      /\ p.vals = cl.vals /\ p.lens = cl.lens /\ p.ended = cl.ended
      /\ DOMAIN p.toPS = DOMAIN cl.keys \cup {m} /\ DOMAIN p.rowPS = DOMAIN cl.keys \cup {m}
      /\ \A n \in DOMAIN cl.keys \ {m} : p.toPS[n] = cl.toPS[n] /\ p.rowPS[n] = cl.rowPS[n]
      /\ p.rowPS[m] = [r \in Rows(m) |-> Home(m, r)]
      /\ p.toPS[m] \in Seq(Server) /\ Len(p.toPS[m]) >= RealSize(m)
      /\ \A i \in 1 .. RealSize(m) : p.toPS[m][i] = i - 1
      /\ m \notin DOMAIN cl.keys => Len(p.toPS[m]) = RealSize(m)
  BY ONLY <1>1, ClientOK(cl), m \in Matrix, Partitioned
<1>3. CASE m \in DOMAIN cl.keys
  <2>1. d = p
    BY <1>1, <1>2, <1>3 DEF FindKey
  <2>2. ClientOK(p)
    BY <1>2, <1>3 DEF ClientOK, NumberOf
  <2>. QED
    BY ONLY <1>2, <1>3, <2>1, <2>2
<1>4. CASE m \notin DOMAIN cl.keys
  <2>1. PICK g, ks, rs : /\ g = cl.globalId
                         /\ ks = [i \in DOMAIN p.toPS[m] |-> RangeBegin(p.toPS[m][i]) + p.globalId]
                         /\ rs = [r \in DOMAIN p.rowPS[m] |-> RangeBegin(p.rowPS[m][r]) + p.globalId]
    OBVIOUS
  <2>2. d = [p EXCEPT !.keys = Put(@, m, ks), !.rowKeys = Put(@, m, rs), !.globalId = @ + 1]
    BY <1>1, <1>2, <1>4, <2>1 DEF FindKey
  <2>3. /\ DOMAIN d = Fields /\ d.globalId = g + 1 /\ d.keys = Put(cl.keys, m, ks) /\ d.rowKeys = Put(cl.rowKeys, m, rs)
        /\ d.vals = cl.vals /\ d.lens = cl.lens /\ d.ended = cl.ended /\ d.toPS = p.toPS /\ d.rowPS = p.rowPS
    BY ONLY <1>2, <2>1, <2>2 DEF Fields
  <2>4. IsFiniteSet(DOMAIN cl.keys) /\ g = Cardinality(DOMAIN cl.keys) /\ g \in Nat
    <3>1. IsFiniteSet(DOMAIN cl.keys)
      BY MatrixAssumption, FS_Subset DEF ClientOK
    <3>. QED
      BY <3>1, <2>1, FS_CardinalityType DEF ClientOK
  <2>5. DOMAIN cl.rowKeys = DOMAIN cl.keys
    BY DEF ClientOK
  <2>6. /\ DOMAIN d.keys = DOMAIN cl.keys \cup {m} /\ d.keys[m] = ks
        /\ \A n \in DOMAIN cl.keys : d.keys[n] = cl.keys[n]
    BY ONLY <1>4, <2>3 DEF Put
  <2>7. /\ DOMAIN d.rowKeys = DOMAIN cl.keys \cup {m} /\ d.rowKeys[m] = rs
        /\ \A n \in DOMAIN cl.keys : d.rowKeys[n] = cl.rowKeys[n]
    BY ONLY <1>4, <2>3, <2>5 DEF Put
  <2>8. Cardinality(DOMAIN d.keys) = d.globalId
    <3>1. PICK S : S = DOMAIN cl.keys
      OBVIOUS
    <3>2. Cardinality(S \cup {m}) = IF m \in S THEN Cardinality(S) ELSE Cardinality(S) + 1
      BY ONLY <2>4, <3>1, FS_AddElement
    <3>. QED
      BY ONLY <1>4, <2>3, <2>4, <2>6, <3>1, <3>2
  <2>9. ks = MatrixKeys(m, g) /\ rs = [r \in Rows(m) |-> RangeBegin(Home(m, r)) + g]
    <3>1. DOMAIN p.toPS[m] = 1 .. RealSize(m)
      BY ONLY <1>2, <1>4
    <3>2. ks = MatrixKeys(m, g)
      BY ONLY <1>2, <2>1, <3>1 DEF MatrixKeys
    <3>. QED
      BY ONLY <1>2, <2>1, <3>2
  <2>10. ks[1] = g
    <3>1. 1 \in 1 .. RealSize(m)
      BY FirstServers, GapNat
    <3>2. RangeBegin(0) = 0
      BY GapNat
    <3>. QED
      BY ONLY <2>4, <2>9, <3>1, <3>2 DEF MatrixKeys
  <2>11. \A n \in DOMAIN cl.keys : NumberOf(d, n) = NumberOf(cl, n)
    BY ONLY <2>6 DEF NumberOf
  <2>12. NumberOf(d, m) = g
    BY ONLY <2>6, <2>10 DEF NumberOf
  <2>13. ASSUME NEW n \in DOMAIN d.keys
         PROVE  /\ NumberOf(d, n) \in 0 .. d.globalId - 1 /\ d.keys[n] = MatrixKeys(n, NumberOf(d, n))
                /\ d.rowKeys[n] = [r \in Rows(n) |-> RangeBegin(Home(n, r)) + NumberOf(d, n)]
                /\ d.rowPS[n] = [r \in Rows(n) |-> Home(n, r)]
                /\ d.toPS[n] \in Seq(Server) /\ Len(d.toPS[n]) >= RealSize(n)
                /\ \A i \in 1 .. RealSize(n) : d.toPS[n][i] = i - 1
    <3>1. CASE n = m
      BY ONLY <1>2, <2>3, <2>4, <2>6, <2>7, <2>9, <2>12, <3>1
    <3>2. CASE n # m
      <4>1. n \in DOMAIN cl.keys \ {m} /\ n \in DOMAIN cl.keys
        BY ONLY <2>6, <2>13, <3>2
      <4>2. /\ NumberOf(cl, n) \in 0 .. cl.globalId - 1 /\ cl.keys[n] = MatrixKeys(n, NumberOf(cl, n))
            /\ cl.rowKeys[n] = [r \in Rows(n) |-> RangeBegin(Home(n, r)) + NumberOf(cl, n)]
            /\ cl.rowPS[n] = [r \in Rows(n) |-> Home(n, r)]
            /\ cl.toPS[n] \in Seq(Server) /\ Len(cl.toPS[n]) >= RealSize(n)
            /\ \A i \in 1 .. RealSize(n) : cl.toPS[n][i] = i - 1
        BY <4>1 DEF ClientOK
      <4>3. NumberOf(d, n) \in 0 .. d.globalId - 1
        BY ONLY <2>1, <2>3, <2>4, <2>11, <4>1, <4>2
      <4>. QED
        BY ONLY <1>2, <2>3, <2>6, <2>7, <2>11, <4>1, <4>2, <4>3
    <3>. QED
      BY <3>1, <3>2
  <2>14. ASSUME NEW i \in 0 .. d.globalId - 1 PROVE \E n \in DOMAIN d.keys : NumberOf(d, n) = i
    <3>1. CASE i = g
      BY ONLY <2>6, <2>12, <3>1
    <3>2. CASE i # g
      <4>1. i \in 0 .. cl.globalId - 1
        BY ONLY <2>1, <2>3, <2>4, <2>14, <3>2
      <4>2. PICK n \in DOMAIN cl.keys : NumberOf(cl, n) = i
        BY <4>1 DEF ClientOK
      <4>. QED
        BY ONLY <2>6, <2>11, <4>2
    <3>. QED
      BY <3>1, <3>2
  <2>15. DOMAIN d.keys \subseteq Matrix
    BY <2>6 DEF ClientOK
  <2>16. ClientOK(d)
    BY ONLY <1>2, <2>3, <2>6, <2>7, <2>8, <2>13, <2>14, <2>15 DEF ClientOK
  <2>. QED
    BY ONLY <2>3, <2>6, <2>16
<1>. QED
  BY <1>3, <1>4

----------------------------------------------------------------------------
(* What a client sends.                                                      *)

\* What server s gets of the values of a PushAll
PartVals(x, s) ==
  LET m == x.matrix
      w == ElePerRow(m)
  IN  SubSeq(x.vals, Before(m, s) * w + 1, Before(m, s) * w + RowNum(m, s) * w)

PartKey(cl, m, s) == cl.keys[m][s + 1]

SliceOK(cl, x, s, sl) ==
  LET m == x.matrix
      key == PartKey(cl, m, s)
  IN  /\ x.op \in {"PushAll", "PullAll", "ColDot"} => s \in 0 .. RealSize(m) - 1 /\ m \in DOMAIN cl.keys
      /\ x.op \in {"GetRow", "RowSum"} => s = Home(m, x.row) /\ m \in DOMAIN cl.keys
      /\ x.op = "PushAll" => sl.q = [op |-> "PushAll", key |-> key, meta |-> PartMeta(m, s), vals |-> PartVals(x, s)]
      /\ x.op = "PushRow" => /\ sl.q.op = "PushRow" /\ sl.q.row = x.row /\ sl.q.vals = x.vals
                             /\ m \in DOMAIN cl.keys => s = Home(m, x.row) /\ sl.q.key = key
      /\ x.op = "PullAll" => sl.q = [op |-> "PullAll", matrix |-> m, key |-> key]
      /\ x.op \in {"GetRow", "RowSum"} => sl.q = [op |-> x.op, matrix |-> m, row |-> x.row, key |-> key]
      /\ x.op = "ColDot" =>
           /\ x.matrix2 \in DOMAIN cl.keys
           /\ sl.q = [op |-> "ColDot", matrix |-> m, matrix2 |-> x.matrix2, col |-> x.col, col2 |-> x.col2,
                      key |-> key, key2 |-> PartKey(cl, x.matrix2, s)]

SlicesOK(cl, x, todo) ==
  DOMAIN todo \subseteq Server /\ \A s \in DOMAIN todo : SliceOK(cl, x, s, todo[s])

(* The keys of a matrix are its number in the range of each server.          *)
LEMMA Numbers ==
  ASSUME NEW cl, ClientOK(cl), NEW m \in DOMAIN cl.keys
  PROVE  /\ m \in Matrix /\ NumberOf(cl, m) \in 0 .. Gap - 1 /\ cl.keys[m] = MatrixKeys(m, NumberOf(cl, m))
         /\ \A s \in 0 .. RealSize(m) - 1 : /\ s \in Server /\ PartKey(cl, m, s) = RangeBegin(s) + NumberOf(cl, m)
                                            /\ PartKey(cl, m, s) \in Nat
<1>1. IsFiniteSet(Matrix) /\ DOMAIN cl.keys \subseteq Matrix
  BY MatrixAssumption DEF ClientOK
<1>2. Cardinality(DOMAIN cl.keys) <= Cardinality(Matrix) /\ Cardinality(Matrix) \in Nat /\ Cardinality(DOMAIN cl.keys) \in Nat
  BY <1>1, FS_Subset, FS_CardinalityType
<1>3. PICK g, a, b, d : g = NumberOf(cl, m) /\ a = Cardinality(DOMAIN cl.keys) /\ b = Cardinality(Matrix) /\ d = Gap
  OBVIOUS
<1>4. g \in 0 .. a - 1 /\ cl.keys[m] = MatrixKeys(m, g)
  BY <1>3 DEF ClientOK
<1>5. d \in Nat /\ d >= b
  BY <1>3, GapNat
<1>6. g \in 0 .. d - 1
  BY ONLY <1>2, <1>3, <1>4, <1>5
<1>7. m \in Matrix
  BY <1>1
<1>8. ASSUME NEW s \in 0 .. RealSize(m) - 1
      PROVE  s \in Server /\ PartKey(cl, m, s) = RangeBegin(s) + g /\ RangeBegin(s) + g \in Nat
  <2>1. RealSize(m) \in 1 .. NumServers /\ NumServers \in Nat
    BY <1>7, FirstServers, GapNat
  <2>2. s \in Server /\ s \in Nat /\ s + 1 \in 1 .. RealSize(m) /\ s + 1 - 1 = s
    BY ONLY <1>8, <2>1 DEF Server
  <2>3. PartKey(cl, m, s) = RangeBegin(s) + g
    BY ONLY <1>4, <2>2 DEF PartKey, MatrixKeys
  <2>. QED
    BY ONLY <1>3, <1>6, <2>2, <2>3, RangeOrder
<1>. QED
  BY ONLY <1>3, <1>4, <1>6, <1>7, <1>8

(* The key of a row is that of the part with the row.                        *)
LEMMA RowKeyAt ==
  ASSUME NEW cl, ClientOK(cl), NEW m \in DOMAIN cl.keys, NEW r \in Rows(m)
  PROVE  /\ Home(m, r) \in 0 .. RealSize(m) - 1 /\ cl.rowPS[m][r] = Home(m, r)
         /\ FindRowKey(cl, m, r) = PartKey(cl, m, Home(m, r)) /\ cl.rowKeys[m][r] = PartKey(cl, m, Home(m, r))
<1>1. m \in Matrix
  BY Numbers
<1>2. Home(m, r) \in 0 .. RealSize(m) - 1
  <2>1. PICK h : h = Home(m, r)
    OBVIOUS
  <2>2. h \in Server /\ h < RealSize(m) /\ RealSize(m) \in 1 .. NumServers
    BY <1>1, <2>1, HomeIn, FirstServers
  <2>3. h \in Nat
    BY <2>2, GapNat
  <2>. QED
    BY ONLY <2>1, <2>2, <2>3
<1>3. PartKey(cl, m, Home(m, r)) = RangeBegin(Home(m, r)) + NumberOf(cl, m)
  BY <1>2, Numbers
<1>4. cl.rowPS[m][r] = Home(m, r) /\ cl.rowKeys[m][r] = RangeBegin(Home(m, r)) + NumberOf(cl, m) /\ m \in DOMAIN cl.rowKeys
  <2>1. /\ cl.rowPS[m] = [q \in Rows(m) |-> Home(m, q)] /\ DOMAIN cl.rowKeys = DOMAIN cl.keys
        /\ cl.rowKeys[m] = [q \in Rows(m) |-> RangeBegin(Home(m, q)) + NumberOf(cl, m)]
    BY ONLY ClientOK(cl), m \in DOMAIN cl.keys DEF ClientOK
  <2>. QED
    BY ONLY <2>1, m \in DOMAIN cl.keys, r \in Rows(m)
<1>. QED
  BY ONLY <1>2, <1>3, <1>4 DEF FindRowKey

(* The slices of each call go to the right servers, with the right keys.     *)
(* PushAll.                                                                  *)
LEMMA PushAllSliced ==
  ASSUME NEW cl, ClientOK(cl), NEW x \in Calls, x.op = "PushAll", x.matrix \in DOMAIN cl.keys
  PROVE  /\ SlicesOK(cl, x, PushAllSlices(cl, x))
         /\ DOMAIN PushAllSlices(cl, x) = 0 .. RealSize(x.matrix) - 1
<1>1. PICK m, R, g, L : m = x.matrix /\ R = RealSize(m) /\ g = NumberOf(cl, m) /\ L = PartLens(m)
  OBVIOUS
<1>2. m \in Matrix /\ m \in DOMAIN cl.keys /\ g \in 0 .. Gap - 1 /\ cl.keys[m] = MatrixKeys(m, g)
  BY <1>1, Numbers
<1>3. PICK qs : qs = [i \in DOMAIN L |->
           [op |-> "PushAll", key |-> cl.keys[m][i], meta |-> PartMeta(m, i - 1),
            vals |-> SubSeq(x.vals, Total(SubSeq(L, 1, i - 1)) + 1, Total(SubSeq(L, 1, i - 1)) + L[i])]]
  OBVIOUS
<1>4. PushAllSlices(cl, x) = DefaultSlicer(MatrixKeys(m, g), qs)
  BY <1>1, <1>2, <1>3 DEF PushAllSlices
<1>5. R \in 1 .. NumServers /\ NumServers \in Nat
  BY <1>1, <1>2, FirstServers, GapNat
<1>6. /\ DOMAIN PushAllSlices(cl, x) = 0 .. R - 1
      /\ \A s \in 0 .. R - 1 : PushAllSlices(cl, x)[s] = [q |-> qs[s + 1], front |-> MatrixKeys(m, g)[s + 1]]
  BY ONLY <1>1, <1>2, <1>4, PartSlices
<1>7. ASSUME NEW s \in 0 .. R - 1
      PROVE  /\ s \in Server
             /\ qs[s + 1] = [op |-> "PushAll", key |-> PartKey(cl, m, s), meta |-> PartMeta(m, s), vals |-> PartVals(x, s)]
  <2>1. PICK i : i = s + 1
    OBVIOUS
  <2>2. i \in 1 .. R /\ i - 1 = s /\ s \in Server
    BY ONLY <1>5, <1>7, <2>1 DEF Server
  <2>3. DOMAIN L = 1 .. R /\ L[i] = RowNum(m, s) * ElePerRow(m)
    BY <1>1, <2>2 DEF PartLens
  <2>4. Total(SubSeq(L, 1, i - 1)) = Before(m, s) * ElePerRow(m)
    BY <1>1, <1>2, <2>2, LensTotal
  <2>5. qs[i] = [op |-> "PushAll", key |-> cl.keys[m][i], meta |-> PartMeta(m, i - 1),
                 vals |-> SubSeq(x.vals, Total(SubSeq(L, 1, i - 1)) + 1, Total(SubSeq(L, 1, i - 1)) + L[i])]
    BY ONLY <1>3, <2>2, <2>3
  <2>. QED
    BY ONLY <1>1, <2>1, <2>2, <2>3, <2>4, <2>5 DEF PartVals, PartKey
<1>8. ASSUME NEW s \in 0 .. R - 1 PROVE SliceOK(cl, x, s, PushAllSlices(cl, x)[s])
  BY <1>1, <1>2, <1>6, <1>7 DEF SliceOK
<1>. QED
  BY ONLY <1>1, <1>6, <1>7, <1>8 DEF SlicesOK

(* PullAll: the entries beyond the keys are left out.                        *)
LEMMA PullAllSliced ==
  ASSUME NEW cl, ClientOK(cl), NEW x \in Calls, x.op = "PullAll", x.matrix \in DOMAIN cl.keys
  PROVE  SlicesOK(cl, x, PullAllSlices(cl, x))
<1>1. PICK m, R, g : m = x.matrix /\ R = RealSize(m) /\ g = NumberOf(cl, m)
  OBVIOUS
<1>2. m \in Matrix /\ m \in DOMAIN cl.keys /\ g \in 0 .. Gap - 1 /\ cl.keys[m] = MatrixKeys(m, g)
  BY <1>1, Numbers
<1>3. PICK qs : qs = [i \in DOMAIN cl.toPS[m] |-> [op |-> "PullAll", matrix |-> m,
                       key |-> IF i \in DOMAIN cl.keys[m] THEN cl.keys[m][i] ELSE None]]
  OBVIOUS
<1>4. PullAllSlices(cl, x) = DefaultSlicer(MatrixKeys(m, g), qs)
  BY <1>1, <1>2, <1>3 DEF PullAllSlices
<1>5. R \in 1 .. NumServers /\ NumServers \in Nat
  BY <1>1, <1>2, FirstServers, GapNat
<1>6. /\ DOMAIN PullAllSlices(cl, x) = 0 .. R - 1
      /\ \A s \in 0 .. R - 1 : PullAllSlices(cl, x)[s] = [q |-> qs[s + 1], front |-> MatrixKeys(m, g)[s + 1]]
  BY ONLY <1>1, <1>2, <1>4, PartSlices
<1>7. cl.toPS[m] \in Seq(Server) /\ Len(cl.toPS[m]) >= R
  BY <1>1, <1>2 DEF ClientOK
<1>8. ASSUME NEW s \in 0 .. R - 1
      PROVE  s \in Server /\ qs[s + 1] = [op |-> "PullAll", matrix |-> m, key |-> PartKey(cl, m, s)]
  <2>1. s + 1 \in 1 .. R /\ s \in Server
    BY ONLY <1>5, <1>8 DEF Server
  <2>2. s + 1 \in DOMAIN cl.toPS[m]
    BY ONLY <1>5, <1>7, <2>1
  <2>3. s + 1 \in DOMAIN cl.keys[m]
    BY ONLY <1>1, <1>2, <2>1 DEF MatrixKeys
  <2>. QED
    BY ONLY <1>3, <2>1, <2>2, <2>3 DEF PartKey
<1>9. ASSUME NEW s \in 0 .. R - 1 PROVE SliceOK(cl, x, s, PullAllSlices(cl, x)[s])
  BY <1>1, <1>2, <1>6, <1>8 DEF SliceOK
<1>. QED
  BY ONLY <1>6, <1>8, <1>9 DEF SlicesOK

(* ColDot.                                                                   *)
LEMMA ColDotSliced ==
  ASSUME NEW cl, ClientOK(cl), NEW x \in Calls, x.op = "ColDot", x.matrix \in DOMAIN cl.keys, x.matrix2 \in DOMAIN cl.keys
  PROVE  SlicesOK(cl, x, ColDotSlices(cl, x))
<1>1. PICK m, R, g : m = x.matrix /\ R = RealSize(m) /\ g = NumberOf(cl, m)
  OBVIOUS
<1>2. m \in Matrix /\ m \in DOMAIN cl.keys /\ g \in 0 .. Gap - 1 /\ cl.keys[m] = MatrixKeys(m, g)
  BY <1>1, Numbers
<1>3. PICK qs : qs = [i \in DOMAIN cl.keys[m] |->
                 [op |-> "ColDot", matrix |-> m, matrix2 |-> x.matrix2, col |-> x.col, col2 |-> x.col2,
                  key |-> cl.keys[m][i], key2 |-> cl.keys[x.matrix2][i]]]
  OBVIOUS
<1>4. ColDotSlices(cl, x) = DefaultSlicer(MatrixKeys(m, g), qs)
  BY <1>1, <1>2, <1>3 DEF ColDotSlices
<1>5. R \in 1 .. NumServers /\ NumServers \in Nat
  BY <1>1, <1>2, FirstServers, GapNat
<1>6. /\ DOMAIN ColDotSlices(cl, x) = 0 .. R - 1
      /\ \A s \in 0 .. R - 1 : ColDotSlices(cl, x)[s] = [q |-> qs[s + 1], front |-> MatrixKeys(m, g)[s + 1]]
  BY ONLY <1>1, <1>2, <1>4, PartSlices
<1>7. ASSUME NEW s \in 0 .. R - 1
      PROVE  /\ s \in Server
             /\ qs[s + 1] = [op |-> "ColDot", matrix |-> m, matrix2 |-> x.matrix2, col |-> x.col, col2 |-> x.col2,
                             key |-> PartKey(cl, m, s), key2 |-> PartKey(cl, x.matrix2, s)]
  <2>1. s + 1 \in 1 .. R /\ s \in Server
    BY ONLY <1>5, <1>7 DEF Server
  <2>2. s + 1 \in DOMAIN cl.keys[m]
    BY ONLY <1>1, <1>2, <2>1 DEF MatrixKeys
  <2>. QED
    BY ONLY <1>3, <2>1, <2>2 DEF PartKey
<1>8. ASSUME NEW s \in 0 .. R - 1 PROVE SliceOK(cl, x, s, ColDotSlices(cl, x)[s])
  BY <1>1, <1>2, <1>6, <1>7 DEF SliceOK
<1>. QED
  BY ONLY <1>6, <1>7, <1>8 DEF SlicesOK

(* GetRow and RowSum.                                                        *)
LEMMA RowSliced ==
  ASSUME NEW cl, ClientOK(cl), NEW x \in Calls, x.op \in {"GetRow", "RowSum"}, x.matrix \in DOMAIN cl.keys
  PROVE  SlicesOK(cl, x, RowSlices(cl, x))
<1>1. PICK m, r, t, g : m = x.matrix /\ r = x.row /\ t = Home(m, r) /\ g = 0
  OBVIOUS
<1>2. m \in Matrix /\ m \in DOMAIN cl.keys /\ r \in Rows(m)
  BY <1>1, Numbers, MatrixAssumption
<1>3. t \in Server /\ cl.rowPS[m][r] = t /\ FindRowKey(cl, m, r) = PartKey(cl, m, t)
  BY <1>1, <1>2, RowKeyAt, HomeIn
<1>4. g \in 0 .. Gap - 1
  BY <1>1, <1>2, Numbers, GapNat
<1>5. RangeBegin(t) + g = RangeBegin(t)
  BY <1>1, <1>3, GapNat
<1>6. PICK qs : qs = <<[op |-> x.op, matrix |-> m, row |-> r, key |-> PartKey(cl, m, t)]>>
  OBVIOUS
<1>7. RowSlices(cl, x) = DefaultSlicer(<<RangeBegin(t) + g>>, qs)
  BY <1>1, <1>3, <1>5, <1>6 DEF RowSlices
<1>8. DOMAIN RowSlices(cl, x) = {t} /\ RowSlices(cl, x)[t] = [q |-> qs[1], front |-> RangeBegin(t) + g]
  <2>1. /\ DOMAIN DefaultSlicer(<<RangeBegin(t) + g>>, qs) = {t}
        /\ DefaultSlicer(<<RangeBegin(t) + g>>, qs)[t] = [q |-> qs[1], front |-> RangeBegin(t) + g]
    BY ONLY <1>3, <1>4, KeySlice
  <2>. QED
    BY ONLY <1>7, <2>1
<1>9. SliceOK(cl, x, t, RowSlices(cl, x)[t])
  BY <1>1, <1>2, <1>6, <1>8 DEF SliceOK
<1>. QED
  BY ONLY <1>3, <1>8, <1>9 DEF SlicesOK

(* PushRow: a row that is not known goes to the server of key 0.             *)
LEMMA PushRowSliced ==
  ASSUME NEW cl, ClientOK(cl), NEW x \in Calls, x.op = "PushRow"
  PROVE  SlicesOK(cl, x, PushRowSlices(cl, x))
<1>1. PICK m, r, k, qs : m = x.matrix /\ r = x.row /\ k = FindRowKey(cl, m, r)
                         /\ qs = <<[op |-> "PushRow", key |-> k, row |-> r, vals |-> x.vals]>>
  OBVIOUS
<1>2. m \in Matrix /\ r \in Rows(m)
  BY <1>1, MatrixAssumption
<1>3. PushRowSlices(cl, x) = DefaultSlicer(<<k>>, qs)
  BY <1>1 DEF PushRowSlices
<1>4. CASE m \in DOMAIN cl.keys
  <2>1. PICK t, g : t = Home(m, r) /\ g = NumberOf(cl, m)
    OBVIOUS
  <2>2. t \in Server /\ k = PartKey(cl, m, t) /\ t \in 0 .. RealSize(m) - 1
    BY <1>1, <1>2, <1>4, <2>1, RowKeyAt, HomeIn
  <2>3. k = RangeBegin(t) + g /\ g \in 0 .. Gap - 1
    BY <1>4, <2>1, <2>2, Numbers
  <2>4. DOMAIN PushRowSlices(cl, x) = {t} /\ PushRowSlices(cl, x)[t] = [q |-> qs[1], front |-> k]
    BY ONLY <1>3, <2>2, <2>3, KeySlice
  <2>5. SliceOK(cl, x, t, PushRowSlices(cl, x)[t])
    <3>1. PICK sl : sl = PushRowSlices(cl, x)[t]
      OBVIOUS
    <3>2. sl.q.op = "PushRow" /\ sl.q.row = x.row /\ sl.q.vals = x.vals /\ sl.q.key = k
      BY ONLY <1>1, <2>4, <3>1
    <3>. QED
      BY ONLY <1>1, <2>1, <2>2, <3>1, <3>2, x.op = "PushRow" DEF SliceOK
  <2>. QED
    BY ONLY <2>2, <2>4, <2>5 DEF SlicesOK
<1>5. CASE m \notin DOMAIN cl.keys
  <2>1. PICK t, g : t = 0 /\ g = 0
    OBVIOUS
  <2>2. t \in Server
    BY <2>1, GapNat
  <2>3. g \in 0 .. Gap - 1
    <3>1. Cardinality(Matrix) \in Nat /\ Cardinality(Matrix) # 0
      BY <1>2, MatrixAssumption, FS_CardinalityType, FS_EmptySet
    <3>2. PICK c, d : c = Cardinality(Matrix) /\ d = Gap
      OBVIOUS
    <3>3. d \in Nat /\ d >= c
      BY <3>2, GapNat
    <3>. QED
      BY ONLY <2>1, <3>1, <3>2, <3>3
  <2>4. k = RangeBegin(t) + g
    <3>1. m \notin DOMAIN cl.rowKeys
      BY <1>5 DEF ClientOK
    <3>2. k = 0
      BY <1>1, <3>1 DEF FindRowKey
    <3>. QED
      BY <2>1, <3>2, GapNat
  <2>5. DOMAIN PushRowSlices(cl, x) = {t} /\ PushRowSlices(cl, x)[t] = [q |-> qs[1], front |-> k]
    <3>1. /\ DOMAIN DefaultSlicer(<<RangeBegin(t) + g>>, qs) = {t}
          /\ DefaultSlicer(<<RangeBegin(t) + g>>, qs)[t] = [q |-> qs[1], front |-> RangeBegin(t) + g]
      BY ONLY <2>2, <2>3, KeySlice
    <3>. QED
      BY ONLY <1>3, <2>4, <3>1
  <2>6. SliceOK(cl, x, t, PushRowSlices(cl, x)[t])
    BY <1>1, <1>5, <2>5 DEF SliceOK
  <2>. QED
    BY ONLY <2>2, <2>5, <2>6 DEF SlicesOK
<1>. QED
  BY <1>4, <1>5

----------------------------------------------------------------------------
(* Which pushes have begun and returned.                                     *)

NextCall(c) == <<c, Len(log[c]) + 1>>
LogOK == DOMAIN log = Client /\ \A c \in Client : \E T : log[c] \in Seq(T)

(* A log is a sequence.                                                      *)
LEMMA LogFacts ==
  ASSUME LogOK, NEW c \in Client
  PROVE  Len(log[c]) \in Nat /\ DOMAIN log[c] = 1 .. Len(log[c])
<1>1. PICK T : log[c] \in Seq(T)
  BY DEF LogOK
<1>. QED
  BY ONLY <1>1

(* What a call was that has returned, and one that has not.                  *)
LEMMA CallOfPair ==
  ASSUME LogOK, NEW c \in Client
  PROVE  /\ \A i \in DOMAIN log[c] : CallOf(<<c, i>>) = log[c][i].call
         /\ CallOf(NextCall(c)) = asked[c].call
<1>1. \A i \in DOMAIN log[c] : i <= Len(log[c])
  BY LogFacts
<1>2. ~ Len(log[c]) + 1 <= Len(log[c])
  BY LogFacts
<1>. QED
  BY <1>1, <1>2 DEF CallOf, NextCall

(* Which pushes have returned.                                               *)
LEMMA InReturned ==
  ASSUME LogOK
  PROVE  \A p : p \in Returned <=> \E c \in Client : \E i \in DOMAIN log[c] : p = <<c, i>> /\ log[c][i].call \in Push
<1>1. \A p : p \in UNION {{c} \X DOMAIN log[c] : c \in Client} <=> \E c \in Client : \E i \in DOMAIN log[c] : p = <<c, i>>
  OBVIOUS
<1>2. \A p : p \in Returned <=> p \in UNION {{c} \X DOMAIN log[c] : c \in Client} /\ CallOf(p) \in Push
  BY DEF Returned
<1>. QED
  BY <1>1, <1>2, CallOfPair

(* Which pushes have begun.                                                  *)
LEMMA InBegun ==
  \A p : p \in Begun <=> p \in Returned \/ \E c \in Client : p = NextCall(c) /\ asked[c].call \in Push
  BY DEF Begun, NextCall, Busy

----------------------------------------------------------------------------
(* What a server holds.                                                      *)

PartSize(m, s) == RowNum(m, s) * ElePerRow(m)

\* p is what server s holds of the matrix m
PartOK(p, m, s) ==
  /\ p \in [meta : {PartMeta(m, s)}, vals : Seq(Int)]
  /\ Len(p.vals) = PartSize(m, s)

(* Arithmetic.                                                               *)
LEMMA Products ==
  ASSUME NEW b \in Nat, NEW n \in Nat, NEW w \in Nat, NEW h \in Nat
  PROVE  (b + n) * w = b * w + n * w /\ h * w = w * h /\ b * w \in Nat /\ n * w \in Nat
OBVIOUS

(* The values of a PushAll for a server fill its part.                       *)
LEMMA PartFits ==
  ASSUME NEW m \in Matrix, NEW s \in 0 .. RealSize(m) - 1, NEW vals \in Seq(Int),
         Len(vals) = ElePerRow(m) * ElePerCol(m), NEW v,
         v = SubSeq(vals, Before(m, s) * ElePerRow(m) + 1, Before(m, s) * ElePerRow(m) + RowNum(m, s) * ElePerRow(m))
  PROVE  /\ v \in Seq(Int) /\ Len(v) = PartSize(m, s)
         /\ Before(m, s) * ElePerRow(m) \in Nat
         /\ \A i \in 1 .. PartSize(m, s) : v[i] = vals[Before(m, s) * ElePerRow(m) + i]
<1>1. PICK b, n, w, h, a, z : /\ b = Before(m, s) /\ n = RowNum(m, s) /\ w = ElePerRow(m) /\ h = ElePerCol(m)
                              /\ a = b * w /\ z = n * w
  OBVIOUS
<1>2. s \in Server /\ s + 1 \in 0 .. NumServers /\ NumServers \in 0 .. NumServers
  BY FirstServers, Sizes DEF Server
<1>3. n \in Nat /\ Before(m, s + 1) = b + n
  BY <1>1, <1>2, Parts
<1>4. b \in Nat /\ Before(m, s + 1) <= h
  <2>1. Before(m, NumServers) = h
    BY <1>1, Parts
  <2>2. s \in 0 .. NumServers /\ s <= s + 1 /\ s + 1 <= NumServers
    BY <1>2, FirstServers, Sizes
  <2>3. Before(m, s) \in Nat
    BY ONLY m \in Matrix, <1>2, <2>2, BeforeOrder
  <2>4. Before(m, s + 1) <= Before(m, NumServers)
    BY ONLY m \in Matrix, <1>2, <2>2, BeforeOrder
  <2>. QED
    BY ONLY <1>1, <2>1, <2>3, <2>4
<1>5. w \in Nat /\ h \in Nat /\ Len(vals) = w * h
  BY <1>1, Sizes
<1>6a. a = b * w /\ z = n * w
  BY <1>1
<1>6. a \in Nat /\ z \in Nat /\ a + z <= Len(vals)
  <2>1. b + n <= h
    BY ONLY <1>3, <1>4
  <2>2. (b + n) * w <= h * w
    BY ONLY <1>3, <1>4, <1>5, <2>1, TimesOrder
  <2>3. (b + n) * w = a + z /\ h * w = w * h
    BY ONLY <1>3, <1>4, <1>5, <1>6a, Products
  <2>4. a \in Nat /\ z \in Nat
    BY ONLY <1>3, <1>4, <1>5, <1>6a, Products
  <2>. QED
    BY ONLY <1>5, <2>2, <2>3, <2>4
<1>7. v = SubSeq(vals, a + 1, a + z)
  BY ONLY <1>1, v = SubSeq(vals, Before(m, s) * ElePerRow(m) + 1, Before(m, s) * ElePerRow(m) + RowNum(m, s) * ElePerRow(m))
<1>8. v \in Seq(Int) /\ Len(v) = z /\ \A i \in 1 .. z : v[i] = vals[a + i]
  BY ONLY <1>6, <1>7, vals \in Seq(Int)
<1>. QED
  BY ONLY <1>1, <1>6, <1>8 DEF PartSize

(* Values are added one by one.                                              *)
LEMMA PlusIs ==
  ASSUME NEW u \in Seq(Int), NEW v \in Seq(Int), Len(u) = Len(v)
  PROVE  /\ Plus(u, v) \in Seq(Int) /\ Len(Plus(u, v)) = Len(u)
         /\ \A i \in 1 .. Len(u) : Plus(u, v)[i] = u[i] + v[i]
<1>1. Len(u) \in Nat /\ DOMAIN u = 1 .. Len(u) /\ DOMAIN v = 1 .. Len(u)
  OBVIOUS
<1>2. \A i \in 1 .. Len(u) : u[i] \in Int /\ v[i] \in Int
  BY <1>1
<1>3. Plus(u, v) = [i \in 1 .. Len(u) |-> u[i] + v[i]]
  BY <1>1 DEF Plus
<1>. QED
  BY <1>1, <1>2, <1>3

----------------------------------------------------------------------------
(* The invariant.                                                            *)

Shapes ==
  /\ DOMAIN client = Client /\ DOMAIN asked = Client /\ DOMAIN store = Server /\ DOMAIN applied = Server
  /\ LogOK /\ ended \subseteq Server
  /\ \A c \in Client : ClientOK(client[c]) /\ DOMAIN asked[c] = {"call", "todo", "got", "before"}

\* What a client waits for
AskedOK(c) ==
  /\ asked[c].call \in Calls \cup {None} /\ (~ Busy(c) => asked[c].todo = <<>>)
  /\ Busy(c) =>
       /\ SlicesOK(client[c], asked[c].call, asked[c].todo)
       /\ asked[c].call.op = "PushRow" \/ asked[c].call.matrix \in DOMAIN client[c].keys
       /\ asked[c].call \in Pull /\ asked[c].call.fresh => client[c].vals = <<>>

\* A server holds nothing but parts, each at the key that some client gave it
StoreOK ==
  \A s \in Server : \A key \in DOMAIN store[s] :
    \E c \in Client : \E m \in DOMAIN client[c].keys :
      s < RealSize(m) /\ key = PartKey(client[c], m, s) /\ PartOK(store[s][key], m, s)

\* A part that a client has pushed is on its way or held
Coming(c, m, s) ==
  asked[c].call \in Push /\ asked[c].call.op = "PushAll" /\ asked[c].call.matrix = m /\ s \in DOMAIN asked[c].todo
PartsHeld ==
  \A c \in Client : \A m \in DOMAIN client[c].keys : \A s \in 0 .. RealSize(m) - 1 :
    Held(store[s], PartKey(client[c], m, s)) \/ Coming(c, m, s)

LogKnown ==
  \A c \in Client : \A i \in DOMAIN log[c] :
    log[c][i].call \in Calls
    /\ (log[c][i].call.op = "PushAll" => log[c][i].call.matrix \in DOMAIN client[c].keys)

\* A client that a CHECK has ended called Pull with vectors that do not fit
EndedOK(c) ==
  client[c].ended =>
    /\ Busy(c) /\ asked[c].call \in Pull /\ ~ asked[c].call.fresh /\ asked[c].todo = <<>>
    /\ client[c].vals # <<>>
    /\ Len(client[c].vals) # Len(Filled(client[c], asked[c].call, asked[c].got).vals)

Several(p) ==
  LET x == CallOf(p) IN
  x.op = "PushRow" /\ RowNum(x.matrix, client[p[1]].rowPS[x.matrix][x.row]) > 1
Caused == ended # {} => ~ ClientsAgree \/ \E p \in Begun : Several(p)

Inv ==
  /\ Shapes /\ StoreOK /\ PartsHeld /\ LogKnown /\ Caused
  /\ \A c \in Client : AskedOK(c) /\ EndedOK(c)

(* A client calls a function.                                                *)
Asks(c, x, cl, sl) ==
  /\ x \in Calls /\ CanCall(c) /\ Request(c, x, cl, sl)
  /\ ClientOK(cl) /\ cl.ended = client[c].ended
  /\ \A m \in DOMAIN client[c].keys : m \in DOMAIN cl.keys /\ cl.keys[m] = client[c].keys[m]
  /\ SlicesOK(cl, x, sl)
  /\ IF x.op = "PushAll"
     THEN DOMAIN cl.keys = DOMAIN client[c].keys \cup {x.matrix} /\ DOMAIN sl = 0 .. RealSize(x.matrix) - 1
     ELSE DOMAIN cl.keys = DOMAIN client[c].keys
  /\ x.op = "PushRow" \/ x.matrix \in DOMAIN cl.keys
  /\ x \in Pull /\ x.fresh => cl.vals = <<>>

(* Each way to ask is one. PushAll.                                          *)
LEMMA PushAllAsks ==
  ASSUME Shapes, NEW c \in Client, PushAll(c)
  PROVE  \E x, cl, sl : Asks(c, x, cl, sl)
<1>1. PICK x \in Push : /\ x.op = "PushAll" /\ CanCall(c)
                        /\ LET cl == FindKey(RowPartition(client[c], x.matrix), x.matrix)
                           IN  Request(c, x, cl, PushAllSlices(cl, x))
  BY DEF PushAll
<1>2. PICK cl, sl : cl = FindKey(RowPartition(client[c], x.matrix), x.matrix) /\ sl = PushAllSlices(cl, x)
  OBVIOUS
<1>3. Request(c, x, cl, sl)
  BY <1>1, <1>2
<1>4. x \in Calls /\ x \notin Pull /\ x.matrix \in Matrix
  BY MatrixAssumption DEF Push, Pull
<1>5. ClientOK(client[c])
  BY DEF Shapes
<1>6. /\ ClientOK(cl) /\ cl.ended = client[c].ended
      /\ DOMAIN cl.keys = DOMAIN client[c].keys \cup {x.matrix}
      /\ \A n \in DOMAIN client[c].keys : cl.keys[n] = client[c].keys[n]
  BY ONLY <1>2, <1>4, <1>5, ClientPushes
<1>7. SlicesOK(cl, x, sl) /\ DOMAIN sl = 0 .. RealSize(x.matrix) - 1
  BY <1>1, <1>2, <1>4, <1>6, PushAllSliced
<1>. QED
  BY <1>1, <1>3, <1>4, <1>6, <1>7 DEF Asks

(* PushRow.                                                                  *)
LEMMA PushRowAsks ==
  ASSUME Shapes, NEW c \in Client, PushRow(c)
  PROVE  \E x, cl, sl : Asks(c, x, cl, sl)
<1>1. PICK x \in Push : x.op = "PushRow" /\ CanCall(c) /\ Request(c, x, client[c], PushRowSlices(client[c], x))
  BY DEF PushRow
<1>2. x \in Calls /\ x \notin Pull /\ ClientOK(client[c])
  BY DEF Push, Pull, Shapes
<1>3. SlicesOK(client[c], x, PushRowSlices(client[c], x))
  BY <1>1, <1>2, PushRowSliced
<1>4. Asks(c, x, client[c], PushRowSlices(client[c], x))
  BY <1>1, <1>2, <1>3 DEF Asks
<1>. QED
  BY <1>4

(* The pulls.                                                                *)
LEMMA PullAsks ==
  ASSUME Shapes, NEW c \in Client, PullMatrix(c)
  PROVE  \E x, cl, sl : Asks(c, x, cl, sl)
<1>1. PICK x \in Pull :
        /\ CanCall(c)
        /\ x.matrix \in DOMAIN client[c].toPS
        /\ x.op = "ColDot" => x.matrix2 \in DOMAIN client[c].toPS
        /\ Request(c, x, Vectors(client[c], x),
             CASE x.op = "PullAll" -> PullAllSlices(client[c], x)
               [] x.op = "ColDot" -> ColDotSlices(client[c], x)
               [] OTHER -> RowSlices(client[c], x))
  BY DEF PullMatrix
<1>2. PICK cl, sl : /\ cl = Vectors(client[c], x)
                    /\ sl = (CASE x.op = "PullAll" -> PullAllSlices(client[c], x)
                               [] x.op = "ColDot" -> ColDotSlices(client[c], x)
                               [] OTHER -> RowSlices(client[c], x))
  OBVIOUS
<1>3. Request(c, x, cl, sl)
  BY ONLY <1>1, <1>2
<1>4. x \in Calls /\ x.op \in {"PullAll", "GetRow", "RowSum", "ColDot"}
  BY MatrixAssumption DEF Push, Pull
<1>5. /\ ClientOK(client[c]) /\ x.matrix \in DOMAIN client[c].keys
      /\ x.op = "ColDot" => x.matrix2 \in DOMAIN client[c].keys
  BY <1>1 DEF Shapes, ClientOK
<1>6. /\ ClientOK(cl) /\ cl.ended = client[c].ended /\ cl.keys = client[c].keys
      /\ x.fresh => cl.vals = <<>>
  BY <1>2, <1>5 DEF Vectors, ClientOK, Fields, NumberOf
<1>7. SlicesOK(client[c], x, sl)
  <2>1. CASE x.op = "PullAll"
    BY <1>2, <1>4, <1>5, <2>1, PullAllSliced
  <2>2. CASE x.op = "ColDot"
    BY <1>2, <1>4, <1>5, <2>2, ColDotSliced
  <2>3. CASE x.op \in {"GetRow", "RowSum"}
    BY <1>2, <1>4, <1>5, <2>3, RowSliced
  <2>. QED
    BY <1>4, <2>1, <2>2, <2>3
<1>8. SlicesOK(cl, x, sl)
  BY <1>6, <1>7 DEF SlicesOK, SliceOK, PartKey
<1>. QED
  BY <1>1, <1>3, <1>4, <1>5, <1>6, <1>8 DEF Asks

----------------------------------------------------------------------------
(* What is known and begun stays so.                                         *)

LogGrows ==
  \A c \in Client : /\ Len(log[c]) <= Len(log'[c]) /\ \A i \in DOMAIN log[c] : log'[c][i] = log[c][i]
                    /\ \/ log'[c] = log[c] /\ (Busy(c) => asked'[c].call = asked[c].call)
                       \/ /\ Len(log'[c]) = Len(log[c]) + 1
                          /\ log'[c][Len(log[c]) + 1].call = asked[c].call
KeysGrow ==
  \A c \in Client : \A m \in DOMAIN client[c].keys :
    m \in DOMAIN client'[c].keys /\ client'[c].keys[m] = client[c].keys[m]

(* A push is a call.                                                         *)
LEMMA PushIsCall == \A c : asked[c].call \in Push => Busy(c) /\ asked[c].call \in Calls
  BY MatrixAssumption DEF Push, Busy

(* The same of the next state.                                               *)
CallFacts ==
  LogOK =>
    /\ \A c \in Client : /\ Len(log[c]) \in Nat /\ DOMAIN log[c] = 1 .. Len(log[c])
                         /\ \A i \in DOMAIN log[c] : CallOf(<<c, i>>) = log[c][i].call
                         /\ CallOf(NextCall(c)) = asked[c].call
    /\ \A p : p \in Returned <=> \E c \in Client : \E i \in DOMAIN log[c] : p = <<c, i>> /\ log[c][i].call \in Push
    /\ \A p : p \in Begun <=> p \in Returned \/ \E c \in Client : p = NextCall(c) /\ asked[c].call \in Push

(* They hold of each state.                                                  *)
LEMMA FactsNow == CallFacts
  BY LogFacts, CallOfPair, InReturned, InBegun DEF CallFacts

(* So they hold of the next.                                                 *)
LEMMA FactsLater == CallFacts'
  BY FactsNow, PTL

(* A push that has begun stays what it was.                                  *)
LEMMA BegunStays ==
  ASSUME LogOK, LogOK', LogGrows, NEW p \in Begun
  PROVE  p \in Begun' /\ CallOf(p)' = CallOf(p) /\ CallOf(p) \in Push /\ Known(p)' = Known(p)
<1>1. CASE p \in Returned
  <2>1. PICK c \in Client : \E i \in DOMAIN log[c] : p = <<c, i>> /\ log[c][i].call \in Push
    BY <1>1, InReturned
  <2>1a. PICK i \in DOMAIN log[c] : p = <<c, i>> /\ log[c][i].call \in Push
    BY <2>1
  <2>2. log'[c][i] = log[c][i] /\ i \in DOMAIN log'[c]
    <3>1. Len(log[c]) \in Nat /\ DOMAIN log[c] = 1 .. Len(log[c])
      BY LogFacts
    <3>2. Len(log'[c]) \in Nat /\ DOMAIN log'[c] = 1 .. Len(log'[c])
      <4>1. (Len(log[c]) \in Nat /\ DOMAIN log[c] = 1 .. Len(log[c]))'
        BY ONLY LogOK', c \in Client, FactsLater DEF CallFacts
      <4>. QED
        BY ONLY <4>1
    <3>3. Len(log[c]) <= Len(log'[c]) /\ log'[c][i] = log[c][i]
      BY <2>1a DEF LogGrows
    <3>. QED
      BY ONLY <3>1, <3>2, <3>3, <2>1a
  <2>3. CallOf(p) = log[c][i].call
    BY <2>1a, CallOfPair
  <2>4. CallOf(p)' = log'[c][i].call
    <3>1. (\A j \in DOMAIN log[c] : CallOf(<<c, j>>) = log[c][j].call)'
      BY ONLY LogOK', c \in Client, FactsLater DEF CallFacts
    <3>. QED
      BY ONLY <2>1a, <2>2, <3>1
  <2>5. p \in Returned'
    <3>1. (\A q : q \in Returned <=> \E d \in Client : \E j \in DOMAIN log[d] : q = <<d, j>> /\ log[d][j].call \in Push)'
      BY ONLY LogOK', FactsLater DEF CallFacts
    <3>. QED
      BY ONLY <2>1a, <2>2, <3>1, Push' = Push
  <2>6. p \in Begun'
    BY ONLY <2>5 DEF Begun
  <2>7. Known(p)' = Known(p)
    <3>1. \A j \in 1 .. (i - 1) : log'[c][j] = log[c][j]
      BY <2>1a, LogFacts DEF LogGrows
    <3>2. p[1] = c /\ p[2] = i
      BY <2>1a
    <3>. QED
      BY ONLY <2>2, <2>3, <2>4, <3>1, <3>2 DEF Known
  <2>. QED
    BY ONLY <2>1a, <2>2, <2>3, <2>4, <2>6, <2>7
<1>2. CASE p \notin Returned
  <2>1. PICK c \in Client : p = NextCall(c) /\ asked[c].call \in Push
    BY <1>2, InBegun
  <2>2. CallOf(p) = asked[c].call /\ Busy(c) /\ Len(log[c]) \in Nat
    BY <2>1, CallOfPair, PushIsCall, LogFacts
  <2>3. CallOf(p)' = CallOf(p) /\ p \in Begun'
    <3>1. CASE log'[c] = log[c] /\ asked'[c].call = asked[c].call
      <4>1. p = NextCall(c)' /\ asked'[c].call \in Push
        BY ONLY <2>1, <3>1 DEF NextCall
      <4>2. (CallOf(NextCall(c)) = asked[c].call)'
        BY ONLY LogOK', c \in Client, FactsLater DEF CallFacts
      <4>3. (\A q : q \in Begun <=> q \in Returned \/ \E d \in Client : q = NextCall(d) /\ asked[d].call \in Push)'
        BY ONLY LogOK', FactsLater DEF CallFacts
      <4>4. CallOf(p)' = asked'[c].call
        BY ONLY <2>1, <3>1 DEF CallOf, NextCall
      <4>. QED
        <5>1. p \in Begun'
          BY ONLY <4>1, <4>3, Push' = Push
        <5>. QED
          <6>1. CallOf(p)' = asked'[c].call
            <7>1. p[1] = c /\ p[2] = Len(log[c]) + 1
              BY <2>1 DEF NextCall
            <7>2. ~ (Len(log[c]) + 1 <= Len(log[c]))
              BY <2>2
            <7>. QED
              BY ONLY <3>1, <7>1, <7>2 DEF CallOf
          <6>. QED
            BY ONLY <2>2, <3>1, <5>1, <6>1
    <3>2. CASE Len(log'[c]) = Len(log[c]) + 1 /\ log'[c][Len(log[c]) + 1].call = asked[c].call
      <4>1. PICK n : n = Len(log[c]) + 1
        OBVIOUS
      <4>2. n \in DOMAIN log'[c]
        <5>1. (Len(log[c]) \in Nat /\ DOMAIN log[c] = 1 .. Len(log[c]))'
          BY ONLY LogOK', c \in Client, FactsLater DEF CallFacts
        <5>. QED
          BY ONLY <2>2, <3>2, <4>1, <5>1
      <4>3. p = <<c, n>>
        BY ONLY <2>1, <4>1 DEF NextCall
      <4>4. (\A j \in DOMAIN log[c] : CallOf(<<c, j>>) = log[c][j].call)'
        BY ONLY LogOK', c \in Client, FactsLater DEF CallFacts
      <4>5. CallOf(p)' = log'[c][n].call
        BY ONLY <4>2, <4>3, <4>4
      <4>6. (\A q : q \in Returned <=> \E d \in Client : \E j \in DOMAIN log[d] : q = <<d, j>> /\ log[d][j].call \in Push)'
        BY ONLY LogOK', FactsLater DEF CallFacts
      <4>7. p \in Returned'
        BY ONLY <2>1, <3>2, <4>1, <4>2, <4>3, <4>6, Push' = Push
      <4>. QED
        BY ONLY <2>2, <3>2, <4>1, <4>5, <4>7 DEF Begun
    <3>. QED
      BY <2>2, <3>1, <3>2 DEF LogGrows
  <2>4. Known(p)' = Known(p)
    <3>1. \A j \in 1 .. (Len(log[c]) + 1 - 1) : log'[c][j] = log[c][j]
      BY LogFacts DEF LogGrows
    <3>2. p[1] = c /\ p[2] = Len(log[c]) + 1
      BY <2>1 DEF NextCall
    <3>. QED
      BY ONLY <2>3, <3>1, <3>2 DEF Known
  <2>. QED
    BY ONLY <2>1, <2>2, <2>3, <2>4
<1>. QED
  BY <1>1, <1>2

(* Clients that agree have agreed before.                                    *)
LEMMA AgreedBefore ==
  ASSUME LogOK, LogOK', LogGrows, KeysGrow, ClientsAgree'
  PROVE  ClientsAgree
<1>1. ASSUME Stray PROVE FALSE
  <2>1. PICK p \in Begun : CallOf(p).op = "PushRow" /\ ~ Known(p)
    BY <1>1 DEF Stray
  <2>2. p \in Begun' /\ CallOf(p)' = CallOf(p) /\ ~ Known(p)'
    BY <2>1, BegunStays
  <2>3. CallOf(p).op' = "PushRow"
    BY ONLY <2>1, <2>2
  <2>. QED
    BY ONLY <2>2, <2>3, ClientsAgree' DEF ClientsAgree, Stray
<1>2. ASSUME NEW c \in Client, NEW d \in Client, NEW m \in DOMAIN client[c].keys, NEW n \in DOMAIN client[d].keys, m # n
      PROVE  KeysOf(c, m) \cap KeysOf(d, n) = {}
  <2>1. KeysOf(c, m)' = KeysOf(c, m) /\ KeysOf(d, n)' = KeysOf(d, n)
    BY DEF KeysGrow, KeysOf
  <2>2. m \in DOMAIN client'[c].keys /\ n \in DOMAIN client'[d].keys
    BY DEF KeysGrow
  <2>. QED
    BY ONLY <1>2, <2>1, <2>2, ClientsAgree' DEF ClientsAgree
<1>. QED
  BY <1>1, <1>2 DEF ClientsAgree

----------------------------------------------------------------------------
(* A call keeps the invariant.                                               *)

(* What a call changes.                                                      *)
LEMMA AskChanges ==
  ASSUME Shapes, NEW c \in Client, NEW x, NEW cl, NEW sl, Asks(c, x, cl, sl)
  PROVE  /\ client'[c] = cl /\ \A d \in Client \ {c} : client'[d] = client[d] /\ asked'[d] = asked[d]
         /\ DOMAIN client' = Client /\ DOMAIN asked' = Client
         /\ asked'[c] = [call |-> x, todo |-> sl, got |-> {}, before |-> Returned]
         /\ x \in Calls /\ x # None /\ ~ Busy(c) /\ Busy(c)' /\ ended = {} /\ ~ client[c].ended
         /\ store' = store /\ ended' = ended /\ applied' = applied /\ log' = log
         /\ LogOK' /\ LogGrows /\ KeysGrow
<1>1. /\ client' = [client EXCEPT ![c] = cl] /\ store' = store /\ ended' = ended /\ applied' = applied /\ log' = log
      /\ asked' = [asked EXCEPT ![c] = [call |-> x, todo |-> sl, got |-> {}, before |-> Returned]]
      /\ x \in Calls /\ CanCall(c)
  BY DEF Asks, Request
<1>2. DOMAIN client = Client /\ DOMAIN asked = Client /\ LogOK
  BY DEF Shapes
<1>3. ~ Busy(c) /\ ended = {} /\ ~ client[c].ended /\ x # None
  BY <1>1, MatrixAssumption DEF CanCall
<1>4. /\ client'[c] = cl /\ \A d \in Client \ {c} : client'[d] = client[d] /\ asked'[d] = asked[d]
      /\ DOMAIN client' = Client /\ DOMAIN asked' = Client
      /\ asked'[c] = [call |-> x, todo |-> sl, got |-> {}, before |-> Returned]
  BY ONLY <1>1, <1>2
<1>5. LogOK' /\ LogGrows
  BY <1>1, <1>2, <1>3, <1>4, LogFacts DEF LogOK, LogGrows, Busy
<1>6. KeysGrow
  BY <1>4 DEF KeysGrow, Asks
<1>. QED
  BY ONLY <1>1, <1>3, <1>4, <1>5, <1>6 DEF Busy

(* A client keeps the keys of a matrix.                                      *)
LEMMA SameKeys ==
  ASSUME KeysGrow, NEW c \in Client, NEW m \in DOMAIN client[c].keys
  PROVE  m \in DOMAIN client'[c].keys /\ client'[c].keys[m] = client[c].keys[m]
         /\ \A s : PartKey(client[c], m, s)' = PartKey(client[c], m, s)
  BY DEF KeysGrow, PartKey

(* A call keeps the invariant.                                               *)
LEMMA AskKeeps ==
  ASSUME Inv, NEW c \in Client, NEW x, NEW cl, NEW sl, Asks(c, x, cl, sl)
  PROVE  Inv'
<1>1. /\ client'[c] = cl /\ \A d \in Client \ {c} : client'[d] = client[d] /\ asked'[d] = asked[d]
      /\ DOMAIN client' = Client /\ DOMAIN asked' = Client
      /\ asked'[c] = [call |-> x, todo |-> sl, got |-> {}, before |-> Returned]
      /\ x \in Calls /\ x # None /\ ~ Busy(c) /\ Busy(c)' /\ ended = {} /\ ~ client[c].ended
      /\ store' = store /\ ended' = ended /\ applied' = applied /\ log' = log
      /\ LogOK' /\ LogGrows /\ KeysGrow
  BY AskChanges DEF Inv
<1>2. Shapes'
  BY <1>1 DEF Inv, Shapes, Asks
<1>3. StoreOK'
  <2>1. ASSUME NEW s \in Server, NEW key \in DOMAIN store[s]
        PROVE  \E d \in Client : \E m \in DOMAIN client'[d].keys :
                 s < RealSize(m) /\ key = PartKey(client[d], m, s)' /\ PartOK(store[s][key], m, s)
    <3>1. PICK d \in Client : \E m \in DOMAIN client[d].keys :
            s < RealSize(m) /\ key = PartKey(client[d], m, s) /\ PartOK(store[s][key], m, s)
      BY DEF Inv, StoreOK
    <3>2. PICK m \in DOMAIN client[d].keys :
            s < RealSize(m) /\ key = PartKey(client[d], m, s) /\ PartOK(store[s][key], m, s)
      BY <3>1
    <3>3. m \in DOMAIN client'[d].keys /\ PartKey(client[d], m, s)' = PartKey(client[d], m, s)
      BY <1>1, SameKeys
    <3>. QED
      BY ONLY <3>2, <3>3
  <2>. QED
    BY <1>1, <2>1 DEF StoreOK
<1>4. PartsHeld'
  <2>1. ASSUME NEW d \in Client, NEW m \in DOMAIN client'[d].keys, NEW s \in 0 .. RealSize(m) - 1
        PROVE  Held(store[s], PartKey(client[d], m, s)') \/ Coming(d, m, s)'
    <3>1. CASE d # c
      BY <1>1, <3>1 DEF Inv, PartsHeld, Coming
    <3>2. CASE d = c /\ m \in DOMAIN client[c].keys
      <4>1. ~ Coming(c, m, s)
        BY <1>1, MatrixAssumption DEF Coming, Busy, Push
      <4>2. Held(store[s], PartKey(client[c], m, s))
        BY <3>2, <4>1 DEF Inv, PartsHeld
      <4>. QED
        BY <1>1, <3>2, <4>2, SameKeys
    <3>3. CASE d = c /\ m \notin DOMAIN client[c].keys
      <4>1. m \in DOMAIN cl.keys
        BY <1>1, <3>3
      <4>2. x.op = "PushAll" /\ m = x.matrix /\ DOMAIN sl = 0 .. RealSize(x.matrix) - 1
        BY <3>3, <4>1 DEF Asks
      <4>3. x \in Push
        BY <1>1, <4>2 DEF Push
      <4>4. asked'[c].call = x /\ asked'[c].todo = sl
        BY ONLY <1>1
      <4>5. s \in DOMAIN sl
        BY ONLY <4>2, s \in 0 .. RealSize(m) - 1
      <4>6. Coming(c, m, s)'
        BY ONLY <4>2, <4>3, <4>4, <4>5 DEF Coming
      <4>. QED
        BY ONLY <3>3, <4>6
    <3>. QED
      BY <3>1, <3>2, <3>3
  <2>. QED
    BY <1>1, <2>1 DEF PartsHeld
<1>5. LogKnown'
  BY <1>1 DEF Inv, LogKnown, KeysGrow
<1>6. Caused'
  BY <1>1 DEF Caused
<1>7. ASSUME NEW d \in Client PROVE (AskedOK(d) /\ EndedOK(d))'
  <2>1. CASE d # c
    BY <1>1, <1>7, <2>1 DEF Inv, AskedOK, EndedOK, Busy
  <2>2. CASE d = c
    <3>1. AskedOK(c)'
      BY <1>1 DEF Asks, AskedOK
    <3>2. EndedOK(c)'
      BY <1>1 DEF Asks, EndedOK
    <3>. QED
      BY <2>2, <3>1, <3>2
  <2>. QED
    BY <2>1, <2>2
<1>. QED
  BY <1>2, <1>3, <1>4, <1>5, <1>6, <1>7 DEF Inv

----------------------------------------------------------------------------
(* What a server finds at a key.                                             *)

(* The rows and columns of a part.                                           *)
LEMMA PartShape ==
  ASSUME NEW m \in Matrix, NEW s \in Server, NEW p, PartOK(p, m, s)
  PROVE  /\ p.meta = PartMeta(m, s) /\ p.meta.matrix = m /\ p.vals \in Seq(Int) /\ Len(p.vals) = PartSize(m, s)
         /\ Row(p) = PartRows(m, s) /\ Col(p) = Cols(m) /\ Width(p) = ElePerRow(m) /\ Height(p) = RowNum(m, s)
         /\ p.meta.startRow = Shape[m].startRow + Before(m, s) /\ p.meta.startCol = Shape[m].startCol
<1>1. p.meta = PartMeta(m, s) /\ p.vals \in Seq(Int) /\ Len(p.vals) = PartSize(m, s)
  BY DEF PartOK
<1>2. PICK a, b, n, u, v : /\ a = Shape[m].startRow /\ b = Before(m, s) /\ n = RowNum(m, s)
                           /\ u = Shape[m].startCol /\ v = Shape[m].endCol
  OBVIOUS
<1>3. /\ p.meta.matrix = m /\ p.meta.startRow = a + b /\ p.meta.endRow = a + b + n
      /\ p.meta.startCol = u /\ p.meta.endCol = v
  <2>1. /\ PartMeta(m, s) \in [matrix : {m}, startRow : Int, endRow : Int, startCol : Int, endCol : Int]
        /\ PartMeta(m, s).startRow = a + b /\ PartMeta(m, s).endRow = a + b + n
        /\ PartMeta(m, s).startCol = u /\ PartMeta(m, s).endCol = v
    BY <1>2, PartAt
  <2>. QED
    BY ONLY <1>1, <2>1
<1>4. a \in Int /\ b \in Nat /\ n \in Nat /\ u \in Int /\ v = u + ElePerRow(m) /\ ElePerRow(m) \in Nat
  BY <1>2, Sizes, PartAt
<1>5. Row(p) = (a + b) .. (a + b + n - 1) /\ Col(p) = u .. (v - 1)
  BY ONLY <1>3, <1>4 DEF Row, Col
<1>6. Width(p) = ElePerRow(m) /\ Height(p) = n
  BY ONLY <1>3, <1>4 DEF Width, Height
<1>7. PartRows(m, s) = (a + b) .. (a + b + n - 1) /\ Cols(m) = u .. (v - 1)
  BY ONLY <1>2 DEF PartRows, Cols
<1>. QED
  BY ONLY <1>1, <1>2, <1>3, <1>5, <1>6, <1>7

(* Among clients that agree a key names a part of one matrix.                *)
LEMMA OneMatrix ==
  ASSUME Shapes, ClientsAgree, NEW c \in Client, NEW m \in DOMAIN client[c].keys, NEW s \in 0 .. RealSize(m) - 1,
         NEW d \in Client, NEW n \in DOMAIN client[d].keys, NEW t \in 0 .. RealSize(n) - 1,
         PartKey(client[c], m, s) = PartKey(client[d], n, t)
  PROVE  m = n
<1>1. ASSUME NEW e \in Client, NEW l \in DOMAIN client[e].keys, NEW u \in 0 .. RealSize(l) - 1
      PROVE  PartKey(client[e], l, u) \in KeysOf(e, l)
  <2>1. client[e].keys[l] = MatrixKeys(l, NumberOf(client[e], l)) /\ l \in Matrix
    BY Numbers DEF Shapes
  <2>2. DOMAIN client[e].keys[l] = 1 .. RealSize(l)
    BY ONLY <2>1 DEF MatrixKeys
  <2>3. u + 1 \in 1 .. RealSize(l)
    BY <2>1, FirstServers
  <2>. QED
    BY ONLY <2>2, <2>3 DEF PartKey, KeysOf
<1>2. PartKey(client[c], m, s) \in KeysOf(c, m) /\ PartKey(client[d], n, t) \in KeysOf(d, n)
  BY <1>1
<1>3. m # n => KeysOf(c, m) \cap KeysOf(d, n) = {}
  BY DEF ClientsAgree
<1>. QED
  BY ONLY <1>2, <1>3, PartKey(client[c], m, s) = PartKey(client[d], n, t)

(* They find there what they have pushed.                                    *)
LEMMA HeldPart ==
  ASSUME Shapes, StoreOK, ClientsAgree, NEW c \in Client, NEW m \in DOMAIN client[c].keys,
         NEW s \in 0 .. RealSize(m) - 1, Held(store[s], PartKey(client[c], m, s))
  PROVE  m \in Matrix /\ s \in Server /\ PartOK(store[s][PartKey(client[c], m, s)], m, s)
<1>1. m \in Matrix /\ s \in Server
  BY Numbers DEF Shapes
<1>2. PICK k : k = PartKey(client[c], m, s)
  OBVIOUS
<1>3. PICK d \in Client : \E n \in DOMAIN client[d].keys :
        s < RealSize(n) /\ k = PartKey(client[d], n, s) /\ PartOK(store[s][k], n, s)
  BY <1>1, <1>2 DEF StoreOK, Held
<1>4. PICK n \in DOMAIN client[d].keys : s < RealSize(n) /\ k = PartKey(client[d], n, s) /\ PartOK(store[s][k], n, s)
  BY <1>3
<1>5. n \in Matrix
  BY Numbers DEF Shapes
<1>6. s \in 0 .. RealSize(n) - 1
  BY <1>1, <1>4, <1>5, FirstServers DEF Server
<1>7. m = n
  BY <1>2, <1>4, <1>6, OneMatrix
<1>. QED
  BY <1>1, <1>2, <1>4, <1>7

(* A server fails a slice only for one of the two reasons.                   *)
LEMMA FailHasCause ==
  ASSUME Inv, ClientsAgree, NEW c \in Client, NEW s \in Server, Busy(c), s \in DOMAIN asked[c].todo,
         NEW x, x = asked[c].call, NEW sl, sl = asked[c].todo[s],
         (x \in Push /\ PushFails(store[s], sl.q)) \/ (x \in Pull /\ PullFails(store[s], sl.q))
  PROVE  \E p \in Begun : Several(p)
<1>1. Shapes /\ StoreOK /\ LogKnown /\ AskedOK(c)
  BY DEF Inv
<1>2. ClientOK(client[c]) /\ LogOK
  BY <1>1 DEF Shapes
<1>3. PICK m, k : m = x.matrix /\ k = PartKey(client[c], m, s)
  OBVIOUS
<1>4. x \in Calls /\ SliceOK(client[c], x, s, sl) /\ m \in Matrix
  BY <1>1, <1>3, MatrixAssumption DEF AskedOK, SlicesOK, Busy
<1>5. x.op = "PushRow" \/ m \in DOMAIN client[c].keys
  BY <1>1, <1>3 DEF AskedOK
<1>6. CASE x.op = "PushAll"
  <2>1. x \in Push /\ x \notin Pull
    BY <1>4, <1>6 DEF Push, Pull
  <2>2. s \in 0 .. RealSize(m) - 1 /\ m \in DOMAIN client[c].keys
    BY <1>3, <1>4, <1>6 DEF SliceOK
  <2>3. sl.q = [op |-> "PushAll", key |-> k, meta |-> PartMeta(m, s), vals |-> PartVals(x, s)]
    BY <1>3, <1>4, <1>6 DEF SliceOK
  <2>4. Held(store[s], k) /\ Len(PartVals(x, s)) # Len(store[s][k].vals)
    BY <2>1, <2>3 DEF PushFails
  <2>5. Len(store[s][k].vals) = PartSize(m, s)
    BY <1>1, <1>3, <2>2, <2>4, HeldPart DEF PartOK
  <2>6. Len(PartVals(x, s)) = PartSize(m, s)
    <3>1. x.vals \in Seq(Int) /\ Len(x.vals) = ElePerRow(m) * ElePerCol(m)
      BY <1>3, <1>4, <1>6, MatrixAssumption
    <3>2. PICK v : v = SubSeq(x.vals, Before(m, s) * ElePerRow(m) + 1, Before(m, s) * ElePerRow(m) + RowNum(m, s) * ElePerRow(m))
      OBVIOUS
    <3>3. Len(v) = PartSize(m, s)
      <4>1. PICK y : y = x.vals
        OBVIOUS
      <4>2. /\ m \in Matrix /\ s \in 0 .. RealSize(m) - 1 /\ y \in Seq(Int)
            /\ Len(y) = ElePerRow(m) * ElePerCol(m)
            /\ v = SubSeq(y, Before(m, s) * ElePerRow(m) + 1, Before(m, s) * ElePerRow(m) + RowNum(m, s) * ElePerRow(m))
        BY ONLY <1>4, <2>2, <3>1, <3>2, <4>1
      <4>. QED
        BY ONLY <4>2, PartFits
    <3>. QED
      BY <1>3, <3>2, <3>3 DEF PartVals
  <2>. QED
    BY <2>4, <2>5, <2>6
<1>7. CASE x.op = "PushRow"
  <2>1. x \in Push /\ x \notin Pull
    BY <1>4, <1>7 DEF Push, Pull
  <2>2. NextCall(c) \in Begun /\ CallOf(NextCall(c)) = x
    BY <1>2, <2>1, InBegun, CallOfPair
  <2>3. Known(NextCall(c))
    BY <1>7, <2>2 DEF ClientsAgree, Stray
  <2>4. m \in DOMAIN client[c].keys
    <3>1. NextCall(c)[1] = c /\ NextCall(c)[2] = Len(log[c]) + 1
      BY DEF NextCall
    <3>2. PICK i \in 1 .. (Len(log[c]) + 1 - 1) : log[c][i].call.op = "PushAll" /\ log[c][i].call.matrix = m
      BY <1>3, <2>2, <2>3, <3>1 DEF Known
    <3>3. i \in DOMAIN log[c]
      <4>1. Len(log[c]) \in Nat /\ DOMAIN log[c] = 1 .. Len(log[c])
        BY <1>2, LogFacts
      <4>. QED
        BY ONLY <3>2, <4>1
    <3>. QED
      BY <1>1, <3>2, <3>3 DEF LogKnown
  <2>5. s = Home(m, x.row) /\ sl.q.key = k /\ sl.q.op = "PushRow" /\ sl.q.row = x.row /\ sl.q.vals = x.vals
    BY ONLY <1>3, <1>4, <1>7, <2>4 DEF SliceOK
  <2>6. x.row \in Rows(m) /\ Len(x.vals) = ElePerRow(m)
    BY <1>3, <1>4, <1>7, MatrixAssumption
  <2>7. s \in 0 .. RealSize(m) - 1 /\ client[c].rowPS[m][x.row] = s /\ x.row \in PartRows(m, s)
    BY <1>2, <1>4, <2>4, <2>5, <2>6, RowKeyAt, HomeIn
  <2>8. Held(store[s], k)
    BY <1>3, <1>7, <2>4, <2>7 DEF Inv, PartsHeld, Coming
  <2>9. PartOK(store[s][k], m, s)
    BY <1>1, <1>3, <2>4, <2>7, <2>8, HeldPart
  <2>10. x.row \in Row(store[s][k]) /\ Len(store[s][k].vals) = PartSize(m, s)
    <3>1. PICK p : p = store[s][k]
      OBVIOUS
    <3>2. PartOK(p, m, s)
      BY ONLY <2>9, <3>1
    <3>3. Row(p) = PartRows(m, s) /\ Len(p.vals) = PartSize(m, s)
      BY ONLY <1>4, <3>2, s \in Server, PartShape
    <3>. QED
      BY ONLY <2>7, <3>1, <3>3
  <2>11. ElePerRow(m) # PartSize(m, s)
    BY <2>1, <2>5, <2>6, <2>8, <2>10 DEF PushFails
  <2>12. RowNum(m, s) > 1
    <3>1. ElePerRow(m) \in Nat /\ RowNum(m, s) \in Nat
      BY <1>4, Sizes, Parts
    <3>2. RowNum(m, s) # 0
      BY <1>4, <2>7, FirstServers
    <3>3. RowNum(m, s) # 1
      BY <2>11, <3>1 DEF PartSize
    <3>. QED
      BY <3>1, <3>2, <3>3
  <2>13. Several(NextCall(c))
    BY <1>3, <1>7, <2>2, <2>7, <2>12 DEF Several, NextCall
  <2>. QED
    BY <2>2, <2>13
<1>8. CASE x.op \notin {"PushAll", "PushRow"}
  <2>1. x \in Pull /\ x \notin Push /\ x.op \in {"PullAll", "GetRow", "RowSum", "ColDot"}
    BY <1>4, <1>8, MatrixAssumption DEF Push, Pull
  <2>2. m \in DOMAIN client[c].keys
    BY <1>5, <1>8
  <2>3. ASSUME NEW n \in DOMAIN client[c].keys, s \in 0 .. RealSize(n) - 1
        PROVE  n \in Matrix /\ Held(store[s], PartKey(client[c], n, s)) /\ PartOK(store[s][PartKey(client[c], n, s)], n, s)
    <3>1. Held(store[s], PartKey(client[c], n, s))
      BY <2>1, <2>3 DEF Inv, PartsHeld, Coming
    <3>. QED
      BY <1>1, <2>3, <3>1, HeldPart
  <2>4. s \in 0 .. RealSize(m) - 1 /\ (x.op \in {"GetRow", "RowSum"} => x.row \in PartRows(m, s))
    <3>1. CASE x.op \in {"PullAll", "ColDot"}
      BY <1>3, <1>4, <3>1 DEF SliceOK
    <3>2. CASE x.op \in {"GetRow", "RowSum"}
      <4>1. x.row \in Rows(m) /\ s = Home(m, x.row)
        BY <1>3, <1>4, <3>2, MatrixAssumption DEF SliceOK
      <4>. QED
        BY <1>2, <1>4, <2>2, <4>1, RowKeyAt, HomeIn
    <3>. QED
      BY <2>1, <3>1, <3>2
  <2>5. Held(store[s], k) /\ PartOK(store[s][k], m, s)
    BY <1>3, <2>2, <2>3, <2>4
  <2>6. Holds(store[s], k, m) /\ Row(store[s][k]) = PartRows(m, s) /\ Col(store[s][k]) = Cols(m) /\ Height(store[s][k]) = RowNum(m, s)
    BY <1>4, <2>5, PartShape DEF Holds
  <2>7. sl.q.op = x.op /\ sl.q.matrix = m /\ sl.q.key = k /\ (x.op \in {"GetRow", "RowSum"} => sl.q.row = x.row)
    BY <1>3, <1>4, <2>1 DEF SliceOK
  <2>8. PullFails(store[s], sl.q)
    BY <2>1
  <2>9. x.op = "ColDot"
    BY ONLY <2>1, <2>4, <2>6, <2>7, <2>8 DEF PullFails
  <2>10. PICK n, k2 : n = x.matrix2 /\ k2 = PartKey(client[c], n, s)
    OBVIOUS
  <2>11. /\ n \in DOMAIN client[c].keys /\ sl.q.matrix2 = n /\ sl.q.key2 = k2 /\ sl.q.col = x.col /\ sl.q.col2 = x.col2
    BY <1>3, <1>4, <2>9, <2>10 DEF SliceOK
  <2>12. n \in Matrix /\ ElePerCol(m) = ElePerCol(n) /\ x.col \in Cols(m) /\ x.col2 \in Cols(n)
    BY <1>3, <1>4, <2>9, <2>10, MatrixAssumption
  <2>13. RowNum(n, s) = RowNum(m, s) /\ RealSize(n) = RealSize(m)
    BY ONLY <2>12 DEF RowNum, RealSize
  <2>14. Held(store[s], k2) /\ PartOK(store[s][k2], n, s)
    BY <2>3, <2>4, <2>10, <2>11, <2>13
  <2>15. Holds(store[s], k2, n) /\ Col(store[s][k2]) = Cols(n) /\ Height(store[s][k2]) = RowNum(n, s)
    BY <2>12, <2>14, PartShape DEF Holds
  <2>. QED
    BY ONLY <2>6, <2>7, <2>8, <2>9, <2>11, <2>12, <2>13, <2>15 DEF PullFails
<1>. QED
  BY <1>6, <1>7, <1>8

----------------------------------------------------------------------------
(* A server serves a slice.                                                  *)

\* What a push makes of a store
IsPushed(st, q, w) ==
  /\ DOMAIN w = DOMAIN st \cup {q.key} /\ \A k \in DOMAIN st \ {q.key} : w[k] = st[k]
  /\ ~ Held(st, q.key) => q.op = "PushAll" /\ w[q.key] = [meta |-> q.meta, vals |-> q.vals]
  /\ \A m, s : Held(st, q.key) /\ PartOK(st[q.key], m, s) =>
       /\ PartOK(w[q.key], m, s) /\ w[q.key].vals = Plus(st[q.key].vals, q.vals)
       /\ Len(q.vals) = Len(st[q.key].vals)

(* A push that does not fail makes that of a store.                          *)
LEMMA PushedIs ==
  ASSUME NEW st, NEW q, q.op \in {"PushAll", "PushRow"}, q.vals \in Seq(Int), ~ PushFails(st, q)
  PROVE  IsPushed(st, q, Pushed(st, q))
<1>1. CASE ~ Held(st, q.key)
  BY <1>1 DEF IsPushed, PushFails, Pushed, Put, Held
<1>2. CASE Held(st, q.key)
  <2>1. Pushed(st, q) = [st EXCEPT ![q.key].vals = Plus(@, q.vals)]
    BY <1>2 DEF Pushed
  <2>2. /\ DOMAIN Pushed(st, q) = DOMAIN st /\ q.key \in DOMAIN st
        /\ \A k \in DOMAIN st \ {q.key} : Pushed(st, q)[k] = st[k]
        /\ Pushed(st, q)[q.key] = [st[q.key] EXCEPT !.vals = Plus(@, q.vals)]
    BY <1>2, <2>1 DEF Held
  <2>3. Len(q.vals) = Len(st[q.key].vals)
    BY <1>2 DEF PushFails
  <2>4. ASSUME NEW m, NEW s, PartOK(st[q.key], m, s)
        PROVE  /\ PartOK(Pushed(st, q)[q.key], m, s)
               /\ Pushed(st, q)[q.key].vals = Plus(st[q.key].vals, q.vals)
    <3>1. PICK p, v, u : p = st[q.key] /\ v = q.vals /\ u = Plus(p.vals, v)
      OBVIOUS
    <3>2. p \in [meta : {PartMeta(m, s)}, vals : Seq(Int)] /\ Len(p.vals) = PartSize(m, s)
      BY <2>4, <3>1 DEF PartOK
    <3>3. u \in Seq(Int) /\ Len(u) = Len(p.vals)
      <4>1. p.vals \in Seq(Int) /\ v \in Seq(Int) /\ Len(p.vals) = Len(v)
        BY <2>3, <3>1, <3>2
      <4>. QED
        BY ONLY <3>1, <4>1, PlusIs
    <3>4. Pushed(st, q)[q.key] = [p EXCEPT !.vals = u]
      BY ONLY <2>2, <3>1
    <3>5. [p EXCEPT !.vals = u] \in [meta : {PartMeta(m, s)}, vals : Seq(Int)] /\ [p EXCEPT !.vals = u].vals = u
      BY ONLY <3>2, <3>3
    <3>. QED
      BY ONLY <3>1, <3>2, <3>3, <3>4, <3>5 DEF PartOK
  <2>. QED
    BY <1>2, <2>2, <2>3, <2>4 DEF IsPushed
<1>. QED
  BY <1>1, <1>2

\* Serving a slice either ends the server or is done
Served(s, c, x, sl) ==
  /\ s \notin ended /\ ~ (x \in Push /\ PushFails(store[s], sl.q)) /\ ~ (x \in Pull /\ PullFails(store[s], sl.q))
  /\ asked' = [asked EXCEPT ![c] = [asked[c] EXCEPT
        !.todo = Restrict(@, DOMAIN @ \ {s}),
        !.got = @ \cup {[front |-> sl.front, vals |-> IF x \in Pull THEN handlePull(store[s], sl.q) ELSE <<>>]}]]
  /\ store' = (IF x \in Push THEN [store EXCEPT ![s] = Pushed(@, sl.q)] ELSE store)
  /\ applied' = (IF x \in Push THEN [applied EXCEPT ![s] = @ \cup {NextCall(c)}] ELSE applied)
  /\ ended' = ended /\ UNCHANGED <<client, log>>
Stops(s, c, x, sl) ==
  /\ (x \in Push /\ PushFails(store[s], sl.q)) \/ (x \in Pull /\ PullFails(store[s], sl.q))
  /\ ended' = ended \cup {s} /\ UNCHANGED <<asked, store, applied, client, log>>

(* Serve is one of the two.                                                  *)
LEMMA ServeIs ==
  ASSUME NEW c \in Client, NEW s \in Server, Serve(s, c)
  PROVE  /\ Busy(c) /\ s \in DOMAIN asked[c].todo
         /\ \/ Served(s, c, asked[c].call, asked[c].todo[s]) \/ Stops(s, c, asked[c].call, asked[c].todo[s])
<1>1. Busy(c) /\ s \in DOMAIN asked[c].todo /\ s \notin ended /\ UNCHANGED <<client, log>>
  BY DEF Serve
<1>2. CASE \/ asked[c].call \in Push /\ PushFails(store[s], asked[c].todo[s].q)
           \/ asked[c].call \in Pull /\ PullFails(store[s], asked[c].todo[s].q)
  BY <1>1, <1>2 DEF Serve, Stops
<1>3. CASE ~ (\/ asked[c].call \in Push /\ PushFails(store[s], asked[c].todo[s].q)
              \/ asked[c].call \in Pull /\ PullFails(store[s], asked[c].todo[s].q))
  BY <1>1, <1>3 DEF Serve, Served, NextCall
<1>. QED
  BY <1>1, <1>2, <1>3

(* The reasons why a server ended stay: clients call nothing new then.       *)
LEMMA CausedStays ==
  ASSUME LogOK, LogOK', LogGrows, KeysGrow, Caused, ended' = ended,
         \A c \in Client : client'[c].rowPS = client[c].rowPS
  PROVE  Caused'
<1>1. ASSUME ended # {}, ClientsAgree' PROVE \E p \in Begun' : Several(p)'
  <2>1. ClientsAgree
    BY <1>1, AgreedBefore
  <2>2. PICK p \in Begun : Several(p)
    BY <1>1, <2>1 DEF Caused
  <2>3. p \in Begun' /\ CallOf(p)' = CallOf(p)
    BY BegunStays
  <2>4. p[1] \in Client
    BY InBegun, InReturned DEF NextCall
  <2>5. client'[p[1]].rowPS = client[p[1]].rowPS
    BY <2>4
  <2>6. Several(p)'
    BY ONLY <2>2, <2>3, <2>5 DEF Several
  <2>. QED
    BY <2>3, <2>6
<1>. QED
  BY ONLY <1>1, ended' = ended DEF Caused

(* What serving a slice changes.                                             *)
LEMMA ServedChanges ==
  ASSUME Shapes, NEW c \in Client, NEW s \in Server, Busy(c), s \in DOMAIN asked[c].todo,
         Served(s, c, asked[c].call, asked[c].todo[s])
  PROVE  /\ client' = client /\ log' = log /\ ended' = ended
         /\ \A d \in Client \ {c} : asked'[d] = asked[d]
         /\ DOMAIN asked' = Client /\ DOMAIN store' = Server /\ DOMAIN applied' = Server
         /\ DOMAIN asked'[c] = DOMAIN asked[c] /\ asked'[c].call = asked[c].call /\ asked'[c].before = asked[c].before
         /\ DOMAIN asked'[c].todo = DOMAIN asked[c].todo \ {s}
         /\ \A t \in DOMAIN asked[c].todo \ {s} : asked'[c].todo[t] = asked[c].todo[t]
         /\ \A t \in Server \ {s} : store'[t] = store[t] /\ applied'[t] = applied[t]
         /\ store'[s] = (IF asked[c].call \in Push THEN Pushed(store[s], asked[c].todo[s].q) ELSE store[s])
         /\ applied'[s] = (IF asked[c].call \in Push THEN applied[s] \cup {NextCall(c)} ELSE applied[s])
         /\ LogOK' /\ LogGrows /\ KeysGrow
<1>1. /\ DOMAIN client = Client /\ DOMAIN asked = Client /\ DOMAIN store = Server /\ DOMAIN applied = Server /\ LogOK
      /\ DOMAIN asked[c] = {"call", "todo", "got", "before"}
  BY DEF Shapes
<1>2. client' = client /\ log' = log /\ ended' = ended
  BY DEF Served
<1>3. PICK g : asked' = [asked EXCEPT ![c] = [asked[c] EXCEPT !.todo = Restrict(@, DOMAIN @ \ {s}), !.got = g]]
  BY DEF Served
<1>4. /\ DOMAIN asked' = Client /\ \A d \in Client \ {c} : asked'[d] = asked[d]
      /\ DOMAIN asked'[c] = DOMAIN asked[c] /\ asked'[c].call = asked[c].call /\ asked'[c].before = asked[c].before
      /\ asked'[c].todo = Restrict(asked[c].todo, DOMAIN asked[c].todo \ {s})
  BY ONLY <1>1, <1>3
<1>5. /\ DOMAIN asked'[c].todo = DOMAIN asked[c].todo \ {s}
      /\ \A t \in DOMAIN asked[c].todo \ {s} : asked'[c].todo[t] = asked[c].todo[t]
  BY ONLY <1>4 DEF Restrict
<1>6. /\ DOMAIN store' = Server /\ \A t \in Server \ {s} : store'[t] = store[t]
      /\ store'[s] = (IF asked[c].call \in Push THEN Pushed(store[s], asked[c].todo[s].q) ELSE store[s])
  BY <1>1 DEF Served
<1>7. /\ DOMAIN applied' = Server /\ \A t \in Server \ {s} : applied'[t] = applied[t]
      /\ applied'[s] = (IF asked[c].call \in Push THEN applied[s] \cup {NextCall(c)} ELSE applied[s])
  BY <1>1 DEF Served
<1>8. LogOK' /\ KeysGrow
  BY ONLY <1>1, <1>2 DEF LogOK, KeysGrow
<1>9. LogGrows
  <2>1. \A d \in Client : asked'[d].call = asked[d].call
    BY ONLY <1>4
  <2>. QED
    BY <1>1, <1>2, <2>1, LogFacts DEF LogGrows
<1>. QED
  BY ONLY <1>2, <1>4, <1>5, <1>6, <1>7, <1>8, <1>9

(* What a push slice is.                                                     *)
LEMMA PushSlice ==
  ASSUME Inv, NEW c \in Client, NEW s \in DOMAIN asked[c].todo, asked[c].call \in Push, NEW x, x = asked[c].call,
         NEW q, q = asked[c].todo[s].q, NEW m, m = x.matrix
  PROVE  /\ m \in Matrix /\ s \in Server /\ q.op = x.op /\ q.op \in {"PushAll", "PushRow"} /\ q.vals \in Seq(Int)
         /\ x.op = "PushAll" => /\ m \in DOMAIN client[c].keys /\ s \in 0 .. RealSize(m) - 1
                                /\ q.key = PartKey(client[c], m, s) /\ q.meta = PartMeta(m, s)
                                /\ q.vals = PartVals(x, s) /\ Len(q.vals) = PartSize(m, s)
         /\ x.op = "PushRow" => x.row \in Rows(m) /\ q.vals = x.vals /\ q.row = x.row /\ Len(q.vals) = ElePerRow(m)
<1>1. Busy(c) /\ x \in Calls
  BY PushIsCall
<1>2. SlicesOK(client[c], x, asked[c].todo)
  BY <1>1 DEF Inv, AskedOK
<1>3. s \in Server /\ SliceOK(client[c], x, s, asked[c].todo[s])
  BY <1>2 DEF SlicesOK
<1>4. m \in Matrix /\ x.op \in {"PushAll", "PushRow"} /\ x.vals \in Seq(Int)
  BY <1>1, MatrixAssumption DEF Push
<1>5. CASE x.op = "PushAll"
  <2>1. /\ m \in DOMAIN client[c].keys /\ s \in 0 .. RealSize(m) - 1
        /\ q = [op |-> "PushAll", key |-> PartKey(client[c], m, s), meta |-> PartMeta(m, s), vals |-> PartVals(x, s)]
    BY <1>3, <1>5 DEF SliceOK
  <2>2. Len(x.vals) = ElePerRow(m) * ElePerCol(m)
    BY <1>1, <1>5, MatrixAssumption
  <2>3. PICK v : v = SubSeq(x.vals, Before(m, s) * ElePerRow(m) + 1, Before(m, s) * ElePerRow(m) + RowNum(m, s) * ElePerRow(m))
    OBVIOUS
  <2>4. v \in Seq(Int) /\ Len(v) = PartSize(m, s)
    BY ONLY <1>4, <2>1, <2>2, <2>3, PartFits
  <2>5. PartVals(x, s) = v
    BY <2>3 DEF PartVals
  <2>. QED
    BY ONLY <1>3, <1>4, <1>5, <2>1, <2>4, <2>5
<1>6. CASE x.op = "PushRow"
  <2>1. q.op = "PushRow" /\ q.row = x.row /\ q.vals = x.vals
    BY <1>3, <1>6 DEF SliceOK
  <2>2. x.row \in Rows(m) /\ Len(x.vals) = ElePerRow(m)
    BY <1>1, <1>6, MatrixAssumption
  <2>. QED
    BY <1>3, <1>4, <1>6, <2>1, <2>2
<1>. QED
  BY <1>4, <1>5, <1>6

(* Serving a slice keeps the invariant.                                      *)
LEMMA ServedKeeps ==
  ASSUME Inv, NEW c \in Client, NEW s \in Server, Busy(c), s \in DOMAIN asked[c].todo,
         Served(s, c, asked[c].call, asked[c].todo[s])
  PROVE  Inv'
<1>1. PICK x, sl : x = asked[c].call /\ sl = asked[c].todo[s]
  OBVIOUS
<1>2. /\ client' = client /\ log' = log /\ ended' = ended
      /\ \A d \in Client \ {c} : asked'[d] = asked[d]
      /\ DOMAIN asked' = Client /\ DOMAIN store' = Server /\ DOMAIN applied' = Server
      /\ DOMAIN asked'[c] = DOMAIN asked[c] /\ asked'[c].call = x
      /\ DOMAIN asked'[c].todo = DOMAIN asked[c].todo \ {s}
      /\ \A t \in DOMAIN asked[c].todo \ {s} : asked'[c].todo[t] = asked[c].todo[t]
      /\ \A t \in Server \ {s} : store'[t] = store[t]
      /\ store'[s] = (IF x \in Push THEN Pushed(store[s], sl.q) ELSE store[s])
      /\ LogOK' /\ LogGrows /\ KeysGrow
  BY <1>1, ServedChanges DEF Inv
<1>3. Shapes'
  BY <1>2 DEF Inv, Shapes
<1>4. x \in Push => ~ PushFails(store[s], sl.q)
  BY <1>1 DEF Served
<1>4a. ASSUME x \in Push
       PROVE  /\ sl.q.op = x.op /\ sl.q.op \in {"PushAll", "PushRow"} /\ sl.q.vals \in Seq(Int)
              /\ DOMAIN store'[s] = DOMAIN store[s] \cup {sl.q.key}
              /\ \A j \in DOMAIN store[s] \ {sl.q.key} : store'[s][j] = store[s][j]
              /\ ~ Held(store[s], sl.q.key) =>
                   sl.q.op = "PushAll" /\ store'[s][sl.q.key] = [meta |-> sl.q.meta, vals |-> sl.q.vals]
              /\ \A m, u : Held(store[s], sl.q.key) /\ PartOK(store[s][sl.q.key], m, u) => PartOK(store'[s][sl.q.key], m, u)
  <2>1. PICK q, st, w : q = sl.q /\ st = store[s] /\ w = Pushed(st, q)
    OBVIOUS
  <2>2. q.op = x.op /\ q.op \in {"PushAll", "PushRow"} /\ q.vals \in Seq(Int)
    BY <1>1, <1>4a, <2>1, PushSlice
  <2>2a. q.op \in {"PushAll", "PushRow"} /\ q.vals \in Seq(Int) /\ ~ PushFails(st, q)
    BY ONLY <1>4, <1>4a, <2>1, <2>2
  <2>3. store'[s] = w
    BY ONLY <1>2, <1>4a, <2>1
  <2>4. IsPushed(st, q, Pushed(st, q))
    BY ONLY <2>2a, PushedIs
  <2>. QED
    BY ONLY <2>1, <2>2, <2>3, <2>4 DEF IsPushed
<1>5. ASSUME NEW t \in Server, NEW k, Held(store[t], k)
      PROVE  /\ Held(store'[t], k)
             /\ \A m, u : PartOK(store[t][k], m, u) => PartOK(store'[t][k], m, u)
  <2>1. CASE t # s \/ x \notin Push
    BY <1>2, <1>5, <2>1
  <2>2. CASE t = s /\ x \in Push
    BY ONLY <1>4a, <1>5, <2>2 DEF Held
  <2>. QED
    BY <2>1, <2>2
<1>6. StoreOK'
  <2>1. ASSUME NEW t \in Server, NEW k \in DOMAIN store'[t]
        PROVE  \E d \in Client : \E m \in DOMAIN client[d].keys :
                 t < RealSize(m) /\ k = PartKey(client[d], m, t) /\ PartOK(store'[t][k], m, t)
    <3>1. CASE Held(store[t], k)
      <4>1. PICK d \in Client : \E m \in DOMAIN client[d].keys :
              t < RealSize(m) /\ k = PartKey(client[d], m, t) /\ PartOK(store[t][k], m, t)
        BY <3>1 DEF Inv, StoreOK, Held
      <4>2. PICK m \in DOMAIN client[d].keys :
              t < RealSize(m) /\ k = PartKey(client[d], m, t) /\ PartOK(store[t][k], m, t)
        BY <4>1
      <4>3. PartOK(store'[t][k], m, t)
        BY <1>5, <3>1, <4>2
      <4>. QED
        BY ONLY <4>2, <4>3
    <3>2. CASE ~ Held(store[t], k)
      <4>1. t = s /\ x \in Push
        BY <1>2, <2>1, <3>2 DEF Held
      <4>2. k = sl.q.key
        BY ONLY <1>4a, <2>1, <3>2, <4>1 DEF Held
      <4>3. sl.q.op = "PushAll" /\ sl.q.op = x.op /\ sl.q.vals \in Seq(Int) /\ store'[s][k] = [meta |-> sl.q.meta, vals |-> sl.q.vals]
        BY ONLY <1>4a, <3>2, <4>1, <4>2
      <4>4. PICK m : m = x.matrix
        OBVIOUS
      <4>5. /\ m \in DOMAIN client[c].keys /\ s \in 0 .. RealSize(m) - 1 /\ m \in Matrix
            /\ k = PartKey(client[c], m, s) /\ sl.q.meta = PartMeta(m, s) /\ Len(sl.q.vals) = PartSize(m, s)
        BY <1>1, <4>1, <4>2, <4>3, <4>4, PushSlice
      <4>6. PartOK(store'[s][k], m, s)
        BY ONLY <4>3, <4>5 DEF PartOK
      <4>7. s < RealSize(m)
        BY <4>5, FirstServers
      <4>. QED
        BY ONLY <4>1, <4>5, <4>6, <4>7, c \in Client
    <3>. QED
      BY <3>1, <3>2
  <2>. QED
    BY <1>2, <2>1 DEF StoreOK, PartKey
<1>7. PartsHeld'
  <2>1. ASSUME NEW d \in Client, NEW m \in DOMAIN client[d].keys, NEW t \in 0 .. RealSize(m) - 1
        PROVE  Held(store'[t], PartKey(client[d], m, t)) \/ Coming(d, m, t)'
    <3>1. t \in Server
      BY <2>1, Numbers DEF Inv, Shapes
    <3>2. CASE Held(store[t], PartKey(client[d], m, t))
      BY <1>5, <3>1, <3>2
    <3>3. CASE Coming(d, m, t) /\ ~ (d = c /\ t = s)
      <4>1. CASE d # c
        <5>1. asked'[d] = asked[d]
          BY <1>2, <4>1
        <5>. QED
          BY ONLY <3>3, <5>1 DEF Coming
      <4>2. CASE d = c
        <5>1. asked'[d].call = asked[d].call /\ t \in DOMAIN asked'[d].todo
          BY <1>1, <1>2, <3>3, <4>2 DEF Coming
        <5>. QED
          BY ONLY <3>3, <5>1 DEF Coming
      <4>. QED
        BY <4>1, <4>2
    <3>4. CASE Coming(d, m, t) /\ d = c /\ t = s
      <4>1. x \in Push /\ x.op = "PushAll" /\ x.matrix = m
        BY <1>1, <3>4 DEF Coming
      <4>2. sl.q.op \in {"PushAll", "PushRow"} /\ sl.q.vals \in Seq(Int) /\ sl.q.key = PartKey(client[c], m, s)
        BY <1>1, <4>1, PushSlice
      <4>3. DOMAIN store'[s] = DOMAIN store[s] \cup {sl.q.key}
        BY ONLY <1>4a, <4>1
      <4>. QED
        BY ONLY <3>4, <4>2, <4>3 DEF Held
    <3>. QED
      BY <2>1, <3>2, <3>3, <3>4 DEF Inv, PartsHeld
  <2>. QED
    BY <1>2, <2>1 DEF PartsHeld, PartKey
<1>8. LogKnown'
  BY <1>2 DEF Inv, LogKnown
<1>9. Caused'
  BY <1>2, CausedStays DEF Inv, Shapes
<1>10. ASSUME NEW d \in Client PROVE (AskedOK(d) /\ EndedOK(d))'
  <2>1. CASE d # c
    BY <1>2, <1>10, <2>1 DEF Inv, AskedOK, EndedOK, Busy
  <2>2. CASE d = c
    <3>1. AskedOK(c) /\ EndedOK(c)
      BY DEF Inv
    <3>2. SlicesOK(client[c], x, asked'[c].todo)
      <4>1. SlicesOK(client[c], x, asked[c].todo)
        BY <1>1, <3>1 DEF AskedOK
      <4>. QED
        BY ONLY <1>2, <4>1 DEF SlicesOK
    <3>3. AskedOK(c)'
      BY <1>1, <1>2, <3>1, <3>2 DEF AskedOK, Busy
    <3>4. ~ client[c].ended
      BY <3>1 DEF EndedOK
    <3>5. EndedOK(c)'
      BY <1>2, <3>4 DEF EndedOK
    <3>. QED
      BY <2>2, <3>3, <3>5
  <2>. QED
    BY <2>1, <2>2
<1>. QED
  BY <1>3, <1>6, <1>7, <1>8, <1>9, <1>10 DEF Inv

(* A server that a CHECK ends keeps it: the slice that failed is the cause.  *)
LEMMA StopsKeeps ==
  ASSUME Inv, NEW c \in Client, NEW s \in Server, Busy(c), s \in DOMAIN asked[c].todo,
         Stops(s, c, asked[c].call, asked[c].todo[s])
  PROVE  Inv'
<1>1. UNCHANGED <<asked, store, applied, client, log>> /\ ended' = ended \cup {s}
  BY DEF Stops
<1>2. LogOK /\ LogOK' /\ LogGrows /\ KeysGrow
  BY <1>1, LogFacts DEF Inv, Shapes, LogOK, LogGrows, KeysGrow
<1>3. Shapes'
  BY <1>1 DEF Inv, Shapes, LogOK
<1>4. StoreOK' /\ PartsHeld' /\ LogKnown'
  BY <1>1 DEF Inv, StoreOK, PartKey, PartsHeld, Coming, LogKnown
<1>5. \A d \in Client : (AskedOK(d) /\ EndedOK(d))'
  BY <1>1 DEF Inv, AskedOK, EndedOK, Busy
<1>6. ASSUME ClientsAgree' PROVE \E p \in Begun' : Several(p)'
  <2>1. ClientsAgree
    BY <1>2, <1>6, AgreedBefore
  <2>2. PICK p \in Begun : Several(p)
    BY <2>1, FailHasCause DEF Stops
  <2>3. p \in Begun' /\ CallOf(p)' = CallOf(p)
    BY <1>2, BegunStays
  <2>4. Several(p)'
    BY ONLY <1>1, <2>2, <2>3 DEF Several
  <2>. QED
    BY <2>3, <2>4
<1>. QED
  BY <1>3, <1>4, <1>5, <1>6 DEF Inv, Caused

----------------------------------------------------------------------------
(* A call returns, or a CHECK ends the client.                               *)

\* The call c returns with the vectors of cl
Returns(c, cl) ==
  /\ client' = [client EXCEPT ![c] = cl]
  /\ asked' = [asked EXCEPT ![c] = Idle]
  /\ log' = [log EXCEPT ![c] = Append(@,
       [call |-> asked[c].call, before |-> asked[c].before, begun |-> Begun, vals |-> cl.vals, lens |-> cl.lens])]
  /\ UNCHANGED <<store, ended, applied>>

\* The callback changes nothing but the vectors
Kept(cl, d) ==
  ClientOK(d) /\ d.keys = cl.keys /\ d.rowPS = cl.rowPS /\ d.ended = cl.ended

(* A pull sets them to the responses, or to their sum.                       *)
LEMMA FilledIs ==
  ASSUME NEW cl, ClientOK(cl), NEW x \in Pull, NEW got
  PROVE  /\ Kept(cl, Filled(cl, x, got))
         /\ Filled(cl, x, got).vals = (IF x.op \in {"PullAll", "GetRow"} THEN Merged(got) ELSE <<Total(Merged(got))>>)
<1>0. PICK d : d = Filled(cl, x, got)
  OBVIOUS
<1>1. x.op \in {"PullAll", "GetRow", "RowSum", "ColDot"} /\ DOMAIN cl = Fields
  BY MatrixAssumption DEF Pull, Push, ClientOK
<1>3. \E u, w : /\ d = [cl EXCEPT !.vals = u, !.lens = w]
                /\ u = (IF x.op \in {"PullAll", "GetRow"} THEN Merged(got) ELSE <<Total(Merged(got))>>)
  BY <1>0, <1>1 DEF Filled
<1>4. PICK u, w : /\ d = [cl EXCEPT !.vals = u, !.lens = w]
                  /\ u = (IF x.op \in {"PullAll", "GetRow"} THEN Merged(got) ELSE <<Total(Merged(got))>>)
  BY <1>3
<1>5. /\ DOMAIN d = Fields /\ d.globalId = cl.globalId /\ d.keys = cl.keys /\ d.rowKeys = cl.rowKeys
      /\ d.toPS = cl.toPS /\ d.rowPS = cl.rowPS /\ d.ended = cl.ended /\ d.vals = u
  BY ONLY <1>1, <1>4 DEF Fields
<1>6. ClientOK(d)
  BY ONLY <1>5, ClientOK(cl) DEF ClientOK, NumberOf
<1>. QED
  BY ONLY <1>0, <1>4, <1>5, <1>6 DEF Kept

\* A CHECK of the callback ends the client
Unfit(c) ==
  /\ client' = [client EXCEPT ![c].ended = TRUE] /\ UNCHANGED <<asked, log, store, ended, applied>>
  /\ asked[c].call \in Pull /\ client[c].vals # <<>>
  /\ Len(client[c].vals) # Len(Filled(client[c], asked[c].call, asked[c].got).vals)

(* Return is one of the two.                                                 *)
LEMMA ReturnIs ==
  ASSUME Inv, NEW c \in Client, Return(c)
  PROVE  /\ Busy(c) /\ asked[c].todo = <<>>
         /\ Unfit(c) \/ (~ client[c].ended /\ \E cl : Returns(c, cl) /\ Kept(client[c], cl))
<1>1. Busy(c) /\ asked[c].todo = <<>> /\ UNCHANGED <<store, ended, applied>>
  BY DEF Return
<1>2. PICK x, cl : x = asked[c].call /\ cl = (IF x \in Pull THEN Filled(client[c], x, asked[c].got) ELSE client[c])
  OBVIOUS
<1>3. x \in Calls /\ (x \notin Pull => x \in Push) /\ (x \in Pull => x \notin Push)
  BY <1>1, <1>2 DEF Inv, AskedOK, Busy, Pull
<1>4. ClientOK(client[c])
  BY DEF Inv, Shapes
<1>5. Kept(client[c], cl)
  <2>1. CASE x \in Pull
    <3>1. PICK got : got = asked[c].got
      OBVIOUS
    <3>2. cl = Filled(client[c], x, got)
      BY ONLY <1>2, <2>1, <3>1
    <3>3. PICK old : old = client[c]
      OBVIOUS
    <3>4. ClientOK(old) /\ cl = Filled(old, x, got)
      BY ONLY <1>4, <3>2, <3>3
    <3>5. Kept(old, cl)
      BY ONLY <2>1, <3>4, FilledIs
    <3>. QED
      BY ONLY <3>3, <3>5
  <2>2. CASE x \notin Pull
    BY ONLY <1>2, <1>4, <2>2 DEF Kept
  <2>. QED
    BY <2>1, <2>2
<1>6. LET fits == x \in Push \/ client[c].vals = <<>> \/ Len(client[c].vals) = Len(cl.vals)
      IN  IF ~ fits
          THEN client' = [client EXCEPT ![c].ended = TRUE] /\ UNCHANGED <<asked, log>>
          ELSE Returns(c, cl)
  BY ONLY <1>1, <1>2, Return(c) DEF Return, Returns
<1>7. PICK old : old = client[c]
  OBVIOUS
<1>1a. Busy(c) /\ asked[c].todo = <<>>
  BY ONLY <1>1
<1>8. CASE ~ (x \in Push \/ old.vals = <<>> \/ Len(old.vals) = Len(cl.vals))
  <2>1. client' = [client EXCEPT ![c].ended = TRUE] /\ UNCHANGED <<asked, log>>
    BY ONLY <1>6, <1>7, <1>8
  <2>2. x \in Pull /\ cl = Filled(client[c], x, asked[c].got)
    BY ONLY <1>2, <1>3, <1>8
  <2>. QED
    <3>1. client[c].vals # <<>> /\ Len(client[c].vals) # Len(cl.vals)
      BY ONLY <1>7, <1>8
    <3>2. /\ asked[c].call \in Pull
          /\ Len(client[c].vals) # Len(Filled(client[c], asked[c].call, asked[c].got).vals)
      BY ONLY <1>2, <2>2, <3>1
    <3>3. UNCHANGED <<asked, log, store, ended, applied>>
      BY ONLY <1>1, <2>1
    <3>4. Unfit(c)
      BY ONLY <2>1, <3>1, <3>2, <3>3 DEF Unfit
    <3>. QED
      BY ONLY <1>1a, <3>4
<1>9. CASE x \in Push \/ old.vals = <<>> \/ Len(old.vals) = Len(cl.vals)
  <2>1. Returns(c, cl)
    BY ONLY <1>6, <1>7, <1>9
  <2>2. ~ client[c].ended
    <3>1. ASSUME client[c].ended PROVE FALSE
      <4>1. /\ x \in Pull /\ client[c].vals # <<>>
            /\ Len(client[c].vals) # Len(Filled(client[c], x, asked[c].got).vals)
        BY <1>2, <3>1 DEF Inv, EndedOK
      <4>2. x \notin Push /\ cl = Filled(client[c], x, asked[c].got)
        BY ONLY <1>2, <1>3, <4>1
      <4>. QED
        BY ONLY <1>7, <1>9, <4>1, <4>2
    <3>. QED
      BY <3>1
  <2>. QED
    BY ONLY <1>1a, <1>5, <2>1, <2>2
<1>. QED
  BY <1>8, <1>9

(* What a return changes.                                                    *)
LEMMA ReturnsChanges ==
  ASSUME Inv, NEW c \in Client, Busy(c), NEW cl, Kept(client[c], cl), Returns(c, cl)
  PROVE  /\ client'[c] = cl /\ \A d \in Client \ {c} : client'[d] = client[d] /\ asked'[d] = asked[d] /\ log'[d] = log[d]
         /\ DOMAIN client' = Client /\ DOMAIN asked' = Client /\ asked'[c] = Idle
         /\ store' = store /\ ended' = ended /\ applied' = applied
         /\ Len(log'[c]) = Len(log[c]) + 1 /\ DOMAIN log'[c] = 1 .. Len(log[c]) + 1
         /\ \A i \in DOMAIN log[c] : log'[c][i] = log[c][i]
         /\ log'[c][Len(log[c]) + 1].call = asked[c].call
         /\ LogOK' /\ LogGrows /\ KeysGrow
<1>1. DOMAIN client = Client /\ DOMAIN asked = Client /\ LogOK /\ DOMAIN log = Client
  BY DEF Inv, Shapes, LogOK
<1>2. PICK r : /\ log' = [log EXCEPT ![c] = Append(@, r)] /\ r.call = asked[c].call
               /\ client' = [client EXCEPT ![c] = cl] /\ asked' = [asked EXCEPT ![c] = Idle]
               /\ store' = store /\ ended' = ended /\ applied' = applied
  BY DEF Returns
<1>3. /\ client'[c] = cl /\ \A d \in Client \ {c} : client'[d] = client[d] /\ asked'[d] = asked[d] /\ log'[d] = log[d]
      /\ DOMAIN client' = Client /\ DOMAIN asked' = Client /\ asked'[c] = Idle /\ DOMAIN log' = Client
      /\ log'[c] = Append(log[c], r)
  BY ONLY <1>1, <1>2
<1>4. PICK T : log[c] \in Seq(T)
  BY DEF Inv, Shapes, LogOK
<1>5. /\ Len(log'[c]) = Len(log[c]) + 1 /\ DOMAIN log'[c] = 1 .. Len(log[c]) + 1 /\ log'[c] \in Seq(T \cup {r})
      /\ \A i \in DOMAIN log[c] : log'[c][i] = log[c][i]
      /\ log'[c][Len(log[c]) + 1] = r
  <2>1. log[c] \in Seq(T \cup {r})
    BY ONLY <1>4
  <2>. QED
    BY ONLY <1>3, <2>1
<1>6. LogOK'
  BY ONLY <1>1, <1>3, <1>5 DEF LogOK
<1>7. KeysGrow
  BY ONLY <1>3, Kept(client[c], cl) DEF KeysGrow, Kept
<1>8. LogGrows
  <2>1. \A d \in Client : Len(log[d]) \in Nat
    BY <1>1, LogFacts
  <2>. QED
    BY ONLY <1>2, <1>3, <1>5, <2>1 DEF LogGrows
<1>. QED
  BY ONLY <1>2, <1>3, <1>5, <1>6, <1>7, <1>8

(* A client that waits for nothing.                                          *)
LEMMA IdleIs == Idle.call = None /\ Idle.todo = <<>> /\ DOMAIN Idle = {"call", "todo", "got", "before"}
  BY DEF Idle

(* A return keeps the invariant.                                             *)
LEMMA ReturnsKeeps ==
  ASSUME Inv, NEW c \in Client, Busy(c), asked[c].todo = <<>>, ~ client[c].ended,
         NEW cl, Kept(client[c], cl), Returns(c, cl)
  PROVE  Inv'
<1>1. /\ client'[c] = cl /\ \A d \in Client \ {c} : client'[d] = client[d] /\ asked'[d] = asked[d] /\ log'[d] = log[d]
      /\ DOMAIN client' = Client /\ DOMAIN asked' = Client /\ asked'[c] = Idle
      /\ store' = store /\ ended' = ended /\ applied' = applied
      /\ DOMAIN log'[c] = 1 .. Len(log[c]) + 1
      /\ \A i \in DOMAIN log[c] : log'[c][i] = log[c][i]
      /\ log'[c][Len(log[c]) + 1].call = asked[c].call
      /\ LogOK' /\ LogGrows /\ KeysGrow
  BY ReturnsChanges
<1>0. ClientOK(cl) /\ cl.keys = client[c].keys /\ cl.rowPS = client[c].rowPS /\ cl.ended = client[c].ended
  BY DEF Kept
<1>2. \A d \in Client : client'[d].keys = client[d].keys /\ client'[d].rowPS = client[d].rowPS
  BY <1>0, <1>1
<1>3. Shapes'
  BY <1>0, <1>1, IdleIs DEF Inv, Shapes
<1>4. StoreOK'
  BY <1>1, <1>2 DEF Inv, StoreOK, PartKey
<1>5. PartsHeld'
  <2>1. ASSUME NEW d \in Client, NEW m \in DOMAIN client[d].keys, NEW s \in 0 .. RealSize(m) - 1
        PROVE  Held(store[s], PartKey(client[d], m, s)) \/ Coming(d, m, s)'
    <3>1. CASE d # c
      BY <1>1, <2>1, <3>1 DEF Inv, PartsHeld, Coming
    <3>2. CASE d = c
      <4>1. ~ Coming(c, m, s)
        BY DEF Coming
      <4>. QED
        BY <2>1, <3>2, <4>1 DEF Inv, PartsHeld
    <3>. QED
      BY <3>1, <3>2
  <2>. QED
    BY <1>1, <1>2, <2>1 DEF PartsHeld, PartKey
<1>6. LogKnown'
  <2>1. ASSUME NEW d \in Client, NEW i \in DOMAIN log'[d]
        PROVE  /\ log'[d][i].call \in Calls
               /\ log'[d][i].call.op = "PushAll" => log'[d][i].call.matrix \in DOMAIN client[d].keys
    <3>1. CASE d # c \/ i \in DOMAIN log[c]
      <4>1. i \in DOMAIN log[d] /\ log'[d][i] = log[d][i]
        BY <1>1, <2>1, <3>1
      <4>2. LogKnown
        BY DEF Inv
      <4>. QED
        BY ONLY <4>1, <4>2, d \in Client DEF LogKnown
    <3>2. CASE d = c /\ i \notin DOMAIN log[c]
      <4>1. Len(log[c]) \in Nat /\ DOMAIN log[c] = 1 .. Len(log[c])
        BY LogFacts DEF Inv, Shapes
      <4>2. i = Len(log[c]) + 1
        BY ONLY <1>1, <2>1, <3>2, <4>1
      <4>3. log'[c][i].call = asked[c].call
        BY ONLY <1>1, <4>2
      <4>4. asked[c].call \in Calls /\ (asked[c].call.op = "PushAll" => asked[c].call.matrix \in DOMAIN client[c].keys)
        BY DEF Inv, AskedOK, Busy
      <4>. QED
        BY ONLY <3>2, <4>3, <4>4
    <3>. QED
      BY <3>1, <3>2
  <2>. QED
    BY <1>2, <2>1 DEF LogKnown
<1>7. Caused'
  BY <1>1, <1>2, CausedStays DEF Inv, Shapes
<1>8. ASSUME NEW d \in Client PROVE (AskedOK(d) /\ EndedOK(d))'
  <2>1. CASE d # c
    BY <1>1, <1>8, <2>1 DEF Inv, AskedOK, EndedOK, Busy
  <2>2. CASE d = c
    BY <1>0, <1>1, <2>2, IdleIs DEF AskedOK, EndedOK, Busy
  <2>. QED
    BY <2>1, <2>2
<1>. QED
  BY <1>3, <1>4, <1>5, <1>6, <1>7, <1>8 DEF Inv

(* A client that a CHECK ends keeps it.                                      *)
LEMMA UnfitKeeps ==
  ASSUME Inv, NEW c \in Client, Busy(c), asked[c].todo = <<>>, Unfit(c)
  PROVE  Inv'
<1>1. UNCHANGED <<asked, log, store, ended, applied>> /\ client' = [client EXCEPT ![c].ended = TRUE]
  BY DEF Unfit
<1>2. DOMAIN client = Client /\ ClientOK(client[c]) /\ LogOK /\ AskedOK(c)
  BY DEF Inv, Shapes
<1>3. /\ DOMAIN client' = Client /\ \A d \in Client \ {c} : client'[d] = client[d]
      /\ client'[c] = [client[c] EXCEPT !.ended = TRUE]
  BY ONLY <1>1, <1>2
<1>4. DOMAIN client[c] = Fields
  BY <1>2 DEF ClientOK
<1>5. /\ DOMAIN client'[c] = Fields /\ client'[c].globalId = client[c].globalId /\ client'[c].keys = client[c].keys
      /\ client'[c].rowKeys = client[c].rowKeys /\ client'[c].toPS = client[c].toPS
      /\ client'[c].rowPS = client[c].rowPS /\ client'[c].vals = client[c].vals
  BY ONLY <1>3, <1>4 DEF Fields
<1>6. \A d \in Client : client'[d].keys = client[d].keys /\ client'[d].rowPS = client[d].rowPS
  BY <1>3, <1>5
<1>7. ClientOK(client'[c])
  BY ONLY <1>2, <1>5 DEF ClientOK, NumberOf
<1>8. LogOK' /\ LogGrows /\ KeysGrow
  BY <1>1, <1>2, <1>6, LogFacts DEF LogOK, LogGrows, KeysGrow
<1>9. Shapes'
  BY <1>1, <1>3, <1>7, <1>8 DEF Inv, Shapes
<1>10. StoreOK' /\ PartsHeld' /\ LogKnown'
  BY <1>1, <1>6 DEF Inv, StoreOK, PartKey, PartsHeld, Coming, LogKnown
<1>11. Caused'
  BY <1>1, <1>6, <1>8, <1>2, CausedStays DEF Inv
<1>12. ASSUME NEW d \in Client PROVE (AskedOK(d) /\ EndedOK(d))'
  <2>1. CASE d # c
    BY <1>1, <1>3, <1>12, <2>1 DEF Inv, AskedOK, EndedOK, Busy
  <2>2. CASE d = c
    <3>1. SlicesOK(client'[c], asked[c].call, asked[c].todo)
      BY <1>2, <1>5 DEF AskedOK, SlicesOK, SliceOK, PartKey
    <3>2. AskedOK(c)'
      BY <1>1, <1>2, <1>5, <3>1 DEF AskedOK, Busy
    <3>3. ~ asked[c].call.fresh
      BY <1>2 DEF Unfit, AskedOK
    <3>4. Filled(client'[c], asked[c].call, asked[c].got).vals = Filled(client[c], asked[c].call, asked[c].got).vals
      <4>1. PICK x, got : x = asked[c].call /\ got = asked[c].got /\ x \in Pull
        BY DEF Unfit
      <4>2. PICK v : v = (IF x.op \in {"PullAll", "GetRow"} THEN Merged(got) ELSE <<Total(Merged(got))>>)
        OBVIOUS
      <4>3. PICK cl, d2 : cl = client[c] /\ d2 = client'[c]
        OBVIOUS
      <4>4. Filled(cl, x, got).vals = v
        BY ONLY <1>2, <4>1, <4>2, <4>3, FilledIs
      <4>5. Filled(d2, x, got).vals = v
        BY ONLY <1>7, <4>1, <4>2, <4>3, FilledIs
      <4>. QED
        BY ONLY <4>1, <4>3, <4>4, <4>5
    <3>5. EndedOK(c)'
      BY <1>1, <1>5, <3>3, <3>4 DEF EndedOK, Unfit, Busy
    <3>. QED
      BY <2>2, <3>2, <3>5
  <2>. QED
    BY <2>1, <2>2
<1>. QED
  BY <1>9, <1>10, <1>11, <1>12 DEF Inv

----------------------------------------------------------------------------
(* Every reachable state.                                                    *)

(* It holds at first.                                                        *)
LEMMA InvInit == Init => Inv
<1> SUFFICES ASSUME Init PROVE Inv
  OBVIOUS
<1>1. PICK new : new = [globalId |-> 0, keys |-> <<>>, rowKeys |-> <<>>, toPS |-> <<>>,
                        rowPS |-> <<>>, vals |-> <<>>, lens |-> <<>>, ended |-> FALSE]
  OBVIOUS
<1>2. client = [c \in Client |-> new]
  BY <1>1 DEF Init
<1>3. DOMAIN <<>> = {} /\ Cardinality({}) = 0
  BY FS_EmptySet
<1>4. DOMAIN new.keys = {} /\ new.globalId = 0 /\ ~ new.ended
  BY <1>1, <1>3
<1>5. ClientOK(new)
  <2>1. DOMAIN new = Fields /\ DOMAIN new.rowKeys = {} /\ DOMAIN new.toPS = {} /\ DOMAIN new.rowPS = {}
    BY ONLY <1>1, <1>3 DEF Fields
  <2>. QED
    BY ONLY <1>3, <1>4, <2>1 DEF ClientOK
<1>6. LogOK
  BY DEF Init, LogOK
<1>7. Shapes
  BY <1>2, <1>5, <1>6, IdleIs DEF Init, Shapes
<1>8. StoreOK /\ PartsHeld /\ LogKnown /\ Caused
  BY <1>2, <1>3, <1>4 DEF Init, StoreOK, PartsHeld, LogKnown, Caused
<1>9. \A c \in Client : AskedOK(c) /\ EndedOK(c)
  BY <1>2, <1>4, IdleIs DEF Init, AskedOK, EndedOK, Busy
<1>. QED
  BY <1>7, <1>8, <1>9 DEF Inv

(* Nothing happens.                                                          *)
LEMMA InvStays == Inv /\ UNCHANGED vars => Inv'
<1> SUFFICES ASSUME Inv, UNCHANGED vars PROVE Inv'
  OBVIOUS
<1>1. UNCHANGED <<client, asked, store, ended, applied, log>>
  BY DEF vars
<1>2. LogOK /\ LogOK' /\ LogGrows /\ KeysGrow
  BY <1>1, LogFacts DEF Inv, Shapes, LogOK, LogGrows, KeysGrow
<1>3. Caused'
  BY <1>1, <1>2, CausedStays DEF Inv
<1>4. Shapes' /\ StoreOK' /\ PartsHeld' /\ LogKnown'
  BY <1>1, <1>2 DEF Inv, Shapes, StoreOK, PartKey, PartsHeld, Coming, LogKnown
<1>5. \A d \in Client : (AskedOK(d) /\ EndedOK(d))'
  BY <1>1 DEF Inv, AskedOK, EndedOK, Busy
<1>. QED
  BY <1>3, <1>4, <1>5 DEF Inv

(* Every step keeps it.                                                      *)
LEMMA InvNext == Inv /\ [Next]_vars => Inv'
<1> SUFFICES ASSUME Inv, [Next]_vars PROVE Inv'
  OBVIOUS
<1>1. CASE UNCHANGED vars
  BY <1>1, InvStays
<1>2. ASSUME NEW c \in Client, PushAll(c) \/ PushRow(c) \/ PullMatrix(c) PROVE Inv'
  <2>1. \E x, cl, sl : Asks(c, x, cl, sl)
    BY <1>2, PushAllAsks, PushRowAsks, PullAsks DEF Inv
  <2>. QED
    BY <2>1, AskKeeps
<1>3. ASSUME NEW c \in Client, Return(c) PROVE Inv'
  BY <1>3, ReturnIs, ReturnsKeeps, UnfitKeeps
<1>4. ASSUME NEW c \in Client, NEW s \in Server, Serve(s, c) PROVE Inv'
  BY <1>4, ServeIs, ServedKeeps, StopsKeeps
<1>. QED
  BY <1>1, <1>2, <1>3, <1>4 DEF Next

(* What the parts, the keys and the slices under way have to do with each    *)
(* other, in every run of the matrix layer, for any matrices, shapes,        *)
(* clients, servers and calls, and whether or not clients agree on keys.     *)
THEOREM MatrixInvariant == Spec => []Inv
  BY InvInit, InvNext, PTL DEF Spec

(* The keys of a range.                                                      *)
LEMMA KeyRange ==
  ASSUME NEW s \in Server, NEW g \in 0 .. Gap - 1
  PROVE  RangeBegin(s) + g \in RangeBegin(s) .. (RangeEnd(s) - 1) /\ RangeBegin(s) + g \in AllKeys
<1>1. PICK G, n : G = Gap /\ n = NumServers /\ G \in Nat /\ n \in Nat /\ s \in Nat /\ s <= n - 1 /\ g \in Nat /\ g <= G - 1
  BY GapNat
<1>2. RangeBegin(s) = G * s /\ RangeEnd(s) = G * (s + 1) /\ RangeEnd(n - 1) = G * (n - 1 + 1)
  BY <1>1, GapNat
<1>3. G * s \in Nat /\ G * (s + 1) = G * s + G /\ n - 1 + 1 = n /\ G * n \in Nat /\ G * (s + 1) \in Nat
  BY ONLY <1>1
<1>4. (s + 1) * G <= n * G
  BY ONLY <1>1, TimesOrder
<1>5. G * (s + 1) <= G * n
  BY ONLY <1>1, <1>4
<1>6. G * s + g \in (G * s) .. (G * (s + 1) - 1) /\ G * s + g \in 0 .. (G * n - 1)
  BY ONLY <1>1, <1>3, <1>5
<1>. QED
  BY ONLY <1>1, <1>2, <1>3, <1>6 DEF AllKeys

(* What a client knows of a matrix.                                          *)
LEMMA ClientKnows ==
  ASSUME NEW cl, ClientOK(cl), NEW m \in DOMAIN cl.keys, NEW g, g = NumberOf(cl, m)
  PROVE  /\ m \in Matrix /\ g \in 0 .. Gap - 1 /\ cl.keys[m] = MatrixKeys(m, g)
         /\ cl.rowKeys[m] = [r \in Rows(m) |-> RangeBegin(Home(m, r)) + g] /\ cl.rowPS[m] = [r \in Rows(m) |-> Home(m, r)]
         /\ \A i \in 1 .. RealSize(m) : cl.toPS[m][i] = i - 1
<1>1. m \in Matrix /\ g \in 0 .. Gap - 1
  BY Numbers
<1>2. /\ cl.keys[m] = MatrixKeys(m, g)
      /\ cl.rowKeys[m] = [r \in Rows(m) |-> RangeBegin(Home(m, r)) + g] /\ cl.rowPS[m] = [r \in Rows(m) |-> Home(m, r)]
      /\ \A i \in 1 .. RealSize(m) : cl.toPS[m][i] = i - 1
  BY ONLY ClientOK(cl), m \in DOMAIN cl.keys, g = NumberOf(cl, m) DEF ClientOK
<1>. QED
  BY ONLY <1>1, <1>2

(* Type correctness: of the keys and servers that a client knows, and of the *)
(* keys that a server holds.                                                 *)
THEOREM MatrixTypeCorrect == Spec => []TypeOK
<1>1. ASSUME Inv PROVE TypeOK
  <2>1. ASSUME NEW c \in Client PROVE client[c].globalId = Cardinality(DOMAIN client[c].keys)
    BY <1>1 DEF Inv, Shapes, ClientOK
  <2>2. ASSUME NEW c \in Client, NEW m \in DOMAIN client[c].keys
        PROVE  /\ client[c].keys[m] \in [1 .. RealSize(m) -> AllKeys]
               /\ client[c].rowKeys[m] \in [Rows(m) -> AllKeys]
               /\ client[c].rowPS[m] \in [Rows(m) -> Server]
    <3>1. PICK cl, g : cl = client[c] /\ g = NumberOf(cl, m)
      OBVIOUS
    <3>2. ClientOK(cl) /\ m \in DOMAIN cl.keys
      BY <1>1, <3>1 DEF Inv, Shapes
    <3>3. /\ m \in Matrix /\ g \in 0 .. Gap - 1
          /\ cl.keys[m] = MatrixKeys(m, g)
          /\ cl.rowKeys[m] = [r \in Rows(m) |-> RangeBegin(Home(m, r)) + g] /\ cl.rowPS[m] = [r \in Rows(m) |-> Home(m, r)]
      BY ONLY <3>1, <3>2, ClientKnows
    <3>4. ASSUME NEW s \in Server PROVE RangeBegin(s) + g \in AllKeys
      BY <3>3, KeyRange
    <3>5. \A r \in Rows(m) : Home(m, r) \in Server
      BY <3>3, HomeIn
    <3>6. \A i \in 1 .. RealSize(m) : i - 1 \in Server
      <4>1. RealSize(m) \in Nat /\ RealSize(m) <= NumServers /\ NumServers \in Nat
        BY <3>3, FirstServers, GapNat
      <4>. QED
        BY ONLY <4>1 DEF Server
    <3>. QED
      BY ONLY <3>1, <3>3, <3>4, <3>5, <3>6 DEF MatrixKeys
  <2>3. ASSUME NEW c \in Client PROVE DOMAIN asked[c].todo \subseteq Server
    BY <1>1 DEF Inv, AskedOK, SlicesOK
  <2>4. ASSUME NEW s \in Server, NEW k \in DOMAIN store[s] PROVE k \in RangeBegin(s) .. (RangeEnd(s) - 1)
    <3>1. PICK c \in Client : \E m \in DOMAIN client[c].keys : s < RealSize(m) /\ k = PartKey(client[c], m, s)
      BY <1>1 DEF Inv, StoreOK
    <3>2. PICK m \in DOMAIN client[c].keys : s < RealSize(m) /\ k = PartKey(client[c], m, s)
      BY <3>1
    <3>3. PICK cl, g : cl = client[c] /\ g = NumberOf(cl, m)
      OBVIOUS
    <3>4. ClientOK(cl) /\ m \in DOMAIN cl.keys
      BY <1>1, <3>3 DEF Inv, Shapes
    <3>5. m \in Matrix /\ g \in 0 .. Gap - 1 /\ \A u \in 0 .. RealSize(m) - 1 : PartKey(cl, m, u) = RangeBegin(u) + g
      BY <3>3, <3>4, Numbers
    <3>6. s \in 0 .. RealSize(m) - 1
      BY <3>2, <3>5, FirstServers DEF Server
    <3>7. k = RangeBegin(s) + g
      BY ONLY <3>2, <3>3, <3>5, <3>6
    <3>. QED
      BY <3>5, <3>7, KeyRange
  <2>5. ended \subseteq Server
    BY <1>1 DEF Inv, Shapes
  <2>. QED
    BY ONLY <2>1, <2>2, <2>3, <2>4, <2>5 DEF TypeOK
<1>. QED
  BY <1>1, MatrixInvariant, PTL

(* Whoever has pushed a matrix finds each of its rows at the server and the  *)
(* key that its partition names, and each of its parts is sent to the server *)
(* that is to have it, whatever the matrices and the number of servers.      *)
THEOREM MatrixRowsFound == Spec => []RowsFound
<1>1. ASSUME Inv, ClientsAgree, NEW c \in Client, NEW m \in DOMAIN client[c].keys
      PROVE  /\ \A i \in DOMAIN client[c].keys[m] :
                  LET pos == Positions(client[c].keys[m])
                      s == client[c].toPS[m][i]
                  IN  pos[s] < i /\ i <= pos[s + 1]
             /\ (~ Busy(c) \/ asked[c].call \in Pull) => \A r \in Rows(m) :
                  LET s == client[c].rowPS[m][r]
                      key == client[c].rowKeys[m][r]
                  IN  Holds(store[s], key, m) /\ r \in Row(store[s][key])
  <2>1. PICK cl, g : cl = client[c] /\ g = NumberOf(cl, m)
    OBVIOUS
  <2>2. Shapes /\ StoreOK /\ ClientOK(cl) /\ m \in DOMAIN cl.keys
    BY <1>1, <2>1 DEF Inv, Shapes
  <2>3. /\ m \in Matrix /\ g \in 0 .. Gap - 1 /\ cl.keys[m] = MatrixKeys(m, g)
        /\ cl.rowKeys[m] = [r \in Rows(m) |-> RangeBegin(Home(m, r)) + g] /\ cl.rowPS[m] = [r \in Rows(m) |-> Home(m, r)]
        /\ \A i \in 1 .. RealSize(m) : cl.toPS[m][i] = i - 1
    BY ONLY <2>1, <2>2, ClientKnows
  <2>4. ASSUME NEW i \in DOMAIN cl.keys[m]
        PROVE  Positions(cl.keys[m])[cl.toPS[m][i]] < i /\ i <= Positions(cl.keys[m])[cl.toPS[m][i] + 1]
    <3>1. PICK R, ks : R = RealSize(m) /\ ks = MatrixKeys(m, g)
      OBVIOUS
    <3>2. R \in Nat /\ R <= NumServers /\ NumServers \in Nat
      BY <2>3, <3>1, FirstServers, GapNat
    <3>3. i \in 1 .. R
      BY <2>3, <2>4, <3>1 DEF MatrixKeys
    <3>4. cl.toPS[m][i] = i - 1
      BY ONLY <2>3, <3>1, <3>3
    <3>5. \A j \in 0 .. NumServers : Positions(ks)[j] = IF j < R THEN j ELSE R
      BY ONLY <2>3, <3>1, PartSlices
    <3>6. i - 1 \in 0 .. NumServers /\ i \in 0 .. NumServers /\ i - 1 + 1 = i /\ i - 1 < R
      BY ONLY <3>2, <3>3
    <3>7. Positions(ks)[i - 1] = i - 1 /\ Positions(ks)[i] = i
      BY ONLY <3>2, <3>3, <3>5, <3>6
    <3>8. Positions(ks)[i - 1] < i /\ i <= Positions(ks)[i - 1 + 1]
      BY ONLY <3>3, <3>6, <3>7
    <3>. QED
      BY ONLY <2>3, <3>1, <3>4, <3>8
  <2>5. ASSUME ~ Busy(c) \/ asked[c].call \in Pull, NEW r \in Rows(m)
        PROVE  Holds(store[cl.rowPS[m][r]], cl.rowKeys[m][r], m) /\ r \in Row(store[cl.rowPS[m][r]][cl.rowKeys[m][r]])
    <3>1. PICK s, k : s = Home(m, r) /\ k = PartKey(cl, m, s)
      OBVIOUS
    <3>2. s \in 0 .. RealSize(m) - 1 /\ cl.rowPS[m][r] = s /\ cl.rowKeys[m][r] = k /\ s \in Server /\ r \in PartRows(m, s)
      BY <2>2, <2>3, <3>1, RowKeyAt, HomeIn
    <3>3. ~ Coming(c, m, s)
      BY <2>5, PushIsCall DEF Coming, Pull
    <3>4. Held(store[s], PartKey(client[c], m, s))
      BY <1>1, <3>2, <3>3 DEF Inv, PartsHeld
    <3>5. PartOK(store[s][PartKey(client[c], m, s)], m, s)
      BY <1>1, <2>2, <3>2, <3>4, HeldPart
    <3>6. Held(store[s], k) /\ PartOK(store[s][k], m, s)
      BY ONLY <2>1, <3>1, <3>4, <3>5
    <3>7. store[s][k].meta.matrix = m /\ Row(store[s][k]) = PartRows(m, s)
      BY <2>3, <3>2, <3>6, PartShape
    <3>. QED
      BY ONLY <3>2, <3>6, <3>7 DEF Holds
  <2>. QED
    BY ONLY <2>1, <2>4, <2>5
<1>2. Inv => RowsFound
  BY ONLY <1>1 DEF RowsFound
<1>. QED
  BY <1>2, MatrixInvariant, PTL

(* A CHECK ends a server only when clients disagree about keys or push a row *)
(* to a part that has several, and a client only when it gives Pull vectors  *)
(* of another size.                                                          *)
THEOREM MatrixEndsHaveCauses == Spec => []EndsHaveCauses
<1>1. ASSUME Inv PROVE EndsHaveCauses
  <2>1. ended # {} => ~ ClientsAgree \/ \E p \in Begun : Several(p)
    BY <1>1 DEF Inv, Caused
  <2>2. \A c \in Client : client[c].ended => ~ asked[c].call.fresh
    BY <1>1 DEF Inv, EndedOK
  <2>. QED
    BY ONLY <2>1, <2>2 DEF EndsHaveCauses, Several
<1>. QED
  BY <1>1, MatrixInvariant, PTL

----------------------------------------------------------------------------
(* What is read from a part.                                                 *)

\* Where a part has the element of a row and column
Place(p, r, k) == (r - p.meta.startRow) * Width(p) + (k - p.meta.startCol) + 1

(* A row lies within the values of its part.                                 *)
LEMMA RowPlace ==
  ASSUME NEW a \in Int, NEW n \in Nat, NEW w \in Nat, NEW r \in a .. (a + n - 1), NEW z, z = (r - a) * w
  PROVE  z \in Nat /\ z + w <= n * w /\ n * w \in Nat
<1>1. r - a \in Nat /\ r - a + 1 \in Nat /\ r - a + 1 <= n
  OBVIOUS
<1>2. PICK d : d = r - a
  OBVIOUS
<1>3. d \in Nat /\ d + 1 <= n /\ d + 1 \in Nat /\ z = d * w
  BY ONLY <1>1, <1>2, z = (r - a) * w
<1>4. (d + 1) * w <= n * w
  BY ONLY <1>3, n \in Nat, w \in Nat, TimesOrder
<1>5. (d + 1) * w = d * w + w /\ d * w \in Nat /\ n * w \in Nat
  BY ONLY <1>3, n \in Nat, w \in Nat
<1>. QED
  BY ONLY <1>3, <1>4, <1>5

(* So does each element.                                                     *)
LEMMA PlaceIn ==
  ASSUME NEW a \in Int, NEW n \in Nat, NEW w \in Nat, NEW u \in Int,
         NEW r \in a .. (a + n - 1), NEW k \in u .. (u + w - 1), NEW z, z = (r - a) * w
  PROVE  z + (k - u) + 1 \in 1 .. n * w
<1>1. z \in Nat /\ z + w <= n * w /\ n * w \in Nat
  BY RowPlace
<1>2. k - u \in Nat /\ k - u + 1 <= w
  OBVIOUS
<1>3. PICK e, y : e = k - u /\ y = n * w
  OBVIOUS
<1>4. e \in Nat /\ e + 1 <= w /\ y \in Nat /\ z \in Nat /\ z + w <= y
  BY ONLY <1>1, <1>2, <1>3
<1>5. z + e + 1 \in 1 .. y
  BY ONLY <1>4, w \in Nat
<1>. QED
  BY ONLY <1>3, <1>5

(* The bounds of a part.                                                     *)
LEMMA PartBounds ==
  ASSUME NEW m \in Matrix, NEW s \in Server, NEW p, PartOK(p, m, s)
  PROVE  /\ p.meta.startRow \in Int /\ p.meta.startCol \in Int /\ Height(p) \in Nat /\ Width(p) \in Nat
         /\ Row(p) = p.meta.startRow .. (p.meta.startRow + Height(p) - 1)
         /\ Col(p) = p.meta.startCol .. (p.meta.startCol + Width(p) - 1)
         /\ p.vals \in Seq(Int) /\ Len(p.vals) = Height(p) * Width(p)
<1>1. PICK a, b, n, w, u : /\ a = Shape[m].startRow /\ b = Before(m, s) /\ n = RowNum(m, s) /\ w = ElePerRow(m)
                           /\ u = Shape[m].startCol
  OBVIOUS
<1>2. a \in Int /\ b \in Nat /\ n \in Nat /\ w \in Nat /\ u \in Int /\ Shape[m].endCol = u + w
  BY <1>1, Sizes, PartAt
<1>3. /\ p.vals \in Seq(Int) /\ Len(p.vals) = n * w
      /\ Row(p) = PartRows(m, s) /\ Col(p) = Cols(m) /\ Width(p) = w /\ Height(p) = n
      /\ p.meta.startRow = a + b /\ p.meta.startCol = u
  BY <1>1, PartShape DEF PartSize
<1>4. PartRows(m, s) = (a + b) .. (a + b + n - 1) /\ Cols(m) = u .. (u + w - 1)
  BY ONLY <1>1, <1>2 DEF PartRows, Cols
<1>. QED
  BY ONLY <1>2, <1>3, <1>4

(* getrow returns the elements of the row.                                   *)
LEMMA RowRead ==
  ASSUME NEW m \in Matrix, NEW s \in Server, NEW p, PartOK(p, m, s), NEW q, q.row \in Row(p)
  PROVE  /\ getrow(p, q) = [j \in 1 .. Width(p) |-> p.vals[Place(p, q.row, p.meta.startCol + j - 1)]]
         /\ \A k \in Col(p) : p.vals[Place(p, q.row, k)] \in Int
<1>1. PICK a, n, w, u, r, z, vals : /\ a = p.meta.startRow /\ n = Height(p) /\ w = Width(p) /\ u = p.meta.startCol
                                    /\ r = q.row /\ z = (r - a) * w /\ vals = p.vals
  OBVIOUS
<1>2. /\ Row(p) = a .. (a + n - 1) /\ Col(p) = u .. (u + w - 1) /\ a \in Int /\ n \in Nat /\ w \in Nat /\ u \in Int
      /\ vals \in Seq(Int) /\ Len(vals) = n * w
  BY <1>1, PartBounds
<1>3. r \in a .. (a + n - 1)
  BY ONLY <1>1, <1>2, q.row \in Row(p)
<1>4. z \in Nat /\ z + w <= Len(vals)
  <2>1. z = (r - a) * w
    BY ONLY <1>1
  <2>2. z \in Nat /\ z + w <= n * w /\ n * w \in Nat
    BY ONLY <1>2, <1>3, <2>1, RowPlace
  <2>. QED
    BY ONLY <1>2, <2>2
<1>5. getrow(p, q) = SubSeq(vals, z + 1, z + w)
  BY ONLY <1>1 DEF getrow
<1>6. SubSeq(vals, z + 1, z + w) = [j \in 1 .. w |-> vals[z + j]]
  <2>1. z + w - (z + 1) + 1 = w
    BY ONLY <1>2, <1>4
  <2>2. SubSeq(vals, z + 1, z + w) = [j \in 1 .. (z + w - (z + 1) + 1) |-> vals[j + (z + 1) - 1]]
    BY ONLY <1>2, <1>4
  <2>3. \A j \in 1 .. w : j + (z + 1) - 1 = z + j
    BY ONLY <1>2, <1>4
  <2>. QED
    BY ONLY <2>1, <2>2, <2>3
<1>7. ASSUME NEW j \in 1 .. w PROVE Place(p, r, u + j - 1) = z + j
  <2>1. z + ((u + j - 1) - u) + 1 = z + j
    BY ONLY <1>2, <1>4, <1>7
  <2>2. PICK k : k = u + j - 1
    OBVIOUS
  <2>3. Place(p, r, k) = z + (k - u) + 1
    BY ONLY <1>1 DEF Place
  <2>4. k - u = (u + j - 1) - u
    BY ONLY <2>2
  <2>5. Place(p, r, k) = z + j
    BY ONLY <2>1, <2>3, <2>4
  <2>. QED
    BY ONLY <2>2, <2>5
<1>8. ASSUME NEW k \in Col(p) PROVE vals[Place(p, r, k)] \in Int
  <2>1. k \in u .. (u + w - 1)
    BY ONLY <1>2, <1>8
  <2>2. z + (k - u) + 1 \in 1 .. n * w
    BY ONLY <1>1, <1>2, <1>3, <2>1, PlaceIn
  <2>3. Place(p, r, k) = z + (k - u) + 1
    BY ONLY <1>1 DEF Place
  <2>4. z + (k - u) + 1 \in 1 .. Len(vals)
    BY ONLY <1>2, <2>2
  <2>. QED
    BY ONLY <1>2, <2>3, <2>4
<1>9. getrow(p, q) = [j \in 1 .. w |-> vals[Place(p, r, u + j - 1)]]
  BY ONLY <1>5, <1>6, <1>7
<1>. QED
  BY ONLY <1>1, <1>8, <1>9

(* getcol returns those of the column.                                       *)
LEMMA ColumnRead ==
  ASSUME NEW m \in Matrix, NEW s \in Server, NEW p, PartOK(p, m, s), NEW c \in Col(p)
  PROVE  /\ Column(p, c) = [i \in 1 .. Height(p) |-> p.vals[Place(p, p.meta.startRow + i - 1, c)]]
         /\ \A r \in Row(p) : p.vals[Place(p, r, c)] \in Int
<1>1. PICK a, n, w, u, vals : /\ a = p.meta.startRow /\ n = Height(p) /\ w = Width(p) /\ u = p.meta.startCol /\ vals = p.vals
  OBVIOUS
<1>2. /\ Row(p) = a .. (a + n - 1) /\ Col(p) = u .. (u + w - 1) /\ a \in Int /\ n \in Nat /\ w \in Nat /\ u \in Int
      /\ vals \in Seq(Int) /\ Len(vals) = n * w
  BY <1>1, PartBounds
<1>3. ASSUME NEW i \in 1 .. n PROVE Place(p, a + i - 1, c) = (c - u) + (i - 1) * w + 1
  <2>1. (a + i - 1) - a = i - 1 /\ c \in Int
    BY ONLY <1>2, <1>3, c \in Col(p)
  <2>2. PICK y, e : y = (i - 1) * w /\ e = c - u
    OBVIOUS
  <2>3. y \in Int /\ e \in Int
    BY ONLY <1>2, <1>3, <2>1, <2>2
  <2>3a. PICK r : r = a + i - 1
    OBVIOUS
  <2>3b. Place(p, r, c) = (r - a) * w + (c - u) + 1
    BY ONLY <1>1 DEF Place
  <2>4. Place(p, a + i - 1, c) = y + e + 1
    <3>1. r - a = i - 1
      BY ONLY <2>1, <2>3a
    <3>2. Place(p, r, c) = y + e + 1
      BY ONLY <2>2, <2>3b, <3>1
    <3>. QED
      BY ONLY <2>3a, <3>2
  <2>. QED
    BY ONLY <2>2, <2>3, <2>4
<1>4. Column(p, c) = [i \in 1 .. n |-> vals[Place(p, a + i - 1, c)]]
  BY ONLY <1>1, <1>3 DEF Column
<1>5. ASSUME NEW r \in Row(p) PROVE vals[Place(p, r, c)] \in Int
  <2>1. c \in u .. (u + w - 1) /\ r \in a .. (a + n - 1)
    BY ONLY <1>2, <1>5, c \in Col(p)
  <2>2. PICK z : z = (r - a) * w
    OBVIOUS
  <2>3. z + (c - u) + 1 \in 1 .. n * w
    BY ONLY <1>2, <2>1, <2>2, PlaceIn
  <2>4. Place(p, r, c) = z + (c - u) + 1
    BY ONLY <1>1, <2>2 DEF Place
  <2>5. z + (c - u) + 1 \in 1 .. Len(vals)
    BY ONLY <1>2, <2>3
  <2>. QED
    BY ONLY <1>2, <2>4, <2>5
<1>. QED
  BY ONLY <1>1, <1>4, <1>5

\* What the server adds up of two rows of a part
RowsTotal(p, q, q2) ==
  /\ Total(getrow(p, q)) = SumFunction([k \in Col(p) |-> p.vals[Place(p, q.row, k)]])
  /\ Dot(getrow(p, q), getrow(p, q2))
       = SumFunction([k \in Col(p) |-> p.vals[Place(p, q.row, k)] * p.vals[Place(p, q2.row, k)]])

(* They are the sums over the columns.                                       *)
LEMMA RowSums ==
  ASSUME NEW m \in Matrix, NEW s \in Server, NEW p, PartOK(p, m, s),
         NEW q, q.row \in Row(p), NEW q2, q2.row \in Row(p)
  PROVE  RowsTotal(p, q, q2)
<1>1. PICK w, u : w = Width(p) /\ u = p.meta.startCol /\ w \in Nat /\ u \in Int /\ Col(p) = u .. (u + w - 1)
  BY PartBounds
<1>2. PICK e : e = [k \in Col(p) |-> p.vals[Place(p, q.row, k)]]
  OBVIOUS
<1>3. PICK e2 : e2 = [k \in Col(p) |-> p.vals[Place(p, q2.row, k)]]
  OBVIOUS
<1>4. PICK f, f2 : f = getrow(p, q) /\ f2 = getrow(p, q2)
  OBVIOUS
<1>5. f = [j \in 1 .. w |-> p.vals[Place(p, q.row, u + j - 1)]] /\ \A k \in Col(p) : e[k] \in Int
  <2>1. getrow(p, q) = [j \in 1 .. Width(p) |-> p.vals[Place(p, q.row, p.meta.startCol + j - 1)]]
    BY RowRead
  <2>2. \A k \in Col(p) : p.vals[Place(p, q.row, k)] \in Int
    BY RowRead
  <2>. QED
    BY ONLY <1>1, <1>2, <1>4, <2>1, <2>2
<1>6. f2 = [j \in 1 .. w |-> p.vals[Place(p, q2.row, u + j - 1)]] /\ \A k \in Col(p) : e2[k] \in Int
  <2>1. getrow(p, q2) = [j \in 1 .. Width(p) |-> p.vals[Place(p, q2.row, p.meta.startCol + j - 1)]]
    BY RowRead
  <2>2. \A k \in Col(p) : p.vals[Place(p, q2.row, k)] \in Int
    BY RowRead
  <2>. QED
    BY ONLY <1>1, <1>3, <1>4, <2>1, <2>2
<1>7. ASSUME NEW j \in 1 .. w PROVE u + j - 1 \in Col(p)
  BY ONLY <1>1, <1>7
<1>8. DOMAIN f = 1 .. w /\ DOMAIN f2 = 1 .. w /\ DOMAIN e = u .. (u + w - 1) /\ DOMAIN e2 = u .. (u + w - 1)
  BY ONLY <1>1, <1>2, <1>3, <1>5, <1>6
<1>9. \A j \in 1 .. w : f[j] \in Int /\ f[j] = e[u + j - 1]
  BY ONLY <1>2, <1>5, <1>7
<1>10. \A j \in 1 .. w : f2[j] \in Int /\ f2[j] = e2[u + j - 1]
  BY ONLY <1>3, <1>6, <1>7
<1>11. SumFunction(f) = SumFunction(e)
  <2>1. Along(f, e, w, u)
    BY ONLY <1>1, <1>8, <1>9 DEF Along
  <2>. QED
    BY ONLY <2>1, SumAlong
<1>12. PICK d, g : d = [j \in DOMAIN f |-> f[j] * f2[j]] /\ g = [k \in Col(p) |-> e[k] * e2[k]]
  OBVIOUS
<1>13. \A j \in 1 .. w : d[j] \in Int /\ d[j] = g[u + j - 1]
  BY ONLY <1>7, <1>8, <1>9, <1>10, <1>12
<1>14. DOMAIN d = 1 .. w /\ DOMAIN g = u .. (u + w - 1)
  BY ONLY <1>1, <1>8, <1>12
<1>15. SumFunction(d) = SumFunction(g)
  <2>1. Along(d, g, w, u)
    BY ONLY <1>1, <1>13, <1>14 DEF Along
  <2>. QED
    BY ONLY <2>1, SumAlong
<1>16. g = [k \in Col(p) |-> p.vals[Place(p, q.row, k)] * p.vals[Place(p, q2.row, k)]]
  BY ONLY <1>2, <1>3, <1>12
<1>17. Total(f) = SumFunction(f) /\ Dot(f, f2) = SumFunction(d)
  BY ONLY <1>12 DEF Total, Dot
<1>. QED
  BY ONLY <1>2, <1>4, <1>11, <1>15, <1>16, <1>17 DEF RowsTotal

(* The same of columns.                                                      *)
LEMMA ColumnSums ==
  ASSUME NEW m \in Matrix, NEW s \in Server, NEW p, PartOK(p, m, s), NEW c \in Col(p), NEW c2 \in Col(p)
  PROVE  /\ Total(Column(p, c)) = SumFunction([r \in Row(p) |-> p.vals[Place(p, r, c)]])
         /\ Dot(Column(p, c), Column(p, c2))
              = SumFunction([r \in Row(p) |-> p.vals[Place(p, r, c)] * p.vals[Place(p, r, c2)]])
<1>1. PICK n, a : n = Height(p) /\ a = p.meta.startRow /\ n \in Nat /\ a \in Int /\ Row(p) = a .. (a + n - 1)
  BY PartBounds
<1>2. PICK e : e = [r \in Row(p) |-> p.vals[Place(p, r, c)]]
  OBVIOUS
<1>3. PICK e2 : e2 = [r \in Row(p) |-> p.vals[Place(p, r, c2)]]
  OBVIOUS
<1>4. PICK f, f2 : f = Column(p, c) /\ f2 = Column(p, c2)
  OBVIOUS
<1>5. f = [j \in 1 .. n |-> p.vals[Place(p, a + j - 1, c)]] /\ \A r \in Row(p) : e[r] \in Int
  BY <1>1, <1>2, <1>4, ColumnRead
<1>6. f2 = [j \in 1 .. n |-> p.vals[Place(p, a + j - 1, c2)]] /\ \A r \in Row(p) : e2[r] \in Int
  BY <1>1, <1>3, <1>4, ColumnRead
<1>7. ASSUME NEW j \in 1 .. n PROVE a + j - 1 \in Row(p)
  BY ONLY <1>1, <1>7
<1>8. DOMAIN f = 1 .. n /\ DOMAIN f2 = 1 .. n /\ DOMAIN e = a .. (a + n - 1) /\ DOMAIN e2 = a .. (a + n - 1)
  BY ONLY <1>1, <1>2, <1>3, <1>5, <1>6
<1>9. \A j \in 1 .. n : f[j] \in Int /\ f[j] = e[a + j - 1]
  BY ONLY <1>2, <1>5, <1>7
<1>10. \A j \in 1 .. n : f2[j] \in Int /\ f2[j] = e2[a + j - 1]
  BY ONLY <1>3, <1>6, <1>7
<1>11. SumFunction(f) = SumFunction(e)
  <2>1. Along(f, e, n, a)
    BY ONLY <1>1, <1>8, <1>9 DEF Along
  <2>. QED
    BY ONLY <2>1, SumAlong
<1>12. PICK d, g : d = [j \in DOMAIN f |-> f[j] * f2[j]] /\ g = [r \in Row(p) |-> e[r] * e2[r]]
  OBVIOUS
<1>13. \A j \in 1 .. n : d[j] \in Int /\ d[j] = g[a + j - 1]
  BY ONLY <1>7, <1>8, <1>9, <1>10, <1>12
<1>14. DOMAIN d = 1 .. n /\ DOMAIN g = a .. (a + n - 1)
  BY ONLY <1>1, <1>8, <1>12
<1>15. SumFunction(d) = SumFunction(g)
  <2>1. Along(d, g, n, a)
    BY ONLY <1>1, <1>13, <1>14 DEF Along
  <2>. QED
    BY ONLY <2>1, SumAlong
<1>16. g = [r \in Row(p) |-> p.vals[Place(p, r, c)] * p.vals[Place(p, r, c2)]]
  BY ONLY <1>2, <1>3, <1>12
<1>17. Total(f) = SumFunction(f) /\ Dot(f, f2) = SumFunction(d)
  BY ONLY <1>12 DEF Total, Dot
<1>. QED
  BY ONLY <1>2, <1>4, <1>11, <1>15, <1>16, <1>17

----------------------------------------------------------------------------
(* What a matrix has after a set of pushes.                                  *)

(* Elements are integers.                                                    *)
LEMMA EntryInt ==
  ASSUME NEW p, CallOf(p) \in Push, NEW m, m = CallOf(p).matrix, NEW r \in Rows(m), NEW k \in Cols(m)
  PROVE  Entry(p, r, k) \in Int
<1>1. PICK x, a, u, w, h : x = CallOf(p) /\ a = Shape[m].startRow /\ u = Shape[m].startCol /\ w = ElePerRow(m) /\ h = ElePerCol(m)
  OBVIOUS
<1>2. x \in Calls /\ x.matrix = m /\ m \in Matrix /\ x.op \in {"PushAll", "PushRow"} /\ x.vals \in Seq(Int)
  BY <1>1, MatrixAssumption DEF Push
<1>3. a \in Int /\ u \in Int /\ w \in Nat /\ h \in Nat /\ Shape[m].endRow = a + h /\ Shape[m].endCol = u + w
  BY <1>1, <1>2, Sizes
<1>4. r \in a .. (a + h - 1) /\ k \in u .. (u + w - 1)
  BY ONLY <1>1, <1>3, r \in Rows(m), k \in Cols(m) DEF Rows, Cols
<1>5. CASE x.op = "PushAll"
  <2>1. Len(x.vals) = w * h
    BY <1>1, <1>2, <1>5, MatrixAssumption
  <2>2. PICK z : z = (r - a) * w
    OBVIOUS
  <2>3. z + (k - u) + 1 \in 1 .. h * w
    BY ONLY <1>3, <1>4, <2>2, PlaceIn
  <2>4. h * w = w * h
    BY ONLY <1>3
  <2>5. x.vals[z + (k - u) + 1] \in Int
    BY ONLY <1>2, <2>1, <2>3, <2>4
  <2>6. Entry(p, r, k) = x.vals[z + (k - u) + 1]
    BY ONLY <1>1, <1>2, <1>5, <2>2 DEF Entry
  <2>. QED
    BY ONLY <2>5, <2>6
<1>6. CASE x.op = "PushRow"
  <2>1. Len(x.vals) = w
    BY <1>1, <1>2, <1>6, MatrixAssumption
  <2>2. k - u + 1 \in 1 .. w
    BY ONLY <1>3, <1>4
  <2>3. x.vals[k - u + 1] \in Int
    BY ONLY <1>2, <2>1, <2>2
  <2>4. Entry(p, r, k) = IF x.row = r THEN x.vals[k - u + 1] ELSE 0
    BY ONLY <1>1, <1>2, <1>6 DEF Entry
  <2>. QED
    BY ONLY <2>3, <2>4
<1>. QED
  BY <1>2, <1>5, <1>6

\* The pushes of a set that are of the matrix m
Of(A, m) == {q \in A : CallOf(q).matrix = m}

(* An element of a matrix is the sum over the pushes of that matrix.         *)
LEMMA AtIs ==
  ASSUME NEW m \in Matrix, NEW A, IsFiniteSet(A), \A q \in A : CallOf(q) \in Push, NEW r \in Rows(m), NEW k \in Cols(m)
  PROVE  /\ IsFiniteSet(Of(A, m)) /\ \A q \in Of(A, m) : Entry(q, r, k) \in Int
         /\ At(m, A, r, k) \in Int
         /\ \A f : (\A q \in Of(A, m) : f[q] = Entry(q, r, k)) => At(m, A, r, k) = Sum(f, Of(A, m))
<1>1. IsFiniteSet(Of(A, m))
  BY FS_Subset DEF Of
<1>2. \A q \in Of(A, m) : Entry(q, r, k) \in Int
  BY EntryInt DEF Of
<1>3. PICK S, g : S = Of(A, m) /\ g = [q \in S |-> Entry(q, r, k)]
  OBVIOUS
<1>4. At(m, A, r, k) = Sum(g, S)
  BY <1>3, SumWhole DEF At, Of
<1>5. \A q \in S : g[q] \in Int
  BY ONLY <1>2, <1>3
<1>6. Sum(g, S) \in Int
  BY ONLY <1>1, <1>3, <1>5, SumInt
<1>7. ASSUME NEW f, \A q \in S : f[q] = Entry(q, r, k) PROVE Sum(g, S) = Sum(f, S)
  <2>1. \A q \in S : g[q] \in Int /\ g[q] = f[q]
    BY ONLY <1>3, <1>5, <1>7
  <2>. QED
    BY ONLY <1>1, <1>3, <2>1, SumSame
<1>. QED
  BY ONLY <1>1, <1>2, <1>3, <1>4, <1>6, <1>7

(* A push adds its elements to the matrix that it is of.                     *)
LEMMA AtAdds ==
  ASSUME NEW m \in Matrix, NEW A, IsFiniteSet(A), \A q \in A : CallOf(q) \in Push, NEW p, p \notin A, CallOf(p) \in Push,
         NEW r \in Rows(m), NEW k \in Cols(m)
  PROVE  At(m, A \cup {p}, r, k) = (IF CallOf(p).matrix = m THEN Entry(p, r, k) + At(m, A, r, k) ELSE At(m, A, r, k))
<1>1. PICK B : B = A \cup {p}
  OBVIOUS
<1>2. IsFiniteSet(B) /\ \A q \in B : CallOf(q) \in Push
  BY <1>1, FS_AddElement
<1>3. PICK S, T : S = Of(A, m) /\ T = Of(B, m)
  OBVIOUS
<1>4. PICK f : f = [q \in T |-> Entry(q, r, k)]
  OBVIOUS
<1>5. S \subseteq T
  BY ONLY <1>1, <1>3 DEF Of
<1>6. /\ IsFiniteSet(T) /\ \A q \in T : Entry(q, r, k) \in Int
      /\ (\A q \in T : f[q] = Entry(q, r, k)) => At(m, B, r, k) = Sum(f, T)
  BY <1>2, <1>3, AtIs
<1>7. (\A q \in S : f[q] = Entry(q, r, k)) => At(m, A, r, k) = Sum(f, S)
  BY <1>3, AtIs
<1>8. At(m, B, r, k) = Sum(f, T) /\ At(m, A, r, k) = Sum(f, S) /\ \A q \in T : f[q] \in Int
  BY ONLY <1>4, <1>5, <1>6, <1>7
<1>9. CASE CallOf(p).matrix = m
  <2>1. p \in T /\ S = T \ {p}
    BY ONLY <1>1, <1>3, <1>9, p \notin A DEF Of
  <2>2. Sum(f, T) = f[p] + Sum(f, T \ {p})
    BY ONLY <1>6, <1>8, <2>1, SumTakes
  <2>. QED
    BY ONLY <1>1, <1>4, <1>8, <1>9, <2>1, <2>2
<1>10. CASE CallOf(p).matrix # m
  <2>1. S = T
    BY ONLY <1>1, <1>3, <1>10 DEF Of
  <2>. QED
    BY ONLY <1>1, <1>8, <1>10, <2>1
<1>. QED
  BY ONLY <1>9, <1>10

(* Without a push of the matrix it is 0.                                     *)
LEMMA AtNone ==
  ASSUME NEW m \in Matrix, NEW A, IsFiniteSet(A), \A q \in A : CallOf(q) \in Push /\ CallOf(q).matrix # m,
         NEW r \in Rows(m), NEW k \in Cols(m)
  PROVE  At(m, A, r, k) = 0
<1>1. Of(A, m) = {}
  BY DEF Of
<1>2. PICK f : f = [q \in {} |-> 0]
  OBVIOUS
<1>3. At(m, A, r, k) = Sum(f, Of(A, m))
  BY <1>1, AtIs
<1>4. Sum(f, {}) = 0
  BY SumStep, FS_EmptySet
<1>. QED
  BY ONLY <1>1, <1>3, <1>4

----------------------------------------------------------------------------
(* What a push brings to a part.                                             *)

\* Clients that agree have one number for a matrix
LEMMA SameNumber ==
  ASSUME Shapes, ClientsAgree, NEW c \in Client, NEW d \in Client, NEW m, m \in DOMAIN client[c].keys,
         m \in DOMAIN client[d].keys
  PROVE  \A s : PartKey(client[c], m, s) = PartKey(client[d], m, s)
<1>1. ASSUME NEW e \in Client, NEW f \in Client, m \in DOMAIN client[e].keys, m \in DOMAIN client[f].keys,
             NumberOf(client[e], m) < NumberOf(client[f], m)
      PROVE  FALSE
  <2>1. PICK g : g = NumberOf(client[e], m)
    OBVIOUS
  <2>2. ClientOK(client[e]) /\ ClientOK(client[f])
    BY DEF Shapes
  <2>3. g \in Nat /\ g < client[f].globalId
    <3>1. PICK h, i, j : h = NumberOf(client[f], m) /\ i = client[f].globalId /\ j = client[e].globalId
      OBVIOUS
    <3>2. i \in Nat /\ j \in Nat
      <4>1. \A cl : ClientOK(cl) => cl.globalId \in Nat
        BY FS_Subset, FS_CardinalityType, MatrixAssumption DEF ClientOK
      <4>. QED
        BY <2>2, <3>1, <4>1
    <3>3. h \in 0 .. i - 1 /\ g \in 0 .. j - 1
      BY <1>1, <2>1, <2>2, <3>1 DEF ClientOK
    <3>4. g < h
      BY <1>1, <2>1, <3>1
    <3>. QED
      BY ONLY <3>1, <3>2, <3>3, <3>4
  <2>4. g \in 0 .. client[f].globalId - 1
    <3>1. client[f].globalId \in Nat
      BY <2>2, FS_Subset, FS_CardinalityType, MatrixAssumption DEF ClientOK
    <3>. QED
      BY ONLY <2>3, <3>1
  <2>5. PICK n \in DOMAIN client[f].keys : NumberOf(client[f], n) = g
    BY <2>2, <2>4 DEF ClientOK
  <2>6. n # m
    BY <1>1, <2>1, <2>3, <2>5
  <2>7. m \in Matrix /\ n \in Matrix
    BY <1>1, <2>2, <2>5, Numbers
  <2>8. 0 \in 0 .. RealSize(m) - 1 /\ 0 \in 0 .. RealSize(n) - 1
    <3>1. RealSize(m) \in Nat /\ RealSize(m) >= 1 /\ RealSize(n) \in Nat /\ RealSize(n) >= 1
      BY <2>7, FirstServers
    <3>. QED
      BY ONLY <3>1
  <2>9. PartKey(client[e], m, 0) = RangeBegin(0) + g
    BY <1>1, <2>1, <2>2, <2>8, Numbers
  <2>10. PartKey(client[f], n, 0) = RangeBegin(0) + g
    BY <2>2, <2>5, <2>8, Numbers
  <2>11. m = n
    BY <1>1, <2>5, <2>8, <2>9, <2>10, OneMatrix
  <2>. QED
    BY <2>6, <2>11
<1>2. ClientOK(client[c]) /\ ClientOK(client[d])
  BY DEF Shapes
<1>3. PICK g, h : g = NumberOf(client[c], m) /\ h = NumberOf(client[d], m)
  OBVIOUS
<1>4. g \in Int /\ h \in Int
  BY <1>2, <1>3, Numbers
<1>5. ~ (g < h) /\ ~ (h < g)
  BY <1>1, <1>3
<1>6. g = h
  BY ONLY <1>4, <1>5
<1>7. client[c].keys[m] = MatrixKeys(m, g) /\ client[d].keys[m] = MatrixKeys(m, h)
  BY <1>2, <1>3 DEF ClientOK
<1>. QED
  BY ONLY <1>6, <1>7 DEF PartKey

(* What a push brings to a place of a part is the element that it pushes     *)
(* there.                                                                    *)
LEMMA SliceEntry ==
  ASSUME NEW m \in Matrix, NEW s \in 0 .. RealSize(m) - 1, NEW x \in Calls, x.matrix = m, NEW y, CallOf(y) = x,
         NEW p, PartOK(p, m, s), NEW v,
         \/ x.op = "PushAll" /\ v = PartVals(x, s)
         \/ x.op = "PushRow" /\ v = x.vals /\ x.row \in PartRows(m, s) /\ Len(x.vals) = PartSize(m, s),
         NEW r \in Row(p), NEW k \in Col(p)
  PROVE  v[Place(p, r, k)] = Entry(y, r, k) /\ Place(p, r, k) \in 1 .. PartSize(m, s) /\ r \in Rows(m) /\ k \in Cols(m)
<1>1. PICK a, b, n, w, u, h : /\ a = Shape[m].startRow /\ b = Before(m, s) /\ n = RowNum(m, s) /\ w = ElePerRow(m)
                              /\ u = Shape[m].startCol /\ h = ElePerCol(m)
  OBVIOUS
<1>2. s \in Server /\ s + 1 \in 0 .. NumServers /\ s \in 0 .. NumServers /\ NumServers \in 0 .. NumServers /\ s + 1 <= NumServers
  BY FirstServers, Sizes DEF Server
<1>3. /\ a \in Int /\ b \in Nat /\ n \in Nat /\ w \in Nat \ {0} /\ u \in Int /\ h \in Nat
      /\ Shape[m].endRow = a + h /\ Shape[m].endCol = u + w
  BY <1>1, <1>2, Sizes, PartAt
<1>4. b + n <= h
  <2>1. Before(m, s + 1) = b + n /\ Before(m, NumServers) = h
    BY <1>1, <1>2, Parts
  <2>2. Before(m, s + 1) <= Before(m, NumServers)
    BY ONLY m \in Matrix, <1>2, BeforeOrder
  <2>. QED
    BY ONLY <2>1, <2>2
<1>5. /\ Row(p) = PartRows(m, s) /\ Col(p) = Cols(m) /\ Width(p) = w
      /\ p.meta.startRow = a + b /\ p.meta.startCol = u
  BY <1>1, <1>2, PartShape
<1>6. PartRows(m, s) = (a + b) .. (a + b + n - 1) /\ Cols(m) = u .. (u + w - 1) /\ Rows(m) = a .. (a + h - 1)
  BY ONLY <1>1, <1>3 DEF PartRows, Cols, Rows
<1>7. r \in (a + b) .. (a + b + n - 1) /\ k \in u .. (u + w - 1) /\ r \in Rows(m) /\ k \in Cols(m)
  BY ONLY <1>3, <1>4, <1>5, <1>6, r \in Row(p), k \in Col(p)
<1>8. PICK c, z, e : c = a + b /\ z = (r - c) * w /\ e = k - u
  OBVIOUS
<1>9. c \in Int /\ r \in c .. (c + n - 1) /\ e \in Int
  BY ONLY <1>3, <1>7, <1>8
<1>10. z + e + 1 \in 1 .. n * w
  <2>1. z + (k - u) + 1 \in 1 .. n * w
    BY ONLY <1>3, <1>7, <1>8, <1>9, PlaceIn
  <2>. QED
    BY ONLY <1>8, <2>1
<1>11. Place(p, r, k) = z + e + 1
  BY ONLY <1>5, <1>8 DEF Place
<1>12. PartSize(m, s) = n * w
  BY ONLY <1>1 DEF PartSize
<1>13. CASE x.op = "PushAll" /\ v = PartVals(x, s)
  <2>1. x.vals \in Seq(Int) /\ Len(x.vals) = ElePerRow(m) * ElePerCol(m)
    BY <1>13, MatrixAssumption
  <2>2. v = SubSeq(x.vals, Before(m, s) * ElePerRow(m) + 1, Before(m, s) * ElePerRow(m) + RowNum(m, s) * ElePerRow(m))
    BY ONLY <1>13, x.matrix = m DEF PartVals
  <2>3. \A i \in 1 .. PartSize(m, s) : v[i] = x.vals[Before(m, s) * ElePerRow(m) + i]
    <3>1. PICK f : f = x.vals
      OBVIOUS
    <3>2. /\ f \in Seq(Int) /\ Len(f) = ElePerRow(m) * ElePerCol(m)
          /\ v = SubSeq(f, Before(m, s) * ElePerRow(m) + 1, Before(m, s) * ElePerRow(m) + RowNum(m, s) * ElePerRow(m))
      BY ONLY <2>1, <2>2, <3>1
    <3>3. \A i \in 1 .. PartSize(m, s) : v[i] = f[Before(m, s) * ElePerRow(m) + i]
      BY ONLY <3>2, PartFits, m \in Matrix, s \in 0 .. RealSize(m) - 1
    <3>. QED
      BY ONLY <3>1, <3>3
  <2>4. v[z + e + 1] = x.vals[b * w + (z + e + 1)]
    BY ONLY <1>1, <1>10, <1>12, <2>3
  <2>5. (r - a) * w = b * w + z
    <3>1. PICK d : d = r - c
      OBVIOUS
    <3>2. d \in Nat /\ r - a = b + d /\ z = d * w
      BY ONLY <1>3, <1>8, <1>9, <3>1
    <3>3. (b + d) * w = b * w + d * w
      BY ONLY <1>3, <3>2, Products
    <3>. QED
      BY ONLY <3>2, <3>3
  <2>6. Entry(y, r, k) = x.vals[(r - a) * w + e + 1]
    BY ONLY <1>1, <1>8, <1>13, CallOf(y) = x, x.matrix = m DEF Entry
  <2>7. b * w + (z + e + 1) = b * w + z + e + 1
    <3>1. b * w \in Int /\ z \in Int
      <4>1. PICK d : d = r - c /\ d \in Int
        BY ONLY <1>9
      <4>2. d * w \in Int
        BY ONLY <1>3, <4>1
      <4>3. b * w \in Int
        BY ONLY <1>3
      <4>. QED
        BY ONLY <1>8, <4>1, <4>2, <4>3
    <3>2. PICK f : f = b * w
      OBVIOUS
    <3>3. f + (z + e + 1) = f + z + e + 1
      BY ONLY <1>9, <3>1, <3>2
    <3>. QED
      BY ONLY <3>2, <3>3
  <2>. QED
    BY ONLY <1>7, <1>10, <1>11, <1>12, <2>4, <2>5, <2>6, <2>7
<1>14. CASE x.op = "PushRow" /\ v = x.vals /\ x.row \in PartRows(m, s) /\ Len(x.vals) = PartSize(m, s)
  <2>1. Len(x.vals) = w
    BY <1>1, <1>14, MatrixAssumption
  <2>2. n * w = w
    BY ONLY <1>12, <1>14, <2>1
  <2>3. n = 1
    BY ONLY <1>3, <2>2
  <2>4. r = c /\ x.row = c
    BY ONLY <1>3, <1>6, <1>8, <1>9, <1>14, <2>3
  <2>5. z = 0
    BY ONLY <1>3, <1>8, <1>9, <2>4
  <2>6. Entry(y, r, k) = x.vals[e + 1]
    BY ONLY <1>1, <1>8, <1>14, <2>4, CallOf(y) = x, x.matrix = m DEF Entry
  <2>7. z + e + 1 = e + 1
    BY ONLY <1>9, <2>5
  <2>. QED
    BY ONLY <1>7, <1>10, <1>11, <1>12, <1>14, <2>6, <2>7
<1>. QED
  BY <1>13, <1>14

(* Among clients that agree a push slice has the key of its matrix.          *)
LEMMA PushGoesHome ==
  ASSUME Inv, ClientsAgree, NEW c \in Client, NEW s \in DOMAIN asked[c].todo, asked[c].call \in Push,
         NEW x, x = asked[c].call, NEW q, q = asked[c].todo[s].q, NEW m, m = x.matrix
  PROVE  /\ m \in DOMAIN client[c].keys /\ s \in 0 .. RealSize(m) - 1 /\ q.key = PartKey(client[c], m, s)
         /\ x.op = "PushRow" => x.row \in PartRows(m, s)
<1>1. Busy(c) /\ x \in Calls
  BY PushIsCall
<1>2. LogOK /\ ClientOK(client[c]) /\ SlicesOK(client[c], x, asked[c].todo) /\ LogKnown
  BY <1>1 DEF Inv, Shapes, AskedOK
<1>3. s \in Server /\ SliceOK(client[c], x, s, asked[c].todo[s])
  BY <1>2 DEF SlicesOK
<1>4. m \in Matrix /\ x.op \in {"PushAll", "PushRow"}
  BY <1>1, MatrixAssumption DEF Push
<1>5. CASE x.op = "PushAll"
  BY <1>5, PushSlice
<1>6. CASE x.op = "PushRow"
  <2>1. NextCall(c) \in Begun /\ CallOf(NextCall(c)) = x
    BY <1>2, InBegun, CallOfPair
  <2>2. Known(NextCall(c))
    BY <1>6, <2>1 DEF ClientsAgree, Stray
  <2>3. m \in DOMAIN client[c].keys
    <3>1. NextCall(c)[1] = c /\ NextCall(c)[2] = Len(log[c]) + 1
      BY DEF NextCall
    <3>2. PICK i \in 1 .. (Len(log[c]) + 1 - 1) : log[c][i].call.op = "PushAll" /\ log[c][i].call.matrix = m
      BY <2>1, <2>2, <3>1 DEF Known
    <3>3. i \in DOMAIN log[c]
      BY <1>2, LogFacts
    <3>. QED
      BY <1>2, <3>2, <3>3 DEF LogKnown
  <2>4. s = Home(m, x.row) /\ q.key = PartKey(client[c], m, s)
    BY <1>3, <1>6, <2>3 DEF SliceOK
  <2>5. x.row \in Rows(m)
    BY <1>1, <1>6, MatrixAssumption
  <2>6. s \in 0 .. RealSize(m) - 1 /\ x.row \in PartRows(m, s)
    BY <1>2, <1>4, <2>3, <2>4, <2>5, RowKeyAt, HomeIn
  <2>. QED
    BY <2>3, <2>4, <2>6
<1>. QED
  BY <1>4, <1>5, <1>6

----------------------------------------------------------------------------
(* A part holds the sum of the pushes that its server has served.            *)

PartSum(p, A) ==
  \A r \in Row(p), k \in Col(p) : p.vals[Place(p, r, k)] = At(p.meta.matrix, A, r, k)

AppliedOK ==
  /\ \A s \in Server : IsFiniteSet(applied[s]) /\ applied[s] \subseteq Begun
  /\ \A c \in Client : \A s \in DOMAIN asked[c].todo : NextCall(c) \notin applied[s]
Added ==
  /\ \A s \in Server : \A key \in DOMAIN store[s] : PartSum(store[s][key], applied[s])
  /\ \A s \in Server : \A p \in applied[s] : \E key \in DOMAIN store[s] : store[s][key].meta.matrix = CallOf(p).matrix
Sums == AppliedOK /\ (ClientsAgree => Added)

(* The pushes that are applied stay what they were.                          *)
LEMMA CallsStay ==
  ASSUME LogOK, LogOK', LogGrows, NEW A, A \subseteq Begun
  PROVE  \A q \in A : CallOf(q) \in Push /\ CallOf(q)' = CallOf(q)
  BY BegunStays

(* So what they make of a matrix stays.                                      *)
LEMMA AtStays ==
  ASSUME NEW A, \A q \in A : CallOf(q)' = CallOf(q), NEW m, NEW r, NEW k
  PROVE  At(m, A, r, k)' = At(m, A, r, k)
<1>1. {q \in A : CallOf(q)'.matrix = m} = {q \in A : CallOf(q).matrix = m}
  OBVIOUS
<1>2. \A q \in A : Entry(q, r, k)' = Entry(q, r, k)
  BY DEF Entry
<1>3. PICK S : S = {q \in A : CallOf(q).matrix = m}
  OBVIOUS
<1>4. [p \in S |-> Entry(p, r, k)'] = [p \in S |-> Entry(p, r, k)]
  BY ONLY <1>2, <1>3
<1>5. At(m, A, r, k) = SumFunction([p \in S |-> Entry(p, r, k)])
  BY ONLY <1>3 DEF At
<1>6. At(m, A, r, k)' = SumFunction([p \in S |-> Entry(p, r, k)'])
  BY ONLY <1>1, <1>3 DEF At
<1>. QED
  BY ONLY <1>4, <1>5, <1>6

(* A step that neither serves nor takes anything away keeps the sums.        *)
LEMMA SumsKept ==
  ASSUME Sums, LogOK, LogOK', LogGrows, KeysGrow, store' = store, applied' = applied,
         \A c \in Client : \A s \in DOMAIN asked'[c].todo : s \in Server /\ NextCall(c)' \notin applied[s]
  PROVE  Sums'
<1>1. \A s \in Server : applied[s] \subseteq Begun /\ IsFiniteSet(applied[s])
  BY DEF Sums, AppliedOK
<1>2. Begun \subseteq Begun'
  BY BegunStays
<1>3. AppliedOK'
  BY <1>1, <1>2 DEF AppliedOK
<1>4. ASSUME ClientsAgree' PROVE Added'
  <2>1. Added
    BY <1>4, AgreedBefore DEF Sums
  <2>2. ASSUME NEW s \in Server, NEW key \in DOMAIN store[s] PROVE PartSum(store[s][key], applied[s])'
    <3>1. PICK p, A : p = store[s][key] /\ A = applied[s]
      OBVIOUS
    <3>2. p = store'[s][key] /\ A = applied'[s]
      BY <3>1
    <3>3. PartSum(p, A)
      BY <2>1, <2>2, <3>1 DEF Added
    <3>4. \A q \in A : CallOf(q)' = CallOf(q)
      BY <1>1, <3>1, CallsStay
    <3>5. \A r, k : At(p.meta.matrix, A, r, k)' = At(p.meta.matrix, A, r, k)
      BY ONLY <3>4, AtStays
    <3>6. PartSum(p, A)'
      BY ONLY <3>3, <3>5 DEF PartSum
    <3>. QED
      BY ONLY <3>2, <3>6
  <2>3. ASSUME NEW s \in Server, NEW p \in applied[s]
        PROVE  \E key \in DOMAIN store[s] : store[s][key].meta.matrix = CallOf(p).matrix'
    <3>1. CallOf(p)' = CallOf(p)
      BY <1>1, CallsStay
    <3>2. \E key \in DOMAIN store[s] : store[s][key].meta.matrix = CallOf(p).matrix
      BY <2>1, <2>3 DEF Added
    <3>. QED
      BY <3>1, <3>2
  <2>. QED
    BY <2>2, <2>3 DEF Added
<1>. QED
  BY <1>3, <1>4 DEF Sums

----------------------------------------------------------------------------
(* What a push does to the parts of a server: it adds to the one that it is  *)
(* of, or begins it, and leaves the others.                                  *)

\* v is what a push x brings to server s of the matrix m
Brings(x, m, s, v) ==
  \/ x.op = "PushAll" /\ v = PartVals(x, s)
  \/ x.op = "PushRow" /\ v = x.vals /\ x.row \in PartRows(m, s) /\ Len(x.vals) = PartSize(m, s)

(* A part that is held has the values of the push added to its own.          *)
LEMMA PartAdds ==
  ASSUME NEW m \in Matrix, NEW s \in 0 .. RealSize(m) - 1, NEW A, IsFiniteSet(A), \A q \in A : CallOf(q) \in Push,
         NEW y, y \notin A, CallOf(y) \in Push, CallOf(y).matrix = m,
         NEW v \in Seq(Int), Len(v) = PartSize(m, s), Brings(CallOf(y), m, s, v),
         NEW p, PartOK(p, m, s), PartSum(p, A), NEW w, PartOK(w, m, s), w.vals = Plus(p.vals, v)
  PROVE  PartSum(w, A \cup {y})
<1>1. s \in Server
  BY FirstServers, Sizes DEF Server
<1>2. /\ p.meta = PartMeta(m, s) /\ p.meta.matrix = m /\ p.vals \in Seq(Int) /\ Len(p.vals) = PartSize(m, s)
      /\ Row(p) = PartRows(m, s) /\ Col(p) = Cols(m)
  BY <1>1, PartShape
<1>3. w.meta = PartMeta(m, s) /\ w.meta.matrix = m /\ Row(w) = PartRows(m, s) /\ Col(w) = Cols(m)
  BY <1>1, PartShape
<1>4. ASSUME NEW r \in Row(w), NEW k \in Col(w)
      PROVE  w.vals[Place(w, r, k)] = At(m, A \cup {y}, r, k)
  <2>1. r \in Row(p) /\ k \in Col(p)
    BY ONLY <1>2, <1>3, <1>4
  <2>2. PICK i : i = Place(p, r, k)
    OBVIOUS
  <2>3. Place(w, r, k) = i
    BY ONLY <1>2, <1>3, <2>2 DEF Place, Width
  <2>4. CallOf(y) \in Calls
    BY DEF Push
  <2>5. v[i] = Entry(y, r, k) /\ i \in 1 .. PartSize(m, s) /\ r \in Rows(m) /\ k \in Cols(m)
    <3>1. v[Place(p, r, k)] = Entry(y, r, k) /\ Place(p, r, k) \in 1 .. PartSize(m, s) /\ r \in Rows(m) /\ k \in Cols(m)
      BY <2>1, <2>4, SliceEntry DEF Brings
    <3>. QED
      BY ONLY <2>2, <3>1
  <2>6. p.vals[i] = At(m, A, r, k)
    BY ONLY <1>2, <2>1, <2>2, PartSum(p, A) DEF PartSum
  <2>7. w.vals[i] = p.vals[i] + v[i]
    BY ONLY <1>2, <2>5, v \in Seq(Int), Len(v) = PartSize(m, s), w.vals = Plus(p.vals, v), PlusIs
  <2>8. At(m, A \cup {y}, r, k) = Entry(y, r, k) + At(m, A, r, k)
    BY <2>5, AtAdds
  <2>9. v[i] \in Int /\ p.vals[i] \in Int
    BY ONLY <1>2, <2>5, v \in Seq(Int), Len(v) = PartSize(m, s)
  <2>10. PICK a, b : a = v[i] /\ b = p.vals[i]
    OBVIOUS
  <2>11. a + b = b + a
    BY ONLY <2>9, <2>10
  <2>. QED
    BY ONLY <2>3, <2>5, <2>6, <2>7, <2>8, <2>10, <2>11
<1>. QED
  BY <1>3, <1>4 DEF PartSum

(* A part that the server did not have begins with them.                     *)
LEMMA PartBegins ==
  ASSUME NEW m \in Matrix, NEW s \in 0 .. RealSize(m) - 1, NEW A, IsFiniteSet(A),
         \A q \in A : CallOf(q) \in Push /\ CallOf(q).matrix # m,
         NEW y, y \notin A, CallOf(y) \in Push, CallOf(y).matrix = m,
         NEW w, PartOK(w, m, s), Brings(CallOf(y), m, s, w.vals)
  PROVE  PartSum(w, A \cup {y})
<1>1. s \in Server
  BY FirstServers, Sizes DEF Server
<1>2. w.meta.matrix = m /\ Row(w) = PartRows(m, s) /\ Col(w) = Cols(m)
  BY <1>1, PartShape
<1>3. ASSUME NEW r \in Row(w), NEW k \in Col(w)
      PROVE  w.vals[Place(w, r, k)] = At(m, A \cup {y}, r, k)
  <2>1. CallOf(y) \in Calls
    BY DEF Push
  <2>2. w.vals[Place(w, r, k)] = Entry(y, r, k) /\ r \in Rows(m) /\ k \in Cols(m)
    BY <1>3, <2>1, SliceEntry DEF Brings
  <2>3. At(m, A \cup {y}, r, k) = Entry(y, r, k) + At(m, A, r, k)
    BY <2>2, AtAdds
  <2>4. At(m, A, r, k) = 0
    BY <2>2, AtNone
  <2>5. Entry(y, r, k) \in Int
    BY <2>2, EntryInt
  <2>. QED
    BY ONLY <2>2, <2>3, <2>4, <2>5
<1>. QED
  BY <1>2, <1>3 DEF PartSum

(* The rows of a part are rows of the matrix.                                *)
LEMMA RowsInside ==
  ASSUME NEW m \in Matrix, NEW s \in Server, NEW r \in PartRows(m, s)
  PROVE  r \in Rows(m)
<1>1. PICK a, b, n, h : a = Shape[m].startRow /\ b = Before(m, s) /\ n = RowNum(m, s) /\ h = ElePerCol(m)
  OBVIOUS
<1>2. /\ a \in Int /\ b \in Nat /\ n \in Nat /\ h \in Nat /\ Shape[m].endRow = a + h
  BY <1>1, Sizes, PartAt
<1>3. s + 1 \in 0 .. NumServers /\ s \in 0 .. NumServers /\ NumServers \in 0 .. NumServers /\ s + 1 <= NumServers
  BY Sizes DEF Server
<1>4. b + n <= h
  <2>1. Before(m, s + 1) = b + n /\ Before(m, NumServers) = h
    BY <1>1, <1>3, Parts
  <2>2. Before(m, s + 1) <= Before(m, NumServers)
    BY ONLY m \in Matrix, <1>3, BeforeOrder
  <2>. QED
    BY ONLY <2>1, <2>2
<1>5. PartRows(m, s) = (a + b) .. (a + b + n - 1)
  BY ONLY <1>1 DEF PartRows
<1>6. Rows(m) = a .. (Shape[m].endRow - 1)
  BY ONLY <1>1 DEF Rows
<1>7. Rows(m) = a .. (a + h - 1)
  BY ONLY <1>2, <1>6
<1>. QED
  BY ONLY <1>2, <1>4, <1>5, <1>7, r \in PartRows(m, s)

(* A part of another matrix stays.                                           *)
LEMMA PartStays ==
  ASSUME NEW n \in Matrix, NEW s \in Server, NEW A, IsFiniteSet(A), \A q \in A : CallOf(q) \in Push,
         NEW y, y \notin A, CallOf(y) \in Push, CallOf(y).matrix # n, NEW p, PartOK(p, n, s), PartSum(p, A)
  PROVE  PartSum(p, A \cup {y})
<1>1. p.meta.matrix = n /\ Row(p) = PartRows(n, s) /\ Col(p) = Cols(n)
  BY PartShape
<1>2. ASSUME NEW r \in Row(p), NEW k \in Col(p)
      PROVE  p.vals[Place(p, r, k)] = At(n, A \cup {y}, r, k)
  <2>1. r \in Rows(n) /\ k \in Cols(n)
    BY <1>1, RowsInside
  <2>2. At(n, A \cup {y}, r, k) = At(n, A, r, k)
    BY <2>1, AtAdds
  <2>3. p.vals[Place(p, r, k)] = At(n, A, r, k)
    BY <1>1 DEF PartSum
  <2>. QED
    BY ONLY <2>2, <2>3
<1>. QED
  BY <1>1, <1>2 DEF PartSum

(* What is still to be served has not been applied.                          *)
LEMMA WaitsUnserved ==
  ASSUME Inv, AppliedOK, NEW c \in Client, NEW s \in DOMAIN asked[c].todo
  PROVE  s \in Server /\ NextCall(c) \notin applied[s]
<1>1. AskedOK(c)
  BY ONLY Inv, c \in Client DEF Inv
<1>2. Busy(c)
  BY ONLY <1>1, s \in DOMAIN asked[c].todo DEF AskedOK
<1>3. DOMAIN asked[c].todo \subseteq Server
  BY ONLY <1>1, <1>2 DEF AskedOK, SlicesOK
<1>4. NextCall(c) \notin applied[s]
  BY ONLY AppliedOK, c \in Client, s \in DOMAIN asked[c].todo DEF AppliedOK
<1>. QED
  BY ONLY <1>3, <1>4, s \in DOMAIN asked[c].todo

\* The parts of a store hold the sums of the pushes B
Holding(w, B) ==
  /\ \A key \in DOMAIN w : PartSum(w[key], B)
  /\ \A p \in B : \E key \in DOMAIN w : w[key].meta.matrix = CallOf(p).matrix

(* A slice of a push that is served goes to the part that it is of.          *)
LEMMA PushServed ==
  ASSUME Inv, AppliedOK, ClientsAgree, Added, NEW c \in Client, NEW s \in DOMAIN asked[c].todo,
         NEW x, x = asked[c].call, x \in Push, NEW q, q = asked[c].todo[s].q, ~ PushFails(store[s], q),
         NEW y, y = NextCall(c), NEW st, st = store[s], NEW w, w = Pushed(st, q), NEW B, B = applied[s] \cup {y}
  PROVE  Holding(w, B)
<1>1. PICK m, A, k : m = x.matrix /\ A = applied[s] /\ k = q.key
  OBVIOUS
<1>2. s \in Server /\ y \notin A
  BY <1>1, WaitsUnserved
<1>3. IsFiniteSet(A) /\ A \subseteq Begun
  BY <1>1, <1>2 DEF AppliedOK
<1>4. CallOf(y) = x
  BY CallOfPair DEF Inv, Shapes
<1>5. \A p \in A : CallOf(p) \in Push
  BY <1>3, InBegun, InReturned, CallOfPair DEF Inv, Shapes
<1>6. /\ m \in Matrix /\ q.op \in {"PushAll", "PushRow"} /\ q.vals \in Seq(Int) /\ q.op = x.op
      /\ x.op = "PushAll" => q.meta = PartMeta(m, s) /\ q.vals = PartVals(x, s) /\ Len(q.vals) = PartSize(m, s)
      /\ x.op = "PushRow" => q.vals = x.vals
  BY ONLY <1>1, Inv, c \in Client, s \in DOMAIN asked[c].todo, x = asked[c].call, x \in Push,
          q = asked[c].todo[s].q, PushSlice
<1>7. /\ m \in DOMAIN client[c].keys /\ s \in 0 .. RealSize(m) - 1 /\ k = PartKey(client[c], m, s)
      /\ x.op = "PushRow" => x.row \in PartRows(m, s)
  BY <1>1, PushGoesHome
<1>8. IsPushed(st, q, w)
  BY ONLY <1>6, ~ PushFails(store[s], q), st = store[s], w = Pushed(st, q), PushedIs
<1>9. /\ DOMAIN w = DOMAIN st \cup {k} /\ \A j \in DOMAIN st \ {k} : w[j] = st[j]
      /\ ~ Held(st, k) => q.op = "PushAll" /\ w[k] = [meta |-> q.meta, vals |-> q.vals]
      /\ Held(st, k) /\ PartOK(st[k], m, s) =>
           /\ PartOK(w[k], m, s) /\ w[k].vals = Plus(st[k].vals, q.vals)
           /\ Len(q.vals) = Len(st[k].vals)
  BY ONLY <1>1, <1>8 DEF IsPushed
<1>10. /\ \A key \in DOMAIN st : PartSum(st[key], A)
       /\ \A p \in A : \E key \in DOMAIN st : st[key].meta.matrix = CallOf(p).matrix
  BY <1>1, <1>2 DEF Added
\* the other parts are of other matrices
<1>11. ASSUME NEW j \in DOMAIN st
       PROVE  \E n \in Matrix : PartOK(st[j], n, s) /\ (n = m => j = k)
  <2>1. PICK d \in Client : \E n \in DOMAIN client[d].keys :
          s < RealSize(n) /\ j = PartKey(client[d], n, s) /\ PartOK(st[j], n, s)
    BY <1>2 DEF Inv, StoreOK
  <2>2. PICK n \in DOMAIN client[d].keys : s < RealSize(n) /\ j = PartKey(client[d], n, s) /\ PartOK(st[j], n, s)
    BY <2>1
  <2>3. n \in Matrix
    BY Numbers DEF Inv, Shapes
  <2>4. n = m => j = k
    <3>1. Shapes
      BY DEF Inv
    <3>2. n = m => PartKey(client[c], m, s) = PartKey(client[d], m, s)
      BY ONLY <1>7, <2>2, <3>1, ClientsAgree, c \in Client, d \in Client, SameNumber
    <3>. QED
      BY ONLY <1>7, <2>2, <3>2
  <2>. QED
    BY <2>2, <2>3, <2>4
<1>12. ASSUME NEW j \in DOMAIN st, j # k
       PROVE  PartSum(w[j], B)
  <2>1. PICK n \in Matrix : PartOK(st[j], n, s) /\ n # m
    BY <1>11, <1>12
  <2>2. CallOf(y) \in Push /\ CallOf(y).matrix # n
    BY <1>1, <1>4, <2>1
  <2>3. PartSum(st[j], A \cup {y})
    BY ONLY <1>2, <1>3, <1>5, <1>10, <2>1, <2>2, j \in DOMAIN st, PartStays
  <2>. QED
    BY <1>1, <1>9, <1>12, <2>3
<1>13. PartSum(w[k], B) /\ w[k].meta.matrix = m
  <2>1. CASE Held(st, k)
    <3>1. PartOK(st[k], m, s)
      BY <1>7, <2>1, HeldPart DEF Inv
    <3>2. PartOK(w[k], m, s) /\ w[k].vals = Plus(st[k].vals, q.vals) /\ Len(q.vals) = Len(st[k].vals)
      BY ONLY <1>9, <2>1, <3>1
    <3>3. PICK v, p, z : v = q.vals /\ p = st[k] /\ z = w[k]
      OBVIOUS
    <3>4. Len(v) = PartSize(m, s) /\ v \in Seq(Int)
      BY ONLY <1>6, <3>1, <3>2, <3>3 DEF PartOK
    <3>5. Brings(x, m, s, v)
      BY ONLY <1>6, <1>7, <3>3, <3>4 DEF Brings
    <3>6. PartSum(p, A)
      BY ONLY <1>10, <2>1, <3>3 DEF Held
    <3>7. CallOf(y) \in Push /\ CallOf(y).matrix = m /\ Brings(CallOf(y), m, s, v)
      BY ONLY <1>1, <1>4, <3>5, x \in Push
    <3>8. PartOK(p, m, s) /\ PartOK(z, m, s) /\ z.vals = Plus(p.vals, v)
      BY ONLY <3>1, <3>2, <3>3
    <3>9. PartSum(z, A \cup {y})
      BY ONLY <1>2, <1>3, <1>5, <1>6, <1>7, <3>4, <3>6, <3>7, <3>8, PartAdds
    <3>10. z.meta.matrix = m
      BY ONLY <1>2, <1>6, <3>8, PartShape
    <3>. QED
      BY ONLY <1>1, <3>3, <3>9, <3>10, B = applied[s] \cup {y}
  <2>2. CASE ~ Held(st, k)
    <3>1. x.op = "PushAll" /\ w[k] = [meta |-> PartMeta(m, s), vals |-> q.vals]
      BY ONLY <1>6, <1>9, <2>2
    <3>2. PICK z : z = w[k]
      OBVIOUS
    <3>3. z = [meta |-> PartMeta(m, s), vals |-> q.vals]
      BY ONLY <3>1, <3>2
    <3>4. PartOK(z, m, s) /\ z.vals = PartVals(x, s)
      BY ONLY <1>6, <3>1, <3>3 DEF PartOK
    <3>5. Brings(x, m, s, z.vals)
      BY ONLY <3>1, <3>4 DEF Brings
    <3>6. ASSUME NEW p \in A PROVE CallOf(p) \in Push /\ CallOf(p).matrix # m
      <4>1. PICK j \in DOMAIN st : st[j].meta.matrix = CallOf(p).matrix
        BY <1>10
      <4>2. j # k
        BY <2>2 DEF Held
      <4>3. PICK n \in Matrix : PartOK(st[j], n, s) /\ n # m
        BY <1>11, <4>2
      <4>4. st[j].meta.matrix = n
        BY <1>2, <4>3, PartShape
      <4>. QED
        BY <1>5, <4>1, <4>3, <4>4
    <3>7. CallOf(y) \in Push /\ CallOf(y).matrix = m /\ Brings(CallOf(y), m, s, z.vals)
      BY ONLY <1>1, <1>4, <3>5, x \in Push
    <3>8. PartSum(z, A \cup {y})
      BY ONLY <1>2, <1>3, <1>6, <1>7, <3>4, <3>6, <3>7, PartBegins
    <3>9. z.meta.matrix = m
      BY ONLY <1>2, <1>6, <3>4, PartShape
    <3>. QED
      BY ONLY <1>1, <3>2, <3>8, <3>9, B = applied[s] \cup {y}
  <2>. QED
    BY <2>1, <2>2
<1>14. ASSUME NEW p \in B PROVE \E key \in DOMAIN w : w[key].meta.matrix = CallOf(p).matrix
  <2>1. CASE p = y
    BY ONLY <1>1, <1>4, <1>9, <1>13, <2>1
  <2>2. CASE p \in A
    <3>1. PICK j \in DOMAIN st : st[j].meta.matrix = CallOf(p).matrix
      BY <1>10, <2>2
    <3>2. CASE j = k
      <4>1. Held(st, k)
        BY <3>2 DEF Held
      <4>2. PartOK(st[k], m, s)
        BY <1>7, <4>1, HeldPart DEF Inv
      <4>3. st[k].meta.matrix = m
        BY <1>2, <1>6, <4>2, PartShape
      <4>. QED
        BY ONLY <1>9, <1>13, <3>1, <3>2, <4>3
    <3>3. CASE j # k
      BY ONLY <1>9, <3>1, <3>3
    <3>. QED
      BY <3>2, <3>3
  <2>. QED
    BY <1>1, <2>1, <2>2
<1>. QED
  BY <1>9, <1>12, <1>13, <1>14 DEF Holding

(* Serving a slice keeps the sums.                                           *)
LEMMA SumsServed ==
  ASSUME Inv, Sums, NEW c \in Client, NEW s \in Server, Busy(c), s \in DOMAIN asked[c].todo,
         Served(s, c, asked[c].call, asked[c].todo[s])
  PROVE  Sums'
<1>1. PICK x, q, y : x = asked[c].call /\ q = asked[c].todo[s].q /\ y = NextCall(c)
  OBVIOUS
<1>2. /\ log' = log /\ \A d \in Client \ {c} : asked'[d] = asked[d]
      /\ DOMAIN asked'[c].todo = DOMAIN asked[c].todo \ {s}
      /\ \A t \in Server \ {s} : store'[t] = store[t] /\ applied'[t] = applied[t]
      /\ store'[s] = (IF x \in Push THEN Pushed(store[s], q) ELSE store[s])
      /\ applied'[s] = (IF x \in Push THEN applied[s] \cup {y} ELSE applied[s])
      /\ LogOK' /\ LogGrows /\ KeysGrow
  BY <1>1, ServedChanges DEF Inv
<1>3. LogOK /\ AppliedOK
  BY DEF Inv, Shapes, Sums
<1>4. \A d : NextCall(d)' = NextCall(d)
  BY <1>2 DEF NextCall
<1>5. ASSUME NEW d \in Client, NEW t \in DOMAIN asked'[d].todo
      PROVE  t \in DOMAIN asked[d].todo /\ (d = c => t # s)
  BY <1>2
<1>6. ASSUME NEW d \in Client, NEW t \in DOMAIN asked'[d].todo
      PROVE  t \in Server /\ NextCall(d) \notin applied[t]
  BY <1>3, <1>5, WaitsUnserved
<1>7. CASE x \notin Push
  <2>1. store' = store /\ applied' = applied
    BY <1>1, <1>7 DEF Served
  <2>2. \A d \in Client : \A t \in DOMAIN asked'[d].todo : t \in Server /\ NextCall(d)' \notin applied[t]
    BY <1>4, <1>6
  <2>. QED
    BY <1>2, <1>3, <2>1, <2>2, SumsKept
<1>8. CASE x \in Push
  <2>1. y \in Begun
    BY <1>1, <1>8, InBegun
  <2>2. Begun \subseteq Begun'
    BY <1>2, <1>3, BegunStays
  <2>3. \A t \in Server : IsFiniteSet(applied[t]) /\ applied[t] \subseteq Begun
    BY <1>3 DEF AppliedOK
  <2>4. ASSUME NEW t \in Server
        PROVE  IsFiniteSet(applied'[t]) /\ applied'[t] \subseteq Begun
    <3>1. applied'[t] = applied[t] \/ applied'[t] = applied[t] \cup {y}
      BY <1>2, <1>8
    <3>. QED
      BY <2>1, <2>3, <3>1, FS_AddElement
  <2>5. ASSUME NEW d \in Client, NEW t \in DOMAIN asked'[d].todo
        PROVE  NextCall(d)' \notin applied'[t]
    <3>1. t \in Server /\ NextCall(d) \notin applied[t]
      BY <1>6
    <3>2. CASE t # s
      BY ONLY <1>2, <1>4, <3>1, <3>2
    <3>3. CASE t = s
      <4>1. d # c
        BY <1>5, <3>3
      <4>2. NextCall(d) # y
        BY <1>1, <4>1 DEF NextCall
      <4>. QED
        BY ONLY <1>2, <1>4, <1>8, <3>1, <3>3, <4>2
    <3>. QED
      BY <3>2, <3>3
  <2>6. AppliedOK'
    BY <2>2, <2>4, <2>5 DEF AppliedOK
  <2>7. ASSUME ClientsAgree' PROVE Added'
    <3>1. ClientsAgree
      BY <1>2, <1>3, <2>7, AgreedBefore
    <3>2. Added
      BY <3>1 DEF Sums
    <3>3. ~ PushFails(store[s], q)
      BY <1>1, <1>8 DEF Served
    <3>4. PICK w, B, st : w = Pushed(st, q) /\ B = applied[s] \cup {y} /\ st = store[s]
      OBVIOUS
    <3>4a. Holding(w, B)
      <4>1. ~ PushFails(st, q)
        BY ONLY <3>3, <3>4
      <4>. QED
        BY ONLY Inv, c \in Client, s \in DOMAIN asked[c].todo, <1>1, <1>3, <1>8, <3>1, <3>2, <3>3, <3>4, <4>1, PushServed
    <3>5. /\ \A key \in DOMAIN w : PartSum(w[key], B)
          /\ \A p \in B : \E key \in DOMAIN w : w[key].meta.matrix = CallOf(p).matrix
      BY ONLY <3>4a DEF Holding
    <3>6. store'[s] = w /\ applied'[s] = B
      BY ONLY <1>2, <1>8, <3>4
    <3>7. ASSUME NEW t \in Server
          PROVE  /\ \A key \in DOMAIN store'[t] : PartSum(store'[t][key], applied'[t])
                 /\ \A p \in applied'[t] : \E key \in DOMAIN store'[t] : store'[t][key].meta.matrix = CallOf(p).matrix
      <4>1. CASE t = s
        BY ONLY <3>5, <3>6, <4>1
      <4>2. CASE t # s
        <5>1. store'[t] = store[t] /\ applied'[t] = applied[t]
          BY <1>2, <4>2
        <5>2. /\ \A key \in DOMAIN store[t] : PartSum(store[t][key], applied[t])
              /\ \A p \in applied[t] : \E key \in DOMAIN store[t] : store[t][key].meta.matrix = CallOf(p).matrix
          BY <3>2 DEF Added
        <5>. QED
          BY ONLY <5>1, <5>2
      <4>. QED
        BY <4>1, <4>2
    <3>8. ASSUME NEW t \in Server, NEW key \in DOMAIN store'[t] PROVE PartSum(store[t][key], applied[t])'
      <4>1. PICK p, A : p = store'[t][key] /\ A = applied'[t]
        OBVIOUS
      <4>2. PartSum(p, A)
        BY <3>7, <3>8, <4>1
      <4>3. A \subseteq Begun
        BY <2>4, <4>1
      <4>4. \A r \in A : CallOf(r)' = CallOf(r)
        BY <1>2, <1>3, <4>3, CallsStay
      <4>5. \A r, k : At(p.meta.matrix, A, r, k)' = At(p.meta.matrix, A, r, k)
        BY ONLY <4>4, AtStays
      <4>6. PartSum(p, A)'
        BY ONLY <4>2, <4>5 DEF PartSum
      <4>. QED
        BY ONLY <4>1, <4>6
    <3>9. ASSUME NEW t \in Server, NEW p \in applied'[t]
          PROVE  \E key \in DOMAIN store'[t] : store'[t][key].meta.matrix = CallOf(p).matrix'
      <4>1. CallOf(p)' = CallOf(p)
        BY <1>2, <1>3, <2>4, CallsStay
      <4>2. \E key \in DOMAIN store'[t] : store'[t][key].meta.matrix = CallOf(p).matrix
        BY <3>7, <3>9
      <4>. QED
        BY <4>1, <4>2
    <3>. QED
      BY <3>8, <3>9 DEF Added
  <2>. QED
    BY <2>6, <2>7 DEF Sums
<1>. QED
  BY <1>7, <1>8

(* A call begins what no server has served.                                  *)
LEMMA SumsAsked ==
  ASSUME Inv, Sums, NEW c \in Client, NEW x, NEW cl, NEW sl, Asks(c, x, cl, sl)
  PROVE  Sums'
<1>1. /\ \A d \in Client \ {c} : asked'[d] = asked[d]
      /\ asked'[c] = [call |-> x, todo |-> sl, got |-> {}, before |-> Returned]
      /\ ~ Busy(c) /\ store' = store /\ applied' = applied /\ log' = log
      /\ LogOK' /\ LogGrows /\ KeysGrow
  BY AskChanges DEF Inv
<1>2. LogOK /\ AppliedOK
  BY DEF Inv, Shapes, Sums
<1>3. SlicesOK(cl, x, sl)
  BY DEF Asks
<1>4. NextCall(c) \notin Begun
  <2>1. NextCall(c) \notin Returned
    <3>1. ASSUME NEW d \in Client, NEW i \in DOMAIN log[d] PROVE NextCall(c) # <<d, i>>
      <4>1. d = c => i # Len(log[c]) + 1
        BY <1>2, LogFacts
      <4>. QED
        BY <4>1 DEF NextCall
    <3>. QED
      BY <1>2, <3>1, InReturned
  <2>2. ASSUME NEW d \in Client, NextCall(c) = NextCall(d), asked[d].call \in Push PROVE FALSE
    <3>1. c = d
      BY <2>2 DEF NextCall
    <3>. QED
      BY <1>1, <2>2, <3>1, PushIsCall
  <2>. QED
    BY <2>1, <2>2, InBegun
<1>5. ASSUME NEW d \in Client, NEW s \in DOMAIN asked'[d].todo
      PROVE  s \in Server /\ NextCall(d)' \notin applied[s]
  <2>1. NextCall(d)' = NextCall(d)
    BY <1>1 DEF NextCall
  <2>2. CASE d # c
    <3>1. s \in DOMAIN asked[d].todo
      BY <1>1, <1>5, <2>2
    <3>. QED
      BY <1>2, <2>1, <3>1, WaitsUnserved
  <2>3. CASE d = c
    <3>1. s \in DOMAIN sl
      BY <1>1, <1>5, <2>3
    <3>2. s \in Server
      BY <1>3, <3>1 DEF SlicesOK
    <3>3. applied[s] \subseteq Begun
      BY <1>2, <3>2 DEF AppliedOK
    <3>. QED
      BY <1>4, <2>1, <2>3, <3>2, <3>3
  <2>. QED
    BY <2>2, <2>3
<1>. QED
  BY <1>1, <1>2, <1>5, SumsKept

(* A call that returns has been served by all.                               *)
LEMMA SumsReturned ==
  ASSUME Inv, Sums, NEW c \in Client, Busy(c), NEW cl, Kept(client[c], cl), Returns(c, cl)
  PROVE  Sums'
<1>1. /\ \A d \in Client \ {c} : asked'[d] = asked[d] /\ log'[d] = log[d]
      /\ asked'[c] = Idle /\ store' = store /\ applied' = applied
      /\ LogOK' /\ LogGrows /\ KeysGrow
  BY ReturnsChanges
<1>2. LogOK /\ AppliedOK
  BY DEF Inv, Shapes, Sums
<1>3. ASSUME NEW d \in Client, NEW s \in DOMAIN asked'[d].todo
      PROVE  s \in Server /\ NextCall(d)' \notin applied[s]
  <2>1. d # c
    BY <1>1, <1>3, IdleIs
  <2>2. NextCall(d)' = NextCall(d)
    BY <1>1, <2>1 DEF NextCall
  <2>3. s \in DOMAIN asked[d].todo
    BY <1>1, <1>3, <2>1
  <2>. QED
    BY <1>2, <2>2, <2>3, WaitsUnserved
<1>. QED
  BY <1>1, <1>2, <1>3, SumsKept

(* A step that changes neither calls nor stores.                             *)
LEMMA SumsStay ==
  ASSUME Inv, Sums, UNCHANGED <<asked, store, applied, log>>, KeysGrow
  PROVE  Sums'
<1>1. LogOK /\ LogOK' /\ LogGrows /\ AppliedOK
  BY LogFacts DEF Inv, Shapes, LogOK, LogGrows, Sums
<1>2. ASSUME NEW d \in Client, NEW s \in DOMAIN asked'[d].todo
      PROVE  s \in Server /\ NextCall(d)' \notin applied[s]
  <2>1. NextCall(d)' = NextCall(d)
    BY DEF NextCall
  <2>. QED
    BY <1>1, <1>2, <2>1, WaitsUnserved
<1>. QED
  BY <1>1, <1>2, SumsKept

(* Nothing is held at first.                                                 *)
LEMMA SumsInit == Init => Sums
<1> SUFFICES ASSUME Init PROVE Sums
  OBVIOUS
<1>1. AppliedOK
  BY FS_EmptySet DEF Init, AppliedOK, Idle
<1>2. Added
  BY DEF Init, Added
<1>. QED
  BY <1>1, <1>2 DEF Sums

(* Every step keeps the sums.                                                *)
LEMMA SumsNext == Inv /\ Sums /\ [Next]_vars => Sums'
<1> SUFFICES ASSUME Inv, Sums, [Next]_vars PROVE Sums'
  OBVIOUS
<1>1. CASE UNCHANGED vars
  BY <1>1, SumsStay DEF vars, KeysGrow
<1>2. ASSUME NEW c \in Client, PushAll(c) \/ PushRow(c) \/ PullMatrix(c) PROVE Sums'
  <2>1. \E x, cl, sl : Asks(c, x, cl, sl)
    BY <1>2, PushAllAsks, PushRowAsks, PullAsks DEF Inv
  <2>. QED
    BY <2>1, SumsAsked
<1>3. ASSUME NEW c \in Client, Return(c) PROVE Sums'
  <2>1. CASE Unfit(c)
    <3>1. UNCHANGED <<asked, store, applied, log>> /\ client' = [client EXCEPT ![c].ended = TRUE]
      BY <2>1 DEF Unfit
    <3>2. DOMAIN client = Client /\ \A d \in Client : DOMAIN client[d] = Fields
      BY DEF Inv, Shapes, ClientOK
    <3>3. \A d \in Client : client'[d].keys = client[d].keys
      BY ONLY <3>1, <3>2 DEF Fields
    <3>. QED
      BY <3>1, <3>3, SumsStay DEF KeysGrow
  <2>2. CASE ~ Unfit(c)
    BY <1>3, <2>2, ReturnIs, SumsReturned
  <2>. QED
    BY <2>1, <2>2
<1>4. ASSUME NEW c \in Client, NEW s \in Server, Serve(s, c) PROVE Sums'
  <2>1. CASE Stops(s, c, asked[c].call, asked[c].todo[s])
    BY <2>1, SumsStay DEF Stops, KeysGrow
  <2>2. CASE Served(s, c, asked[c].call, asked[c].todo[s])
    BY <1>4, <2>2, ServeIs, SumsServed
  <2>. QED
    BY <1>4, <2>1, <2>2, ServeIs
<1>. QED
  BY <1>1, <1>2, <1>3, <1>4 DEF Next

(* A part holds the sum of what its server has served, in every state.       *)
LEMMA MatrixSums == Spec => []Sums
<1>1. Inv /\ Sums /\ [Next]_vars => Inv' /\ Sums'
  BY InvNext, SumsNext
<1>2. Init => Inv /\ Sums
  BY InvInit, SumsInit
<1>. QED
  BY <1>1, <1>2, PTL DEF Spec

----------------------------------------------------------------------------
(* What a server reads from a part that holds the sum of the pushes A.       *)

\* What the functions of a row and of a column are to return
RowsRead(st, key, A, r) ==
  LET p == st[key]
      v(i, k) == At(p.meta.matrix, A, i, k)
      Read(q) == handlePull(st, q)
  IN  /\ Read([op |-> "GetRow", key |-> key, row |-> r])
           = [j \in 1 .. Width(p) |-> v(r, p.meta.startCol + j - 1)]
      /\ Read([op |-> "RowSum", key |-> key, row |-> r]) = <<SumFunction([k \in Col(p) |-> v(r, k)])>>
      /\ \A r2 \in Row(p) : Read([op |-> "RowDot", key |-> key, key2 |-> key, row |-> r, row2 |-> r2])
           = <<SumFunction([k \in Col(p) |-> v(r, k) * v(r2, k)])>>
ColumnsRead(st, key, A, k) ==
  LET p == st[key]
      v(i, l) == At(p.meta.matrix, A, i, l)
      Read(q) == handlePull(st, q)
  IN  /\ Read([op |-> "GetCol", key |-> key, col |-> k])
           = [j \in 1 .. Height(p) |-> v(p.meta.startRow + j - 1, k)]
      /\ Read([op |-> "ColSum", key |-> key, col |-> k]) = <<SumFunction([r \in Row(p) |-> v(r, k)])>>
      /\ \A k2 \in Col(p) : Read([op |-> "ColDot", key |-> key, key2 |-> key, col |-> k, col2 |-> k2])
           = <<SumFunction([r \in Row(p) |-> v(r, k) * v(r, k2)])>>

(* The functions of a row.                                                   *)
LEMMA RowReads ==
  ASSUME NEW m \in Matrix, NEW s \in Server, NEW p, PartOK(p, m, s), NEW A, PartSum(p, A),
         NEW st, NEW key, p = st[key], NEW r \in Row(p)
  PROVE  RowsRead(st, key, A, r)
<1>1. \A t \in Row(p), k \in Col(p) : p.vals[Place(p, t, k)] = At(p.meta.matrix, A, t, k)
  BY DEF PartSum
<1>2. \A j \in 1 .. Width(p) : p.meta.startCol + j - 1 \in Col(p)
  <2>1. PICK w, u : w = Width(p) /\ u = p.meta.startCol /\ w \in Nat /\ u \in Int /\ Col(p) = u .. (u + w - 1)
    BY PartBounds
  <2>. QED
    BY ONLY <2>1
<1>3. handlePull(st, [op |-> "GetRow", key |-> key, row |-> r])
        = [j \in 1 .. Width(p) |-> At(p.meta.matrix, A, r, p.meta.startCol + j - 1)]
  <2>1. PICK q : q = [op |-> "GetRow", key |-> key, row |-> r]
    OBVIOUS
  <2>2. handlePull(st, q) = getrow(p, q)
    BY ONLY <2>1, p = st[key] DEF handlePull
  <2>3. q.row = r
    BY ONLY <2>1
  <2>4. getrow(p, q) = [j \in 1 .. Width(p) |-> p.vals[Place(p, r, p.meta.startCol + j - 1)]]
    <3>1. q.row \in Row(p)
      BY ONLY <2>3, r \in Row(p)
    <3>2. getrow(p, q) = [j \in 1 .. Width(p) |-> p.vals[Place(p, q.row, p.meta.startCol + j - 1)]]
      BY ONLY <3>1, m \in Matrix, s \in Server, PartOK(p, m, s), RowRead
    <3>. QED
      BY ONLY <2>3, <3>2
  <2>5. \A j \in 1 .. Width(p) :
          p.vals[Place(p, r, p.meta.startCol + j - 1)] = At(p.meta.matrix, A, r, p.meta.startCol + j - 1)
    BY ONLY <1>1, <1>2, r \in Row(p)
  <2>. QED
    BY ONLY <2>1, <2>2, <2>4, <2>5
<1>4. handlePull(st, [op |-> "RowSum", key |-> key, row |-> r])
        = <<SumFunction([k \in Col(p) |-> At(p.meta.matrix, A, r, k)])>>
  <2>1. PICK q : q = [op |-> "RowSum", key |-> key, row |-> r]
    OBVIOUS
  <2>2. handlePull(st, q) = <<Total(getrow(p, q))>>
    BY ONLY <2>1, p = st[key] DEF handlePull, rowsum
  <2>3. q.row = r
    BY ONLY <2>1
  <2>4. Total(getrow(p, q)) = SumFunction([k \in Col(p) |-> p.vals[Place(p, r, k)]])
    <3>1. q.row \in Row(p)
      BY ONLY <2>3, r \in Row(p)
    <3>2. Total(getrow(p, q)) = SumFunction([k \in Col(p) |-> p.vals[Place(p, q.row, k)]])
      <4>1. RowsTotal(p, q, q)
        BY ONLY <3>1, m \in Matrix, s \in Server, PartOK(p, m, s), RowSums
      <4>. QED
        BY ONLY <4>1 DEF RowsTotal
    <3>. QED
      BY ONLY <2>3, <3>2
  <2>5. [k \in Col(p) |-> p.vals[Place(p, r, k)]] = [k \in Col(p) |-> At(p.meta.matrix, A, r, k)]
    BY ONLY <1>1, r \in Row(p)
  <2>. QED
    BY ONLY <2>1, <2>2, <2>4, <2>5
<1>5. ASSUME NEW r2 \in Row(p)
      PROVE  handlePull(st, [op |-> "RowDot", key |-> key, key2 |-> key, row |-> r, row2 |-> r2])
               = <<SumFunction([k \in Col(p) |-> At(p.meta.matrix, A, r, k) * At(p.meta.matrix, A, r2, k)])>>
  <2>1. PICK q, q2 : q = [op |-> "RowDot", key |-> key, key2 |-> key, row |-> r, row2 |-> r2] /\ q2 = [row |-> r2]
    OBVIOUS
  <2>2. handlePull(st, q) = <<Dot(getrow(p, q), getrow(p, q2))>>
    BY ONLY <2>1, p = st[key] DEF handlePull, rowdot
  <2>3. q.row = r /\ q2.row = r2
    BY ONLY <2>1
  <2>4. Dot(getrow(p, q), getrow(p, q2))
          = SumFunction([k \in Col(p) |-> p.vals[Place(p, r, k)] * p.vals[Place(p, r2, k)]])
    <3>1. q.row \in Row(p) /\ q2.row \in Row(p)
      BY ONLY <2>3, r \in Row(p), r2 \in Row(p)
    <3>2. Dot(getrow(p, q), getrow(p, q2))
            = SumFunction([k \in Col(p) |-> p.vals[Place(p, q.row, k)] * p.vals[Place(p, q2.row, k)]])
      <4>1. RowsTotal(p, q, q2)
        BY ONLY <3>1, m \in Matrix, s \in Server, PartOK(p, m, s), RowSums
      <4>. QED
        BY ONLY <4>1 DEF RowsTotal
    <3>. QED
      BY ONLY <2>3, <3>2
  <2>5. [k \in Col(p) |-> p.vals[Place(p, r, k)] * p.vals[Place(p, r2, k)]]
          = [k \in Col(p) |-> At(p.meta.matrix, A, r, k) * At(p.meta.matrix, A, r2, k)]
    BY ONLY <1>1, r \in Row(p), r2 \in Row(p)
  <2>. QED
    BY ONLY <2>1, <2>2, <2>4, <2>5
<1>. QED
  BY ONLY p = st[key], <1>3, <1>4, <1>5 DEF RowsRead

(* The functions of a column.                                                *)
LEMMA ColumnReads ==
  ASSUME NEW m \in Matrix, NEW s \in Server, NEW p, PartOK(p, m, s), NEW A, PartSum(p, A),
         NEW st, NEW key, p = st[key], NEW k \in Col(p)
  PROVE  ColumnsRead(st, key, A, k)
<1>1. \A r \in Row(p), l \in Col(p) : p.vals[Place(p, r, l)] = At(p.meta.matrix, A, r, l)
  BY DEF PartSum
<1>2. \A j \in 1 .. Height(p) : p.meta.startRow + j - 1 \in Row(p)
  <2>1. PICK n, a : n = Height(p) /\ a = p.meta.startRow /\ n \in Nat /\ a \in Int /\ Row(p) = a .. (a + n - 1)
    BY PartBounds
  <2>. QED
    BY ONLY <2>1
<1>3. handlePull(st, [op |-> "GetCol", key |-> key, col |-> k])
        = [j \in 1 .. Height(p) |-> At(p.meta.matrix, A, p.meta.startRow + j - 1, k)]
  <2>1. PICK q : q = [op |-> "GetCol", key |-> key, col |-> k]
    OBVIOUS
  <2>2. handlePull(st, q) = Column(p, k)
    BY ONLY <2>1, p = st[key] DEF handlePull, getcol
  <2>3. Column(p, k) = [j \in 1 .. Height(p) |-> p.vals[Place(p, p.meta.startRow + j - 1, k)]]
    BY ONLY m \in Matrix, s \in Server, PartOK(p, m, s), k \in Col(p), ColumnRead
  <2>4. \A j \in 1 .. Height(p) :
          p.vals[Place(p, p.meta.startRow + j - 1, k)] = At(p.meta.matrix, A, p.meta.startRow + j - 1, k)
    BY ONLY <1>1, <1>2, k \in Col(p)
  <2>. QED
    BY ONLY <2>1, <2>2, <2>3, <2>4
<1>4. handlePull(st, [op |-> "ColSum", key |-> key, col |-> k])
        = <<SumFunction([r \in Row(p) |-> At(p.meta.matrix, A, r, k)])>>
  <2>1. PICK q : q = [op |-> "ColSum", key |-> key, col |-> k]
    OBVIOUS
  <2>2. handlePull(st, q) = <<Total(Column(p, k))>>
    BY ONLY <2>1, p = st[key] DEF handlePull, colsum
  <2>3. Total(Column(p, k)) = SumFunction([r \in Row(p) |-> p.vals[Place(p, r, k)]])
    BY ONLY m \in Matrix, s \in Server, PartOK(p, m, s), k \in Col(p), ColumnSums
  <2>4. [r \in Row(p) |-> p.vals[Place(p, r, k)]] = [r \in Row(p) |-> At(p.meta.matrix, A, r, k)]
    BY ONLY <1>1, k \in Col(p)
  <2>. QED
    BY ONLY <2>1, <2>2, <2>3, <2>4
<1>5. ASSUME NEW k2 \in Col(p)
      PROVE  handlePull(st, [op |-> "ColDot", key |-> key, key2 |-> key, col |-> k, col2 |-> k2])
               = <<SumFunction([r \in Row(p) |-> At(p.meta.matrix, A, r, k) * At(p.meta.matrix, A, r, k2)])>>
  <2>1. PICK q : q = [op |-> "ColDot", key |-> key, key2 |-> key, col |-> k, col2 |-> k2]
    OBVIOUS
  <2>2. handlePull(st, q) = <<Dot(Column(p, k), Column(p, k2))>>
    BY ONLY <2>1, p = st[key] DEF handlePull, coldot
  <2>3. Dot(Column(p, k), Column(p, k2))
          = SumFunction([r \in Row(p) |-> p.vals[Place(p, r, k)] * p.vals[Place(p, r, k2)]])
    BY ONLY m \in Matrix, s \in Server, PartOK(p, m, s), k \in Col(p), k2 \in Col(p), ColumnSums
  <2>4. [r \in Row(p) |-> p.vals[Place(p, r, k)] * p.vals[Place(p, r, k2)]]
          = [r \in Row(p) |-> At(p.meta.matrix, A, r, k) * At(p.meta.matrix, A, r, k2)]
    BY ONLY <1>1, k \in Col(p), k2 \in Col(p)
  <2>. QED
    BY ONLY <2>1, <2>2, <2>3, <2>4
<1>. QED
  BY ONLY p = st[key], <1>3, <1>4, <1>5 DEF ColumnsRead

(* As long as clients agree, every function of a server reads from a part    *)
(* what the matrix has there after the pushes that the server has served:    *)
(* handlePush and handlePull of KVServerMLHandle agree on where an element   *)
(* is, for every shape of a matrix and number of servers.                    *)
THEOREM MatrixReadsAreSums == Spec => []ReadsAreSums
<1>1. ASSUME Inv, Sums PROVE ReadsAreSums
  <2>1. ASSUME ClientsAgree, NEW s \in Server, NEW key \in DOMAIN store[s], NEW p, p = store[s][key]
        PROVE  /\ PartSum(p, applied[s]) /\ \E m \in Matrix : PartOK(p, m, s)
    <3>1. PICK c \in Client : \E m \in DOMAIN client[c].keys : PartOK(store[s][key], m, s)
      BY <1>1 DEF Inv, StoreOK
    <3>2. PICK m \in DOMAIN client[c].keys : PartOK(store[s][key], m, s)
      BY <3>1
    <3>3. m \in Matrix
      BY <1>1, Numbers DEF Inv, Shapes
    <3>4. PartSum(store[s][key], applied[s])
      BY <1>1, <2>1 DEF Sums, Added
    <3>. QED
      BY <2>1, <3>2, <3>3, <3>4
  <2>2. ASSUME ClientsAgree, NEW s \in Server, NEW key \in DOMAIN store[s]
        PROVE  /\ \A r \in Row(store[s][key]) : RowsRead(store[s], key, applied[s], r)
               /\ \A k \in Col(store[s][key]) : ColumnsRead(store[s], key, applied[s], k)
    <3>1. PICK p, st, A : p = st[key] /\ st = store[s] /\ A = applied[s]
      OBVIOUS
    <3>2. PICK m \in Matrix : PartOK(p, m, s) /\ PartSum(p, A)
      BY <2>1, <2>2, <3>1
    <3>3. ASSUME NEW r \in Row(p) PROVE RowsRead(st, key, A, r)
      BY ONLY s \in Server, <3>1, <3>2, <3>3, RowReads
    <3>4. ASSUME NEW k \in Col(p) PROVE ColumnsRead(st, key, A, k)
      BY ONLY s \in Server, <3>1, <3>2, <3>4, ColumnReads
    <3>. QED
      BY ONLY <3>1, <3>3, <3>4
  <2>. QED
    BY ONLY <2>2 DEF ReadsAreSums, RowsRead, ColumnsRead
<1>. QED
  BY <1>1, MatrixInvariant, MatrixSums, PTL
=============================================================================
