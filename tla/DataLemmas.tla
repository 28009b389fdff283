------------------------------ MODULE DataLemmas ------------------------------
(*****************************************************************************)
(* Facts about data that several proofs need: induction, stated with a set   *)
(* in place of a predicate so that it can be cited; the existence of         *)
(* recursive functions; what Without, the removal of elements from a         *)
(* sequence, and FlattenSeq return; and how often something is in a sequence.*)
(*****************************************************************************)
EXTENDS QueueOps, SequencesExt, TLAPS, FiniteSetTheorems, SequenceTheorems, WellFoundedInduction

(* A set of natural numbers that is not empty has a least element. *)
LEMMA LeastNatural ==
  ASSUME NEW T \in SUBSET Nat, T # {}
  PROVE  \E m \in T : \A k \in T : m <= k
<1>1. \E m \in T : \A k \in T : <<k, m>> \notin OpToRel(<, Nat)
  BY WFMin, NatLessThanWellFounded
<1>2. \A m, k \in T : <<k, m>> \notin OpToRel(<, Nat) => m <= k
  BY DEF OpToRel
<1> QED
  BY <1>1, <1>2

(* Induction: a set of naturals that holds 0 and the successor of each of    *)
(* its elements holds all of them.                                           *)
LEMMA Induction ==
  ASSUME NEW S, 0 \in S, \A n \in Nat : n \in S => n + 1 \in S
  PROVE  \A n \in Nat : n \in S
<1>1. SUFFICES ASSUME Nat \ S # {} PROVE FALSE
  OBVIOUS
<1>2. PICK m \in Nat \ S : \A k \in Nat \ S : m <= k
  BY <1>1, LeastNatural
<1>3. m # 0 /\ m \in Nat
  BY <1>2
<1>4. m - 1 \in Nat /\ m - 1 + 1 = m /\ ~ (m <= m - 1)
  BY <1>3
<1>5. m - 1 \in S
  BY <1>2, <1>4
<1>6. m \in S
  BY <1>4, <1>5
<1> QED
  BY <1>2, <1>6

(* The same with what holds of all smaller numbers.                         *)
LEMMA StrongInduction ==
  ASSUME NEW S, \A n \in Nat : (\A m \in Nat : m < n => m \in S) => n \in S
  PROVE  \A n \in Nat : n \in S
<1>1. SUFFICES ASSUME Nat \ S # {} PROVE FALSE
  OBVIOUS
<1>2. PICK m \in Nat \ S : \A k \in Nat \ S : m <= k
  BY <1>1, LeastNatural
<1>3. \A k \in Nat : k < m => k \in S
  <2>1. TAKE k \in Nat
  <2>2. HAVE k < m
  <2>3. m \in Nat /\ ~ (m <= k)
    BY <2>2, <1>2
  <2> QED
    BY <1>2, <2>3
<1> QED
  BY <1>2, <1>3

(* f is what n steps make of base, for each n.                               *)
Iterates(f, V, base, step) ==
  f \in [Nat -> V] /\ f[0] = base /\ \A n \in Nat : f[n + 1] = step[n][f[n]]

(* A step that takes a number and a value to a value can be iterated: this   *)
(* is what makes a function that recurs from n to n - 1 defined.             *)
LEMMA Iteration ==
  ASSUME NEW V, NEW base \in V, NEW step \in [Nat -> [V -> V]]
  PROVE  \E f : Iterates(f, V, base, step)
<1> DEFINE Good(n, g) == g[0] = base /\ \A i \in Nat : i < n => g[i + 1] = step[i][g[i]]
           S == {n \in Nat : \E g \in [Nat -> V] : Good(n, g)}
<1>1. 0 \in S
  <2>1. Good(0, [i \in Nat |-> base])
    OBVIOUS
  <2> QED
    BY <2>1
<1>2. ASSUME NEW n \in Nat, n \in S
      PROVE  n + 1 \in S
  <2>1. PICK g \in [Nat -> V] : Good(n, g)
    BY <1>2
  <2> DEFINE h == [g EXCEPT ![n + 1] = step[n][g[n]]]
  <2>2. h \in [Nat -> V]
    OBVIOUS
  <2>3. n + 1 # 0 /\ h[0] = base
    BY <2>1
  <2>4. ASSUME NEW i \in Nat, i < n + 1
        PROVE  h[i + 1] = step[i][h[i]]
    <3>1. i # n + 1 /\ h[i] = g[i]
      BY <2>4
    <3>2. CASE i = n
      BY <3>1, <3>2
    <3>3. CASE i # n
      <4>1. i < n /\ i + 1 # n + 1 /\ i + 1 \in Nat
        BY <3>3, <2>4
      <4> QED
        BY <4>1, <3>1, <2>1
    <3> QED
      BY <3>2, <3>3
  <2> HIDE DEF h
  <2>5. Good(n + 1, h)
    BY <2>3, <2>4
  <2> HIDE DEF Good
  <2> QED
    BY <2>2, <2>5
<1>3. \A n \in Nat : n \in S
  <2> HIDE DEF S
  <2> QED
    BY <1>1, <1>2, Induction
<1>4. ASSUME NEW n \in Nat, NEW g \in [Nat -> V], Good(n, g),
             NEW m \in Nat, n <= m, NEW h \in [Nat -> V], Good(m, h)
      PROVE  \A k \in Nat : k <= n => g[k] = h[k]
  <2> DEFINE U == {k \in Nat : k <= n => g[k] = h[k]}
  <2>1. 0 \in U
    BY <1>4
  <2>2. ASSUME NEW k \in Nat, k \in U
        PROVE  k + 1 \in U
    <3>1. SUFFICES ASSUME k + 1 <= n PROVE g[k + 1] = h[k + 1]
      OBVIOUS
    <3>2. k < n /\ k < m /\ k <= n
      BY <3>1, <1>4
    <3>3. g[k] = h[k]
      BY <2>2, <3>2
    <3> QED
      BY <3>2, <3>3, <1>4
  <2>3. \A k \in Nat : k \in U
    <3> HIDE DEF U
    <3> QED
      BY <2>1, <2>2, Induction
  <2> QED
    BY <2>3
<1> DEFINE G(n) == CHOOSE g \in [Nat -> V] : Good(n, g)
           f == [n \in Nat |-> G(n)[n]]
<1>5. \A n \in Nat : G(n) \in [Nat -> V] /\ Good(n, G(n))
  <2> HIDE DEF Good
  <2> QED
    BY <1>3
<1>6. f \in [Nat -> V]
  <2> HIDE DEF G
  <2> QED
    BY <1>5
<1>7. f[0] = base
  <2> HIDE DEF G
  <2> QED
    BY <1>5
<1>8. ASSUME NEW n \in Nat
      PROVE  f[n + 1] = step[n][f[n]]
  <2> HIDE DEF G
  <2>1. n + 1 \in Nat /\ n <= n + 1 /\ n < n + 1
    OBVIOUS
  <2>2. G(n) \in [Nat -> V] /\ Good(n, G(n)) /\ G(n + 1) \in [Nat -> V] /\ Good(n + 1, G(n + 1))
    BY <1>5, <2>1
  <2>3. G(n)[n] = G(n + 1)[n]
    <3> HIDE DEF Good
    <3> QED
      BY <1>4, <2>1, <2>2
  <2>4. G(n + 1)[n + 1] = step[n][G(n + 1)[n]]
    BY <2>1, <2>2
  <2> QED
    BY <2>1, <2>3, <2>4
<1> HIDE DEF f
<1> QED
  BY <1>6, <1>7, <1>8 DEF Iterates

(* f solves the recursive definition whose right-hand side is body.          *)
IsDefinedBy(f, D, V, body) == f \in [D -> V] /\ f = body[f]

(* What is defined for each element from what it is for smaller ones, by a   *)
(* measure, exists.                                                          *)
LEMMA Recursion ==
  ASSUME NEW D, NEW size \in [D -> Nat], NEW V, V # {}, NEW body \in [[D -> V] -> [D -> V]],
         \A g, h \in [D -> V], d \in D :
            (\A c \in D : size[c] < size[d] => g[c] = h[c]) => body[g][d] = body[h][d]
  PROVE  \E f : IsDefinedBy(f, D, V, body)
<1>1. PICK v \in V : TRUE
  OBVIOUS
<1> DEFINE W == [D -> V]
           step == [n \in Nat |-> body]
           base == [d \in D |-> v]
<1>2. base \in W /\ step \in [Nat -> [W -> W]] /\ \A n \in Nat : step[n] = body
  OBVIOUS
<1>3. PICK F \in [Nat -> W] : \A n \in Nat : F[n + 1] = body[F[n]]
  <2>1. base \in W
    BY <1>2
  <2>2. step \in [Nat -> [W -> W]]
    BY <1>2
  <2>3. PICK f : Iterates(f, W, base, step)
    <3> HIDE DEF W, base, step
    <3> QED
      BY <2>1, <2>2, Iteration
  <2> QED
    BY <2>3, <1>2 DEF Iterates
<1> DEFINE S == {k \in Nat : \A d \in D : size[d] = k => \A n \in Nat : n > k => F[n][d] = F[k + 1][d]}
<1>4. ASSUME NEW k \in Nat, \A m \in Nat : m < k => m \in S
      PROVE  k \in S
  <2>1. SUFFICES ASSUME NEW d \in D, size[d] = k, NEW n \in Nat, n > k
                 PROVE  F[n][d] = F[k + 1][d]
    OBVIOUS
  <2>2. n - 1 \in Nat /\ n - 1 + 1 = n /\ n - 1 >= k
    BY <2>1
  <2>3. F[n - 1] \in W /\ F[k] \in W
    BY <2>2
  <2>4. ASSUME NEW c \in D, size[c] < size[d]
        PROVE  F[n - 1][c] = F[k][c]
    <3>1. size[c] \in Nat /\ size[c] < k
      BY <2>1, <2>4
    <3>2. size[c] \in S
      BY <3>1, <1>4
    <3>3. \A j \in Nat : j > size[c] => F[j][c] = F[size[c] + 1][c]
      BY <3>2
    <3>4. n - 1 > size[c] /\ k > size[c]
      BY <3>1, <2>2
    <3>5. F[n - 1][c] = F[size[c] + 1][c]
      BY <3>3, <3>4, <2>2
    <3>6. F[k][c] = F[size[c] + 1][c]
      BY <3>3, <3>4
    <3> QED
      BY <3>5, <3>6
  <2>5. body[F[n - 1]][d] = body[F[k]][d]
    BY <2>3, <2>4
  <2>6. F[n] = body[F[n - 1]] /\ F[k + 1] = body[F[k]]
    BY <1>3, <2>2
  <2> QED
    BY <2>5, <2>6
<1>5. \A k \in Nat : k \in S
  <2> HIDE DEF S
  <2> QED
    BY <1>4, StrongInduction
<1> DEFINE f == [d \in D |-> F[size[d] + 1][d]]
<1>6. f \in W
  <2>1. \A d \in D : size[d] + 1 \in Nat
    OBVIOUS
  <2> QED
    BY <2>1
<1>7. ASSUME NEW d \in D
      PROVE  f[d] = body[f][d]
  <2>1. size[d] \in Nat /\ size[d] + 1 \in Nat /\ F[size[d]] \in W /\ f \in W
    BY <1>6
  <2>2. f[d] = body[F[size[d]]][d]
    BY <2>1, <1>3
  <2>3. ASSUME NEW c \in D, size[c] < size[d]
        PROVE  F[size[d]][c] = f[c]
    <3>1. size[c] \in Nat /\ size[c] \in S
      BY <1>5
    <3>2. F[size[d]][c] = F[size[c] + 1][c]
      BY <3>1, <2>3, <2>1
    <3> QED
      BY <3>2
  <2>4. body[F[size[d]]][d] = body[f][d]
    <3> HIDE DEF f
    <3> QED
      BY <2>1, <2>3
  <2> QED
    BY <2>2, <2>4
<1>8. f = body[f]
  <2>1. body[f] \in W
    BY <1>6
  <2> HIDE DEF f
  <2> QED
    BY <2>1, <1>6, <1>7
<1> HIDE DEF f
<1> QED
  BY <1>6, <1>8 DEF IsDefinedBy

-----------------------------------------------------------------------------

(* Every rank from 1 to the size of a finite set of positions is the rank of *)
(* a position: this is what makes the CHOOSE of Without defined.             *)
LEMMA EveryRankIsTaken ==
  ASSUME NEW n \in Nat, NEW keep \in SUBSET (1 .. n), NEW k \in 1 .. Cardinality(keep)
  PROVE  \E i \in keep : Cardinality({j \in keep : j <= i}) = k
<1> DEFINE Below(i) == {j \in keep : j <= i}
           C(i) == Cardinality(Below(i))
           T == {i \in 0 .. n : C(i) >= k}
<1>0. \A j \in keep : j \in Int /\ 1 <= j /\ j <= n
  OBVIOUS
<1>1. IsFiniteSet(keep) /\ Cardinality(keep) \in Nat /\ k \in Nat /\ k >= 1
  <2>1. IsFiniteSet(1 .. n)
    BY FS_Interval
  <2>2. IsFiniteSet(keep)
    BY <2>1, FS_Subset
  <2> QED
    BY <2>2, FS_CardinalityType
<1>2. ASSUME NEW i \in Int
      PROVE  IsFiniteSet(Below(i)) /\ C(i) \in Nat
  <2>1. Below(i) \in SUBSET keep
    OBVIOUS
  <2>2. IsFiniteSet(Below(i))
    BY <1>1, <2>1, FS_Subset
  <2> QED
    BY <2>2, FS_CardinalityType
<1>3. C(0) = 0
  <2>1. \A j \in keep : ~ (j <= 0)
    BY <1>0
  <2>2. Below(0) = {}
    BY <2>1
  <2> QED
    BY <2>2, FS_EmptySet
<1>4. C(n) = Cardinality(keep)
  <2>1. \A j \in keep : j <= n
    BY <1>0
  <2>2. Below(n) = keep
    BY <2>1
  <2> QED
    BY <2>2
<1>5. ASSUME NEW i \in 1 .. n
      PROVE  C(i) = IF i \in keep THEN C(i - 1) + 1 ELSE C(i - 1)
  <2>1. i \in Int /\ i - 1 \in Int /\ ~ (i <= i - 1)
    OBVIOUS
  <2>2. IsFiniteSet(Below(i - 1)) /\ i \notin Below(i - 1)
    BY <1>2, <2>1
  <2>3. \A j \in keep : j <= i <=> j <= i - 1 \/ j = i
    BY <1>0, <2>1
  <2>4. CASE i \in keep
    <3>1. i <= i
      BY <2>1
    <3>2. Below(i) = Below(i - 1) \cup {i}
      BY <2>3, <2>4, <3>1
    <3> HIDE DEF Below
    <3> QED
      BY <2>2, <2>4, <3>2, FS_AddElement
  <2>5. CASE i \notin keep
    <3>1. Below(i) = Below(i - 1)
      BY <2>3, <2>5
    <3> QED
      BY <2>5, <3>1
  <2> QED
    BY <2>4, <2>5
<1> HIDE DEF C
<1>6. T \in SUBSET Nat /\ n \in T
  BY <1>1, <1>4
<1>7. PICK m \in T : \A i \in T : m <= i
  <2> HIDE DEF T
  <2> QED
    BY <1>6, LeastNatural
<1>8. m \in 1 .. n /\ C(m) >= k
  BY <1>1, <1>3
<1>9. m - 1 \in 0 .. n /\ m - 1 \notin T
  BY <1>7, <1>8
<1>10. C(m) \in Nat /\ C(m - 1) \in Nat /\ C(m - 1) < k
  <2>1. m \in Int /\ m - 1 \in Int
    BY <1>8
  <2>2. C(m) \in Nat /\ C(m - 1) \in Nat
    BY <1>2, <2>1
  <2> QED
    BY <1>1, <1>9, <2>2
<1>11. m \in keep /\ C(m) = k
  BY <1>1, <1>5, <1>8, <1>10
<1> QED
  BY <1>11 DEF C

(* Without returns a sequence whose elements are those of q outside S. *)
LEMMA WithoutIsSeq ==
  ASSUME NEW M, NEW q \in Seq(M), NEW S
  PROVE  /\ Without(q, S) \in Seq(M)
         /\ \A i \in DOMAIN Without(q, S) :
                Without(q, S)[i] \notin S /\ \E j \in DOMAIN q : Without(q, S)[i] = q[j]
<1> DEFINE keep == {i \in DOMAIN q : q[i] \notin S}
           rank(i) == Cardinality({j \in keep : j <= i})
           pick(k) == CHOOSE i \in keep : rank(i) = k
           w == [k \in 1 .. Cardinality(keep) |-> q[pick(k)]]
<1>1. Without(q, S) = w
  BY DEF Without
<1>2. Len(q) \in Nat /\ DOMAIN q = 1 .. Len(q) /\ keep \in SUBSET (1 .. Len(q))
  OBVIOUS
<1>3. Cardinality(keep) \in Nat
  <2>1. IsFiniteSet(1 .. Len(q))
    BY <1>2, FS_Interval
  <2> HIDE DEF keep
  <2>2. IsFiniteSet(keep)
    BY <1>2, <2>1, FS_Subset
  <2> QED
    BY <2>2, FS_CardinalityType
<1>4. ASSUME NEW k \in 1 .. Cardinality(keep)
      PROVE  pick(k) \in keep
  <2> HIDE DEF keep
  <2>1. \E i \in keep : rank(i) = k
    BY <1>2, EveryRankIsTaken
  <2> QED
    BY <2>1
<1>5. ASSUME NEW k \in 1 .. Cardinality(keep)
      PROVE  q[pick(k)] \in M /\ q[pick(k)] \notin S /\ pick(k) \in DOMAIN q
  <2> HIDE DEF pick
  <2>1. pick(k) \in keep
    BY <1>4
  <2> QED
    BY <1>2, <2>1
<1>6. w \in Seq(M)
  <2> HIDE DEF keep, pick
  <2>1. w \in [1 .. Cardinality(keep) -> M]
    BY <1>5
  <2> QED
    BY <1>3, <2>1
<1>7. DOMAIN w = 1 .. Cardinality(keep)
  OBVIOUS
<1>8. ASSUME NEW i \in DOMAIN w
      PROVE  w[i] \notin S /\ \E j \in DOMAIN q : w[i] = q[j]
  <2> HIDE DEF keep, pick
  <2> QED
    BY <1>5, <1>7
<1> HIDE DEF w
<1> QED
  BY <1>1, <1>6, <1>8

(* Without keeps every element outside S in its place among the others, and  *)
(* repeats none that q has once.                                             *)
LEMMA WithoutKeeps ==
  ASSUME NEW M, NEW q \in Seq(M), NEW S
  PROVE  /\ \A j \in DOMAIN q : q[j] \notin S =>
                \E i \in DOMAIN Without(q, S) : Without(q, S)[i] = q[j]
         /\ \A i, j \in DOMAIN Without(q, S) : i < j =>
                \E a, b \in DOMAIN q :
                    a < b /\ Without(q, S)[i] = q[a] /\ Without(q, S)[j] = q[b]
         /\ (\A i, j \in DOMAIN q : q[i] = q[j] => i = j) =>
                \A i, j \in DOMAIN Without(q, S) :
                    Without(q, S)[i] = Without(q, S)[j] => i = j
<1> DEFINE keep == {i \in DOMAIN q : q[i] \notin S}
           Below(j) == {i \in keep : i <= j}
           rank(j) == Cardinality(Below(j))
           pick(k) == CHOOSE i \in keep : rank(i) = k
           w == [k \in 1 .. Cardinality(keep) |-> q[pick(k)]]
<1>1. Without(q, S) = w
  BY DEF Without
<1>2. Len(q) \in Nat /\ DOMAIN q = 1 .. Len(q) /\ keep \in SUBSET (1 .. Len(q))
  OBVIOUS
<1>3. IsFiniteSet(keep) /\ Cardinality(keep) \in Nat
  <2>1. IsFiniteSet(1 .. Len(q))
    BY <1>2, FS_Interval
  <2> HIDE DEF keep
  <2>2. IsFiniteSet(keep)
    BY <1>2, <2>1, FS_Subset
  <2> QED
    BY <2>2, FS_CardinalityType
<1>4. \A j \in keep : j \in Int
  BY <1>2
<1>5. ASSUME NEW j \in keep
      PROVE  /\ IsFiniteSet(Below(j)) /\ rank(j) \in 1 .. Cardinality(keep)
             /\ \A i \in keep : i < j => rank(i) < rank(j)
  <2> HIDE DEF keep
  <2>1. j \in Below(j) /\ Below(j) \in SUBSET keep
    BY <1>4
  <2>2. /\ IsFiniteSet(Below(j)) /\ Cardinality(Below(j)) \in Nat
        /\ Cardinality(Below(j)) <= Cardinality(keep)
    BY <1>3, <2>1, FS_Subset, FS_CardinalityType
  <2>3. Cardinality(Below(j)) # 0
    <3> HIDE DEF Below
    <3> QED
      BY <2>1, <2>2, FS_EmptySet
  <2>4. ASSUME NEW i \in keep, i < j
        PROVE  rank(i) < rank(j)
    <3>1. i \in Int /\ j \in Int
      BY <1>4
    <3>2. \A m \in keep : m <= i => m <= j
      BY <1>4, <2>4, <3>1
    <3>3. Below(i) \in SUBSET Below(j)
      BY <3>2
    <3>4. j \notin Below(i)
      BY <2>4, <3>1
    <3>5. Below(i) # Below(j)
      BY <2>1, <3>4
    <3> HIDE DEF Below
    <3>6. IsFiniteSet(Below(i)) /\ Cardinality(Below(i)) \in Nat
      BY <2>2, <3>3, FS_Subset, FS_CardinalityType
    <3>7. Cardinality(Below(i)) < Cardinality(Below(j))
      BY <2>2, <3>3, <3>5, <3>6, FS_Subset
    <3> QED
      BY <3>7
  <2> HIDE DEF Below
  <2> QED
    BY <1>3, <2>2, <2>3, <2>4
<1> HIDE DEF Below
<1>6. ASSUME NEW i \in keep, NEW j \in keep, rank(i) = rank(j)
      PROVE  i = j
  <2>1. i \in Int /\ j \in Int
    BY <1>4
  <2>2. rank(i) \in Int /\ rank(j) \in Int
    BY <1>3, <1>5
  <2> HIDE DEF keep
  <2>3. i < j => rank(i) < rank(j)
    BY <1>5
  <2>4. j < i => rank(j) < rank(i)
    BY <1>5
  <2>5. ~ (i < j) /\ ~ (j < i)
    <3> HIDE DEF rank
    <3> QED
      BY <1>6, <2>2, <2>3, <2>4
  <2> QED
    BY <2>1, <2>5
<1>7. ASSUME NEW k \in 1 .. Cardinality(keep)
      PROVE  pick(k) \in keep /\ rank(pick(k)) = k
  <2> HIDE DEF keep
  <2>1. \E i \in keep : rank(i) = k
    BY <1>2, EveryRankIsTaken DEF Below
  <2> HIDE DEF rank
  <2> QED
    BY <2>1
<1>8. DOMAIN w = 1 .. Cardinality(keep) /\ \A k \in DOMAIN w : w[k] = q[pick(k)]
  OBVIOUS
<1>9. ASSUME NEW j \in DOMAIN q, q[j] \notin S
      PROVE  \E i \in DOMAIN w : w[i] = q[j]
  <2>1. j \in keep
    BY <1>9
  <2>2. rank(j) \in DOMAIN w
    BY <1>5, <1>8, <2>1
  <2> HIDE DEF keep, w, pick
  <2>3. pick(rank(j)) \in keep /\ rank(pick(rank(j))) = rank(j)
    BY <1>7, <1>8, <2>2
  <2>4. pick(rank(j)) = j
    BY <1>6, <2>1, <2>3
  <2> QED
    BY <1>8, <2>2, <2>4
<1>10. ASSUME \A i, j \in DOMAIN q : q[i] = q[j] => i = j,
              NEW k \in DOMAIN w, NEW l \in DOMAIN w, w[k] = w[l]
       PROVE  k = l
  <2>1. pick(k) \in DOMAIN q /\ pick(l) \in DOMAIN q
    <3>1. pick(k) \in keep /\ pick(l) \in keep
      BY <1>7, <1>8
    <3> HIDE DEF pick
    <3> QED
      BY <3>1
  <2> HIDE DEF keep, w, pick
  <2>2. pick(k) = pick(l)
    BY <1>8, <1>10, <2>1
  <2> QED
    BY <1>7, <1>8, <2>2
<1>11. ASSUME NEW k \in DOMAIN w, NEW l \in DOMAIN w, k < l
       PROVE  \E a, b \in DOMAIN q : a < b /\ w[k] = q[a] /\ w[l] = q[b]
  <2>1. /\ pick(k) \in keep /\ rank(pick(k)) = k
        /\ pick(l) \in keep /\ rank(pick(l)) = l
    BY <1>7, <1>8
  <2>2. k \in Int /\ l \in Int
    BY <1>3, <1>8
  <2> HIDE DEF w, pick, rank
  <2>3. /\ pick(k) \in DOMAIN q /\ pick(l) \in DOMAIN q
        /\ pick(k) \in Int /\ pick(l) \in Int
    BY <1>4, <2>1
  <2> HIDE DEF keep
  <2>4. pick(l) # pick(k) /\ ~ (pick(l) < pick(k))
    BY <1>5, <1>11, <2>1, <2>2
  <2>5. pick(k) < pick(l)
    BY <2>3, <2>4
  <2> QED
    BY <1>8, <2>3, <2>5
<1> HIDE DEF w, keep
<1> QED
  BY <1>1, <1>9, <1>10, <1>11

(* The positions of the elements that stay, and the rank of each in them.    *)
Staying(q, S) == {i \in DOMAIN q : q[i] \notin S}
RankOf(keep, i) == Cardinality({j \in keep : j <= i})

(* No two positions have one rank.                                           *)
LEMMA RanksDiffer ==
  ASSUME NEW n \in Nat, NEW keep \in SUBSET (1 .. n)
  PROVE  /\ IsFiniteSet(keep) /\ Cardinality(keep) \in Nat
         /\ \A j \in keep : RankOf(keep, j) \in 1 .. Cardinality(keep)
         /\ \A i, j \in keep : RankOf(keep, i) = RankOf(keep, j) => i = j
<1> DEFINE Below(j) == {i \in keep : i <= j}
           rank(j) == Cardinality(Below(j))
<1>1. \A j \in keep : rank(j) = RankOf(keep, j)
  BY DEF RankOf
<1>2. \A j \in keep : j \in Int
  OBVIOUS
<1>3. IsFiniteSet(keep) /\ Cardinality(keep) \in Nat
  <2>1. IsFiniteSet(1 .. n)
    BY FS_Interval
  <2>2. IsFiniteSet(keep)
    BY <2>1, FS_Subset
  <2> QED
    BY <2>2, FS_CardinalityType
<1>4. ASSUME NEW j \in keep
      PROVE  /\ rank(j) \in 1 .. Cardinality(keep)
             /\ \A i \in keep : i < j => rank(i) < rank(j)
  <2>1. j \in Below(j) /\ Below(j) \in SUBSET keep
    BY <1>2
  <2>2. /\ IsFiniteSet(Below(j)) /\ Cardinality(Below(j)) \in Nat
        /\ Cardinality(Below(j)) <= Cardinality(keep)
    BY <1>3, <2>1, FS_Subset, FS_CardinalityType
  <2>3. Cardinality(Below(j)) # 0
    <3> HIDE DEF Below
    <3> QED
      BY <2>1, <2>2, FS_EmptySet
  <2>4. ASSUME NEW i \in keep, i < j
        PROVE  rank(i) < rank(j)
    <3>1. i \in Int /\ j \in Int
      BY <1>2
    <3>2. \A m \in keep : m <= i => m <= j
      BY <1>2, <2>4, <3>1
    <3>3. Below(i) \in SUBSET Below(j)
      BY <3>2
    <3>4. j \notin Below(i)
      BY <2>4, <3>1
    <3>5. Below(i) # Below(j)
      BY <2>1, <3>4
    <3> HIDE DEF Below
    <3>6. IsFiniteSet(Below(i)) /\ Cardinality(Below(i)) \in Nat
      BY <2>2, <3>3, FS_Subset, FS_CardinalityType
    <3>7. Cardinality(Below(i)) < Cardinality(Below(j))
      BY <2>2, <3>3, <3>5, <3>6, FS_Subset
    <3> QED
      BY <3>7
  <2> HIDE DEF Below
  <2> QED
    BY <1>3, <2>2, <2>3, <2>4
<1> HIDE DEF Below
<1>5. ASSUME NEW i \in keep, NEW j \in keep, rank(i) = rank(j)
      PROVE  i = j
  <2>1. i \in Int /\ j \in Int
    BY <1>2
  <2>2. rank(i) \in Int /\ rank(j) \in Int
    BY <1>3, <1>4
  <2>3. i < j => rank(i) < rank(j)
    BY <1>4
  <2>4. j < i => rank(j) < rank(i)
    BY <1>4
  <2>5. ~ (i < j) /\ ~ (j < i)
    <3> HIDE DEF rank
    <3> QED
      BY <1>5, <2>2, <2>3, <2>4
  <2> QED
    BY <2>1, <2>5
<1> HIDE DEF rank
<1> QED
  BY <1>1, <1>3, <1>4, <1>5

(* The place of an element in what Without returns is its rank.              *)
LEMMA WithoutAt ==
  ASSUME NEW M, NEW q \in Seq(M), NEW S
  PROVE  /\ Len(Without(q, S)) = Cardinality(Staying(q, S)) /\ Cardinality(Staying(q, S)) \in Nat
         /\ \A i \in Staying(q, S) : /\ RankOf(Staying(q, S), i) \in 1 .. Cardinality(Staying(q, S))
                                     /\ Without(q, S)[RankOf(Staying(q, S), i)] = q[i]
<1> DEFINE keep == Staying(q, S)
           rank(i) == RankOf(keep, i)
           pick(k) == CHOOSE i \in keep : rank(i) = k
           w == [k \in 1 .. Cardinality(keep) |-> q[pick(k)]]
<1>1. Without(q, S) = w
  BY DEF Without, Staying, RankOf
<1>2. Len(q) \in Nat /\ DOMAIN q = 1 .. Len(q) /\ keep \in SUBSET (1 .. Len(q))
  BY DEF Staying
<1> HIDE DEF keep
<1>3. /\ Cardinality(keep) \in Nat
      /\ \A j \in keep : rank(j) \in 1 .. Cardinality(keep)
      /\ \A i, j \in keep : rank(i) = rank(j) => i = j
  BY <1>2, RanksDiffer
<1> HIDE DEF rank
<1>4. ASSUME NEW i \in keep
      PROVE  w[rank(i)] = q[i]
  <2>1. pick(rank(i)) \in keep /\ rank(pick(rank(i))) = rank(i)
    OBVIOUS
  <2>2. pick(rank(i)) = i
    BY <1>3, <2>1
  <2> HIDE DEF pick
  <2> QED
    BY <1>3, <2>2
<1>5. Len(w) = Cardinality(keep)
  BY <1>3
<1> HIDE DEF w
<1> QED
  BY <1>1, <1>3, <1>4, <1>5 DEF keep, rank

(* Without goes through the sequence from its beginning to its end.          *)
LEMMA WithoutAppend ==
  ASSUME NEW M, NEW q \in Seq(M), NEW x \in M, NEW S
  PROVE  Without(Append(q, x), S) = IF x \in S THEN Without(q, S) ELSE Append(Without(q, S), x)
<1> DEFINE r == Append(q, x)
           n == Len(q)
           K == Staying(q, S)
           L == Staying(r, S)
           v == Without(q, S)
           w == Without(r, S)
<1>1. /\ n \in Nat /\ DOMAIN q = 1 .. n /\ r \in Seq(M) /\ Len(r) = n + 1 /\ DOMAIN r = 1 .. n + 1
      /\ \A i \in 1 .. n : r[i] = q[i]
      /\ r[n + 1] = x
  OBVIOUS
<1> HIDE DEF r, n
<1>2. L = IF x \in S THEN K ELSE K \cup {n + 1}
  BY <1>1 DEF Staying
<1>3. K \subseteq 1 .. n /\ n + 1 \notin K /\ \A i \in K : r[i] = q[i] /\ i \in Int
  BY <1>1 DEF Staying
<1>4. /\ v \in Seq(M) /\ Len(v) = Cardinality(K) /\ Cardinality(K) \in Nat
      /\ \A i \in K : RankOf(K, i) \in 1 .. Cardinality(K) /\ v[RankOf(K, i)] = q[i]
  BY WithoutAt, WithoutIsSeq
<1>5. /\ w \in Seq(M) /\ Len(w) = Cardinality(L) /\ Cardinality(L) \in Nat
      /\ \A i \in L : RankOf(L, i) \in 1 .. Cardinality(L) /\ w[RankOf(L, i)] = r[i]
  BY <1>1, WithoutAt, WithoutIsSeq
<1>6. \A k \in 1 .. Cardinality(K) : \E i \in K : RankOf(K, i) = k
  BY <1>1, <1>3, EveryRankIsTaken DEF RankOf
<1>7. \A i \in K : i \in L /\ RankOf(L, i) = RankOf(K, i)
  <2>1. ASSUME NEW i \in K
        PROVE  RankOf(L, i) = RankOf(K, i)
    <3>1. ~ (n + 1 <= i)
      BY <1>1, <1>3
    <3>2. {j \in L : j <= i} = {j \in K : j <= i}
      BY <1>2, <3>1
    <3> QED
      BY <3>2 DEF RankOf
  <2> QED
    BY <1>2, <2>1
<1>8. \A k \in 1 .. Cardinality(K) : w[k] = v[k]
  <2>1. TAKE k \in 1 .. Cardinality(K)
  <2>2. PICK i \in K : RankOf(K, i) = k
    BY <1>6
  <2>3. w[k] = r[i] /\ v[k] = q[i]
    BY <1>4, <1>5, <1>7, <2>2
  <2> QED
    BY <1>3, <2>3
<1>9. CASE x \in S
  <2>1. Len(w) = Len(v)
    BY <1>2, <1>4, <1>5, <1>9
  <2>2. w = v
    BY <1>4, <1>5, <1>8, <2>1
  <2> QED
    BY <1>9, <2>2 DEF r
<1>10. CASE x \notin S
  <2>1. L = K \cup {n + 1}
    BY <1>2, <1>10
  <2>2. IsFiniteSet(K)
    BY <1>1, <1>3, RanksDiffer
  <2>3. Cardinality(L) = Cardinality(K) + 1
    BY <1>3, <2>1, <2>2, FS_AddElement
  <2>4. RankOf(L, n + 1) = Cardinality(L) /\ n + 1 \in L
    <3>1. \A j \in L : j <= n + 1
      BY <1>1, <1>3, <2>1
    <3>2. {j \in L : j <= n + 1} = L
      BY <3>1
    <3> QED
      BY <2>1, <3>2 DEF RankOf
  <2>5. w[Cardinality(K) + 1] = x
    BY <1>1, <1>5, <2>3, <2>4
  <2>6. Append(v, x) \in Seq(M) /\ Len(Append(v, x)) = Cardinality(K) + 1
        /\ Append(v, x)[Cardinality(K) + 1] = x /\ \A k \in 1 .. Cardinality(K) : Append(v, x)[k] = v[k]
    <3> HIDE DEF v, K
    <3> QED
      BY <1>4
  <2> DEFINE a == Append(v, x)
             c == Cardinality(K)
  <2> HIDE DEF a, w, v
  <2>7. Len(w) = Len(a) /\ \A k \in 1 .. Len(w) : w[k] = a[k]
    <3>1. Len(w) = c + 1 /\ Len(a) = c + 1 /\ c \in Nat /\ w[c + 1] = a[c + 1] /\ \A k \in 1 .. c : w[k] = a[k]
      BY <1>4, <1>5, <1>8, <2>3, <2>5, <2>6 DEF a
    <3> HIDE DEF c
    <3> QED
      BY <3>1
  <2>8. w = a
    BY <1>5, <2>6, <2>7 DEF a
  <2> QED
    BY <1>10, <2>8 DEF a, r, w, v
<1> QED
  BY <1>9, <1>10

(* Induction over sequences, from the beginning to the end.                  *)
LEMMA SequencesFromTheEnd ==
  ASSUME NEW M, NEW P, <<>> \in P, \A q \in Seq(M), x \in M : q \in P => Append(q, x) \in P
  PROVE  \A q \in Seq(M) : q \in P
<1> DEFINE S == {n \in Nat : \A q \in Seq(M) : Len(q) = n => q \in P}
<1>1. 0 \in S
  BY EmptySeq
<1>2. ASSUME NEW n \in Nat, n \in S
      PROVE  n + 1 \in S
  <2>1. SUFFICES ASSUME NEW q \in Seq(M), Len(q) = n + 1
                 PROVE  q \in P
    OBVIOUS
  <2> DEFINE r == SubSeq(q, 1, n)
             x == q[n + 1]
  <2>2. n + 1 \in 1 .. Len(q) /\ x \in M
    BY <2>1
  <2>3. r \in Seq(M) /\ Len(r) = n /\ \A i \in 1 .. n : r[i] = q[i]
    BY <2>1
  <2> HIDE DEF r, x
  <2>4. /\ Append(r, x) \in Seq(M) /\ Len(Append(r, x)) = n + 1
        /\ Append(r, x)[n + 1] = x /\ \A i \in 1 .. n : Append(r, x)[i] = r[i]
    BY <2>2, <2>3
  <2>5. \A i \in 1 .. n + 1 : Append(r, x)[i] = q[i]
    BY <2>3, <2>4 DEF x
  <2>6. q = Append(r, x)
    BY <2>1, <2>4, <2>5, SeqEqual
  <2>7. r \in P
    BY <1>2, <2>3
  <2> QED
    BY <2>2, <2>3, <2>6, <2>7
<1>3. \A n \in Nat : n \in S
  <2> HIDE DEF S
  <2> QED
    BY <1>1, <1>2, Induction
<1> QED
  BY <1>3

(* What Without returns depends on which of the elements are removed only.   *)
LEMMA WithoutSame ==
  ASSUME NEW q, NEW S, NEW T, \A i \in DOMAIN q : q[i] \in S <=> q[i] \in T
  PROVE  Without(q, S) = Without(q, T)
<1> DEFINE Kept(keep) == [k \in 1 .. Cardinality(keep) |->
                            q[CHOOSE i \in keep : Cardinality({j \in keep : j <= i}) = k]]
<1>1. Staying(q, S) = Staying(q, T)
  BY DEF Staying
<1>2. Without(q, S) = Kept(Staying(q, S)) /\ Without(q, T) = Kept(Staying(q, T))
  BY DEF Without, Staying
<1> HIDE DEF Kept
<1> QED
  BY <1>1, <1>2

(* Of nothing nothing is left.                                              *)
LEMMA WithoutNone ==
  ASSUME NEW S
  PROVE  Without(<<>>, S) = <<>>
<1>1. <<>> \in Seq({}) /\ DOMAIN <<>> = {}
  BY EmptySeq
<1>2. Without(<<>>, S) \in Seq({})
  BY <1>1, WithoutIsSeq
<1>3. Len(Without(<<>>, S)) = Cardinality(Staying(<<>>, S)) /\ Staying(<<>>, S) = {}
  BY <1>1, WithoutAt DEF Staying
<1>4. Len(Without(<<>>, S)) = 0
  BY <1>3, FS_EmptySet
<1> QED
  BY <1>2, <1>4, EmptySeq

(* The functions from A to B, under a name that the provers do not expand.   *)
Maps(A, B) == [A -> B]

(* f of each element of q.                                                   *)
Image(f, q) == [i \in DOMAIN q |-> f[q[i]]]

(* The image of a sequence is as long as the sequence.                       *)
LEMMA ImageFacts ==
  ASSUME NEW A, NEW B, NEW f \in Maps(A, B), NEW q \in Seq(A)
  PROVE  /\ Image(f, q) \in Seq(B) /\ Len(Image(f, q)) = Len(q) /\ DOMAIN Image(f, q) = DOMAIN q
<1> DEFINE n == Len(q)
<1>1. n \in Nat /\ DOMAIN q = 1 .. n /\ \A i \in 1 .. n : q[i] \in A
  OBVIOUS
<1>2. Image(f, q) = [i \in 1 .. n |-> f[q[i]]]
  BY <1>1 DEF Image
<1>3. \A i \in 1 .. n : f[q[i]] \in B
  BY <1>1 DEF Maps
<1>4. Image(f, q) \in Seq(B) /\ Len(Image(f, q)) = n
  <2> HIDE DEF n
  <2> QED
    BY <1>1, <1>2, <1>3
<1> QED
  BY <1>1, <1>2, <1>4

(* The image of the empty sequence.                                          *)
LEMMA ImageNone ==
  ASSUME NEW f
  PROVE  Image(f, <<>>) = <<>>
<1>1. DOMAIN <<>> = {}
  BY EmptySeq
<1> QED
  BY <1>1 DEF Image

(* The image of a sequence with one more element.                            *)
LEMMA ImageAppend ==
  ASSUME NEW A, NEW B, NEW f \in Maps(A, B), NEW q \in Seq(A), NEW x \in A
  PROVE  Image(f, Append(q, x)) = Append(Image(f, q), f[x])
<1> DEFINE n == Len(q)
           r == Append(q, x)
           u == Image(f, q)
           v == Image(f, r)
           w == Append(u, f[x])
<1>1. /\ n \in Nat /\ r \in Seq(A) /\ Len(r) = n + 1 /\ DOMAIN r = 1 .. n + 1 /\ r[n + 1] = x
      /\ DOMAIN q = 1 .. n /\ \A i \in 1 .. n : r[i] = q[i]
  OBVIOUS
<1> HIDE DEF r
<1>2. u \in Seq(B) /\ Len(u) = n /\ \A i \in 1 .. n : u[i] = f[q[i]]
  <2>1. \A i \in DOMAIN q : u[i] = f[q[i]]
    BY DEF Image
  <2>2. u \in Seq(B)
    BY ImageFacts
  <2>3. Len(u) = Len(q)
    BY ImageFacts
  <2> QED
    BY <1>1, <2>1, <2>2, <2>3
<1>3. v \in Seq(B) /\ Len(v) = n + 1 /\ \A i \in 1 .. n + 1 : v[i] = f[r[i]]
  <2>1. \A i \in DOMAIN r : v[i] = f[r[i]]
    BY DEF Image
  <2>2. v \in Seq(B) /\ Len(v) = Len(r)
    BY <1>1, ImageFacts
  <2> QED
    BY <1>1, <2>1, <2>2
<1> HIDE DEF u, v
<1>4. w \in Seq(B) /\ Len(w) = n + 1 /\ w[n + 1] = f[x] /\ \A i \in 1 .. n : w[i] = u[i]
  <2>1. f[x] \in B
    BY DEF Maps
  <2> HIDE DEF n
  <2> QED
    BY <1>1, <1>2, <2>1
<1> HIDE DEF w, n
<1>5. \A i \in 1 .. n + 1 : v[i] = w[i]
  <2>1. ASSUME NEW i \in 1 .. n
        PROVE  v[i] = w[i]
    <3>1. i \in 1 .. n + 1
      BY <1>1
    <3>2. v[i] = f[r[i]] /\ r[i] = q[i] /\ w[i] = u[i] /\ u[i] = f[q[i]]
      BY <1>1, <1>2, <1>3, <1>4, <3>1
    <3> QED
      BY <3>2
  <2>2. v[n + 1] = w[n + 1]
    <3>1. n + 1 \in 1 .. n + 1
      BY <1>1
    <3>2. v[n + 1] = f[r[n + 1]]
      BY <1>3, <3>1
    <3> QED
      BY <1>1, <1>4, <3>2
  <2>3. \A i \in 1 .. n + 1 : i \in 1 .. n \/ i = n + 1
    BY <1>1
  <2> QED
    BY <2>1, <2>2, <2>3
<1>6. v = w
  BY <1>3, <1>4, <1>5, SeqEqual
<1> QED
  BY <1>6 DEF u, v, w, r

(* Removing elements, changing the others, and removing some of the results  *)
(* is removing the elements of both kinds and changing the others.           *)
LEMMA WithoutTwice ==
  ASSUME NEW A, NEW B, NEW f \in Maps(A, B), NEW S, NEW T, NEW R,
         \A x \in A : x \in R <=> x \in S \/ f[x] \in T
  PROVE  \A q \in Seq(A) : Without(Image(f, Without(q, S)), T) = Image(f, Without(q, R))
<1> DEFINE P == {q \in Seq(A) : Without(Image(f, Without(q, S)), T) = Image(f, Without(q, R))}
<1>1. <<>> \in P
  <2>1. Without(<<>>, S) = <<>> /\ Without(<<>>, R) = <<>> /\ Without(<<>>, T) = <<>>
    BY WithoutNone
  <2>2. Image(f, <<>>) = <<>> /\ <<>> \in Seq(A)
    BY ImageNone, EmptySeq
  <2> QED
    BY <2>1, <2>2
<1>2. ASSUME NEW q \in Seq(A), NEW x \in A, q \in P
      PROVE  Append(q, x) \in P
  <2> DEFINE u == Without(q, S)
             w == Without(q, R)
  <2>1. u \in Seq(A) /\ w \in Seq(A) /\ Append(q, x) \in Seq(A) /\ f[x] \in B
    BY WithoutIsSeq DEF Maps
  <2>2. Without(Image(f, u), T) = Image(f, w)
    BY <1>2
  <2>3. /\ Without(Append(q, x), S) = IF x \in S THEN u ELSE Append(u, x)
        /\ Without(Append(q, x), R) = IF x \in R THEN w ELSE Append(w, x)
    BY WithoutAppend
  <2> HIDE DEF u, w
  <2>4. Image(f, u) \in Seq(B) /\ Image(f, Append(u, x)) = Append(Image(f, u), f[x])
    BY <2>1, ImageFacts, ImageAppend
  <2>5. Image(f, Append(w, x)) = Append(Image(f, w), f[x])
    BY <2>1, ImageAppend
  <2>6. Without(Append(Image(f, u), f[x]), T) =
          IF f[x] \in T THEN Without(Image(f, u), T) ELSE Append(Without(Image(f, u), T), f[x])
    <3>1. PICK y \in B : y = f[x]
      BY <2>1
    <3>2. PICK i \in Seq(B) : i = Image(f, u)
      BY <2>4
    <3>3. Without(Append(i, y), T) = IF y \in T THEN Without(i, T) ELSE Append(Without(i, T), y)
      BY WithoutAppend
    <3> QED
      BY <3>1, <3>2, <3>3
  <2>7. Without(Image(f, Without(Append(q, x), S)), T) = Image(f, Without(Append(q, x), R))
    <3>1. CASE x \in S
      <4>1. x \in R
        BY <3>1
      <4> QED
        BY <2>2, <2>3, <3>1, <4>1
    <3>2. CASE x \notin S /\ f[x] \in T
      <4>1. x \in R
        BY <3>2
      <4> QED
        BY <2>2, <2>3, <2>4, <2>6, <3>2, <4>1
    <3>3. CASE x \notin S /\ f[x] \notin T
      <4>1. x \notin R
        BY <3>3
      <4> QED
        BY <2>2, <2>3, <2>4, <2>5, <2>6, <3>3, <4>1
    <3> QED
      BY <3>1, <3>2, <3>3
  <2> QED
    BY <2>1, <2>7
<1>3. \A q \in Seq(A) : q \in P
  <2> HIDE DEF P
  <2> QED
    BY <1>1, <1>2, SequencesFromTheEnd
<1> QED
  BY <1>3

(* To remove some elements and then more is to remove all of these.          *)
LEMMA WithoutMore ==
  ASSUME NEW A, NEW q \in Seq(A), NEW S, NEW T, \A x \in A : x \in S => x \in T
  PROVE  Without(Without(q, S), T) = Without(q, T)
<1> DEFINE same == [x \in A |-> x]
<1>1. same \in Maps(A, A) /\ \A x \in A : x \in T <=> x \in S \/ same[x] \in T
  BY DEF Maps
<1>2. \A r \in Seq(A) : Image(same, r) = r
  <2>1. TAKE r \in Seq(A)
  <2>2. Image(same, r) \in Seq(A) /\ Len(Image(same, r)) = Len(r)
    BY <1>1, ImageFacts
  <2>3. DOMAIN r = 1 .. Len(r) /\ \A i \in 1 .. Len(r) : r[i] \in A
    OBVIOUS
  <2>4. \A i \in DOMAIN r : Image(same, r)[i] = r[i]
    BY <2>3 DEF Image
  <2> HIDE DEF same
  <2> QED
    BY <2>2, <2>3, <2>4, SeqEqual
<1> HIDE DEF same
<1>3. Without(Image(same, Without(q, S)), T) = Image(same, Without(q, T))
  BY <1>1, WithoutTwice
<1>4. Without(q, S) \in Seq(A) /\ Without(q, T) \in Seq(A)
  BY WithoutIsSeq
<1> QED
  BY <1>2, <1>3, <1>4

(* Without returns nothing just if everything is removed.                    *)
LEMMA WithoutEmpty ==
  ASSUME NEW A, NEW q \in Seq(A), NEW S
  PROVE  Without(q, S) = <<>> <=> \A i \in DOMAIN q : q[i] \in S
<1> DEFINE w == Without(q, S)
<1>1. w \in Seq(A) /\ \A i \in DOMAIN w : w[i] \notin S /\ \E j \in DOMAIN q : w[i] = q[j]
  BY WithoutIsSeq
<1>2. \A j \in DOMAIN q : q[j] \notin S => \E i \in DOMAIN w : w[i] = q[j]
  BY WithoutKeeps
<1> HIDE DEF w
<1>3. ASSUME w = <<>>
      PROVE  \A i \in DOMAIN q : q[i] \in S
  <2>1. DOMAIN w = {}
    BY <1>3, EmptySeq
  <2> QED
    BY <1>2, <2>1
<1>4. ASSUME \A i \in DOMAIN q : q[i] \in S
      PROVE  w = <<>>
  <2>1. DOMAIN w = {}
    BY <1>1, <1>4
  <2>2. Len(w) = 0
    BY <1>1, <2>1
  <2> QED
    BY <1>1, <2>2, EmptySeq
<1> QED
  BY <1>3, <1>4 DEF w

(* Two functions that agree on the elements of a sequence map it alike.      *)
LEMMA ImageTwice ==
  ASSUME NEW A, NEW B, NEW f \in Maps(A, A), NEW g \in Maps(A, B), NEW q \in Seq(A),
         \A x \in A : g[f[x]] = g[x]
  PROVE  Image(g, Image(f, q)) = Image(g, q)
<1>1. DOMAIN Image(f, q) = DOMAIN q
  BY ImageFacts
<1>2. \A i \in DOMAIN q : q[i] \in A /\ Image(f, q)[i] = f[q[i]]
  BY DEF Image
<1>3. \A i \in DOMAIN q : g[Image(f, q)[i]] = g[q[i]]
  BY <1>2
<1>4. Image(g, Image(f, q)) = [i \in DOMAIN q |-> g[Image(f, q)[i]]]
  BY <1>1 DEF Image
<1>5. Image(g, q) = [i \in DOMAIN q |-> g[q[i]]]
  BY DEF Image
<1> QED
  BY <1>3, <1>4, <1>5

(* Removing nothing.                                                         *)
LEMMA WithoutNothing ==
  ASSUME NEW A
  PROVE  \A q \in Seq(A) : Without(q, {}) = q
<1> DEFINE P == {q \in Seq(A) : Without(q, {}) = q}
<1>1. <<>> \in P
  BY WithoutNone, EmptySeq
<1>2. ASSUME NEW q \in Seq(A), NEW x \in A, q \in P
      PROVE  Append(q, x) \in P
  <2>1. Without(Append(q, x), {}) = Append(Without(q, {}), x)
    BY WithoutAppend
  <2> QED
    BY <1>2, <2>1
<1>3. \A q \in Seq(A) : q \in P
  <2> HIDE DEF P
  <2> QED
    BY <1>1, <1>2, SequencesFromTheEnd
<1> QED
  BY <1>3

(* f[i] is what the loop of FlattenSeq has after i sequences.                *)
IsFlattening(q, A, f) ==
    /\ f \in [1..Len(q) -> Seq(A)] /\ FlattenSeq(q) = f[Len(q)]
    /\ f[1] = q[1] /\ \A i \in 2..Len(q) : f[i] = f[i - 1] \o q[i]

(* FlattenSeq is a function that recurs; here it is, for any sequence of   *)
(* sequences.                                                              *)
LEMMA FlattenLoop ==
  ASSUME NEW A, NEW q \in Seq(Seq(A)), Len(q) # 0
  PROVE  \E f : IsFlattening(q, A, f)
<1> DEFINE n == Len(q)
           IsLoop(f) == f = [i \in 1..n |-> IF i = 1 THEN q[i] ELSE f[i - 1] \o q[i]]
           loop == CHOOSE f : IsLoop(f)
<1>1. n \in Nat /\ n # 0 /\ DOMAIN q = 1..n /\ \A i \in 1..n : q[i] \in Seq(A)
  OBVIOUS
<1>2. FlattenSeq(q) = loop[n]
  BY DEF FlattenSeq
<1>3. \E g \in [1..n -> Seq(A)] : IsLoop(g)
  <2> DEFINE st == [i \in Nat |-> [v \in Seq(A) |-> IF i + 1 \in 1..n THEN v \o q[i + 1] ELSE v]]
  <2>1. ASSUME NEW i \in Nat, NEW v \in Seq(A)
        PROVE  (IF i + 1 \in 1..n THEN v \o q[i + 1] ELSE v) \in Seq(A)
    <3>1. CASE i + 1 \in 1..n
      <4>1. q[i + 1] \in Seq(A)
        BY <1>1, <3>1
      <4> QED
        BY <3>1, <4>1, ConcatProperties
    <3> QED
      BY <3>1
  <2>2. st \in [Nat -> [Seq(A) -> Seq(A)]] /\ <<>> \in Seq(A)
    BY <2>1, EmptySeq
  <2>3. PICK f : Iterates(f, Seq(A), <<>>, st)
    <3> HIDE DEF st
    <3> QED
      BY <2>2, Iteration
  <2>4. f \in [Nat -> Seq(A)] /\ f[0] = <<>> /\ \A i \in Nat : f[i + 1] = st[i][f[i]]
    BY <2>3 DEF Iterates
  <2>5. \A i \in Nat : i + 1 \in 1..n => f[i + 1] = f[i] \o q[i + 1]
    BY <2>4
  <2> HIDE DEF st, n
  <2>7. \A i \in 1..n : f[i] = f[i - 1] \o q[i]
    <3>1. TAKE i \in 1..n
    <3>2. i - 1 \in Nat /\ i - 1 + 1 = i /\ i \in 1..n
      BY <1>1
    <3>3. PICK k \in Nat : k = i - 1
      BY <3>2
    <3>4. k + 1 = i /\ k + 1 \in 1..n
      BY <3>2, <3>3
    <3>5. f[k + 1] = f[k] \o q[k + 1]
      BY <2>5, <3>4
    <3> QED
      BY <3>3, <3>4, <3>5
  <2>6. f[1] = q[1]
    <3>1. 1 \in 1..n
      BY <1>1
    <3>5. PICK i \in 1..n : i = 1
      BY <3>1
    <3>6. f[i] = f[i - 1] \o q[i]
      BY <2>7
    <3>7. i - 1 = 0
      BY <3>5
    <3>2. f[1] = f[0] \o q[1]
      BY <3>5, <3>6, <3>7
    <3>3. q[1] \in Seq(A)
      BY <1>1, <3>1
    <3>4. <<>> \o q[1] = q[1]
      BY <3>3, ConcatEmptySeq
    <3> QED
      BY <2>4, <3>2, <3>4
  <2> DEFINE g == [i \in 1..n |-> f[i]]
  <2>8. g \in [1..n -> Seq(A)]
    BY <1>1, <2>4
  <2>9. ASSUME NEW i \in 1..n
        PROVE  g[i] = IF i = 1 THEN q[i] ELSE g[i - 1] \o q[i]
    <3>1. CASE i = 1
      BY <3>1, <2>6
    <3>2. CASE i # 1
      <4>1. i \in 1..n /\ i - 1 \in 1..n
        BY <1>1, <3>2
      <4> QED
        BY <2>7, <3>2, <4>1
    <3> QED
      BY <3>1, <3>2
  <2>10. g = [i \in 1..n |-> g[i]]
    OBVIOUS
  <2> HIDE DEF g
  <2> QED
    BY <2>8, <2>9, <2>10
<1> HIDE DEF n
<1>4. PICK g \in [1..n -> Seq(A)] : IsLoop(g)
  BY <1>3
<1>5. IsLoop(loop)
  <2> HIDE DEF IsLoop
  <2> QED
    BY <1>3
<1> HIDE DEF loop
<1>6. \A i \in 1..n : loop[i] = IF i = 1 THEN q[i] ELSE loop[i - 1] \o q[i]
  BY <1>5
<1>7. \A i \in 1..n : loop[i] \in Seq(A)
  <2> DEFINE S == {i \in Nat : i + 1 \in 1..n => loop[i + 1] \in Seq(A)}
  <2>1. 0 \in S
    <3>1. 0 + 1 \in 1..n => loop[0 + 1] = q[1]
      BY <1>6
    <3>2. 1 \in 1..n
      BY <1>1
    <3> QED
      BY <1>1, <3>1, <3>2
  <2>2. ASSUME NEW i \in Nat, i \in S
        PROVE  i + 1 \in S
    <3>1. SUFFICES ASSUME i + 1 + 1 \in 1..n PROVE loop[i + 1 + 1] \in Seq(A)
      OBVIOUS
    <3>2. i + 1 \in 1..n /\ i + 1 + 1 # 1 /\ i + 1 + 1 - 1 = i + 1
      BY <1>1, <3>1
    <3>5. PICK k \in 1..n : k = i + 1 + 1
      BY <3>1
    <3>6. k # 1 /\ k - 1 = i + 1
      BY <3>2, <3>5
    <3>7. loop[k] = loop[k - 1] \o q[k]
      BY <1>6, <3>6
    <3>3. loop[i + 1 + 1] = loop[i + 1] \o q[i + 1 + 1]
      BY <3>5, <3>6, <3>7
    <3>4. loop[i + 1] \in Seq(A) /\ q[i + 1 + 1] \in Seq(A)
      BY <1>1, <2>2, <3>1, <3>2
    <3> QED
      BY <3>3, <3>4, ConcatProperties
  <2>3. \A i \in Nat : i \in S
    <3> HIDE DEF S
    <3> QED
      BY <2>1, <2>2, Induction
  <2>4. TAKE i \in 1..n
  <2>5. i - 1 \in Nat /\ i - 1 + 1 = i
    BY <1>1
  <2>6. i - 1 \in S
    BY <2>3, <2>5
  <2> QED
    BY <2>5, <2>6
<1>8. loop \in [1..n -> Seq(A)]
  <2>1. loop = [i \in 1..n |-> loop[i]]
    <3>1. loop = [i \in 1..n |-> IF i = 1 THEN q[i] ELSE loop[i - 1] \o q[i]]
      BY <1>5
    <3>2. DOMAIN loop = 1..n
      BY <3>1
    <3> QED
      BY <1>6, <3>1
  <2> QED
    BY <1>7, <2>1
<1>9. 1 \in 1..n /\ loop[1] = q[1]
  BY <1>1, <1>6
<1>10. \A i \in 2..n : loop[i] = loop[i - 1] \o q[i]
  <2>1. TAKE i \in 2..n
  <2>2. i \in 1..n /\ i # 1
    BY <1>1
  <2> QED
    BY <1>6, <2>2
<1> QED
  BY <1>2, <1>8, <1>9, <1>10 DEF n, IsFlattening

(* Flattening nothing.                                                       *)
LEMMA FlattenNone == FlattenSeq(<<>>) = <<>>
<1>1. Len(<<>>) = 0
  BY EmptySeq
<1> QED
  BY <1>1 DEF FlattenSeq

(* Flattening goes through the sequence of sequences from beginning to end.  *)
LEMMA FlattenAppend ==
  ASSUME NEW A, NEW q \in Seq(Seq(A)), NEW x \in Seq(A)
  PROVE  /\ FlattenSeq(q) \in Seq(A)
         /\ FlattenSeq(Append(q, x)) = FlattenSeq(q) \o x
<1> DEFINE n == Len(q)
           r == Append(q, x)
<1>1. /\ n \in Nat /\ r \in Seq(Seq(A)) /\ Len(r) = n + 1 /\ r[n + 1] = x
      /\ \A i \in 1..n : r[i] = q[i] /\ q[i] \in Seq(A)
  OBVIOUS
<1> HIDE DEF r
<1>2. PICK g \in [1..n + 1 -> Seq(A)] :
            /\ FlattenSeq(r) = g[n + 1]
            /\ g[1] = r[1] /\ \A i \in 2..n + 1 : g[i] = g[i - 1] \o r[i]
  <2>1. Len(r) # 0
    BY <1>1
  <2>2. PICK g : IsFlattening(r, A, g)
    BY <1>1, <2>1, FlattenLoop
  <2> HIDE DEF n
  <2> QED
    BY <1>1, <2>2 DEF IsFlattening
<1>3. CASE n = 0
  <2>1. q = <<>>
    BY <1>3, EmptySeq
  <2>2. FlattenSeq(q) = <<>> /\ <<>> \in Seq(A) /\ <<>> \o x = x
    BY <2>1, FlattenNone, EmptySeq, ConcatEmptySeq
  <2>3. g[n + 1] = x
    <3>1. n + 1 = 1
      BY <1>3
    <3> QED
      BY <1>1, <1>2, <3>1
  <2> QED
    BY <1>2, <2>2, <2>3 DEF r
<1>4. CASE n # 0
  <2>1. PICK f \in [1..n -> Seq(A)] :
            /\ FlattenSeq(q) = f[n]
            /\ f[1] = q[1] /\ \A i \in 2..n : f[i] = f[i - 1] \o q[i]
    <3>1. PICK f : IsFlattening(q, A, f)
      BY <1>4, FlattenLoop
    <3> QED
      BY <3>1 DEF IsFlattening
  <2> HIDE DEF n
  <2> DEFINE S == {i \in Nat : i + 1 \in 1..n => f[i + 1] = g[i + 1]}
  <2>2. 0 \in S
    <3>1. 1 \in 1..n
      BY <1>1, <1>4
    <3>2. f[1] = g[1]
      BY <1>1, <1>2, <2>1, <3>1
    <3> QED
      BY <3>2
  <2>3. ASSUME NEW i \in Nat, i \in S
        PROVE  i + 1 \in S
    <3>1. SUFFICES ASSUME i + 1 + 1 \in 1..n PROVE f[i + 1 + 1] = g[i + 1 + 1]
      OBVIOUS
    <3>2. PICK k \in 2..n : k = i + 1 + 1
      BY <1>1, <3>1
    <3>3. k - 1 = i + 1 /\ k \in 2..n + 1 /\ k \in 1..n /\ i + 1 \in 1..n
      BY <1>1, <3>2
    <3>4. f[k] = f[k - 1] \o q[k]
      BY <2>1
    <3>5. g[k] = g[k - 1] \o r[k]
      BY <1>2, <3>3
    <3>6. r[k] = q[k]
      BY <1>1, <3>3
    <3>7. f[k - 1] = g[k - 1]
      BY <2>3, <3>3
    <3> QED
      BY <3>2, <3>4, <3>5, <3>6, <3>7
  <2>4. \A i \in Nat : i \in S
    <3> HIDE DEF S
    <3> QED
      BY <2>2, <2>3, Induction
  <2>5. f[n] = g[n]
    <3>1. PICK i \in Nat : i = n - 1
      BY <1>1, <1>4
    <3>2. i + 1 = n /\ i + 1 \in 1..n
      BY <1>1, <1>4, <3>1
    <3>3. i + 1 \in 1..n => f[i + 1] = g[i + 1]
      BY <2>4
    <3> QED
      BY <3>2, <3>3
  <2>6. g[n + 1] = g[n] \o x
    <3>1. PICK k \in 2..n + 1 : k = n + 1
      BY <1>1, <1>4
    <3>2. g[k] = g[k - 1] \o r[k]
      BY <1>2
    <3>3. k - 1 = n
      BY <1>1, <3>1
    <3> QED
      BY <1>1, <3>1, <3>2, <3>3
  <2>7. f[n] \in Seq(A)
    BY <1>1, <1>4, <2>1
  <2> QED
    BY <1>2, <2>1, <2>5, <2>6, <2>7 DEF r
<1> QED
  BY <1>3, <1>4

(* Flattening one after the other.                                           *)
LEMMA FlattenConcat ==
  ASSUME NEW A, NEW q \in Seq(Seq(A))
  PROVE  \A r \in Seq(Seq(A)) : FlattenSeq(q \o r) = FlattenSeq(q) \o FlattenSeq(r)
<1> DEFINE P == {r \in Seq(Seq(A)) : FlattenSeq(q \o r) = FlattenSeq(q) \o FlattenSeq(r)}
<1>1. <<>> \in P
  <2>1. q \o <<>> = q /\ <<>> \in Seq(Seq(A))
    BY EmptySeq, ConcatEmptySeq
  <2>2. FlattenSeq(q) \in Seq(A)
    <3>1. <<>> \in Seq(A)
      BY EmptySeq
    <3> QED
      BY <3>1, FlattenAppend
  <2>3. FlattenSeq(q) \o <<>> = FlattenSeq(q)
    BY <2>2, ConcatEmptySeq
  <2> QED
    BY <2>1, <2>3, FlattenNone
<1>2. ASSUME NEW r \in Seq(Seq(A)), NEW x \in Seq(A), r \in P
      PROVE  Append(r, x) \in P
  <2>1. q \o r \in Seq(Seq(A)) /\ Append(r, x) \in Seq(Seq(A))
    BY ConcatProperties, AppendProperties
  <2>2. q \o Append(r, x) = Append(q \o r, x)
    <3>1. q \o Append(r, x) \in Seq(Seq(A)) /\ Append(q \o r, x) \in Seq(Seq(A))
      BY <2>1, ConcatProperties, AppendProperties
    <3>2. /\ Len(q \o Append(r, x)) = Len(Append(q \o r, x))
          /\ \A i \in 1..Len(q \o Append(r, x)) : (q \o Append(r, x))[i] = Append(q \o r, x)[i]
      OBVIOUS
    <3> QED
      BY <3>1, <3>2, SeqEqual
  <2>3. PICK c \in Seq(Seq(A)) : c = q \o r
    BY <2>1
  <2>4. FlattenSeq(Append(c, x)) = FlattenSeq(c) \o x
    BY FlattenAppend
  <2>5. FlattenSeq(Append(r, x)) = FlattenSeq(r) \o x /\ FlattenSeq(r) \in Seq(A) /\ FlattenSeq(q) \in Seq(A)
    BY FlattenAppend
  <2>6. (FlattenSeq(q) \o FlattenSeq(r)) \o x = FlattenSeq(q) \o (FlattenSeq(r) \o x)
    BY <2>5, ConcatAssociative
  <2>7. FlattenSeq(c) = FlattenSeq(q) \o FlattenSeq(r)
    BY <1>2, <2>3
  <2> QED
    BY <2>1, <2>2, <2>3, <2>4, <2>5, <2>6, <2>7
<1>3. \A r \in Seq(Seq(A)) : r \in P
  <2> HIDE DEF P
  <2> QED
    BY <1>1, <1>2, SequencesFromTheEnd
<1> QED
  BY <1>3

(* How often p is in s.                                                      *)
Count(p, s) == Cardinality({i \in DOMAIN s : s[i] = p})

(* Nothing is in the empty sequence.                                         *)
LEMMA CountNone ==
  ASSUME NEW p
  PROVE  Count(p, <<>>) = 0
<1>1. DOMAIN <<>> = {}
  BY EmptySeq
<1>2. {i \in DOMAIN <<>> : <<>>[i] = p} = {}
  BY <1>1
<1> QED
  BY <1>2, FS_EmptySet DEF Count

(* A sequence with one more element.                                         *)
LEMMA CountAppend ==
  ASSUME NEW A, NEW q \in Seq(A), NEW x \in A, NEW p
  PROVE  /\ Count(p, q) \in Nat
         /\ Count(p, Append(q, x)) = IF x = p THEN Count(p, q) + 1 ELSE Count(p, q)
<1> DEFINE r == Append(q, x)
           n == Len(q)
           Q == {i \in DOMAIN q : q[i] = p}
           R == {i \in DOMAIN r : r[i] = p}
<1>1. /\ n \in Nat /\ DOMAIN q = 1..n /\ DOMAIN r = 1..n + 1
      /\ \A i \in 1..n : r[i] = q[i]
      /\ r[n + 1] = x
  OBVIOUS
<1> HIDE DEF n, r
<1>2. IsFiniteSet(Q) /\ n + 1 \notin Q
  <2>1. IsFiniteSet(1..n) /\ Q \in SUBSET (1..n)
    BY <1>1, FS_Interval
  <2> HIDE DEF Q
  <2>2. IsFiniteSet(Q)
    BY <2>1, FS_Subset
  <2> QED
    BY <1>1, <2>1, <2>2
<1>3. R = IF x = p THEN Q \cup {n + 1} ELSE Q
  <2>1. DOMAIN r = DOMAIN q \cup {n + 1}
    BY <1>1
  <2>2. \A i \in DOMAIN q : r[i] = q[i]
    BY <1>1
  <2> QED
    BY <1>1, <2>1, <2>2
<1>4. Cardinality(Q) \in Nat
  BY <1>2, FS_CardinalityType
<1> HIDE DEF Q, R
<1>5. Cardinality(Q \cup {n + 1}) = Cardinality(Q) + 1
  BY <1>2, FS_AddElement
<1>6. Count(p, q) = Cardinality(Q) /\ Count(p, r) = Cardinality(R)
  BY DEF Count, Q, R
<1> QED
  BY <1>3, <1>4, <1>5, <1>6 DEF r

(* Appending to the second of two sequences.                                 *)
LEMMA ConcatAppend ==
  ASSUME NEW A, NEW q \in Seq(A), NEW r \in Seq(A), NEW x \in A
  PROVE  q \o Append(r, x) = Append(q \o r, x) /\ q \o r \in Seq(A) /\ Append(r, x) \in Seq(A)
<1>1. q \o Append(r, x) \in Seq(A) /\ Append(q \o r, x) \in Seq(A) /\ q \o r \in Seq(A) /\ Append(r, x) \in Seq(A)
  BY ConcatProperties, AppendProperties
<1>2. /\ Len(q \o Append(r, x)) = Len(Append(q \o r, x))
      /\ \A i \in 1..Len(q \o Append(r, x)) : (q \o Append(r, x))[i] = Append(q \o r, x)[i]
  OBVIOUS
<1> QED
  BY <1>1, <1>2, SeqEqual

(* Two sequences together.                                                   *)
LEMMA CountConcat ==
  ASSUME NEW A, NEW q \in Seq(A), NEW p
  PROVE  \A r \in Seq(A) : /\ Count(p, r) \in Nat
                           /\ Count(p, q \o r) = Count(p, q) + Count(p, r)
<1> DEFINE P == {r \in Seq(A) : Count(p, r) \in Nat /\ Count(p, q \o r) = Count(p, q) + Count(p, r)}
<1>0. ASSUME NEW s \in Seq(A)
      PROVE  Count(p, s) \in Nat
  <2>1. CASE s = <<>>
    BY <2>1, CountNone
  <2>2. CASE s # <<>>
    <3>1. s[1] \in A
      BY <2>2, EmptySeq
    <3> QED
      BY <3>1, CountAppend
  <2> QED
    BY <2>1, <2>2
<1>1. <<>> \in P
  <2>1. q \o <<>> = q /\ <<>> \in Seq(A)
    BY EmptySeq, ConcatEmptySeq
  <2> QED
    BY <1>0, <2>1, CountNone
<1>2. ASSUME NEW r \in Seq(A), NEW x \in A, r \in P
      PROVE  Append(r, x) \in P
  <2>1. q \o Append(r, x) = Append(q \o r, x) /\ Append(r, x) \in Seq(A)
    BY ConcatAppend
  <2>2. PICK c \in Seq(A) : c = q \o r
    BY ConcatProperties
  <2>3. Count(p, Append(c, x)) = IF x = p THEN Count(p, c) + 1 ELSE Count(p, c)
    BY CountAppend
  <2>4. Count(p, Append(r, x)) = IF x = p THEN Count(p, r) + 1 ELSE Count(p, r)
    BY CountAppend
  <2>5. Count(p, c) = Count(p, q) + Count(p, r) /\ Count(p, r) \in Nat /\ Count(p, q) \in Nat
    BY <1>0, <1>2, <2>2
  <2>6. Count(p, q \o Append(r, x)) = Count(p, Append(c, x))
    BY <2>1, <2>2
  <2> HIDE DEF Count
  <2>7. Count(p, q \o Append(r, x)) = Count(p, q) + Count(p, Append(r, x)) /\ Count(p, Append(r, x)) \in Nat
    BY <2>3, <2>4, <2>5, <2>6
  <2> QED
    BY <2>1, <2>7
<1>3. \A r \in Seq(A) : r \in P
  <2> HIDE DEF P
  <2> QED
    BY <1>1, <1>2, SequencesFromTheEnd
<1> QED
  BY <1>3

(* What is counted is there.                                                 *)
LEMMA CountZero ==
  ASSUME NEW A, NEW q \in Seq(A), NEW p, \A i \in DOMAIN q : q[i] # p
  PROVE  Count(p, q) = 0
<1>1. {i \in DOMAIN q : q[i] = p} = {}
  OBVIOUS
<1> QED
  BY <1>1, FS_EmptySet DEF Count

(* What is once in a sequence is counted once.                               *)
LEMMA CountOne ==
  ASSUME NEW A, NEW q \in Seq(A), NEW k \in DOMAIN q, \A i \in DOMAIN q : q[i] = q[k] => i = k
  PROVE  Count(q[k], q) = 1
<1>1. {i \in DOMAIN q : q[i] = q[k]} = {k}
  OBVIOUS
<1> QED
  BY <1>1, FS_Singleton DEF Count

(* Removing from two sequences.                                              *)
LEMMA WithoutConcat ==
  ASSUME NEW A, NEW q \in Seq(A), NEW S
  PROVE  \A r \in Seq(A) : Without(q \o r, S) = Without(q, S) \o Without(r, S)
<1> DEFINE P == {r \in Seq(A) : Without(q \o r, S) = Without(q, S) \o Without(r, S)}
<1>0. \A r \in Seq(A) : Without(r, S) \in Seq(A)
  BY WithoutIsSeq
<1>1. <<>> \in P
  <2>1. q \o <<>> = q /\ <<>> \in Seq(A)
    BY EmptySeq, ConcatEmptySeq
  <2>2. Without(q, S) \o <<>> = Without(q, S)
    BY <1>0, ConcatEmptySeq
  <2> QED
    BY <2>1, <2>2, WithoutNone
<1>2. ASSUME NEW r \in Seq(A), NEW x \in A, r \in P
      PROVE  Append(r, x) \in P
  <2>1. q \o Append(r, x) = Append(q \o r, x) /\ Append(r, x) \in Seq(A)
    BY ConcatAppend
  <2>2. PICK c \in Seq(A) : c = q \o r
    BY ConcatProperties
  <2>3. Without(Append(c, x), S) = IF x \in S THEN Without(c, S) ELSE Append(Without(c, S), x)
    BY WithoutAppend
  <2>4. Without(Append(r, x), S) = IF x \in S THEN Without(r, S) ELSE Append(Without(r, S), x)
    BY WithoutAppend
  <2>5. Without(c, S) = Without(q, S) \o Without(r, S)
    BY <1>2, <2>2
  <2>6. Without(q, S) \o Append(Without(r, S), x) = Append(Without(q, S) \o Without(r, S), x)
    BY <1>0, ConcatAppend
  <2> QED
    BY <2>1, <2>2, <2>3, <2>4, <2>5, <2>6
<1>3. \A r \in Seq(A) : r \in P
  <2> HIDE DEF P
  <2> QED
    BY <1>1, <1>2, SequencesFromTheEnd
<1> QED
  BY <1>3

(* What is left when all but a range of positions is removed is the range.   *)
LEMMA WithoutMiddle ==
  ASSUME NEW A, NEW q \in Seq(A), NEW S, NEW a \in 1..Len(q) + 1, NEW b \in 0..Len(q), a <= b + 1,
         \A i \in DOMAIN q : q[i] \notin S <=> a <= i /\ i <= b
  PROVE  Without(q, S) = SubSeq(q, a, b)
<1> DEFINE n == Len(q)
           w == Without(q, S)
           s == SubSeq(q, a, b)
<1>1. n \in Nat /\ DOMAIN q = 1..n /\ a \in Nat /\ b \in Nat /\ 1 <= a /\ b <= n
  OBVIOUS
<1>2. Staying(q, S) = a..b
  BY <1>1 DEF Staying
<1>3. Cardinality(a..b) = b - a + 1 /\ \A i \in a..b : RankOf(a..b, i) = i - a + 1
  <2>1. Cardinality(a..b) = b - a + 1
    <3>1. CASE a <= b
      BY <1>1, <3>1, FS_Interval
    <3>2. CASE ~ (a <= b)
      <4>1. a..b = {} /\ b - a + 1 = 0
        BY <1>1, <3>2
      <4> QED
        BY <4>1, FS_EmptySet
    <3> QED
      BY <3>1, <3>2
  <2>2. ASSUME NEW i \in a..b
        PROVE  RankOf(a..b, i) = i - a + 1
    <3>1. {j \in a..b : j <= i} = a..i /\ a \in Int /\ i \in Int /\ a <= i
      BY <1>1
    <3>2. Cardinality(a..i) = i - a + 1
      BY <3>1, FS_Interval
    <3> QED
      BY <3>1, <3>2 DEF RankOf
  <2> QED
    BY <2>1, <2>2
<1>4. /\ w \in Seq(A) /\ Len(w) = Cardinality(a..b)
      /\ \A i \in a..b : w[RankOf(a..b, i)] = q[i]
  BY <1>2, WithoutAt, WithoutIsSeq
<1>5. s \in Seq(A) /\ Len(s) = b - a + 1 /\ \A k \in 1..b - a + 1 : s[k] = q[a + k - 1]
  <2>1. \A i \in 1..n : q[i] \in A
    OBVIOUS
  <2> HIDE DEF n
  <2>2. \A k \in 1..b - a + 1 : a + k - 1 \in 1..n /\ q[a + k - 1] \in A
    BY <1>1, <2>1
  <2>3. s = [k \in 1..b - a + 1 |-> q[a + k - 1]]
    BY <1>1 
  <2>4. b - a + 1 \in Nat
    BY <1>1
  <2> DEFINE c == b - a + 1
  <2>5. s \in [1..c -> A] /\ c \in Nat
    BY <2>2, <2>3, <2>4
  <2> HIDE DEF c, s
  <2>6. s \in Seq(A) /\ Len(s) = c
    BY <2>5
  <2> QED
    BY <2>3, <2>6 DEF c
<1> HIDE DEF w, s
<1>6. \A k \in 1..b - a + 1 : w[k] = s[k]
  <2>1. TAKE k \in 1..b - a + 1
  <2>2. PICK i \in a..b : i = a + k - 1
    BY <1>1
  <2>3. i - a + 1 = k
    BY <1>1, <2>2
  <2>4. w[k] = q[i]
    BY <1>3, <1>4, <2>3
  <2> QED
    BY <1>5, <2>2, <2>4
<1>7. Len(w) = b - a + 1
  BY <1>3, <1>4
<1>8. w = s
  BY <1>4, <1>5, <1>6, <1>7, SeqEqual
<1> QED
  BY <1>8 DEF w, s

(* The image of two sequences together.                                      *)
LEMMA ImageConcat ==
  ASSUME NEW A, NEW B, NEW f \in Maps(A, B), NEW q \in Seq(A)
  PROVE  \A r \in Seq(A) : Image(f, q \o r) = Image(f, q) \o Image(f, r)
<1> DEFINE P == {r \in Seq(A) : Image(f, q \o r) = Image(f, q) \o Image(f, r)}
<1>0. \A r \in Seq(A) : Image(f, r) \in Seq(B)
  BY ImageFacts
<1>1. <<>> \in P
  <2>1. q \o <<>> = q /\ <<>> \in Seq(A)
    BY EmptySeq, ConcatEmptySeq
  <2>2. Image(f, q) \o <<>> = Image(f, q)
    BY <1>0, ConcatEmptySeq
  <2> QED
    BY <2>1, <2>2, ImageNone
<1>2. ASSUME NEW r \in Seq(A), NEW x \in A, r \in P
      PROVE  Append(r, x) \in P
  <2>1. q \o Append(r, x) = Append(q \o r, x) /\ Append(r, x) \in Seq(A)
    BY ConcatAppend
  <2>2. PICK c \in Seq(A) : c = q \o r
    BY ConcatProperties
  <2>3. Image(f, Append(c, x)) = Append(Image(f, c), f[x]) /\ Image(f, Append(r, x)) = Append(Image(f, r), f[x])
    BY ImageAppend
  <2>4. Image(f, c) = Image(f, q) \o Image(f, r)
    BY <1>2, <2>2
  <2>5. PICK y \in B : y = f[x]
    BY DEF Maps
  <2>6. Image(f, q) \o Append(Image(f, r), y) = Append(Image(f, q) \o Image(f, r), y)
    BY <1>0, ConcatAppend
  <2> QED
    BY <2>1, <2>2, <2>3, <2>4, <2>5, <2>6
<1>3. \A r \in Seq(A) : r \in P
  <2> HIDE DEF P
  <2> QED
    BY <1>1, <1>2, SequencesFromTheEnd
<1> QED
  BY <1>3

(* One more element of a beginning.                                          *)
LEMMA PrefixGrows ==
  ASSUME NEW A, NEW q \in Seq(A), NEW j \in 1..Len(q)
  PROVE  SubSeq(q, 1, j) = Append(SubSeq(q, 1, j - 1), q[j]) /\ SubSeq(q, 1, j - 1) \in Seq(A)
<1> DEFINE i == j - 1
<1>1. j \in 1..Len(q) /\ i \in 0..Len(q) /\ j - 1 = i
  OBVIOUS
<1>2. SubSeq(q, 1, i) \in Seq(A) /\ Len(SubSeq(q, 1, i)) = i /\ \A k \in 1..i : SubSeq(q, 1, i)[k] = q[k]
  <2>1. i \in Nat /\ 1..i \subseteq 1..Len(q)
    BY <1>1
  <2> QED
    BY <1>1, <2>1, SubSeqProperties
<1>3. SubSeq(q, 1, j) \in Seq(A) /\ Len(SubSeq(q, 1, j)) = j /\ \A k \in 1..j : SubSeq(q, 1, j)[k] = q[k]
  <2>1. j \in Nat /\ 1..j \subseteq 1..Len(q)
    BY <1>1
  <2> QED
    BY <1>1, <2>1, SubSeqProperties
<1>4. q[j] \in A
  BY <1>1
<1>5. PICK a \in Seq(A), b \in Seq(A) : a = SubSeq(q, 1, i) /\ b = SubSeq(q, 1, j)
  BY <1>2, <1>3
<1>6. PICK c \in Seq(A) : c = Append(a, q[j])
  BY <1>4, AppendProperties
<1>7. Len(c) = Len(a) + 1 /\ c[Len(a) + 1] = q[j] /\ \A k \in 1..Len(a) : c[k] = a[k]
  BY <1>4, <1>6, AppendProperties
<1>8. Len(a) = i /\ Len(b) = j
  BY <1>2, <1>3, <1>5
<1>9. Len(c) = j /\ \A k \in 1..j : c[k] = b[k]
  <2>1. Len(c) = j /\ c[j] = q[j] /\ \A k \in 1..i : c[k] = q[k]
    BY <1>2, <1>5, <1>7, <1>8
  <2>2. \A k \in 1..j : k = j \/ k \in 1..i
    BY <1>1
  <2>3. \A k \in 1..j : b[k] = q[k]
    BY <1>3, <1>5
  <2> QED
    BY <2>1, <2>2, <2>3
<1>10. c = b
  BY <1>8, <1>9, SeqEqual
<1> QED
  BY <1>1, <1>2, <1>4, <1>5, <1>6, <1>10
===============================================================================
