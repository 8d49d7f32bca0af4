----------------------------- MODULE DataLemmas -----------------------------
(***************************************************************************)
(* Induction over naturals and finite sets, said of sets instead of        *)
(* operators, and what it gives: recursive functions over the subsets of a *)
(* finite set exist, which is what the folds of the models stand on.       *)
(***************************************************************************)
EXTENDS Integers, FiniteSetsExt, FiniteSetTheorems, WellFoundedInduction, TLAPS

-----------------------------------------------------------------------------
(* Least elements and induction.                                           *)

LEMMA LessWellFounded == IsWellFoundedOn({p \in Nat \X Nat : p[1] < p[2]}, Nat)
BY NatLessThanWellFounded DEF OpToRel

LEMMA Least ==
  ASSUME NEW T \in SUBSET Nat, T # {}
  PROVE  \E x \in T : \A y \in T : x <= y
<1> DEFINE R == {p \in Nat \X Nat : p[1] < p[2]}
<1>1. \A x, y \in Nat : <<y, x>> \notin R => x <= y
  OBVIOUS
<1>2. \E x \in T : \A y \in T : <<y, x>> \notin R
  <2>1. IsWellFoundedOn(R, Nat) /\ T \subseteq Nat
    BY LessWellFounded
  <2> HIDE DEF R
  <2> QED
    BY <2>1, WFMin
<1> HIDE DEF R
<1> QED
  BY <1>1, <1>2

LEMMA MinIsLeast ==
  ASSUME NEW T \in SUBSET Nat, T # {}
  PROVE  Min(T) \in T /\ \A y \in T : Min(T) <= y
BY Least DEF Min

\* Induction, of a set of naturals.
LEMMA InductionOnNat ==
  ASSUME NEW T, 0 \in T, \A n \in Nat : n \in T => n + 1 \in T
  PROVE  \A n \in Nat : n \in T
<1> SUFFICES ASSUME NEW m \in Nat, m \notin T PROVE FALSE
  OBVIOUS
<1> DEFINE U == {n \in Nat : n \notin T}
<1>1. PICK x \in U : \A y \in U : x <= y
  <2>1. U \in SUBSET Nat /\ U # {}
    OBVIOUS
  <2> HIDE DEF U
  <2> QED
    BY <2>1, Least
<1>2. x \in Nat /\ x \notin T /\ x # 0
  OBVIOUS
<1>3. x - 1 \in Nat /\ x - 1 \notin U
  BY <1>1, <1>2
<1>4. x - 1 \in T
  BY <1>3
<1> QED
  BY <1>2, <1>3, <1>4

LEMMA MinIs ==
  ASSUME NEW X \in SUBSET Nat, NEW k \in X, \A j \in X : k <= j
  PROVE  Min(X) = k
<1>1. X # {}
  OBVIOUS
<1>2. Min(X) \in X /\ Min(X) <= k
  BY <1>1, MinIsLeast
<1>3. Min(X) \in Nat /\ k \in Nat /\ k <= Min(X)
  BY <1>2
<1> QED
  BY <1>2, <1>3

\* Induction from one number to another.
LEMMA InductionUpTo ==
  ASSUME NEW m \in Nat, NEW n \in Nat, NEW T, m \in T, \A k \in m .. n - 1 : k \in T => k + 1 \in T
  PROVE  \A k \in m .. n : k \in T
<1> DEFINE K == {k \in Nat : m + k <= n => m + k \in T}
<1>1. 0 \in K
  OBVIOUS
<1>2. ASSUME NEW k \in Nat, k \in K PROVE k + 1 \in K
  <2> SUFFICES ASSUME m + (k + 1) <= n PROVE m + (k + 1) \in T
    OBVIOUS
  <2>1. m + k \in m .. n - 1 /\ m + k <= n /\ m + (k + 1) = (m + k) + 1
    OBVIOUS
  <2> QED
    BY <1>2, <2>1
<1>3. \A k \in Nat : k \in K
  <2> HIDE DEF K
  <2> QED
    BY <1>1, <1>2, InductionOnNat
<1> SUFFICES ASSUME NEW k \in m .. n PROVE k \in T
  OBVIOUS
<1>4. k - m \in Nat /\ m + (k - m) = k /\ k <= n
  OBVIOUS
<1> QED
  BY <1>3, <1>4

LEMMA GreatestOfPrefix ==
  ASSUME NEW n \in Nat, n # 0
  PROVE  Max(1..n) = n /\ (1..n) \ {n} = 1..(n - 1) /\ 1..n # {}
<1>1. n \in 1..n /\ \A y \in 1..n : n >= y
  OBVIOUS
<1>2. ASSUME NEW x \in 1..n, \A y \in 1..n : x >= y PROVE x = n
  BY <1>1, <1>2
<1>3. Max(1..n) = n
  BY <1>1, <1>2 DEF Max
<1> QED
  BY <1>1, <1>3

\* Induction over the subsets of a finite set, of a set of them.
LEMMA InductionOnSubsets ==
  ASSUME NEW D, IsFiniteSet(D), NEW T, {} \in T,
         \A s \in SUBSET D : s # {} /\ (\A x \in s : s \ {x} \in T) => s \in T
  PROVE  \A s \in SUBSET D : s \in T
<1> DEFINE K == {n \in Nat : \A s \in SUBSET D : Cardinality(s) <= n => s \in T}
<1>0. \A s \in SUBSET D : IsFiniteSet(s) /\ Cardinality(s) \in Nat /\ (Cardinality(s) = 0 <=> s = {})
  BY FS_Subset, FS_CardinalityType, FS_EmptySet
<1>1. 0 \in K
  BY <1>0
<1>2. ASSUME NEW n \in Nat, n \in K PROVE n + 1 \in K
  <2> SUFFICES ASSUME NEW s \in SUBSET D, Cardinality(s) <= n + 1 PROVE s \in T
    OBVIOUS
  <2>1. ASSUME NEW x \in s PROVE s \ {x} \in T
    <3>1. Cardinality(s \ {x}) = Cardinality(s) - 1 /\ s \ {x} \in SUBSET D
      BY <1>0, FS_RemoveElement
    <3> QED
      BY <1>0, <1>2, <3>1
  <2> QED
    BY <2>1
<1>3. \A n \in Nat : n \in K
  <2> HIDE DEF K
  <2> QED
    BY <1>1, <1>2, InductionOnNat
<1>4. ASSUME NEW s \in SUBSET D PROVE s \in T
  <2>1. Cardinality(s) \in K /\ Cardinality(s) <= Cardinality(s)
    BY <1>0, <1>3
  <2> QED
    BY <2>1
<1> QED
  BY <1>4

\* The greatest of some of the first naturals is one of them, and no other is greater.
LEMMA GreatestIsIn ==
  ASSUME NEW n \in Nat
  PROVE  \A s \in SUBSET (1..n) : s # {} => Max(s) \in s /\ \A y \in s : Max(s) >= y
<1> DEFINE T == {s \in SUBSET (1..n) : s # {} => \E m \in s : \A y \in s : m >= y}
<1>0. IsFiniteSet(1..n)
  BY FS_Interval
<1>1. {} \in T
  OBVIOUS
<1>2. ASSUME NEW s \in SUBSET (1..n), s # {}, \A x \in s : s \ {x} \in T PROVE s \in T
  <2>1. PICK x \in s : TRUE
    BY <1>2
  <2>2. s \ {x} \in T
    BY <1>2, <2>1
  <2>3. CASE s \ {x} = {}
    BY <2>1, <2>3
  <2>4. CASE s \ {x} # {}
    <3>1. PICK m \in s \ {x} : \A y \in s \ {x} : m >= y
      BY <2>2, <2>4
    <3>2. \A y \in s : y \in Nat
      OBVIOUS
    <3>3. CASE m >= x
      <4>1. \A y \in s : m >= y
        BY <3>1, <3>3
      <4> QED
        BY <3>1, <4>1
    <3>4. CASE ~(m >= x)
      <4>1. \A y \in s : x >= y
        BY <3>1, <3>2, <3>4, <2>1
      <4> QED
        BY <2>1, <4>1
    <3> QED
      BY <3>3, <3>4
  <2> QED
    BY <2>3, <2>4
<1>3. \A s \in SUBSET (1..n) : s \in T
  <2> HIDE DEF T
  <2> QED
    BY <1>0, <1>1, <1>2, InductionOnSubsets
<1> QED
  BY <1>3 DEF Max

-----------------------------------------------------------------------------
(* A function of the subsets of D, defined from the subset with one element *)
(* less that a choice leaves.                                               *)

Recursive(D, ch, base, G, it) ==
  it = [s \in SUBSET D |-> IF s = {} THEN base ELSE G[<<ch[s], it[s \ {ch[s]}]>>]]

LEMMA Recursion ==
  ASSUME NEW D, IsFiniteSet(D), NEW V, NEW base \in V, NEW G \in [D \X V -> V],
         NEW ch, \A s \in SUBSET D : s # {} => ch[s] \in s
  PROVE  \E it \in [SUBSET D -> V] : Recursive(D, ch, base, G, it)
<1> DEFINE Small(n) == {s \in SUBSET D : Cardinality(s) <= n}
           Good(n, g) == \A s \in Small(n) : g[s] = IF s = {} THEN base ELSE G[<<ch[s], g[s \ {ch[s]}]>>]
           K == {n \in Nat : \E g \in [Small(n) -> V] : Good(n, g)}
<1>0. \A s \in SUBSET D : IsFiniteSet(s) /\ Cardinality(s) \in Nat /\ (Cardinality(s) = 0 <=> s = {})
  BY FS_Subset, FS_CardinalityType, FS_EmptySet
<1>s. \A n \in Nat : \A s \in Small(n + 1) : s # {} => ch[s] \in D /\ s \ {ch[s]} \in Small(n)
  <2> SUFFICES ASSUME NEW n \in Nat, NEW s \in Small(n + 1), s # {}
               PROVE  ch[s] \in D /\ s \ {ch[s]} \in Small(n)
    OBVIOUS
  <2>1. s \in SUBSET D /\ ch[s] \in s /\ Cardinality(s) <= n + 1
    OBVIOUS
  <2>2. Cardinality(s \ {ch[s]}) = Cardinality(s) - 1 /\ Cardinality(s) \in Nat
    BY <1>0, <2>1, FS_RemoveElement
  <2> QED
    BY <2>1, <2>2
<1>1. 0 \in K
  <2> DEFINE g == [s \in Small(0) |-> base]
  <2>1. g \in [Small(0) -> V]
    OBVIOUS
  <2>2. \A s \in Small(0) : s = {}
    BY <1>0
  <2>3. Good(0, g)
    BY <2>2
  <2> QED
    BY <2>1, <2>3
<1>2. ASSUME NEW n \in Nat, n \in K PROVE n + 1 \in K
  <2>1. PICK g \in [Small(n) -> V] : Good(n, g)
    BY <1>2
  <2> DEFINE h == [s \in Small(n + 1) |-> IF s = {} THEN base ELSE G[<<ch[s], g[s \ {ch[s]}]>>]]
  <2>2. \A s \in Small(n) : s \in Small(n + 1) /\ h[s] = g[s]
    BY <1>0, <2>1
  <2>3. h \in [Small(n + 1) -> V]
    BY <1>s
  <2>4. Good(n + 1, h)
    <3> SUFFICES ASSUME NEW s \in Small(n + 1), s # {}
                 PROVE  h[s] = G[<<ch[s], h[s \ {ch[s]}]>>]
      OBVIOUS
    <3>1. s \ {ch[s]} \in Small(n)
      BY <1>s
    <3>2. h[s \ {ch[s]}] = g[s \ {ch[s]}]
      BY <2>2, <3>1
    <3> HIDE DEF Small
    <3> QED
      BY <3>2
  <2> HIDE DEF h, Good, Small
  <2>5. \E f \in [Small(n + 1) -> V] : Good(n + 1, f)
    BY <2>3, <2>4
  <2> QED
    BY <2>5
<1>3. \A n \in Nat : n \in K
  <2> HIDE DEF K
  <2> QED
    BY <1>1, <1>2, InductionOnNat
<1>4. Small(Cardinality(D)) = SUBSET D
  BY FS_Subset, FS_CardinalityType
<1>5. PICK it \in [SUBSET D -> V] : Good(Cardinality(D), it)
  <2>1. Cardinality(D) \in K
    BY <1>3, FS_CardinalityType
  <2> HIDE DEF Good, Small
  <2>2. \E g \in [Small(Cardinality(D)) -> V] : Good(Cardinality(D), g)
    BY <2>1
  <2> QED
    BY <1>4, <2>2
<1>6. Recursive(D, ch, base, G, it)
  <2>1. \A s \in SUBSET D : it[s] = IF s = {} THEN base ELSE G[<<ch[s], it[s \ {ch[s]}]>>]
    BY <1>4, <1>5
  <2> QED
    BY <2>1 DEF Recursive
<1> QED
  BY <1>6

-----------------------------------------------------------------------------
(* Sums and counts.                                                        *)

SumOver(w, D) == MapThenSumSet(LAMBDA x : w[x], D)

\* The sum over a function is built up by leaving out one element at a time.
Sums(it, w, D) ==
  /\ it \in [SUBSET D -> Nat] /\ it[D] = SumOver(w, D) /\ it[{}] = 0
  /\ \A s \in SUBSET D : s # {} => \E x \in s : it[s] = w[x] + it[s \ {x}]

LEMMA SumIsRecursive ==
  ASSUME NEW D, IsFiniteSet(D), NEW w \in [D -> Nat]
  PROVE  \E it : Sums(it, w, D)
<1> DEFINE ch == [s \in SUBSET D |-> CHOOSE x \in s : TRUE]
           G == [p \in D \X Nat |-> w[p[1]] + p[2]]
           Sum(it) == it = [s \in SUBSET D |->
                              IF s = {} THEN 0 ELSE LET x == CHOOSE x \in s : TRUE IN w[x] + it[s \ {x}]]
<1>1. \A s \in SUBSET D : s # {} => ch[s] \in s
  OBVIOUS
<1>2. G \in [D \X Nat -> Nat]
  OBVIOUS
<1>3. \E it \in [SUBSET D -> Nat] : Recursive(D, ch, 0, G, it)
  <2> HIDE DEF ch, G
  <2> QED
    BY <1>1, <1>2, Recursion
<1>4. ASSUME NEW it \in [SUBSET D -> Nat], Recursive(D, ch, 0, G, it) PROVE Sum(it)
  <2>1. \A s \in SUBSET D : s # {} => G[<<ch[s], it[s \ {ch[s]}]>>] = w[ch[s]] + it[s \ {ch[s]}]
    <3> SUFFICES ASSUME NEW s \in SUBSET D, s # {}
                 PROVE  G[<<ch[s], it[s \ {ch[s]}]>>] = w[ch[s]] + it[s \ {ch[s]}]
      OBVIOUS
    <3>1. ch[s] \in D /\ it[s \ {ch[s]}] \in Nat
      BY <1>1
    <3> HIDE DEF ch
    <3> QED
      BY <3>1
  <2>2. \A s \in SUBSET D : ch[s] = CHOOSE x \in s : TRUE
    OBVIOUS
  <2> HIDE DEF ch, G
  <2>3. it = [s \in SUBSET D |-> IF s = {} THEN 0 ELSE G[<<ch[s], it[s \ {ch[s]}]>>]]
    BY <1>4 DEF Recursive
  <2>4. \A s \in SUBSET D : s # {} => it[s] = w[ch[s]] + it[s \ {ch[s]}]
    BY <2>1, <2>3
  <2>5. it = [s \in SUBSET D |-> IF s = {} THEN 0 ELSE w[ch[s]] + it[s \ {ch[s]}]]
    BY <2>3, <2>4
  <2> QED
    BY <2>2, <2>5
<1> DEFINE sum == CHOOSE f : Sum(f)
<1>5. Sum(sum)
  <2> HIDE DEF Sum, ch, G
  <2>0. PICK it \in [SUBSET D -> Nat] : Recursive(D, ch, 0, G, it)
    BY <1>3
  <2>1. Sum(it)
    BY <1>4, <2>0
  <2> QED
    BY <2>1
<1>6. sum[D] = SumOver(w, D)
  BY DEF SumOver, MapThenSumSet, MapThenFoldSet
<1> HIDE DEF sum
<1>7. sum[{}] = 0
  BY <1>5
<1>8. \A s \in SUBSET D : s # {} => \E x \in s : sum[s] = w[x] + sum[s \ {x}]
  BY <1>5
<1>9. sum \in [SUBSET D -> Nat]
  <2> DEFINE T == {s \in SUBSET D : sum[s] \in Nat}
  <2>1. {} \in T
    BY <1>7
  <2>2. ASSUME NEW s \in SUBSET D, s # {}, \A x \in s : s \ {x} \in T PROVE s \in T
    <3>1. PICK x \in s : sum[s] = w[x] + sum[s \ {x}]
      BY <1>8, <2>2
    <3>2. sum[s \ {x}] \in Nat /\ w[x] \in Nat
      BY <2>2
    <3> QED
      BY <3>1, <3>2
  <2>3. \A s \in SUBSET D : s \in T
    <3> HIDE DEF T
    <3> QED
      BY <2>1, <2>2, InductionOnSubsets
  <2>4. \A s \in SUBSET D : sum[s] \in Nat
    BY <2>3
  <2>5. sum = [s \in SUBSET D |-> sum[s]]
    BY <1>5
  <2> QED
    BY <2>4, <2>5
<1> QED
  BY <1>6, <1>7, <1>8, <1>9 DEF Sums

\* The parts of a finite set, counted one by one, are the whole.
LEMMA SumOfParts ==
  ASSUME NEW U, IsFiniteSet(U), NEW D, IsFiniteSet(D), NEW g \in [U -> D], NEW w \in [D -> Nat],
         \A x \in D : w[x] = Cardinality({t \in U : g[t] = x})
  PROVE  SumOver(w, D) = Cardinality(U)
<1>1. PICK it : Sums(it, w, D)
  BY SumIsRecursive
<1> DEFINE In(s) == {t \in U : g[t] \in s}
           Is(x) == {t \in U : g[t] = x}
<1> DEFINE T == {s \in SUBSET D : it[s] = Cardinality(In(s))}
<1>2. {} \in T
  <2>1. In({}) = {}
    OBVIOUS
  <2> QED
    BY <1>1, <2>1, FS_EmptySet DEF Sums
<1>3. ASSUME NEW s \in SUBSET D, s # {}, \A x \in s : s \ {x} \in T PROVE s \in T
  <2>1. PICK x \in s : it[s] = w[x] + it[s \ {x}]
    BY <1>1, <1>3 DEF Sums
  <2>2. it[s \ {x}] = Cardinality(In(s \ {x})) /\ w[x] = Cardinality(Is(x))
    BY <1>3
  <2>3. /\ In(s) = Is(x) \cup In(s \ {x}) /\ Is(x) \cap In(s \ {x}) = {}
        /\ Is(x) \in SUBSET U /\ In(s \ {x}) \in SUBSET U
    OBVIOUS
  <2>4. /\ IsFiniteSet(Is(x)) /\ IsFiniteSet(In(s \ {x}))
        /\ Cardinality(Is(x)) \in Nat /\ Cardinality(In(s \ {x})) \in Nat
    BY <2>3, FS_Subset, FS_CardinalityType
  <2>5. Cardinality(In(s)) = Cardinality(Is(x)) + Cardinality(In(s \ {x}))
    <3> DEFINE rest == In(s \ {x})
               one == Is(x)
    <3>0. /\ IsFiniteSet(one) /\ IsFiniteSet(rest) /\ Cardinality(one) \in Nat /\ Cardinality(rest) \in Nat
          /\ In(s) = one \cup rest /\ one \cap rest = {}
      BY <2>3, <2>4
    <3> HIDE DEF rest, one, In, Is
    <3>1. Cardinality(one \cap rest) = 0
      BY <3>0, FS_EmptySet
    <3>2. Cardinality(one \cup rest) = Cardinality(one) + Cardinality(rest) - Cardinality(one \cap rest)
      BY <3>0, FS_Union
    <3>3. Cardinality(one \cup rest) = Cardinality(one) + Cardinality(rest)
      BY <3>0, <3>1, <3>2
    <3>4. Cardinality(In(s)) = Cardinality(one) + Cardinality(rest)
      BY <3>0, <3>3
    <3> QED
      BY <3>4 DEF rest, one
  <2> QED
    BY <2>1, <2>2, <2>5
<1>4. D \in T
  <2> HIDE DEF T
  <2> QED
    BY <1>2, <1>3, InductionOnSubsets
<1>5. In(D) = U
  OBVIOUS
<1> QED
  BY <1>1, <1>4, <1>5 DEF Sums

-----------------------------------------------------------------------------
(* Functions that are defined from the right: f[i] from some f[next[i]].    *)

RightRecursive(m, n, next, base, H, f) ==
  f = [i \in m .. n + 1 |-> IF i = n + 1 THEN base ELSE H[<<i, f[next[i]]>>]]

LEMMA RightRecursion ==
  ASSUME NEW n \in Nat, NEW m \in 1 .. n + 1, NEW V, NEW base \in V, NEW H \in [(m .. n) \X V -> V],
         NEW next, \A i \in m .. n : next[i] \in i + 1 .. n + 1
  PROVE  \E f \in [m .. n + 1 -> V] : RightRecursive(m, n, next, base, H, f)
<1> DEFINE From(k) == n + 1 - k .. n + 1
           Good(k, f) == \A i \in From(k) : f[i] = IF i = n + 1 THEN base ELSE H[<<i, f[next[i]]>>]
           K == {k \in Nat : k <= n + 1 - m => \E f \in [From(k) -> V] : Good(k, f)}
<1>1. 0 \in K
  <2> DEFINE f == [i \in From(0) |-> base]
  <2>1. f \in [From(0) -> V]
    OBVIOUS
  <2>2. Good(0, f)
    OBVIOUS
  <2> QED
    BY <2>1, <2>2
<1>2. ASSUME NEW k \in Nat, k \in K PROVE k + 1 \in K
  <2> SUFFICES ASSUME k + 1 <= n + 1 - m PROVE \E f \in [From(k + 1) -> V] : Good(k + 1, f)
    OBVIOUS
  <2>1. PICK f \in [From(k) -> V] : Good(k, f)
    BY <1>2
  <2> DEFINE g == [i \in From(k + 1) |-> IF i = n + 1 THEN base ELSE H[<<i, f[next[i]]>>]]
  <2>2. \A i \in From(k + 1) : i # n + 1 => i \in m .. n /\ next[i] \in From(k)
    OBVIOUS
  <2>3. g \in [From(k + 1) -> V]
    <3> HIDE DEF From
    <3> QED
      BY <2>2
  <2>4. \A i \in From(k) : i \in From(k + 1) /\ g[i] = f[i]
    BY <2>1
  <2>5. Good(k + 1, g)
    <3> SUFFICES ASSUME NEW i \in From(k + 1), i # n + 1 PROVE g[i] = H[<<i, g[next[i]]>>]
      OBVIOUS
    <3>1. g[next[i]] = f[next[i]]
      BY <2>2, <2>4
    <3> HIDE DEF From
    <3> QED
      BY <3>1
  <2> HIDE DEF g, Good, From
  <2> QED
    BY <2>3, <2>5
<1>3. \A k \in Nat : k \in K
  <2> HIDE DEF K
  <2> QED
    BY <1>1, <1>2, InductionOnNat
<1>4. n + 1 - m \in Nat /\ From(n + 1 - m) = m .. n + 1
  OBVIOUS
<1>5. PICK f \in [m .. n + 1 -> V] : Good(n + 1 - m, f)
  <2>1. n + 1 - m \in K
    BY <1>3, <1>4
  <2> HIDE DEF From, Good
  <2> QED
    BY <1>4, <2>1
<1>6. RightRecursive(m, n, next, base, H, f)
  <2>1. \A i \in m .. n + 1 : f[i] = IF i = n + 1 THEN base ELSE H[<<i, f[next[i]]>>]
    BY <1>4, <1>5
  <2> QED
    BY <2>1 DEF RightRecursive
<1> QED
  BY <1>6

\* What holds at the end, and at a place when it holds everywhere after, holds everywhere.
LEMMA InductionFromRight ==
  ASSUME NEW m \in Nat, NEW n \in Nat, NEW T, n + 1 \in T,
         \A i \in m .. n : (\A j \in i + 1 .. n + 1 : j \in T) => i \in T
  PROVE  \A i \in m .. n + 1 : i \in T
<1> DEFINE K == {k \in Nat : k <= n + 1 - m => \A j \in n + 1 - k .. n + 1 : j \in T}
<1>1. 0 \in K
  OBVIOUS
<1>2. ASSUME NEW k \in Nat, k \in K PROVE k + 1 \in K
  <2> SUFFICES ASSUME k + 1 <= n + 1 - m PROVE \A j \in n + 1 - (k + 1) .. n + 1 : j \in T
    OBVIOUS
  <2>1. \A j \in n + 1 - k .. n + 1 : j \in T
    BY <1>2
  <2>2. n - k \in m .. n /\ (n - k) + 1 = n + 1 - k
    OBVIOUS
  <2>3. n - k \in T
    BY <2>1, <2>2
  <2>4. \A j \in n + 1 - (k + 1) .. n + 1 : j = n - k \/ j \in n + 1 - k .. n + 1
    OBVIOUS
  <2> QED
    BY <2>1, <2>3, <2>4
<1>3. \A k \in Nat : k \in K
  <2> HIDE DEF K
  <2> QED
    BY <1>1, <1>2, InductionOnNat
<1> SUFFICES ASSUME NEW i \in m .. n + 1 PROVE i \in T
  OBVIOUS
<1>4. n + 1 - i \in Nat /\ n + 1 - i \in K /\ n + 1 - i <= n + 1 - m /\ n + 1 - (n + 1 - i) = i
  <2>1. n + 1 - i \in Nat /\ n + 1 - i <= n + 1 - m /\ n + 1 - (n + 1 - i) = i
    OBVIOUS
  <2> QED
    BY <1>3, <2>1
<1> QED
  BY <1>4

-----------------------------------------------------------------------------
(* A fold from the left, as the run through its intermediate values.        *)

FoldOf(n, base, G, it) == Recursive(1 .. n, [s \in SUBSET (1 .. n) |-> Max(s)], base, G, it)

LEMMA FoldExists ==
  ASSUME NEW n \in Nat, NEW V, NEW base \in V, NEW G \in [(1 .. n) \X V -> V]
  PROVE  /\ \E it \in [SUBSET (1 .. n) -> V] : FoldOf(n, base, G, it)
         /\ \A s \in SUBSET (1 .. n) : s # {} => Max(s) \in s
<1> DEFINE ch == [s \in SUBSET (1 .. n) |-> Max(s)]
<1>1. \A s \in SUBSET (1 .. n) : s # {} => Max(s) \in s
  BY GreatestIsIn
<1>2. \A s \in SUBSET (1 .. n) : s # {} => ch[s] \in s
  BY <1>1
<1>3. \E it \in [SUBSET (1 .. n) -> V] : Recursive(1 .. n, ch, base, G, it)
  <2>1. IsFiniteSet(1 .. n)
    BY FS_Interval
  <2> HIDE DEF ch
  <2> QED
    BY <1>2, <2>1, Recursion
<1> QED
  BY <1>1, <1>3 DEF FoldOf

\* What comes first and is handed on is there all the way.
LEMMA RunType ==
  ASSUME NEW n \in Nat, NEW V, NEW run, run[0] \in V,
         \A k \in 1 .. n : run[k - 1] \in V => run[k] \in V
  PROVE  \A k \in 0 .. n : run[k] \in V
<1> DEFINE T == {i \in Nat : i <= n => run[i] \in V}
<1>1. 0 \in T
  OBVIOUS
<1>2. ASSUME NEW i \in Nat, i \in T PROVE i + 1 \in T
  <2> SUFFICES ASSUME i + 1 <= n PROVE run[i + 1] \in V
    OBVIOUS
  <2>1. i + 1 \in 1 .. n /\ (i + 1) - 1 = i
    OBVIOUS
  <2> QED
    BY <1>2, <2>1
<1>3. \A i \in Nat : i \in T
  <2> HIDE DEF T
  <2> QED
    BY <1>1, <1>2, InductionOnNat
<1> QED
  BY <1>3

\* Two sequences that begin alike and go on alike are alike.
Alike(n, one, other) ==
  /\ n \in Nat /\ one[0] = other[0]
  /\ \A k \in 1 .. n : one[k - 1] = other[k - 1] => one[k] = other[k]

LEMMA SameRun ==
  ASSUME NEW n, NEW one, NEW other, Alike(n, one, other)
  PROVE  \A k \in 0 .. n : one[k] = other[k]
<1> DEFINE T == {i \in Nat : i <= n => one[i] = other[i]}
<1>0. /\ n \in Nat /\ one[0] = other[0]
      /\ \A k \in 1 .. n : one[k - 1] = other[k - 1] => one[k] = other[k]
  BY DEF Alike
<1>1. 0 \in T
  BY <1>0
<1>2. ASSUME NEW i \in Nat, i \in T PROVE i + 1 \in T
  <2> SUFFICES ASSUME i + 1 <= n PROVE one[i + 1] = other[i + 1]
    OBVIOUS
  <2>1. i + 1 \in 1 .. n /\ (i + 1) - 1 = i
    BY <1>0
  <2> QED
    BY <1>0, <1>2, <2>1
<1>3. \A i \in Nat : i \in T
  <2> HIDE DEF T
  <2> QED
    BY <1>1, <1>2, InductionOnNat
<1> QED
  BY <1>0, <1>3
=============================================================================
