----------------------- MODULE WeeklyEvaluation_proofs -----------------------
(***************************************************************************)
(* What the evaluation promises, for any properties, logs, thresholds and  *)
(* cut-offs.  The lemmas before it are about what RankMetrics is built     *)
(* from: sums, means, the newest rows of a table, and the metrics.         *)
(***************************************************************************)
EXTENDS WeeklyEvaluation, FiniteSetTheorems, SequenceTheorems, TLAPS

\* A set of naturals that is not empty has a least element.
LEMMA LeastNat ==
    ASSUME NEW T \in SUBSET Nat, T # {}
    PROVE  \E x \in T : \A y \in T : x <= y
<1>1. IsWellFoundedOn(OpToRel(<, Nat), Nat)
  BY NatLessThanWellFounded
<1>2. PICK x \in T : \A y \in T : ~(<<y, x>> \in OpToRel(<, Nat))
  BY <1>1, WFMin
<1>3. \A y \in T : ~(y < x)
  BY <1>2 DEF OpToRel
<1> QED BY <1>3

\* Induction on the naturals, over a set instead of an operator: n is in S for
\* every n if 0 is and S is closed under the successor.
LEMMA NatSetInduction ==
    ASSUME NEW S, 0 \in S, \A n \in Nat : n \in S => n + 1 \in S
    PROVE  \A n \in Nat : n \in S
<1> DEFINE T == Nat \ S
<1>1. SUFFICES ASSUME T # {} PROVE FALSE
  OBVIOUS
<1>2. PICK x \in T : \A y \in T : x <= y
  BY <1>1, LeastNat
<1>3. x - 1 \in Nat /\ x - 1 \notin T /\ x = (x - 1) + 1
  BY <1>2
<1> QED BY <1>3

\* Induction on a finite set, one element at a time.
LEMMA SubsetInduction ==
    ASSUME NEW D, IsFiniteSet(D), NEW U, {} \in U,
           \A s \in SUBSET D : s \in U => \A x \in D \ s : s \cup {x} \in U
    PROVE  D \in U
<1> DEFINE N == {n \in Nat : \A s \in SUBSET D : Cardinality(s) = n => s \in U}
<1>1. 0 \in N
  <2>1. \A s \in SUBSET D : Cardinality(s) = 0 => s = {}
    BY FS_Subset, FS_EmptySet
  <2> QED BY <2>1
<1>2. ASSUME NEW n \in Nat, n \in N PROVE n + 1 \in N
  <2>1. SUFFICES ASSUME NEW s \in SUBSET D, Cardinality(s) = n + 1 PROVE s \in U
    OBVIOUS
  <2>2. IsFiniteSet(s)
    BY FS_Subset
  <2>3. PICK x \in s : TRUE
    BY <2>1, <2>2, FS_EmptySet
  <2>4. Cardinality(s \ {x}) = n
    <3>1. Cardinality(s \ {x}) = Cardinality(s) - 1
      BY <2>2, FS_RemoveElement
    <3> QED BY <2>1, <3>1
  <2>5. s \ {x} \in U /\ x \in D \ (s \ {x}) /\ (s \ {x}) \cup {x} = s
    BY <1>2, <2>4
  <2> QED BY <2>5
<1>3. Cardinality(D) \in Nat
  BY FS_CardinalityType
<1>4. \A n \in Nat : n \in N
  <2> HIDE DEF N
  <2> QED BY <1>1, <1>2, NatSetInduction
<1> QED BY <1>3, <1>4

\* The recursion of a sum.
Adds(f, S, g) ==
    g = [s \in SUBSET S |-> IF s = {} THEN 0
                            ELSE LET x == CHOOSE x \in s : TRUE IN f[x] + g[s \ {x}]]

\* A sum is the value of its recursion at the whole set,
LEMMA SumOnIs ==
    ASSUME NEW f, NEW S
    PROVE  SumFunctionOnSet(f, S) = (CHOOSE g : Adds(f, S, g))[S]
BY Zenon DEF SumFunctionOnSet, FoldFunctionOnSet, MapThenFoldSet, Adds

\* which has a solution over the subsets of a finite set,
LEMMA SumDefined ==
    ASSUME NEW f, NEW S, IsFiniteSet(S)
    PROVE  \E g : Adds(f, S, g)
<1> DEFINE c(u) == CHOOSE x \in u : TRUE
           Small(n) == {u \in SUBSET S : Cardinality(u) <= n}
           Eq(g, n) == g = [u \in Small(n) |-> IF u = {} THEN 0 ELSE f[c(u)] + g[u \ {c(u)}]]
           N == {n \in Nat : \E g : Eq(g, n)}
<1>1. \A u \in SUBSET S : IsFiniteSet(u) /\ Cardinality(u) \in Nat
  BY FS_Subset, FS_CardinalityType
<1>2. \A u \in SUBSET S : u # {} => c(u) \in u /\ Cardinality(u \ {c(u)}) = Cardinality(u) - 1
  BY <1>1, FS_RemoveElement
<1>3. 0 \in N
  <2>1. \A u \in Small(0) : u = {}
    BY <1>1, FS_EmptySet
  <2> DEFINE g == [u \in Small(0) |-> 0]
  <2>2. Eq(g, 0)
    BY <2>1
  <2> QED BY <2>2
<1>4. ASSUME NEW n \in Nat, n \in N PROVE n + 1 \in N
  <2>1. PICK g : Eq(g, n)
    BY <1>4
  <2> DEFINE h == [u \in Small(n + 1) |-> IF u = {} THEN 0 ELSE f[c(u)] + g[u \ {c(u)}]]
  <2>2. ASSUME NEW u \in Small(n + 1), u # {} PROVE h[u \ {c(u)}] = g[u \ {c(u)}]
    <3> DEFINE v == u \ {c(u)}
    <3>1. v \in Small(n) /\ v \in Small(n + 1)
      <4> HIDE DEF c
      <4> QED BY <1>1, <1>2, <2>2
    <3>2. h[v] = IF v = {} THEN 0 ELSE f[c(v)] + g[v \ {c(v)}]
      <4> HIDE DEF c, v
      <4> QED BY <3>1
    <3>3. g[v] = IF v = {} THEN 0 ELSE f[c(v)] + g[v \ {c(v)}]
      <4> HIDE DEF c, v, Small
      <4> QED BY <2>1, <3>1
    <3> QED BY <3>2, <3>3
  <2>3. Eq(h, n + 1)
    <3> HIDE DEF c, Small
    <3> QED BY <2>2
  <2>4. \E k : Eq(k, n + 1)
    <3> HIDE DEF Eq, h
    <3> QED BY <2>3
  <2> HIDE DEF Eq
  <2> QED BY <2>4
<1>5. \A n \in Nat : n \in N
  <2> HIDE DEF N
  <2> QED BY <1>3, <1>4, NatSetInduction
<1>6. Cardinality(S) \in N
  BY <1>1, <1>5
<1>7. Small(Cardinality(S)) = SUBSET S
  BY FS_Subset
<1>8. PICK g : Eq(g, Cardinality(S))
  BY <1>6
<1>9. Adds(f, S, g)
  BY <1>7, <1>8 DEF Adds
<1> QED BY <1>9

\* and only one.
LEMMA SumUnique ==
    ASSUME NEW f, NEW S, IsFiniteSet(S), NEW T \in SUBSET S,
           NEW g, Adds(f, S, g), NEW h, Adds(f, T, h)
    PROVE  g[T] = h[T]
<1> DEFINE c(u) == CHOOSE x \in u : TRUE
           N == {n \in Nat : \A u \in SUBSET T : Cardinality(u) = n => g[u] = h[u]}
<1>1. \A u \in SUBSET T : IsFiniteSet(u) /\ Cardinality(u) \in Nat /\ u \in SUBSET S
  BY FS_Subset, FS_CardinalityType
<1>2. ASSUME NEW u \in SUBSET T
      PROVE  /\ g[u] = IF u = {} THEN 0 ELSE f[c(u)] + g[u \ {c(u)}]
             /\ h[u] = IF u = {} THEN 0 ELSE f[c(u)] + h[u \ {c(u)}]
  BY <1>1 DEF Adds
<1>3. 0 \in N
  <2>1. \A u \in SUBSET T : Cardinality(u) = 0 => u = {}
    BY <1>1, FS_EmptySet
  <2> HIDE DEF c
  <2> QED BY <1>2, <2>1
<1>4. ASSUME NEW n \in Nat, n \in N PROVE n + 1 \in N
  <2>1. SUFFICES ASSUME NEW u \in SUBSET T, Cardinality(u) = n + 1 PROVE g[u] = h[u]
    OBVIOUS
  <2>2. u # {}
    BY <2>1, FS_EmptySet
  <2>3. c(u) \in u /\ Cardinality(u \ {c(u)}) = Cardinality(u) - 1
    BY <1>1, <2>2, FS_RemoveElement
  <2>4. g[u \ {c(u)}] = h[u \ {c(u)}]
    <3> HIDE DEF c
    <3> QED BY <1>4, <2>1, <2>3
  <2> HIDE DEF c
  <2> QED BY <1>2, <2>2, <2>4
<1>5. \A n \in Nat : n \in N
  <2> HIDE DEF N
  <2> QED BY <1>3, <1>4, NatSetInduction
<1> QED BY <1>1, <1>5

\* Sums over a finite set follow the recursion.
LEMMA SumStep ==
    ASSUME NEW f, NEW S, IsFiniteSet(S)
    PROVE  SumFunctionOnSet(f, S) =
             IF S = {} THEN 0
             ELSE LET x == CHOOSE x \in S : TRUE IN f[x] + SumFunctionOnSet(f, S \ {x})
<1> DEFINE x == CHOOSE x \in S : TRUE
           T == S \ {x}
<1>1. IsFiniteSet(T) /\ T \in SUBSET S
  BY FS_RemoveElement
<1>2. PICK g : Adds(f, S, g) /\ SumFunctionOnSet(f, S) = g[S]
  BY SumDefined, SumOnIs
<1>3. PICK h : Adds(f, T, h) /\ SumFunctionOnSet(f, T) = h[T]
  <2> HIDE DEF T
  <2> QED BY <1>1, SumDefined, SumOnIs
<1>4. g[T] = h[T]
  <2> HIDE DEF T
  <2> QED BY <1>1, <1>2, <1>3, SumUnique
<1>5. g[S] = IF S = {} THEN 0 ELSE f[x] + g[T]
  BY <1>2 DEF Adds
<1> HIDE DEF x
<1>6. SumFunctionOnSet(f, S) = IF S = {} THEN 0 ELSE f[x] + SumFunctionOnSet(f, T)
  BY <1>2, <1>3, <1>4, <1>5
<1> QED BY <1>6 DEF x

\* A sum of integers is one, and takes its elements in any order.
LEMMA SumRemove ==
    ASSUME NEW f, NEW S, IsFiniteSet(S), \A x \in S : f[x] \in Int
    PROVE  /\ SumFunctionOnSet(f, {}) = 0
           /\ SumFunctionOnSet(f, S) \in Int
           /\ \A x \in S : SumFunctionOnSet(f, S) = f[x] + SumFunctionOnSet(f, S \ {x})
<1> DEFINE s(u) == SumFunctionOnSet(f, u)
           c(u) == CHOOSE x \in u : TRUE
           Fine(u) == s(u) \in Int /\ \A x \in u : s(u) = f[x] + s(u \ {x})
           N == {n \in Nat : \A u \in SUBSET S : Cardinality(u) <= n => Fine(u)}
<1>1. \A u \in SUBSET S : IsFiniteSet(u) /\ Cardinality(u) \in Nat
  BY FS_Subset, FS_CardinalityType
<1>2. s({}) = 0
  BY SumStep, FS_EmptySet
<1>3. \A u \in SUBSET S : \A x \in u : Cardinality(u \ {x}) = Cardinality(u) - 1
  BY <1>1, FS_RemoveElement
<1>4. ASSUME NEW u \in SUBSET S, u # {}
      PROVE  c(u) \in u /\ s(u) = f[c(u)] + s(u \ {c(u)})
  BY <1>1, <1>4, SumStep
<1> HIDE DEF c, s
<1>5. 0 \in N
  <2>1. \A u \in SUBSET S : Cardinality(u) <= 0 => u = {}
    BY <1>1, FS_EmptySet
  <2>2. Fine({})
    BY <1>2
  <2> HIDE DEF Fine
  <2> QED BY <2>1, <2>2
<1>6. ASSUME NEW n \in Nat, n \in N PROVE n + 1 \in N
  <2>1. SUFFICES ASSUME NEW u \in SUBSET S, Cardinality(u) = n + 1 PROVE Fine(u)
    BY <1>1, <1>6
  <2>2. \A v \in SUBSET S : Cardinality(v) <= n => Fine(v)
    BY <1>6
  <2>3. u # {}
    BY <2>1, FS_EmptySet
  <2>4. \A x \in u : Fine(u \ {x})
    <3> HIDE DEF Fine
    <3>1. \A x \in u : u \ {x} \in SUBSET S /\ Cardinality(u \ {x}) = n
      BY <1>3, <2>1
    <3> QED BY <2>2, <3>1
  <2>5. c(u) \in u /\ f[c(u)] \in Int /\ s(u) = f[c(u)] + s(u \ {c(u)})
    BY <1>4, <2>3
  <2>6. s(u) \in Int
    BY <2>4, <2>5
  <2>7. ASSUME NEW x \in u, x # c(u) PROVE s(u) = f[x] + s(u \ {x})
    <3> DEFINE v == (u \ {x}) \ {c(u)}
    <3>1. v = (u \ {c(u)}) \ {x}
      OBVIOUS
    <3>2. s(u \ {c(u)}) = f[x] + s(v)
      BY <2>4, <2>5, <2>7, <3>1
    <3>3. s(u \ {x}) = f[c(u)] + s(v) /\ s(u \ {x}) \in Int
      BY <2>4, <2>5, <2>7
    <3>4. f[x] \in Int /\ s(u \ {c(u)}) \in Int
      BY <2>4, <2>5
    <3>5. s(v) \in Int
      <4>1. v \in SUBSET S /\ Cardinality(v) <= n
        BY <1>3, <1>1, <2>1, <2>5, <2>7
      <4> QED BY <2>2, <4>1
    <3> QED BY <2>5, <3>2, <3>3, <3>4, <3>5
  <2> QED BY <2>5, <2>6, <2>7
<1>7. \A n \in Nat : n \in N
  <2> HIDE DEF N
  <2> QED BY <1>5, <1>6, NatSetInduction
<1>8. Fine(S)
  <2> HIDE DEF Fine
  <2> QED BY <1>1, <1>7
<1> QED BY <1>2, <1>8 DEF s

LEMMA SumAdd ==
    ASSUME NEW f, NEW S, IsFiniteSet(S), NEW x, x \notin S, f[x] \in Int, \A y \in S : f[y] \in Int
    PROVE  SumFunctionOnSet(f, S \cup {x}) = f[x] + SumFunctionOnSet(f, S)
<1> DEFINE T == S \cup {x}
<1>1. IsFiniteSet(T) /\ x \in T /\ T \ {x} = S /\ \A y \in T : f[y] \in Int
  BY FS_AddElement
<1> HIDE DEF T
<1>2. \A y \in T : SumFunctionOnSet(f, T) = f[y] + SumFunctionOnSet(f, T \ {y})
  BY <1>1, SumRemove
<1> QED BY <1>1, <1>2 DEF T

\* A sum of naturals is at most that of larger numbers over more elements.
LEMMA SumMonotonic ==
    ASSUME NEW T, IsFiniteSet(T), NEW S \in SUBSET T, NEW f, NEW g,
           \A x \in T : g[x] \in Nat,
           \A x \in S : f[x] \in Nat /\ f[x] <= g[x]
    PROVE  /\ SumFunctionOnSet(f, S) \in Nat /\ SumFunctionOnSet(g, T) \in Nat
           /\ SumFunctionOnSet(f, S) <= SumFunctionOnSet(g, T)
<1> DEFINE a(u) == SumFunctionOnSet(f, u \cap S)
           b(u) == SumFunctionOnSet(g, u)
           U == {u \in SUBSET T : a(u) \in Nat /\ b(u) \in Nat /\ a(u) <= b(u)}
<1>1. ASSUME NEW u \in SUBSET T, NEW x \in T \ u
      PROVE  /\ b(u \cup {x}) = g[x] + b(u)
             /\ x \in S => a(u \cup {x}) = f[x] + a(u)
             /\ x \notin S => a(u \cup {x}) = a(u)
  <2>1. IsFiniteSet(u) /\ IsFiniteSet(u \cap S)
    BY FS_Subset
  <2>2. b(u \cup {x}) = g[x] + b(u)
    <3>1. \A y \in u \cup {x} : g[y] \in Int
      OBVIOUS
    <3> QED BY <2>1, <3>1, SumAdd
  <2>3. ASSUME x \in S PROVE a(u \cup {x}) = f[x] + a(u)
    <3>1. (u \cup {x}) \cap S = (u \cap S) \cup {x} /\ x \notin u \cap S
      BY <2>3
    <3>2. \A y \in (u \cap S) \cup {x} : f[y] \in Int
      BY <2>3
    <3> QED BY <2>1, <3>1, <3>2, SumAdd
  <2>4. ASSUME x \notin S PROVE a(u \cup {x}) = a(u)
    <3>1. (u \cup {x}) \cap S = u \cap S
      BY <2>4
    <3> QED BY <3>1
  <2> QED BY <2>2, <2>3, <2>4
<1>2. a({}) = 0 /\ b({}) = 0
  <2>1. SumFunctionOnSet(f, {}) = 0 /\ SumFunctionOnSet(g, {}) = 0
    BY SumRemove, FS_EmptySet
  <2>2. {} \cap S = {}
    OBVIOUS
  <2> QED BY <2>1, <2>2
<1> HIDE DEF a, b
<1>3. {} \in U
  BY <1>2
<1>4. ASSUME NEW u \in SUBSET T, u \in U, NEW x \in T \ u PROVE u \cup {x} \in U
  BY <1>1, <1>4
<1>5. T \in U
  <2> HIDE DEF U
  <2> QED BY <1>3, <1>4, SubsetInduction
<1>6. T \cap S = S
  OBVIOUS
<1> QED BY <1>5, <1>6 DEF a, b

\* A sum is at most its largest term as often as there are terms.
LEMMA SumBounded ==
    ASSUME NEW S, IsFiniteSet(S), NEW most \in Nat, NEW f, \A x \in S : f[x] \in 0 .. most
    PROVE  SumFunctionOnSet(f, S) \in 0 .. most * Cardinality(S)
<1> DEFINE b(u) == SumFunctionOnSet(f, u)
           U == {u \in SUBSET S : b(u) \in 0 .. most * Cardinality(u)}
<1>1. ASSUME NEW u \in SUBSET S, NEW x \in S \ u
      PROVE  /\ b(u \cup {x}) = f[x] + b(u)
             /\ Cardinality(u \cup {x}) = Cardinality(u) + 1 /\ Cardinality(u) \in Nat
  <2>1. IsFiniteSet(u)
    BY FS_Subset
  <2>2. b(u \cup {x}) = f[x] + b(u)
    <3>1. \A y \in u \cup {x} : f[y] \in Int
      OBVIOUS
    <3> QED BY <2>1, <3>1, SumAdd
  <2> QED BY <2>1, <2>2, FS_AddElement, FS_CardinalityType
<1>2. b({}) = 0 /\ Cardinality({}) = 0
  BY SumRemove, FS_EmptySet
<1> HIDE DEF b
<1>3. {} \in U
  BY <1>2
<1>4. ASSUME NEW u \in SUBSET S, u \in U, NEW x \in S \ u PROVE u \cup {x} \in U
  <2>1. b(u) \in 0 .. most * Cardinality(u)
    BY <1>4
  <2>2. b(u \cup {x}) \in 0 .. most * Cardinality(u \cup {x})
    BY <1>1, <2>1
  <2> QED BY <2>2
<1>5. S \in U
  <2> HIDE DEF U
  <2> QED BY <1>3, <1>4, SubsetInduction
<1> QED BY <1>5 DEF b
-----------------------------------------------------------------------------

\* The newest n of a finite table are at most n of its rows.
LEMMA NewestAtMost ==
    ASSUME NEW ids \in SUBSET Nat, IsFiniteSet(ids), NEW n \in Nat
    PROVE  /\ Newest(ids, n) \subseteq ids /\ IsFiniteSet(Newest(ids, n))
           /\ Cardinality(Newest(ids, n)) \in 0 .. n
           /\ Newest(ids, n) = {} => ids = {} \/ n = 0
<1> DEFINE later(i) == {j \in ids : j > i}
           N == Newest(ids, n)
<1>1. N = {i \in ids : Cardinality(later(i)) < n}
  BY DEF Newest
<1>2. IsFiniteSet(N) /\ Cardinality(N) \in Nat
  BY <1>1, FS_Subset, FS_CardinalityType
<1>3. \A i \in ids : IsFiniteSet(later(i)) /\ Cardinality(later(i)) \in Nat
  BY FS_Subset, FS_CardinalityType
<1>4. ASSUME N # {} PROVE Cardinality(N) <= n
  <2>1. PICK m \in N : \A i \in N : m <= i
    BY <1>1, <1>4, LeastNat
  <2>2. \A i \in N \ {m} : i \in ids /\ i > m
    <3>1. N \subseteq ids /\ N \subseteq Nat
      BY <1>1
    <3> HIDE DEF N
    <3> QED BY <2>1, <3>1
  <2>3. Cardinality(N \ {m}) <= Cardinality(later(m)) /\ m \in ids
    <3>1. N \ {m} \in SUBSET later(m) /\ m \in ids
      BY <1>1, <2>2
    <3> QED BY <1>3, <3>1, FS_Subset
  <2>4. Cardinality(N \ {m}) = Cardinality(N) - 1
    BY <1>2, <2>1, FS_RemoveElement
  <2>5. Cardinality(later(m)) < n
    BY <1>1, <2>1
  <2> HIDE DEF N, later
  <2> QED BY <1>2, <1>3, <2>3, <2>4, <2>5
<1>5. ASSUME N = {}, ids # {}, n > 0 PROVE FALSE
  <2> DEFINE U == {u \in SUBSET ids : u # {} => \E i \in u : \A j \in u : j <= i}
  <2>1. {} \in U
    OBVIOUS
  <2>2. ASSUME NEW u \in SUBSET ids, u \in U, NEW x \in ids \ u PROVE u \cup {x} \in U
    <3>1. CASE u = {}
      BY <3>1
    <3>2. CASE u # {}
      <4>1. PICK i \in u : \A j \in u : j <= i
        BY <2>2, <3>2
      <4>2. \E k \in u \cup {x} : \A j \in u \cup {x} : j <= k
        BY <4>1
      <4> QED BY <4>2
    <3> QED BY <3>1, <3>2
  <2>3. ids \in U
    <3> HIDE DEF U
    <3> QED BY <2>1, <2>2, SubsetInduction
  <2>4. PICK i \in ids : \A j \in ids : j <= i
    BY <1>5, <2>3
  <2>5. later(i) = {}
    <3>1. \A j \in ids : ~(j > i)
      BY <2>4
    <3> QED BY <3>1
  <2>6. Cardinality(later(i)) = 0
    BY <2>5, FS_EmptySet
  <2> QED BY <1>1, <1>5, <2>6
<1>6. N = {} => Cardinality(N) = 0
  BY FS_EmptySet
<1>7. N \subseteq ids
  BY <1>1
<1> HIDE DEF N
<1>8. Cardinality(N) \in 0 .. n /\ (N = {} => ids = {} \/ n = 0)
  BY <1>2, <1>4, <1>5, <1>6
<1> QED BY <1>2, <1>7, <1>8 DEF N

\* Division keeps the order of its dividends, and reverses that of its divisors.
LEMMA DivMonotone ==
    ASSUME NEW x \in Nat, NEW y \in Nat, x <= y, NEW d \in Nat \ {0}
    PROVE  x \div d \in Nat /\ x \div d <= y \div d
<1> DEFINE a == x \div d
           b == y \div d
<1>1. a \in Nat /\ d * a <= x
  BY SMT
<1>2. b \in Nat /\ y < d * b + d
  BY SMT
<1> HIDE DEF a, b
<1>3. ASSUME a >= b + 1 PROVE FALSE
  <2>1. d * a >= d * b + d
    BY <1>1, <1>2, <1>3, SMT
  <2>2. d * a \in Int /\ d * b \in Int
    BY <1>1, <1>2, SMT
  <2> QED BY <1>1, <1>2, <2>1, <2>2
<1>4. a \in Nat /\ a <= b
  BY <1>1, <1>2, <1>3
<1> QED BY <1>4 DEF a, b

LEMMA DivAntitone ==
    ASSUME NEW x \in Nat, NEW c \in Nat \ {0}, NEW d \in Nat \ {0}, c <= d
    PROVE  x \div d <= x \div c
<1> DEFINE a == x \div d
           b == x \div c
<1>1. a \in Nat /\ d * a <= x
  BY SMT
<1>2. b \in Nat /\ x < c * b + c
  BY SMT
<1> HIDE DEF a, b
<1>3. ASSUME a >= b + 1 PROVE FALSE
  <2>1. c * a >= c * b + c
    BY <1>1, <1>2, <1>3, SMT
  <2>2. d * a >= c * a
    BY <1>1, SMT
  <2>3. d * a \in Int /\ c * a \in Int /\ c * b \in Int
    BY <1>1, <1>2, SMT
  <2> QED BY <1>1, <1>2, <2>1, <2>2, <2>3
<1>4. a <= b
  BY <1>1, <1>2, <1>3
<1> QED BY <1>4 DEF a, b

\* A quotient is small if the dividend is.
LEMMA DivBelow ==
    ASSUME NEW x \in Nat, NEW d \in Nat \ {0}, NEW k \in Nat, x < d * k
    PROVE  x \div d \in 0 .. k - 1
<1> DEFINE a == x \div d
<1>1. a \in Nat /\ d * a <= x
  BY SMT
<1> HIDE DEF a
<1>2. ASSUME a >= k PROVE FALSE
  <2>1. d * a >= d * k
    BY <1>1, <1>2, SMT
  <2>2. d * a \in Int /\ d * k \in Int
    BY <1>1, SMT
  <2> QED BY <1>1, <2>1, <2>2
<1>3. a \in 0 .. k - 1
  BY <1>1, <1>2
<1> QED BY <1>3 DEF a
-----------------------------------------------------------------------------

\* FindRank is the first place of the target among the first k, if there is one.
LEMMA RankFound ==
    ASSUME NEW ids, NEW n \in Nat, DOMAIN ids = 1 .. n, NEW target, NEW k \in Nat
    PROVE  /\ FindRank(ids, target, k) \in 0 .. k
           /\ FindRank(ids, target, k) = 0 =>
                  \A i \in DOMAIN ids : i <= k => ids[i] # target
           /\ FindRank(ids, target, k) # 0 =>
                  /\ FindRank(ids, target, k) \in DOMAIN ids
                  /\ ids[FindRank(ids, target, k)] = target
                  /\ \A i \in DOMAIN ids :
                         i <= k /\ ids[i] = target => FindRank(ids, target, k) <= i
<1> DEFINE found == {i \in DOMAIN ids : i <= k /\ ids[i] = target}
           r == CHOOSE i \in found : \A j \in found : i <= j
<1>1. FindRank(ids, target, k) = IF found = {} THEN 0 ELSE r
  BY DEF FindRank
<1>2. found \subseteq 1 .. n /\ \A i \in found : i <= k /\ ids[i] = target
  OBVIOUS
<1>3. ASSUME found # {} PROVE r \in found /\ \A j \in found : r <= j
  <2>1. \E i \in found : \A j \in found : i <= j
    <3>1. found \in SUBSET Nat
      BY <1>2
    <3> HIDE DEF found
    <3> QED BY <1>3, <3>1, LeastNat
  <2> HIDE DEF found
  <2> QED BY <2>1
<1>4. CASE found = {}
  BY <1>1, <1>4
<1>5. CASE found # {}
  <2>1. FindRank(ids, target, k) = r
    BY <1>1, <1>5
  <2>2. r \in found /\ \A j \in found : r <= j
    BY <1>3, <1>5
  <2>3. r \in 1 .. k /\ r \in DOMAIN ids /\ ids[r] = target
    <3> HIDE DEF r
    <3> QED BY <2>2
  <2>4. \A i \in DOMAIN ids : i <= k /\ ids[i] = target => r <= i
    <3> HIDE DEF r
    <3> QED BY <2>2
  <2> HIDE DEF r, found
  <2> QED BY <2>1, <2>3, <2>4
<1> QED BY <1>4, <1>5

\* A shorter list shows the same place, or none.
LEMMA RankCut ==
    ASSUME NEW ids, NEW n \in Nat, DOMAIN ids = 1 .. n, NEW target,
           NEW k \in Nat, NEW cut \in Nat, cut <= k
    PROVE  FindRank(ids, target, cut) =
             IF FindRank(ids, target, k) <= cut THEN FindRank(ids, target, k) ELSE 0
<1> DEFINE a == FindRank(ids, target, cut)
           b == FindRank(ids, target, k)
<1>1. /\ a \in 0 .. cut
      /\ a = 0 => \A i \in DOMAIN ids : i <= cut => ids[i] # target
      /\ a # 0 => /\ a \in DOMAIN ids /\ ids[a] = target
                  /\ \A i \in DOMAIN ids : i <= cut /\ ids[i] = target => a <= i
  BY RankFound
<1>2. /\ b \in 0 .. k
      /\ b = 0 => \A i \in DOMAIN ids : i <= k => ids[i] # target
      /\ b # 0 => /\ b \in DOMAIN ids /\ ids[b] = target
                  /\ \A i \in DOMAIN ids : i <= k /\ ids[i] = target => b <= i
  BY RankFound
<1> HIDE DEF a, b
<1>3. a = IF b <= cut THEN b ELSE 0
  BY <1>1, <1>2
<1> QED BY <1>3 DEF a, b

\* The first place is not before the second.
Behind(r, m) == r = 0 \/ (m # 0 /\ m <= r)

LEMMA MillionNat == Million \in Nat
BY SMT DEF Million

\* The metrics of a place are fractions of a million, and none is larger for a
\* place that is not before the other.
LEMMA DiscountFalls ==
    /\ \A r \in 1 .. 10 : Discount[r] \in 0 .. Million
    /\ \A r, m \in 1 .. 10 : m <= r => Discount[r] <= Discount[m]
<1>1. \A r \in 1 .. 10 : Discount[r] <= Million
  BY SMT DEF Discount, Million
<1>2. \A r \in 1 .. 10 : Discount[r] \in Nat
  BY SMT DEF Discount
<1>3. \A r, m \in 1 .. 10 : m <= r => Discount[r] <= Discount[m]
  BY SMT DEF Discount
<1>4. Million \in Nat
  BY MillionNat
<1> QED BY <1>1, <1>2, <1>3, <1>4

LEMMA NdcgOrder ==
    ASSUME NEW r \in 0 .. 10
    PROVE  /\ Ndcg(r) \in 0 .. Million
           /\ \A m \in 0 .. 10 : Behind(r, m) => Ndcg(r) <= Ndcg(m)
<1>1. \A q \in 0 .. 10 : Ndcg(q) = (IF q = 0 THEN 0 ELSE Discount[q])
  BY DEF Ndcg
<1>2. Million \in Nat
  BY MillionNat
<1> QED BY <1>1, <1>2, DiscountFalls, SMT DEF Behind

LEMMA AvgPrecisionOrder ==
    ASSUME NEW r \in Nat
    PROVE  /\ AvgPrecision(r) \in 0 .. Million
           /\ \A m \in Nat : Behind(r, m) => AvgPrecision(r) <= AvgPrecision(m)
<1>1. \A q \in Nat : AvgPrecision(q) = (IF q = 0 THEN 0 ELSE Million \div q)
  BY DEF AvgPrecision
<1>2. Million \in Nat
  BY MillionNat
<1>3. \A c, d \in Nat \ {0} : c <= d => Million \div d <= Million \div c
  BY <1>2, DivAntitone
<1>4. \A q \in Nat \ {0} : Million \div q \in Nat
  BY <1>2, DivMonotone
<1>5. Million \div 1 = Million
  BY <1>2, SMT
<1>6. \A q \in Nat : AvgPrecision(q) \in 0 .. Million
  <2>1. \A q \in Nat \ {0} : Million \div q \in 0 .. Million
    BY <1>2, <1>3, <1>4, <1>5
  <2> QED BY <1>1, <1>2, <2>1
<1>7. ASSUME NEW m \in Nat, Behind(r, m) PROVE AvgPrecision(r) <= AvgPrecision(m)
  <2>1. CASE r = 0
    BY <1>1, <1>6, <2>1
  <2>2. CASE r # 0
    BY <1>1, <1>3, <1>7, <2>2 DEF Behind
  <2> QED BY <2>1, <2>2
<1> QED BY <1>6, <1>7

LEMMA RecallOrder ==
    ASSUME NEW r \in Nat
    PROVE  /\ Recall(r) \in 0 .. Million
           /\ \A m \in Nat : Behind(r, m) => Recall(r) <= Recall(m)
<1>1. \A q \in Nat : Recall(q) = (IF q = 0 THEN 0 ELSE Million)
  BY DEF Recall
<1>2. Million \in Nat
  BY MillionNat
<1> QED BY <1>1, <1>2 DEF Behind
-----------------------------------------------------------------------------

LEMMA MeanOrder ==
    ASSUME NEW x \in Nat, NEW y \in Nat, x <= y, NEW n \in Nat \ {0}
    PROVE  Mean(x, n) \in Nat /\ Mean(x, n) <= Mean(y, n)
<1>1. 2 * x + n \in Nat /\ 2 * y + n \in Nat /\ 2 * x + n <= 2 * y + n /\ 2 * n \in Nat \ {0}
  OBVIOUS
<1> QED BY <1>1, DivMonotone DEF Mean

LEMMA MeanBounded ==
    ASSUME NEW n \in Nat \ {0}, NEW most \in Nat, NEW x \in 0 .. most * n
    PROVE  Mean(x, n) \in 0 .. most
<1>1. most * n \in Nat
  BY SMT
<1>2. 2 * x + n \in Nat /\ 2 * n \in Nat \ {0} /\ most + 1 \in Nat
  BY <1>1
<1>3. 2 * x + n < (2 * n) * (most + 1)
  <2>1. (2 * n) * (most + 1) = 2 * (most * n) + 2 * n
    BY SMT
  <2> QED BY <1>1, <2>1
<1>4. (2 * x + n) \div (2 * n) \in 0 .. (most + 1) - 1
  BY <1>2, <1>3, DivBelow
<1> QED BY <1>4 DEF Mean

\* A list of results or candidates has finitely many places.
LEMMA ListPlaces ==
    ASSUME NEW s \in Lists
    PROVE  /\ \E n \in Nat : DOMAIN s = 1 .. n
           /\ s \in Seq(Properties)
<1>1. Cardinality(Properties) \in Nat
  BY MetricConstants, FS_CardinalityType
<1>2. PICK n \in 0 .. Cardinality(Properties) : s \in Injection(1 .. n, Properties)
  BY DEF Lists
<1>3. n \in Nat /\ s \in [1 .. n -> Properties]
  BY <1>1, <1>2 DEF Injection, IsInjective
<1>4. DOMAIN s = 1 .. n
  BY <1>3
<1> QED BY <1>3, <1>4

LEMMA MetricsTyped ==
    ASSUME NEW a \in Lists, NEW target, NEW m \in MetricNames
    PROVE  MetricsOf(a, target)[m] \in 0 .. Million
<1>1. PICK n \in Nat : DOMAIN a = 1 .. n
  BY ListPlaces
<1>2. NdcgCut \in 0 .. 10 /\ NdcgCut \in Nat /\ RecallCut \in Nat
  BY MetricConstants
<1>3. FindRank(a, target, NdcgCut) \in 0 .. 10 /\ FindRank(a, target, RecallCut) \in Nat
  <2>1. FindRank(a, target, NdcgCut) \in 0 .. NdcgCut
    BY <1>1, <1>2, RankFound
  <2>2. FindRank(a, target, RecallCut) \in 0 .. RecallCut
    BY <1>1, <1>2, RankFound
  <2> QED BY <1>2, <2>1, <2>2
<1>4. /\ Ndcg(FindRank(a, target, NdcgCut)) \in 0 .. Million
      /\ AvgPrecision(FindRank(a, target, RecallCut)) \in 0 .. Million
      /\ Recall(FindRank(a, target, RecallCut)) \in 0 .. Million
  BY <1>3, NdcgOrder, AvgPrecisionOrder, RecallOrder
<1> QED BY <1>4 DEF MetricsOf, MetricNames

\* What a ranking does not put earlier does not raise any of its metrics.
LEMMA MetricsOrder ==
    ASSUME NEW a \in Lists, NEW b \in Lists, NEW target,
           Behind(FindRank(a, target, RecallCut), FindRank(b, target, RecallCut)),
           NEW m \in MetricNames
    PROVE  MetricsOf(a, target)[m] <= MetricsOf(b, target)[m]
<1> DEFINE r == FindRank(a, target, RecallCut)
           q == FindRank(b, target, RecallCut)
           rc == FindRank(a, target, NdcgCut)
           qc == FindRank(b, target, NdcgCut)
<1>1. NdcgCut \in 0 .. 10 /\ NdcgCut \in Nat /\ RecallCut \in Nat /\ NdcgCut <= RecallCut
  BY MetricConstants
<1>2. r \in Nat /\ rc \in 0 .. 10 /\ rc = IF r <= NdcgCut THEN r ELSE 0
  <2>1. PICK n \in Nat : DOMAIN a = 1 .. n
    BY ListPlaces
  <2>2. r \in 0 .. RecallCut /\ rc \in 0 .. NdcgCut
    BY <1>1, <2>1, RankFound
  <2>3. rc = IF r <= NdcgCut THEN r ELSE 0
    BY <1>1, <2>1, RankCut
  <2> HIDE DEF r, rc
  <2> QED BY <1>1, <2>2, <2>3
<1>3. q \in Nat /\ qc \in 0 .. 10 /\ qc = IF q <= NdcgCut THEN q ELSE 0
  <2>1. PICK n \in Nat : DOMAIN b = 1 .. n
    BY ListPlaces
  <2>2. q \in 0 .. RecallCut /\ qc \in 0 .. NdcgCut
    BY <1>1, <2>1, RankFound
  <2>3. qc = IF q <= NdcgCut THEN q ELSE 0
    BY <1>1, <2>1, RankCut
  <2> HIDE DEF q, qc
  <2> QED BY <1>1, <2>2, <2>3
<1> HIDE DEF r, q, rc, qc
<1>4. Behind(r, q)
  BY DEF r, q
<1>5. Behind(rc, qc)
  BY <1>1, <1>2, <1>3, <1>4 DEF Behind
<1>6. /\ Ndcg(rc) <= Ndcg(qc) /\ AvgPrecision(r) <= AvgPrecision(q)
      /\ Recall(r) <= Recall(q)
  BY <1>2, <1>3, <1>4, <1>5, NdcgOrder, AvgPrecisionOrder, RecallOrder
<1> QED BY <1>6 DEF MetricsOf, MetricNames, r, q, rc, qc

\* The averages of compute_offline_metrics.
Recent(rows) == Newest({i \in DOMAIN rows : Evaluated(rows[i])}, LogLimit)

Average(recent, value) == IF recent = {} THEN 0 ELSE Mean(Sum(value), Cardinality(recent))

Shown(rows, m) ==
    [i \in Recent(rows) |-> MetricsOf(rows[i].meili_ids, rows[i].actioned_id)[m]]

Reranked(rows, m) ==
    [i \in Recent(rows) |-> MetricsOf(rows[i].reranked_ids, rows[i].actioned_id)[m]]

LEMMA OfflineMetricsAre ==
    ASSUME NEW rows
    PROVE  OfflineMetrics(rows) =
             [evaluated_queries |-> Cardinality(Recent(rows)),
              meili |-> [m \in MetricNames |-> Average(Recent(rows), Shown(rows, m))],
              lgbm  |-> [m \in MetricNames |-> Average(Recent(rows), Reranked(rows, m))]]
BY DEF OfflineMetrics, Recent, Average, Shown, Reranked

LEMMA AverageTyped ==
    ASSUME NEW S, IsFiniteSet(S), NEW f, DOMAIN f = S, \A x \in S : f[x] \in 0 .. Million
    PROVE  Average(S, f) \in 0 .. Million
<1>1. Million \in Nat
  BY MillionNat
<1>2. CASE S = {}
  BY <1>1, <1>2 DEF Average
<1>3. CASE S # {}
  <2>1. Cardinality(S) \in Nat \ {0}
    BY <1>3, FS_CardinalityType, FS_EmptySet
  <2>2. Sum(f) \in 0 .. Million * Cardinality(S)
    BY <1>1, SumBounded DEF Sum, SumFunction
  <2>3. Mean(Sum(f), Cardinality(S)) \in 0 .. Million
    BY <1>1, <2>1, <2>2, MeanBounded
  <2> QED BY <1>3, <2>3 DEF Average
<1> QED BY <1>2, <1>3

LEMMA AverageOrder ==
    ASSUME NEW S, IsFiniteSet(S), NEW f, NEW g, DOMAIN f = S, DOMAIN g = S,
           \A x \in S : f[x] \in Nat /\ g[x] \in Nat /\ f[x] <= g[x]
    PROVE  Average(S, f) <= Average(S, g)
<1>1. CASE S = {}
  BY <1>1 DEF Average
<1>2. CASE S # {}
  <2>1. Cardinality(S) \in Nat \ {0}
    BY <1>2, FS_CardinalityType, FS_EmptySet
  <2>2. Sum(f) \in Nat /\ Sum(g) \in Nat /\ Sum(f) <= Sum(g)
    BY SumMonotonic DEF Sum, SumFunction
  <2> QED BY <1>2, <2>1, <2>2, MeanOrder DEF Average
<1> QED BY <1>1, <1>2
-----------------------------------------------------------------------------

\* What compute_offline_metrics reads.
JoinedRows == [meili_ids : Lists, reranked_ids : Lists,
               actioned_id : Properties \cup {None}, action_type : Actions \cup {None}]

LEMMA TableRows ==
    ASSUME NEW T, NEW table \in Seq(T)
    PROVE  IsFiniteSet(DOMAIN table) /\ DOMAIN table \in SUBSET Nat
<1>1. DOMAIN table = 1 .. Len(table) /\ Len(table) \in Nat
  OBVIOUS
<1> QED BY <1>1, FS_Interval

LEMMA RecentIs ==
    ASSUME NEW rows \in Seq(JoinedRows)
    PROVE  /\ IsFiniteSet({i \in DOMAIN rows : Evaluated(rows[i])})
           /\ Recent(rows) \subseteq {i \in DOMAIN rows : Evaluated(rows[i])}
           /\ IsFiniteSet(Recent(rows))
           /\ Cardinality(Recent(rows)) \in 0 .. LogLimit
<1> DEFINE ids == {i \in DOMAIN rows : Evaluated(rows[i])}
<1>1. ids \in SUBSET Nat /\ IsFiniteSet(ids)
  BY TableRows, FS_Subset
<1>2. LogLimit \in Nat
  BY MetricConstants
<1> HIDE DEF ids
<1>3. /\ Newest(ids, LogLimit) \subseteq ids /\ IsFiniteSet(Newest(ids, LogLimit))
      /\ Cardinality(Newest(ids, LogLimit)) \in 0 .. LogLimit
  BY <1>1, <1>2, NewestAtMost
<1> QED BY <1>1, <1>3 DEF Recent, ids

\* Every row that is averaged has two lists.
LEMMA RecentLists ==
    ASSUME NEW rows \in Seq(JoinedRows), NEW i \in Recent(rows)
    PROVE  /\ i \in DOMAIN rows /\ Evaluated(rows[i])
           /\ rows[i].meili_ids \in Lists /\ rows[i].reranked_ids \in Lists
<1>1. i \in DOMAIN rows /\ Evaluated(rows[i])
  BY RecentIs
<1>2. rows[i] \in JoinedRows
  BY <1>1
<1> QED BY <1>1, <1>2 DEF JoinedRows

\* compute_offline_metrics returns a row that the report's columns hold.
LEMMA OfflineTyped ==
    ASSUME NEW rows \in Seq(JoinedRows)
    PROVE  OfflineMetrics(rows) \in OfflineRows
<1>1. Cardinality(Recent(rows)) \in 0 .. LogLimit /\ IsFiniteSet(Recent(rows))
  BY RecentIs
<1>2. ASSUME NEW m \in MetricNames
      PROVE  /\ Average(Recent(rows), Shown(rows, m)) \in 0 .. Million
             /\ Average(Recent(rows), Reranked(rows, m)) \in 0 .. Million
  <2>1. \A i \in Recent(rows) : Shown(rows, m)[i] \in 0 .. Million
    BY RecentLists, MetricsTyped DEF Shown
  <2>2. \A i \in Recent(rows) : Reranked(rows, m)[i] \in 0 .. Million
    BY RecentLists, MetricsTyped DEF Reranked
  <2>3. DOMAIN Shown(rows, m) = Recent(rows) /\ DOMAIN Reranked(rows, m) = Recent(rows)
    BY DEF Shown, Reranked
  <2> QED BY <1>1, <2>1, <2>2, <2>3, AverageTyped
<1> DEFINE meili == [m \in MetricNames |-> Average(Recent(rows), Shown(rows, m))]
           lgbm == [m \in MetricNames |-> Average(Recent(rows), Reranked(rows, m))]
<1>3. meili \in [MetricNames -> 0 .. Million] /\ lgbm \in [MetricNames -> 0 .. Million]
  BY <1>2
<1>4. OfflineMetrics(rows) =
          [evaluated_queries |-> Cardinality(Recent(rows)), meili |-> meili, lgbm |-> lgbm]
  BY OfflineMetricsAre
<1> HIDE DEF meili, lgbm
<1> QED BY <1>1, <1>3, <1>4 DEF OfflineRows

\* No metric is better for rankings that put no labelled property earlier.
LEMMA OfflineOrder ==
    ASSUME NEW rows \in Seq(JoinedRows),
           \A i \in DOMAIN rows : Evaluated(rows[i]) =>
               Behind(FindRank(rows[i].reranked_ids, rows[i].actioned_id, RecallCut),
                      FindRank(rows[i].meili_ids, rows[i].actioned_id, RecallCut)),
           NEW m \in MetricNames
    PROVE  OfflineMetrics(rows).lgbm[m] <= OfflineMetrics(rows).meili[m]
<1>1. IsFiniteSet(Recent(rows))
  BY RecentIs
<1>2. ASSUME NEW i \in Recent(rows)
      PROVE  /\ Reranked(rows, m)[i] \in Nat /\ Shown(rows, m)[i] \in Nat
             /\ Reranked(rows, m)[i] <= Shown(rows, m)[i]
  <2>1. /\ Reranked(rows, m)[i] = MetricsOf(rows[i].reranked_ids, rows[i].actioned_id)[m]
        /\ Shown(rows, m)[i] = MetricsOf(rows[i].meili_ids, rows[i].actioned_id)[m]
    BY DEF Reranked, Shown
  <2>2. rows[i].meili_ids \in Lists /\ rows[i].reranked_ids \in Lists
    BY RecentLists
  <2>3. Behind(FindRank(rows[i].reranked_ids, rows[i].actioned_id, RecallCut),
               FindRank(rows[i].meili_ids, rows[i].actioned_id, RecallCut))
    BY RecentLists
  <2>4. /\ MetricsOf(rows[i].reranked_ids, rows[i].actioned_id)[m] \in 0 .. Million
        /\ MetricsOf(rows[i].meili_ids, rows[i].actioned_id)[m] \in 0 .. Million
    BY <2>2, MetricsTyped
  <2>5. MetricsOf(rows[i].reranked_ids, rows[i].actioned_id)[m]
          <= MetricsOf(rows[i].meili_ids, rows[i].actioned_id)[m]
    BY <2>2, <2>3, MetricsOrder
  <2>6. Million \in Nat
    BY MillionNat
  <2> QED BY <2>1, <2>4, <2>5, <2>6
<1>3. DOMAIN Shown(rows, m) = Recent(rows) /\ DOMAIN Reranked(rows, m) = Recent(rows)
  BY DEF Shown, Reranked
<1>4. Average(Recent(rows), Reranked(rows, m)) <= Average(Recent(rows), Shown(rows, m))
  BY <1>1, <1>2, <1>3, AverageOrder
<1> QED BY <1>4, OfflineMetricsAre
-----------------------------------------------------------------------------

\* What the KPI of a day may show: the impressions and the labels of its logs.
OfDay(logs, d) == {i \in DOMAIN logs : logs[i].day = d}

Impressions(logs, d) == Sum([i \in OfDay(logs, d) |-> Len(logs[i].result_ids)])

Labelled(logs, d) == {i \in OfDay(logs, d) : logs[i].actioned_id # None}

Within(logs, row, d) ==
    /\ row.counts.impressions <= Impressions(logs, d)
    /\ Sum(row.counts.actions) <= Cardinality(Labelled(logs, d))

\* The labels of a log come and go together.
LabelsWhole(logs) ==
    \A i \in DOMAIN logs : logs[i].action_type # None <=> logs[i].actioned_id # None

\* Logs are not taken back, and neither are labels.
Continues(logs, old) ==
    /\ DOMAIN old \subseteq DOMAIN logs
    /\ \A i \in DOMAIN old :
           /\ logs[i].day = old[i].day /\ logs[i].result_ids = old[i].result_ids
           /\ old[i].actioned_id # None => logs[i].actioned_id # None
           /\ old[i].action_type # None => logs[i].action_type # None

LEMMA OfDayIs ==
    ASSUME NEW logs \in Seq(Logs), NEW d
    PROVE  /\ IsFiniteSet(OfDay(logs, d)) /\ IsFiniteSet(Labelled(logs, d))
           /\ Cardinality(Labelled(logs, d)) \in Nat
           /\ \A i \in OfDay(logs, d) : Len(logs[i].result_ids) \in Nat
           /\ Impressions(logs, d) \in Nat
<1>1. IsFiniteSet(OfDay(logs, d))
  BY TableRows, FS_Subset DEF OfDay
<1>2. IsFiniteSet(Labelled(logs, d)) /\ Cardinality(Labelled(logs, d)) \in Nat
  BY <1>1, FS_Subset, FS_CardinalityType DEF Labelled
<1>3. \A i \in OfDay(logs, d) : Len(logs[i].result_ids) \in Nat
  <2>1. \A i \in OfDay(logs, d) : logs[i] \in Logs
    BY DEF OfDay
  <2>2. \A i \in OfDay(logs, d) : logs[i].result_ids \in Seq(Properties)
    BY <2>1, ListPlaces DEF Logs
  <2> QED BY <2>2
<1>4. Impressions(logs, d) \in Nat
  <2> DEFINE f == [i \in OfDay(logs, d) |-> Len(logs[i].result_ids)]
  <2>1. DOMAIN f = OfDay(logs, d) /\ \A i \in OfDay(logs, d) : f[i] \in Nat /\ f[i] <= f[i]
    BY <1>3
  <2> HIDE DEF f
  <2>2. SumFunctionOnSet(f, OfDay(logs, d)) \in Nat
    BY <1>1, <2>1, SumMonotonic
  <2> QED BY <2>1, <2>2 DEF Impressions, Sum, SumFunction, f
<1> QED BY <1>1, <1>2, <1>3, <1>4

\* So nothing that a row may show goes away.
LEMMA ContinuesShows ==
    ASSUME NEW old \in Seq(Logs), NEW logs \in Seq(Logs), Continues(logs, old), NEW d
    PROVE  /\ Impressions(old, d) <= Impressions(logs, d)
           /\ Cardinality(Labelled(old, d)) <= Cardinality(Labelled(logs, d))
<1>1. OfDay(old, d) \subseteq OfDay(logs, d)
  BY DEF Continues, OfDay
<1>2. Labelled(old, d) \subseteq Labelled(logs, d)
  BY <1>1 DEF Continues, Labelled, OfDay
<1>3. Cardinality(Labelled(old, d)) <= Cardinality(Labelled(logs, d))
  BY <1>2, OfDayIs, FS_Subset
<1>4. Impressions(old, d) <= Impressions(logs, d)
  <2> DEFINE f == [i \in OfDay(old, d) |-> Len(old[i].result_ids)]
             g == [i \in OfDay(logs, d) |-> Len(logs[i].result_ids)]
  <2>1. /\ DOMAIN f = OfDay(old, d) /\ DOMAIN g = OfDay(logs, d)
        /\ \A i \in OfDay(logs, d) : g[i] \in Nat
        /\ \A i \in OfDay(old, d) : f[i] \in Nat /\ f[i] <= g[i]
    <3>1. \A i \in OfDay(old, d) : f[i] = g[i]
      BY <1>1 DEF Continues, OfDay
    <3>2. \A i \in OfDay(logs, d) : g[i] \in Nat
      BY OfDayIs
    <3>3. DOMAIN f = OfDay(old, d) /\ DOMAIN g = OfDay(logs, d)
      OBVIOUS
    <3> HIDE DEF f, g
    <3> QED BY <1>1, <3>1, <3>2, <3>3
  <2>2. IsFiniteSet(OfDay(logs, d))
    BY OfDayIs
  <2> HIDE DEF f, g
  <2>3. SumFunctionOnSet(f, OfDay(old, d)) <= SumFunctionOnSet(g, OfDay(logs, d))
    BY <1>1, <2>1, <2>2, SumMonotonic
  <2> QED BY <2>1, <2>3 DEF Impressions, Sum, SumFunction, f, g
<1> QED BY <1>3, <1>4

\* The joined rows of any two tables.
JoinedOf(compares, logs) ==
    [k \in DOMAIN compares |->
        [meili_ids |-> compares[k].meili_ids, reranked_ids |-> compares[k].reranked_ids,
         actioned_id |-> logs[compares[k].search_log_id].actioned_id,
         action_type |-> logs[compares[k].search_log_id].action_type]]

LEMMA JoinedIs ==
    /\ Joined = JoinedOf(ranking_compare_logs, search_logs)
    /\ Joined' = JoinedOf(ranking_compare_logs', search_logs')
BY DEF Joined, JoinedOf

ComparesOK(compares, logs) ==
    /\ compares \in Seq(Compares)
    /\ \A k \in DOMAIN compares : compares[k].search_log_id \in DOMAIN logs

LEMMA JoinedTyped ==
    ASSUME NEW logs \in Seq(Logs), NEW compares, ComparesOK(compares, logs)
    PROVE  JoinedOf(compares, logs) \in Seq(JoinedRows)
<1>1. compares \in Seq(Compares) /\ DOMAIN compares = 1 .. Len(compares) /\ Len(compares) \in Nat
  BY DEF ComparesOK
<1>2. ASSUME NEW k \in DOMAIN compares
      PROVE  JoinedOf(compares, logs)[k] \in JoinedRows
  <2>1. compares[k] \in Compares /\ compares[k].search_log_id \in DOMAIN logs
    BY <1>1, <1>2, ElementOfSeq DEF ComparesOK
  <2>2. logs[compares[k].search_log_id] \in Logs
    BY <2>1
  <2> QED BY <2>1, <2>2 DEF JoinedOf, JoinedRows, Logs, Compares
<1>3. JoinedOf(compares, logs) \in [1 .. Len(compares) -> JoinedRows]
  BY <1>1, <1>2 DEF JoinedOf
<1> QED BY <1>1, <1>3

\* Comparisons are not taken back, so no joined row with a label is.
ComparesContinue(compares, old) ==
    DOMAIN old \subseteq DOMAIN compares /\ \A k \in DOMAIN old : compares[k] = old[k]

LEMMA JoinedContinues ==
    ASSUME NEW old \in Seq(Logs), NEW logs \in Seq(Logs), Continues(logs, old),
           NEW before, NEW compares, ComparesContinue(compares, before),
           ComparesOK(before, old), ComparesOK(compares, logs)
    PROVE  Cardinality({k \in DOMAIN JoinedOf(before, old) : Evaluated(JoinedOf(before, old)[k])})
             <= Cardinality({k \in DOMAIN JoinedOf(compares, logs) :
                                Evaluated(JoinedOf(compares, logs)[k])})
<1>1. /\ DOMAIN JoinedOf(before, old) = DOMAIN before
      /\ DOMAIN JoinedOf(compares, logs) = DOMAIN compares
  BY DEF JoinedOf
<1>2. ASSUME NEW k \in DOMAIN before, Evaluated(JoinedOf(before, old)[k])
      PROVE  k \in DOMAIN compares /\ Evaluated(JoinedOf(compares, logs)[k])
  <2>1. k \in DOMAIN compares /\ compares[k] = before[k] /\ before[k].search_log_id \in DOMAIN old
    BY <1>2 DEF ComparesContinue, ComparesOK
  <2>2. old[before[k].search_log_id].action_type # None
    BY <1>2 DEF JoinedOf, Evaluated
  <2>3. logs[before[k].search_log_id].action_type # None
    BY <2>1, <2>2 DEF Continues
  <2> QED BY <2>1, <2>3 DEF JoinedOf, Evaluated
<1>3. {k \in DOMAIN JoinedOf(before, old) : Evaluated(JoinedOf(before, old)[k])}
        \subseteq {k \in DOMAIN JoinedOf(compares, logs) : Evaluated(JoinedOf(compares, logs)[k])}
  BY <1>1, <1>2
<1>4. IsFiniteSet({k \in DOMAIN JoinedOf(compares, logs) : Evaluated(JoinedOf(compares, logs)[k])})
  BY JoinedTyped, RecentIs
<1> QED BY <1>3, <1>4, FS_Subset

\* The sum of the three action counts.
LEMMA SumOfActions ==
    ASSUME NEW f \in [ActionTypes -> Nat]
    PROVE  Sum(f) = f["click"] + f["favorite"] + f["inquiry"]
<1>1. f["click"] \in Int /\ f["favorite"] \in Int /\ f["inquiry"] \in Int
  BY DEF ActionTypes
<1>2. SumFunctionOnSet(f, {}) = 0
  BY FS_EmptySet, SumRemove
<1>3. SumFunctionOnSet(f, {"click"}) = f["click"]
  <2>1. {"click"} = {} \cup {"click"}
    OBVIOUS
  <2>2. SumFunctionOnSet(f, {} \cup {"click"}) = f["click"] + SumFunctionOnSet(f, {})
    BY <1>1, FS_EmptySet, SumAdd
  <2> QED BY <1>1, <1>2, <2>1, <2>2
<1>4. SumFunctionOnSet(f, {"click", "favorite"}) = f["click"] + f["favorite"]
  <2>1. {"click", "favorite"} = {"click"} \cup {"favorite"}
    OBVIOUS
  <2>2. SumFunctionOnSet(f, {"click"} \cup {"favorite"})
          = f["favorite"] + SumFunctionOnSet(f, {"click"})
    <3>1. IsFiniteSet({"click"}) /\ "favorite" \notin {"click"} /\ \A y \in {"click"} : f[y] \in Int
      BY <1>1, FS_Singleton
    <3> QED BY <1>1, <3>1, SumAdd
  <2> QED BY <1>1, <1>3, <2>1, <2>2
<1>5. SumFunctionOnSet(f, ActionTypes) = f["click"] + f["favorite"] + f["inquiry"]
  <2>1. ActionTypes = {"click", "favorite"} \cup {"inquiry"}
    BY DEF ActionTypes
  <2>2. SumFunctionOnSet(f, {"click", "favorite"} \cup {"inquiry"})
          = f["inquiry"] + SumFunctionOnSet(f, {"click", "favorite"})
    <3>1. /\ IsFiniteSet({"click", "favorite"}) /\ "inquiry" \notin {"click", "favorite"}
          /\ \A y \in {"click", "favorite"} : f[y] \in Int
      <4>1. {"click", "favorite"} = {"click"} \cup {"favorite"}
        OBVIOUS
      <4>2. IsFiniteSet({"click"} \cup {"favorite"})
        BY FS_Singleton, FS_AddElement
      <4> QED BY <1>1, <4>1, <4>2
    <3> QED BY <1>1, <3>1, SumAdd
  <2> QED BY <1>1, <1>4, <2>1, <2>2
<1> QED BY <1>5 DEF Sum, SumFunction

\* The aggregate of a day shows what its logs hold: every label in one column.
LEMMA KpiRowWithin ==
    ASSUME NEW logs \in Seq(Logs), LabelsWhole(logs), NEW d
    PROVE  /\ IsKpiRow(KpiRow(KpiCounts(logs, d)))
           /\ Within(logs, KpiRow(KpiCounts(logs, d)), d)
<1> DEFINE of(a) == {i \in OfDay(logs, d) : logs[i].action_type = a}
           actions == [a \in ActionTypes |-> Cardinality(of(a))]
           counts == KpiCounts(logs, d)
<1>1. counts = [impressions |-> Impressions(logs, d), actions |-> actions]
  BY DEF KpiCounts, Impressions, OfDay
<1>2. \A a \in ActionTypes : IsFiniteSet(of(a)) /\ Cardinality(of(a)) \in Nat
  BY OfDayIs, FS_Subset, FS_CardinalityType
<1>3. actions \in [ActionTypes -> Nat]
  BY <1>2
<1>4. counts \in [impressions : Nat, actions : [ActionTypes -> Nat]]
  BY <1>1, <1>3, OfDayIs
<1>5. KpiRow(counts).counts = counts
  BY DEF KpiRow
<1>6. IsKpiRow(KpiRow(counts))
  <2> HIDE DEF counts
  <2> QED BY <1>4, <1>5 DEF IsKpiRow
<1>7. Sum(actions) <= Cardinality(Labelled(logs, d))
  <2> DEFINE c == of("click")
             v == of("favorite")
             q == of("inquiry")
  <2>1. IsFiniteSet(c) /\ IsFiniteSet(v) /\ IsFiniteSet(q)
    BY <1>2 DEF ActionTypes
  <2>2. c \cap v = {} /\ (c \cup v) \cap q = {}
    OBVIOUS
  <2>3. c \cup v \cup q \subseteq Labelled(logs, d)
    BY MetricConstants DEF LabelsWhole, Labelled, OfDay
  <2>4. Cardinality(c \cup v) = Cardinality(c) + Cardinality(v) /\ IsFiniteSet(c \cup v)
    <3> HIDE DEF c, v
    <3>1. /\ Cardinality(c \cup v) = Cardinality(c) + Cardinality(v) - Cardinality(c \cap v)
          /\ IsFiniteSet(c \cup v)
      BY <2>1, FS_Union
    <3>2. Cardinality(c \cap v) = 0
      BY <2>2, FS_EmptySet
    <3> QED BY <2>1, <3>1, <3>2, FS_CardinalityType
  <2>5. Cardinality(c \cup v \cup q) = Cardinality(c) + Cardinality(v) + Cardinality(q)
    <3> HIDE DEF c, v, q
    <3>1. Cardinality((c \cup v) \cup q)
            = Cardinality(c \cup v) + Cardinality(q) - Cardinality((c \cup v) \cap q)
      BY <2>1, <2>4, FS_Union
    <3>2. Cardinality((c \cup v) \cap q) = 0
      BY <2>2, FS_EmptySet
    <3> QED BY <2>1, <2>4, <3>1, <3>2, FS_CardinalityType
  <2>6. Cardinality(c \cup v \cup q) <= Cardinality(Labelled(logs, d))
    <3> HIDE DEF c, v, q
    <3> QED BY <2>3, OfDayIs, FS_Subset
  <2>7. Sum(actions) = actions["click"] + actions["favorite"] + actions["inquiry"]
    BY <1>3, SumOfActions
  <2>8. /\ actions["click"] = Cardinality(c) /\ actions["favorite"] = Cardinality(v)
        /\ actions["inquiry"] = Cardinality(q)
    BY DEF ActionTypes
  <2> HIDE DEF c, v, q, actions
  <2> QED BY <2>5, <2>6, <2>7, <2>8
<1>8. /\ counts.impressions = Impressions(logs, d) /\ counts.actions = actions
      /\ Impressions(logs, d) \in Nat
  BY <1>1, OfDayIs
<1> HIDE DEF counts, actions
<1>9. Within(logs, KpiRow(counts), d)
  BY <1>5, <1>7, <1>8 DEF Within
<1> QED BY <1>6, <1>9 DEF counts
-----------------------------------------------------------------------------

\* A report's metrics are of no more queries than have labels now.
Counted(offline) ==
    offline.evaluated_queries <=
        Cardinality({k \in DOMAIN Joined : Evaluated(Joined[k])})

\* The inductive invariant.  To the properties it adds that a log's two label
\* columns are filled together, that a running job writes a row for a day that
\* has come, and what the metrics are that it holds: of queries that have labels
\* still, and stored once it is past the insert.
IInv ==
    /\ TypeOK
    /\ report = [pc |-> report.pc, offline |-> report.offline, weekly |-> report.weekly]
    /\ LabelsWhole(search_logs)
    /\ kpi.pc = "upsert" => kpi.day \in 1 .. today
    /\ KpiBehind
    /\ report.pc # "idle" => Counted(report.offline)
    /\ report.pc \in {"kpi", "decide"} => report.offline \in Range(offline_eval_reports)
    /\ DecisionsReported

LEMMA KpiBehindIs ==
    KpiBehind <=>
        /\ \A d \in DOMAIN kpi_daily_stats : Within(search_logs, kpi_daily_stats[d], d)
        /\ kpi.pc = "upsert" => Within(search_logs, kpi.row, kpi.day)
BY DEF KpiBehind, Within, Impressions, Labelled, OfDay

LEMMA KpiBehindNext ==
    KpiBehind' <=>
       (/\ \A d \in DOMAIN kpi_daily_stats : Within(search_logs, kpi_daily_stats[d], d)
        /\ kpi.pc = "upsert" => Within(search_logs, kpi.row, kpi.day))'
BY DEF KpiBehind, Within, Impressions, Labelled, OfDay

LEMMA InitInv == Init => IInv
<1> SUFFICES ASSUME Init PROVE IInv
  OBVIOUS
<1> USE DEF Init
<1>1. TypeOK
  <2>1. today \in 1 .. MaxDay
    BY EvaluationConstants
  <2>2. search_logs \in Seq(Logs) /\ Len(search_logs) <= MaxLogs
    BY EvaluationConstants
  <2>3. DOMAIN kpi_daily_stats = {}
    OBVIOUS
  <2>4. /\ offline_eval_reports \in Seq(OfflineRows)
        /\ model_adoption_decisions \in Seq([adopt_lgbm : BOOLEAN, offline : OfflineRows])
    OBVIOUS
  <2>5. kpi.pc = "idle" /\ kpi.day = 0 /\ report.pc = "idle"
    BY DEF NoKpi, NoReport
  <2>6. ranking_compare_logs \in Seq(Compares) /\ DOMAIN ranking_compare_logs = {}
    OBVIOUS
  <2> QED BY <2>1, <2>2, <2>3, <2>4, <2>5, <2>6, SMT DEF TypeOK
<1>2. KpiBehind
  BY DEF KpiBehind, NoKpi
<1>3. /\ report = [pc |-> report.pc, offline |-> report.offline, weekly |-> report.weekly]
      /\ report.pc = "idle" /\ kpi.pc = "idle"
  BY DEF NoReport, NoKpi
<1>4. LabelsWhole(search_logs) /\ DecisionsReported
  BY DEF LabelsWhole, DecisionsReported
<1> QED BY <1>1, <1>2, <1>3, <1>4 DEF IInv

\* The comparisons when only the logs change.
LEMMA ComparesStill ==
    ASSUME TypeOK, Continues(search_logs', search_logs), UNCHANGED ranking_compare_logs
    PROVE  /\ ComparesOK(ranking_compare_logs', search_logs')
           /\ ComparesContinue(ranking_compare_logs', ranking_compare_logs)
<1>1. /\ ranking_compare_logs \in Seq(Compares)
      /\ \A k \in DOMAIN ranking_compare_logs :
             ranking_compare_logs[k].search_log_id \in DOMAIN search_logs
  BY DEF TypeOK
<1>2. DOMAIN search_logs \subseteq DOMAIN search_logs'
  BY DEF Continues
<1> QED BY <1>1, <1>2 DEF ComparesOK, ComparesContinue

\* What a search, a comparison or a feedback does to the logs.
LEMMA SearchKeeps ==
    ASSUME TypeOK, LabelsWhole(search_logs), Search
    PROVE  /\ search_logs' \in Seq(Logs) /\ Len(search_logs') <= MaxLogs
           /\ Continues(search_logs', search_logs) /\ LabelsWhole(search_logs')
           /\ ComparesOK(ranking_compare_logs', search_logs')
           /\ ComparesContinue(ranking_compare_logs', ranking_compare_logs)
<1>1. PICK s \in Lists :
          search_logs' = Append(search_logs,
              [day |-> today, result_ids |-> s, actioned_id |-> None, action_type |-> None])
  BY DEF Search
<1> DEFINE log == [day |-> today, result_ids |-> s, actioned_id |-> None, action_type |-> None]
<1>2. log \in Logs
  BY DEF TypeOK, Logs
<1>3. search_logs \in Seq(Logs) /\ Len(search_logs) < MaxLogs /\ MaxLogs \in Nat
  BY EvaluationConstants DEF TypeOK, Search
<1>4. /\ search_logs' \in Seq(Logs) /\ Len(search_logs') = Len(search_logs) + 1
      /\ \A i \in 1 .. Len(search_logs) : search_logs'[i] = search_logs[i]
      /\ search_logs'[Len(search_logs) + 1] = log
  <2> HIDE DEF log
  <2> QED BY <1>1, <1>2, <1>3, AppendProperties DEF log
<1>5. Continues(search_logs', search_logs)
  BY <1>3, <1>4 DEF Continues
<1>6. log.action_type = None /\ log.actioned_id = None
  OBVIOUS
<1>7. LabelsWhole(search_logs')
  <2> HIDE DEF log
  <2>1. \A i \in DOMAIN search_logs' : i \in DOMAIN search_logs \/ i = Len(search_logs) + 1
    BY <1>3, <1>4
  <2>2. \A i \in DOMAIN search_logs : search_logs'[i] = search_logs[i]
    BY <1>3, <1>4
  <2> QED BY <1>4, <1>6, <2>1, <2>2 DEF LabelsWhole
<1>8. /\ ComparesOK(ranking_compare_logs', search_logs')
      /\ ComparesContinue(ranking_compare_logs', ranking_compare_logs)
  BY <1>5, ComparesStill DEF Search
<1> QED BY <1>3, <1>4, <1>5, <1>7, <1>8

LEMMA CompareKeeps ==
    ASSUME TypeOK, LabelsWhole(search_logs), NEW i \in DOMAIN search_logs, Compare(i)
    PROVE  /\ search_logs' \in Seq(Logs) /\ Len(search_logs') <= MaxLogs
           /\ Continues(search_logs', search_logs) /\ LabelsWhole(search_logs')
           /\ ComparesOK(ranking_compare_logs', search_logs')
           /\ ComparesContinue(ranking_compare_logs', ranking_compare_logs)
<1>1. PICK c \in Lists :
          ranking_compare_logs' = Append(ranking_compare_logs,
              [search_log_id |-> i, meili_ids |-> c, reranked_ids |-> search_logs[i].result_ids])
  BY DEF Compare
<1> DEFINE row == [search_log_id |-> i, meili_ids |-> c, reranked_ids |-> search_logs[i].result_ids]
<1>2. /\ search_logs' = search_logs /\ search_logs \in Seq(Logs) /\ Len(search_logs) <= MaxLogs
      /\ ranking_compare_logs \in Seq(Compares)
      /\ \A k \in DOMAIN ranking_compare_logs :
             ranking_compare_logs[k].search_log_id \in DOMAIN search_logs
  BY DEF Compare, TypeOK
<1>3. search_logs[i].result_ids \in Lists
  <2>1. search_logs[i] \in Logs
    BY <1>2
  <2> QED BY <2>1 DEF Logs
<1>4. row \in Compares /\ row.search_log_id = i
  BY <1>2, <1>3 DEF Compares
<1> HIDE DEF row
<1>5. /\ ranking_compare_logs' \in Seq(Compares)
      /\ Len(ranking_compare_logs') = Len(ranking_compare_logs) + 1
      /\ \A k \in 1 .. Len(ranking_compare_logs) : ranking_compare_logs'[k] = ranking_compare_logs[k]
      /\ ranking_compare_logs'[Len(ranking_compare_logs) + 1] = row
  BY <1>1, <1>2, <1>4, AppendProperties DEF row
<1>6. ComparesContinue(ranking_compare_logs', ranking_compare_logs)
  <2>1. /\ DOMAIN ranking_compare_logs = 1 .. Len(ranking_compare_logs)
        /\ Len(ranking_compare_logs) \in Nat
    BY <1>2
  <2>2. DOMAIN ranking_compare_logs' = 1 .. Len(ranking_compare_logs) + 1
    BY <1>5
  <2>3. DOMAIN ranking_compare_logs \subseteq DOMAIN ranking_compare_logs'
    BY <2>1, <2>2
  <2> QED BY <1>5, <2>1, <2>3 DEF ComparesContinue
<1>7. ComparesOK(ranking_compare_logs', search_logs')
  <2>1. \A k \in DOMAIN ranking_compare_logs' :
            k \in DOMAIN ranking_compare_logs \/ k = Len(ranking_compare_logs) + 1
    BY <1>2, <1>5
  <2>2. \A k \in DOMAIN ranking_compare_logs : ranking_compare_logs'[k] = ranking_compare_logs[k]
    BY <1>6 DEF ComparesContinue
  <2> QED BY <1>2, <1>4, <1>5, <2>1, <2>2 DEF ComparesOK
<1>8. Continues(search_logs', search_logs) /\ LabelsWhole(search_logs')
  BY <1>2 DEF Continues, LabelsWhole
<1> QED BY <1>2, <1>6, <1>7, <1>8

LEMMA FeedbackKeeps ==
    ASSUME TypeOK, LabelsWhole(search_logs),
           NEW i \in DOMAIN search_logs, NEW p \in Properties, NEW a \in Actions, Feedback(i, p, a)
    PROVE  /\ search_logs' \in Seq(Logs) /\ Len(search_logs') <= MaxLogs
           /\ Continues(search_logs', search_logs) /\ LabelsWhole(search_logs')
           /\ ComparesOK(ranking_compare_logs', search_logs')
           /\ ComparesContinue(ranking_compare_logs', ranking_compare_logs)
<1>1. search_logs' = [search_logs EXCEPT ![i].actioned_id = p, ![i].action_type = a]
  BY DEF Feedback
<1>2. search_logs \in Seq(Logs) /\ Len(search_logs) <= MaxLogs
  BY DEF TypeOK
<1>3. /\ search_logs[i] \in Logs
      /\ [search_logs[i] EXCEPT !.actioned_id = p, !.action_type = a] \in Logs
  <2>1. \A log \in Logs : [log EXCEPT !.actioned_id = p, !.action_type = a] \in Logs
    BY DEF Logs
  <2>2. search_logs[i] \in Logs
    BY <1>2
  <2> QED BY <2>1, <2>2
<1>4. /\ search_logs' \in Seq(Logs) /\ Len(search_logs') = Len(search_logs)
      /\ DOMAIN search_logs' = DOMAIN search_logs
  <2>1. search_logs' = [search_logs EXCEPT
            ![i] = [search_logs[i] EXCEPT !.actioned_id = p, !.action_type = a]]
    BY <1>1, <1>2
  <2> QED BY <1>2, <1>3, <2>1
<1>5. p # None /\ a # None
  BY MetricConstants
<1>6. /\ search_logs'[i].actioned_id = p /\ search_logs'[i].action_type = a
      /\ \A j \in DOMAIN search_logs :
             /\ search_logs'[j].day = search_logs[j].day
             /\ search_logs'[j].result_ids = search_logs[j].result_ids
             /\ j # i => search_logs'[j] = search_logs[j]
  BY <1>1, <1>2, <1>3 DEF Logs
<1>7. Continues(search_logs', search_logs)
  BY <1>4, <1>5, <1>6 DEF Continues
<1>8. LabelsWhole(search_logs')
  BY <1>4, <1>5, <1>6 DEF LabelsWhole
<1>9. /\ ComparesOK(ranking_compare_logs', search_logs')
      /\ ComparesContinue(ranking_compare_logs', ranking_compare_logs)
  BY <1>7, ComparesStill DEF Feedback
<1> QED BY <1>2, <1>4, <1>7, <1>8, <1>9

\* Such a step keeps the invariant, whatever the jobs hold.
LEMMA ServingKeeps ==
    ASSUME IInv, search_logs' \in Seq(Logs), Len(search_logs') <= MaxLogs,
           Continues(search_logs', search_logs), LabelsWhole(search_logs'),
           ComparesOK(ranking_compare_logs', search_logs'),
           ComparesContinue(ranking_compare_logs', ranking_compare_logs),
           UNCHANGED <<today, results, kpi, report>>
    PROVE  IInv'
<1> USE DEF results
<1>1. TypeOK'
  BY DEF IInv, TypeOK, ComparesOK
<1>2. PICK old : old = search_logs
  OBVIOUS
<1>3. PICK logs : logs = search_logs'
  OBVIOUS
<1>4. old \in Seq(Logs) /\ logs \in Seq(Logs) /\ Continues(logs, old)
  BY <1>2, <1>3 DEF IInv, TypeOK
<1>5. ASSUME NEW row, NEW d, IsKpiRow(row), Within(old, row, d)
      PROVE  Within(logs, row, d)
  <2>1. row.counts.impressions \in Nat /\ row.counts.actions \in [ActionTypes -> Nat]
    BY <1>5 DEF IsKpiRow
  <2>2. Sum(row.counts.actions) \in Int
    BY <2>1, SumOfActions DEF ActionTypes
  <2>3. /\ Impressions(old, d) \in Nat /\ Impressions(logs, d) \in Nat
        /\ Cardinality(Labelled(old, d)) \in Nat /\ Cardinality(Labelled(logs, d)) \in Nat
    BY <1>4, OfDayIs
  <2>4. /\ Impressions(old, d) <= Impressions(logs, d)
        /\ Cardinality(Labelled(old, d)) <= Cardinality(Labelled(logs, d))
    BY <1>4, ContinuesShows
  <2> QED BY <1>5, <2>1, <2>2, <2>3, <2>4 DEF Within
<1>6. KpiBehind'
  <2>1. \A d \in DOMAIN kpi_daily_stats : Within(logs, kpi_daily_stats[d], d)
    BY <1>2, <1>5, KpiBehindIs DEF IInv, TypeOK
  <2>2. kpi.pc = "upsert" => Within(logs, kpi.row, kpi.day)
    BY <1>2, <1>5, KpiBehindIs DEF IInv, TypeOK
  <2>3. (/\ \A d \in DOMAIN kpi_daily_stats : Within(search_logs, kpi_daily_stats[d], d)
         /\ kpi.pc = "upsert" => Within(search_logs, kpi.row, kpi.day))'
    BY <1>3, <2>1, <2>2
  <2> QED BY <2>3, KpiBehindNext
<1>7. ASSUME NEW offline \in OfflineRows, Counted(offline) PROVE Counted(offline)'
  <2>0. PICK before, compares : before = ranking_compare_logs /\ compares = ranking_compare_logs'
    OBVIOUS
  <2>5. ComparesOK(before, old) /\ ComparesOK(compares, logs) /\ ComparesContinue(compares, before)
    BY <1>2, <1>3, <2>0 DEF ComparesOK, IInv, TypeOK
  <2>6. Joined = JoinedOf(before, old) /\ Joined' = JoinedOf(compares, logs)
    BY <1>2, <1>3, <2>0, JoinedIs
  <2> DEFINE n == Cardinality({k \in DOMAIN JoinedOf(before, old) : Evaluated(JoinedOf(before, old)[k])})
             m == Cardinality({k \in DOMAIN JoinedOf(compares, logs) :
                                  Evaluated(JoinedOf(compares, logs)[k])})
  <2>1. n \in Nat /\ m \in Nat /\ n <= m
    <3>1. JoinedOf(before, old) \in Seq(JoinedRows) /\ JoinedOf(compares, logs) \in Seq(JoinedRows)
      BY <1>4, <2>5, JoinedTyped
    <3>2. n \in Nat
      BY <3>1, RecentIs, FS_CardinalityType
    <3>3. m \in Nat
      BY <3>1, RecentIs, FS_CardinalityType
    <3>4. n <= m
      BY <1>4, <2>5, JoinedContinues
    <3> QED BY <3>2, <3>3, <3>4
  <2>2. offline.evaluated_queries \in Int
    BY MetricConstants DEF OfflineRows
  <2>3. offline.evaluated_queries <= n
    BY <1>7, <2>6 DEF Counted
  <2> HIDE DEF n, m
  <2>4. offline.evaluated_queries <= m
    BY <2>1, <2>2, <2>3
  <2> QED BY <2>4, <2>6 DEF Counted, m
<1>8. (report.pc # "idle" => Counted(report.offline))'
  BY <1>7 DEF IInv, TypeOK
<1>9. DecisionsReported'
  <2>1. ASSUME NEW i \in DOMAIN model_adoption_decisions
        PROVE  /\ model_adoption_decisions[i].offline \in Range(offline_eval_reports)
               /\ Counted(model_adoption_decisions[i].offline)'
    <3>1. model_adoption_decisions[i].offline \in OfflineRows
      <4> DEFINE D == [adopt_lgbm : BOOLEAN, offline : OfflineRows]
      <4>1. model_adoption_decisions \in Seq(D)
        BY DEF IInv, TypeOK
      <4>2. model_adoption_decisions[i] \in D
        <5> HIDE DEF D
        <5> QED BY <4>1
      <4> QED BY <4>2
    <3>2. Counted(model_adoption_decisions[i].offline)
      BY DEF IInv, DecisionsReported, Counted
    <3>3. model_adoption_decisions[i].offline \in Range(offline_eval_reports)
      BY DEF IInv, DecisionsReported
    <3>4. PICK offline : offline = model_adoption_decisions[i].offline
      OBVIOUS
    <3>5. Counted(offline)'
      BY <1>7, <3>1, <3>2, <3>4
    <3>6. offline' = offline /\ offline = (model_adoption_decisions[i].offline)'
      BY <3>4
    <3> QED BY <3>3, <3>4, <3>5 DEF Counted
  <2> QED BY <2>1 DEF DecisionsReported, Counted
<1> QED BY <1>1, <1>6, <1>8, <1>9 DEF IInv

\* The parts of TypeOK and IInv that the steps of the jobs need.
LEMMA Typed ==
    ASSUME IInv
    PROVE  /\ today \in 1 .. MaxDay /\ search_logs \in Seq(Logs) /\ LabelsWhole(search_logs)
           /\ Joined \in Seq(JoinedRows)
           /\ offline_eval_reports \in Seq(OfflineRows)
           /\ model_adoption_decisions \in Seq([adopt_lgbm : BOOLEAN, offline : OfflineRows])
           /\ report = [pc |-> report.pc, offline |-> report.offline, weekly |-> report.weekly]
           /\ report.pc # "idle" => report.offline \in OfflineRows /\ Counted(report.offline)
<1>1. ComparesOK(ranking_compare_logs, search_logs) /\ search_logs \in Seq(Logs)
  BY DEF IInv, TypeOK, ComparesOK
<1>2. Joined \in Seq(JoinedRows)
  BY <1>1, JoinedIs, JoinedTyped
<1> QED BY <1>2 DEF IInv, TypeOK

\* The metrics of the logs as they are.
LEMMA OfflineCounted ==
    ASSUME Joined \in Seq(JoinedRows)
    PROVE  Counted(OfflineMetrics(Joined))
<1>1. /\ Recent(Joined) \subseteq {k \in DOMAIN Joined : Evaluated(Joined[k])}
      /\ IsFiniteSet({k \in DOMAIN Joined : Evaluated(Joined[k])})
  BY RecentIs
<1>2. OfflineMetrics(Joined).evaluated_queries = Cardinality(Recent(Joined))
  BY OfflineMetricsAre
<1> QED BY <1>1, <1>2, FS_Subset DEF Counted

\* A step that leaves the logs alone leaves what they say alone.
LEMMA LogsStill ==
    ASSUME IInv, UNCHANGED <<search_logs, ranking_compare_logs>>
    PROVE  /\ search_logs' \in Seq(Logs) /\ Len(search_logs') <= MaxLogs /\ LabelsWhole(search_logs')
           /\ Joined' = Joined
           /\ \A offline : Counted(offline)' <=> Counted(offline)
<1>1. Joined' = Joined
  BY DEF Joined
<1> QED BY <1>1 DEF IInv, TypeOK, Counted

LEMMA NextDayKeeps ==
    ASSUME IInv, NextDay
    PROVE  IInv'
<1> USE DEF NextDay, results
<1>1. today \in 1 .. MaxDay /\ today' \in 1 .. MaxDay /\ 1 .. today \subseteq 1 .. today'
  BY Typed, EvaluationConstants
<1>2. TypeOK'
  BY <1>1 DEF IInv, TypeOK
<1>3. KpiBehind'
  BY KpiBehindIs, KpiBehindNext DEF IInv
<1>4. (kpi.pc = "upsert" => kpi.day \in 1 .. today)'
  BY <1>1 DEF IInv
<1> QED BY <1>2, <1>3, <1>4, LogsStill DEF IInv, DecisionsReported, Counted

LEMMA KpiSelectKeeps ==
    ASSUME IInv, KpiSelect
    PROVE  IInv'
<1> USE DEF KpiSelect, serving, results
<1>1. PICK d \in 1 .. today :
          kpi' = [pc |-> "upsert", day |-> d, row |-> KpiRow(KpiCounts(search_logs, d))]
  OBVIOUS
<1>2. kpi'.pc = "upsert" /\ kpi'.day = d /\ kpi'.row = KpiRow(KpiCounts(search_logs, d))
  BY <1>1
<1>3. IsKpiRow(kpi'.row) /\ Within(search_logs, kpi'.row, d)
  BY <1>2, Typed, KpiRowWithin
<1>4. IsKpiRow(kpi.row)'
  BY <1>3 DEF IsKpiRow, KpiRow, KpiRates
<1>5. TypeOK'
  BY <1>2, <1>4 DEF IInv, TypeOK
<1>6. KpiBehind'
  <2>1. \A e \in DOMAIN kpi_daily_stats : Within(search_logs, kpi_daily_stats[e], e)
    BY KpiBehindIs DEF IInv
  <2>2. (/\ \A e \in DOMAIN kpi_daily_stats : Within(search_logs, kpi_daily_stats[e], e)
         /\ kpi.pc = "upsert" => Within(search_logs, kpi.row, kpi.day))'
    BY <1>2, <1>3, <2>1
  <2> QED BY <2>2, KpiBehindNext
<1> QED BY <1>5, <1>6, LogsStill DEF IInv, DecisionsReported, Counted

LEMMA KpiUpsertKeeps ==
    ASSUME IInv, KpiUpsert
    PROVE  IInv'
<1> USE DEF KpiUpsert, serving
<1>1. /\ kpi'.pc = "idle" /\ kpi'.day = 0 /\ kpi.day \in 1 .. today
      /\ DOMAIN kpi_daily_stats' = DOMAIN kpi_daily_stats \cup {kpi.day}
      /\ \A d \in DOMAIN kpi_daily_stats' :
             kpi_daily_stats'[d] = IF d = kpi.day THEN kpi.row ELSE kpi_daily_stats[d]
  BY DEF NoKpi, IInv
<1>2. IsKpiRow(kpi.row) /\ kpi.pc = "upsert"
  BY DEF IInv, TypeOK
<1>3. \A d \in DOMAIN kpi_daily_stats : IsKpiRow(kpi_daily_stats[d])
  BY DEF IInv, TypeOK
<1>4. \A d \in DOMAIN kpi_daily_stats' : IsKpiRow(kpi_daily_stats'[d])
  BY <1>1, <1>2, <1>3
<1>5. TypeOK'
  BY <1>1, <1>4 DEF IInv, TypeOK
<1>6. KpiBehind'
  <2>1. /\ \A e \in DOMAIN kpi_daily_stats : Within(search_logs, kpi_daily_stats[e], e)
        /\ Within(search_logs, kpi.row, kpi.day)
    BY <1>2, KpiBehindIs DEF IInv
  <2>2. \A e \in DOMAIN kpi_daily_stats' : Within(search_logs, kpi_daily_stats'[e], e)
    BY <1>1, <2>1
  <2>3. (/\ \A e \in DOMAIN kpi_daily_stats : Within(search_logs, kpi_daily_stats[e], e)
         /\ kpi.pc = "upsert" => Within(search_logs, kpi.row, kpi.day))'
    BY <1>1, <2>2
  <2> QED BY <2>3, KpiBehindNext
<1> QED BY <1>1, <1>5, <1>6, LogsStill DEF IInv, DecisionsReported, Counted

LEMMA KpiEndKeeps ==
    ASSUME IInv, KpiEnd
    PROVE  IInv'
<1> USE DEF KpiEnd, serving, results
<1>1. kpi'.pc = "idle" /\ kpi'.day = 0
  BY DEF NoKpi
<1>2. TypeOK'
  BY <1>1 DEF IInv, TypeOK
<1>3. KpiBehind'
  BY <1>1, KpiBehindIs, KpiBehindNext DEF IInv
<1> QED BY <1>1, <1>2, <1>3, LogsStill DEF IInv, DecisionsReported, Counted

\* The steps of the report leave the KPI alone.
LEMMA KpiStill ==
    ASSUME IInv, UNCHANGED <<search_logs, kpi_daily_stats, kpi>>
    PROVE  KpiBehind'
BY KpiBehindIs, KpiBehindNext DEF IInv

LEMMA EvaluateKeeps ==
    ASSUME IInv, Evaluate
    PROVE  IInv'
<1> USE DEF Evaluate, serving, results
<1>1. /\ report'.pc = "insert" /\ report'.offline = OfflineMetrics(Joined)
      /\ report' = [pc |-> report'.pc, offline |-> report'.offline, weekly |-> report'.weekly]
  OBVIOUS
<1>2. report'.offline \in OfflineRows /\ Counted(report'.offline)
  BY <1>1, Typed, OfflineTyped, OfflineCounted
<1>3. TypeOK'
  BY <1>1, <1>2 DEF IInv, TypeOK
<1> QED BY <1>1, <1>2, <1>3, KpiStill, LogsStill DEF IInv, DecisionsReported, Counted

LEMMA InsertReportKeeps ==
    ASSUME IInv, InsertReport
    PROVE  IInv'
<1> USE DEF InsertReport, serving
<1>1. /\ report'.pc = "kpi" /\ report'.offline = report.offline
      /\ report' = [pc |-> report'.pc, offline |-> report'.offline, weekly |-> report'.weekly]
  BY Typed
<1>2. report.offline \in OfflineRows /\ Counted(report.offline)
  BY Typed
<1>3. /\ offline_eval_reports' \in Seq(OfflineRows)
      /\ report.offline \in Range(offline_eval_reports')
      /\ Range(offline_eval_reports) \subseteq Range(offline_eval_reports')
  <2>1. offline_eval_reports \in Seq(OfflineRows)
    BY Typed
  <2>2. /\ offline_eval_reports' \in Seq(OfflineRows)
        /\ Len(offline_eval_reports') = Len(offline_eval_reports) + 1
        /\ \A i \in 1 .. Len(offline_eval_reports) :
               offline_eval_reports'[i] = offline_eval_reports[i]
        /\ offline_eval_reports'[Len(offline_eval_reports) + 1] = report.offline
    BY <1>2, <2>1, AppendProperties
  <2> QED BY <2>1, <2>2 DEF Range
<1>4. TypeOK'
  BY <1>1, <1>2, <1>3 DEF IInv, TypeOK
<1>5. DecisionsReported'
  BY <1>3, LogsStill DEF IInv, DecisionsReported, Counted
<1> QED BY <1>1, <1>2, <1>3, <1>4, <1>5, KpiStill, LogsStill DEF IInv

LEMMA LoadWeeklyKpiKeeps ==
    ASSUME IInv, LoadWeeklyKpi
    PROVE  IInv'
<1> USE DEF LoadWeeklyKpi, serving, results
<1>1. /\ report'.pc = "decide" /\ report'.offline = report.offline /\ report.pc = "kpi"
      /\ report' = [pc |-> report'.pc, offline |-> report'.offline, weekly |-> report'.weekly]
  BY Typed
<1>2. TypeOK'
  BY <1>1 DEF IInv, TypeOK
<1>3. DecisionsReported'
  BY LogsStill DEF IInv, DecisionsReported, Counted
<1> QED BY <1>1, <1>2, <1>3, KpiStill, LogsStill DEF IInv

LEMMA SaveDecisionKeeps ==
    ASSUME IInv, SaveDecision
    PROVE  IInv'
<1> USE DEF SaveDecision, serving
<1> DEFINE D == [adopt_lgbm : BOOLEAN, offline : OfflineRows]
           decision == [adopt_lgbm |-> Adopts(report.offline, report.weekly),
                        offline |-> report.offline]
<1>1. report'.pc = "idle" /\ report' = [pc |-> report'.pc, offline |-> report'.offline,
                                         weekly |-> report'.weekly]
  BY DEF NoReport
<1>2. /\ report.offline \in OfflineRows /\ Counted(report.offline)
      /\ report.offline \in Range(offline_eval_reports)
  BY Typed DEF IInv
<1>3. decision \in D /\ decision.offline = report.offline
  <2>1. Adopts(report.offline, report.weekly) \in BOOLEAN
    BY DEF Adopts
  <2> QED BY <1>2, <2>1
<1> HIDE DEF D, decision
<1>4. /\ model_adoption_decisions' \in Seq(D)
      /\ \A i \in DOMAIN model_adoption_decisions' :
             \/ /\ i \in DOMAIN model_adoption_decisions
                /\ model_adoption_decisions'[i] = model_adoption_decisions[i]
             \/ model_adoption_decisions'[i] = decision
  <2>1. model_adoption_decisions \in Seq(D)
    BY Typed DEF D
  <2>2. model_adoption_decisions' = Append(model_adoption_decisions, decision)
    BY DEF decision
  <2> QED BY <1>3, <2>1, <2>2, AppendProperties
<1>5. TypeOK'
  <2>1. (model_adoption_decisions \in Seq([adopt_lgbm : BOOLEAN, offline : OfflineRows]))'
    BY <1>4 DEF D, OfflineRows
  <2> QED BY <1>1, <2>1 DEF IInv, TypeOK
<1>6. DecisionsReported'
  <2>1. \A i \in DOMAIN model_adoption_decisions' :
            /\ model_adoption_decisions'[i].offline \in Range(offline_eval_reports)
            /\ Counted(model_adoption_decisions'[i].offline)
    BY <1>2, <1>3, <1>4 DEF IInv, DecisionsReported, Counted
  <2>2. Joined' = Joined
    BY LogsStill
  <2> QED BY <2>1, <2>2 DEF DecisionsReported, Counted
<1> QED BY <1>1, <1>5, <1>6, KpiStill, LogsStill DEF IInv

LEMMA ReportEndKeeps ==
    ASSUME IInv, ReportEnd
    PROVE  IInv'
<1> USE DEF ReportEnd, serving, results
<1>1. report'.pc = "idle" /\ report' = [pc |-> report'.pc, offline |-> report'.offline,
                                         weekly |-> report'.weekly]
  BY DEF NoReport
<1>2. TypeOK'
  BY <1>1 DEF IInv, TypeOK
<1>3. DecisionsReported'
  BY LogsStill DEF IInv, DecisionsReported, Counted
<1> QED BY <1>1, <1>2, <1>3, KpiStill, LogsStill DEF IInv
-----------------------------------------------------------------------------

LEMMA StepInv == IInv /\ [Next]_vars => IInv'
<1> SUFFICES ASSUME IInv, [Next]_vars PROVE IInv'
  OBVIOUS
<1>1. TypeOK /\ LabelsWhole(search_logs)
  BY DEF IInv
<1>2. CASE Search
  BY <1>1, <1>2, SearchKeeps, ServingKeeps DEF Search
<1>3. ASSUME NEW i \in DOMAIN search_logs, Compare(i) PROVE IInv'
  BY <1>1, <1>3, CompareKeeps, ServingKeeps DEF Compare
<1>4. ASSUME NEW i \in DOMAIN search_logs, NEW p \in Properties, NEW a \in Actions,
             Feedback(i, p, a)
      PROVE  IInv'
  BY <1>1, <1>4, FeedbackKeeps, ServingKeeps DEF Feedback
<1>5. CASE NextDay
  BY <1>5, NextDayKeeps
<1>6. CASE KpiSelect
  BY <1>6, KpiSelectKeeps
<1>7. CASE KpiUpsert
  BY <1>7, KpiUpsertKeeps
<1>8. CASE KpiEnd
  BY <1>8, KpiEndKeeps
<1>9. CASE Evaluate
  BY <1>9, EvaluateKeeps
<1>10. CASE InsertReport
  BY <1>10, InsertReportKeeps
<1>11. CASE LoadWeeklyKpi
  BY <1>11, LoadWeeklyKpiKeeps
<1>12. CASE SaveDecision
  BY <1>12, SaveDecisionKeeps
<1>13. CASE ReportEnd
  BY <1>13, ReportEndKeeps
<1>14. CASE UNCHANGED vars
  <2> USE <1>14 DEF vars, serving, results
  <2>1. TypeOK'
    BY DEF IInv, TypeOK
  <2>2. DecisionsReported'
    BY LogsStill DEF IInv, DecisionsReported, Counted
  <2> QED BY <2>1, <2>2, KpiStill, LogsStill DEF IInv
<1> QED BY <1>2, <1>3, <1>4, <1>5, <1>6, <1>7, <1>8, <1>9, <1>10, <1>11, <1>12, <1>13,
           <1>14 DEF Next

\* Every state of the system is as IInv says.
THEOREM Invariance == Spec => []IInv
BY InitInv, StepInv, PTL DEF Spec

\* The rows that the jobs write, and what they hold in between, have the values
\* that the columns are for: metrics are in 0 .. 1, and the rates of a KPI row
\* are those of its counts.
THEOREM Types == Spec => []TypeOK
<1>1. IInv => TypeOK
  BY DEF IInv
<1> QED BY <1>1, Invariance, PTL

\* The KPI of a day lags behind the logs: it never shows impressions or labels
\* that they do not hold, however often its job runs, for whichever day, and
\* whatever is searched and labelled meanwhile.
THEOREM KpiLags == Spec => []KpiBehind
<1>1. IInv => KpiBehind
  BY DEF IInv
<1> QED BY <1>1, Invariance, PTL

\* Every adoption decision is about the metrics of a stored report, of no more
\* queries than have labels.
THEOREM Reported == Spec => []DecisionsReported
<1>1. IInv => DecisionsReported
  BY DEF IInv
<1> QED BY <1>1, Invariance, PTL

\* Ranks are positions, or 0 for a property that is not shown.
LEMMA RankNat ==
    ASSUME NEW ids \in Lists, NEW p, NEW k \in Nat
    PROVE  FindRank(ids, p, k) \in Nat
BY ListPlaces, RankFound

\* A decision on the logs as they are, in any state with logs of the right type.
LEMMA GainNeeded ==
    ASSUME MinNdcgGain > 0 \/ MinMapGain > 0, Joined \in Seq(JoinedRows)
    PROVE  AdoptionNeedsAGain
<1> DEFINE offline == OfflineMetrics(Joined)
           place(i) == FindRank(Joined[i].reranked_ids, Joined[i].actioned_id, RecallCut)
           before(i) == FindRank(Joined[i].meili_ids, Joined[i].actioned_id, RecallCut)
<1> SUFFICES ASSUME \A i \in DOMAIN Joined :
                        ~ (/\ Evaluated(Joined[i])
                           /\ place(i) # 0
                           /\ before(i) = 0 \/ place(i) < before(i)),
                    offline.lgbm["ndcg10"] - offline.meili["ndcg10"] >= MinNdcgGain,
                    offline.lgbm["map"] - offline.meili["map"] >= MinMapGain
             PROVE  FALSE
  BY DEF AdoptionNeedsAGain, Adopts
<1>1. ASSUME NEW i \in DOMAIN Joined, Evaluated(Joined[i])
      PROVE  Behind(place(i), before(i))
  <2>1. Joined[i].reranked_ids \in Lists /\ Joined[i].meili_ids \in Lists
    <3>1. Joined[i] \in JoinedRows
      BY <1>1
    <3>2. \A row \in JoinedRows : row.reranked_ids \in Lists /\ row.meili_ids \in Lists
      BY DEF JoinedRows
    <3> QED BY <3>1, <3>2
  <2>2. place(i) \in Nat /\ before(i) \in Nat
    BY <2>1, RankNat, MetricConstants
  <2>3. ~ (place(i) # 0 /\ (before(i) = 0 \/ place(i) < before(i)))
    BY <1>1
  <2> HIDE DEF place, before
  <2> QED BY <2>2, <2>3 DEF Behind
<1>2. ASSUME NEW m \in MetricNames PROVE offline.lgbm[m] <= offline.meili[m]
  BY <1>1, OfflineOrder
<1>3. /\ offline.lgbm["ndcg10"] <= offline.meili["ndcg10"]
      /\ offline.lgbm["map"] <= offline.meili["map"]
  BY <1>2 DEF MetricNames
<1>4. ASSUME NEW m \in MetricNames
      PROVE  offline.lgbm[m] \in Int /\ offline.meili[m] \in Int
  <2>1. offline \in OfflineRows
    BY OfflineTyped
  <2> HIDE DEF offline
  <2> QED BY <2>1, MillionNat DEF OfflineRows
<1>5. /\ offline.lgbm["ndcg10"] \in Int /\ offline.meili["ndcg10"] \in Int
      /\ offline.lgbm["map"] \in Int /\ offline.meili["map"] \in Int
  BY <1>4 DEF MetricNames
<1> HIDE DEF offline
<1> QED BY <1>3, <1>5, MetricConstants

\* With a positive threshold for either metric, as the defaults are, a reranking
\* that put no property a user chose before the place Meilisearch gave it is
\* never adopted: not with any rounding, cut-off or number of logs.
THEOREM GainNeededAlways ==
    ASSUME MinNdcgGain > 0 \/ MinMapGain > 0
    PROVE  Spec => []AdoptionNeedsAGain
<1>1. IInv => AdoptionNeedsAGain
  BY GainNeeded, Typed
<1> QED BY <1>1, Invariance, PTL
=============================================================================
