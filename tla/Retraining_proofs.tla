-------------------------- MODULE Retraining_proofs --------------------------
(***************************************************************************)
(* What the training file and the model hold, for any properties, logs and *)
(* limit.  The lemmas before it are about what the rows and their groups   *)
(* are computed with: sums (as in WeeklyEvaluation_proofs), the newest     *)
(* rows of a table, concatenation, and the loop that counts group sizes.   *)
(***************************************************************************)
EXTENDS Retraining, FiniteSetTheorems, SequenceTheorems, TLAPS

\* A set of naturals that is not empty has a least element.
LEMMA LeastNat ==
    ASSUME NEW T \in SUBSET Nat, T # {}
    PROVE  \E x \in T : \A y \in T : x <= y
<1>1. IsWellFoundedOn(OpToRel(<, Nat), Nat)
  BY NatLessThanWellFounded
<1>2. PICK x \in T : \A y \in T : ~(<<y, x>> \in OpToRel(<, Nat))
  BY <1>1, WFMin
<1>3. \A y \in T : ~(y < x)
  BY <1>2 DEF OpToRel
<1> QED BY <1>3

\* Induction on the naturals, over a set instead of an operator: n is in S for
\* every n if 0 is and S is closed under the successor.
LEMMA NatSetInduction ==
    ASSUME NEW S, 0 \in S, \A n \in Nat : n \in S => n + 1 \in S
    PROVE  \A n \in Nat : n \in S
<1> DEFINE T == Nat \ S
<1>1. SUFFICES ASSUME T # {} PROVE FALSE
  OBVIOUS
<1>2. PICK x \in T : \A y \in T : x <= y
  BY <1>1, LeastNat
<1>3. x - 1 \in Nat /\ x - 1 \notin T /\ x = (x - 1) + 1
  BY <1>2
<1> QED BY <1>3

\* The recursion of a sum.
Adds(f, S, g) ==
    g = [s \in SUBSET S |-> IF s = {} THEN 0
                            ELSE LET x == CHOOSE x \in s : TRUE IN f[x] + g[s \ {x}]]

\* A sum is the value of its recursion at the whole set,
LEMMA SumOnIs ==
    ASSUME NEW f, NEW S
    PROVE  SumFunctionOnSet(f, S) = (CHOOSE g : Adds(f, S, g))[S]
BY Zenon DEF SumFunctionOnSet, FoldFunctionOnSet, MapThenFoldSet, Adds

\* which has a solution over the subsets of a finite set,
LEMMA SumDefined ==
    ASSUME NEW f, NEW S, IsFiniteSet(S)
    PROVE  \E g : Adds(f, S, g)
<1> DEFINE c(u) == CHOOSE x \in u : TRUE
           Small(n) == {u \in SUBSET S : Cardinality(u) <= n}
           Eq(g, n) == g = [u \in Small(n) |-> IF u = {} THEN 0 ELSE f[c(u)] + g[u \ {c(u)}]]
           N == {n \in Nat : \E g : Eq(g, n)}
<1>1. \A u \in SUBSET S : IsFiniteSet(u) /\ Cardinality(u) \in Nat
  BY FS_Subset, FS_CardinalityType
<1>2. \A u \in SUBSET S : u # {} => c(u) \in u /\ Cardinality(u \ {c(u)}) = Cardinality(u) - 1
  BY <1>1, FS_RemoveElement
<1>3. 0 \in N
  <2>1. \A u \in Small(0) : u = {}
    BY <1>1, FS_EmptySet
  <2> DEFINE g == [u \in Small(0) |-> 0]
  <2>2. Eq(g, 0)
    BY <2>1
  <2> QED BY <2>2
<1>4. ASSUME NEW n \in Nat, n \in N PROVE n + 1 \in N
  <2>1. PICK g : Eq(g, n)
    BY <1>4
  <2> DEFINE h == [u \in Small(n + 1) |-> IF u = {} THEN 0 ELSE f[c(u)] + g[u \ {c(u)}]]
  <2>2. ASSUME NEW u \in Small(n + 1), u # {} PROVE h[u \ {c(u)}] = g[u \ {c(u)}]
    <3> DEFINE v == u \ {c(u)}
    <3>1. v \in Small(n) /\ v \in Small(n + 1)
      <4> HIDE DEF c
      <4> QED BY <1>1, <1>2, <2>2
    <3>2. h[v] = IF v = {} THEN 0 ELSE f[c(v)] + g[v \ {c(v)}]
      <4> HIDE DEF c, v
      <4> QED BY <3>1
    <3>3. g[v] = IF v = {} THEN 0 ELSE f[c(v)] + g[v \ {c(v)}]
      <4> HIDE DEF c, v, Small
      <4> QED BY <2>1, <3>1
    <3> QED BY <3>2, <3>3
  <2>3. Eq(h, n + 1)
    <3> HIDE DEF c, Small
    <3> QED BY <2>2
  <2>4. \E k : Eq(k, n + 1)
    <3> HIDE DEF Eq, h
    <3> QED BY <2>3
  <2> HIDE DEF Eq
  <2> QED BY <2>4
<1>5. \A n \in Nat : n \in N
  <2> HIDE DEF N
  <2> QED BY <1>3, <1>4, NatSetInduction
<1>6. Cardinality(S) \in N
  BY <1>1, <1>5
<1>7. Small(Cardinality(S)) = SUBSET S
  BY FS_Subset
<1>8. PICK g : Eq(g, Cardinality(S))
  BY <1>6
<1>9. Adds(f, S, g)
  BY <1>7, <1>8 DEF Adds
<1> QED BY <1>9

\* and only one.
LEMMA SumUnique ==
    ASSUME NEW f, NEW S, IsFiniteSet(S), NEW T \in SUBSET S,
           NEW g, Adds(f, S, g), NEW h, Adds(f, T, h)
    PROVE  g[T] = h[T]
<1> DEFINE c(u) == CHOOSE x \in u : TRUE
           N == {n \in Nat : \A u \in SUBSET T : Cardinality(u) = n => g[u] = h[u]}
<1>1. \A u \in SUBSET T : IsFiniteSet(u) /\ Cardinality(u) \in Nat /\ u \in SUBSET S
  BY FS_Subset, FS_CardinalityType
<1>2. ASSUME NEW u \in SUBSET T
      PROVE  /\ g[u] = IF u = {} THEN 0 ELSE f[c(u)] + g[u \ {c(u)}]
             /\ h[u] = IF u = {} THEN 0 ELSE f[c(u)] + h[u \ {c(u)}]
  BY <1>1 DEF Adds
<1>3. 0 \in N
  <2>1. \A u \in SUBSET T : Cardinality(u) = 0 => u = {}
    BY <1>1, FS_EmptySet
  <2> HIDE DEF c
  <2> QED BY <1>2, <2>1
<1>4. ASSUME NEW n \in Nat, n \in N PROVE n + 1 \in N
  <2>1. SUFFICES ASSUME NEW u \in SUBSET T, Cardinality(u) = n + 1 PROVE g[u] = h[u]
    OBVIOUS
  <2>2. u # {}
    BY <2>1, FS_EmptySet
  <2>3. c(u) \in u /\ Cardinality(u \ {c(u)}) = Cardinality(u) - 1
    BY <1>1, <2>2, FS_RemoveElement
  <2>4. g[u \ {c(u)}] = h[u \ {c(u)}]
    <3> HIDE DEF c
    <3> QED BY <1>4, <2>1, <2>3
  <2> HIDE DEF c
  <2> QED BY <1>2, <2>2, <2>4
<1>5. \A n \in Nat : n \in N
  <2> HIDE DEF N
  <2> QED BY <1>3, <1>4, NatSetInduction
<1> QED BY <1>1, <1>5

\* Sums over a finite set follow the recursion.
LEMMA SumStep ==
    ASSUME NEW f, NEW S, IsFiniteSet(S)
    PROVE  SumFunctionOnSet(f, S) =
             IF S = {} THEN 0
             ELSE LET x == CHOOSE x \in S : TRUE IN f[x] + SumFunctionOnSet(f, S \ {x})
<1> DEFINE x == CHOOSE x \in S : TRUE
           T == S \ {x}
<1>1. IsFiniteSet(T) /\ T \in SUBSET S
  BY FS_RemoveElement
<1>2. PICK g : Adds(f, S, g) /\ SumFunctionOnSet(f, S) = g[S]
  BY SumDefined, SumOnIs
<1>3. PICK h : Adds(f, T, h) /\ SumFunctionOnSet(f, T) = h[T]
  <2> HIDE DEF T
  <2> QED BY <1>1, SumDefined, SumOnIs
<1>4. g[T] = h[T]
  <2> HIDE DEF T
  <2> QED BY <1>1, <1>2, <1>3, SumUnique
<1>5. g[S] = IF S = {} THEN 0 ELSE f[x] + g[T]
  BY <1>2 DEF Adds
<1> HIDE DEF x
<1>6. SumFunctionOnSet(f, S) = IF S = {} THEN 0 ELSE f[x] + SumFunctionOnSet(f, T)
  BY <1>2, <1>3, <1>4, <1>5
<1> QED BY <1>6 DEF x

\* A sum of integers is one, and takes its elements in any order.
LEMMA SumRemove ==
    ASSUME NEW f, NEW S, IsFiniteSet(S), \A x \in S : f[x] \in Int
    PROVE  /\ SumFunctionOnSet(f, {}) = 0
           /\ SumFunctionOnSet(f, S) \in Int
           /\ \A x \in S : SumFunctionOnSet(f, S) = f[x] + SumFunctionOnSet(f, S \ {x})
<1> DEFINE s(u) == SumFunctionOnSet(f, u)
           c(u) == CHOOSE x \in u : TRUE
           Fine(u) == s(u) \in Int /\ \A x \in u : s(u) = f[x] + s(u \ {x})
           N == {n \in Nat : \A u \in SUBSET S : Cardinality(u) <= n => Fine(u)}
<1>1. \A u \in SUBSET S : IsFiniteSet(u) /\ Cardinality(u) \in Nat
  BY FS_Subset, FS_CardinalityType
<1>2. s({}) = 0
  BY SumStep, FS_EmptySet
<1>3. \A u \in SUBSET S : \A x \in u : Cardinality(u \ {x}) = Cardinality(u) - 1
  BY <1>1, FS_RemoveElement
<1>4. ASSUME NEW u \in SUBSET S, u # {}
      PROVE  c(u) \in u /\ s(u) = f[c(u)] + s(u \ {c(u)})
  BY <1>1, <1>4, SumStep
<1> HIDE DEF c, s
<1>5. 0 \in N
  <2>1. \A u \in SUBSET S : Cardinality(u) <= 0 => u = {}
    BY <1>1, FS_EmptySet
  <2>2. Fine({})
    BY <1>2
  <2> HIDE DEF Fine
  <2> QED BY <2>1, <2>2
<1>6. ASSUME NEW n \in Nat, n \in N PROVE n + 1 \in N
  <2>1. SUFFICES ASSUME NEW u \in SUBSET S, Cardinality(u) = n + 1 PROVE Fine(u)
    BY <1>1, <1>6
  <2>2. \A v \in SUBSET S : Cardinality(v) <= n => Fine(v)
    BY <1>6
  <2>3. u # {}
    BY <2>1, FS_EmptySet
  <2>4. \A x \in u : Fine(u \ {x})
    <3> HIDE DEF Fine
    <3>1. \A x \in u : u \ {x} \in SUBSET S /\ Cardinality(u \ {x}) = n
      BY <1>3, <2>1
    <3> QED BY <2>2, <3>1
  <2>5. c(u) \in u /\ f[c(u)] \in Int /\ s(u) = f[c(u)] + s(u \ {c(u)})
    BY <1>4, <2>3
  <2>6. s(u) \in Int
    BY <2>4, <2>5
  <2>7. ASSUME NEW x \in u, x # c(u) PROVE s(u) = f[x] + s(u \ {x})
    <3> DEFINE v == (u \ {x}) \ {c(u)}
    <3>1. v = (u \ {c(u)}) \ {x}
      OBVIOUS
    <3>2. s(u \ {c(u)}) = f[x] + s(v)
      BY <2>4, <2>5, <2>7, <3>1
    <3>3. s(u \ {x}) = f[c(u)] + s(v) /\ s(u \ {x}) \in Int
      BY <2>4, <2>5, <2>7
    <3>4. f[x] \in Int /\ s(u \ {c(u)}) \in Int
      BY <2>4, <2>5
    <3>5. s(v) \in Int
      <4>1. v \in SUBSET S /\ Cardinality(v) <= n
        BY <1>3, <1>1, <2>1, <2>5, <2>7
      <4> QED BY <2>2, <4>1
    <3> QED BY <2>5, <3>2, <3>3, <3>4, <3>5
  <2> QED BY <2>5, <2>6, <2>7
<1>7. \A n \in Nat : n \in N
  <2> HIDE DEF N
  <2> QED BY <1>5, <1>6, NatSetInduction
<1>8. Fine(S)
  <2> HIDE DEF Fine
  <2> QED BY <1>1, <1>7
<1> QED BY <1>2, <1>8 DEF s

LEMMA SumAdd ==
    ASSUME NEW f, NEW S, IsFiniteSet(S), NEW x, x \notin S, f[x] \in Int, \A y \in S : f[y] \in Int
    PROVE  SumFunctionOnSet(f, S \cup {x}) = f[x] + SumFunctionOnSet(f, S)
<1> DEFINE T == S \cup {x}
<1>1. IsFiniteSet(T) /\ x \in T /\ T \ {x} = S /\ \A y \in T : f[y] \in Int
  BY FS_AddElement
<1> HIDE DEF T
<1>2. \A y \in T : SumFunctionOnSet(f, T) = f[y] + SumFunctionOnSet(f, T \ {y})
  BY <1>1, SumRemove
<1> QED BY <1>1, <1>2 DEF T

\* The newest n rows of a finite table are n at most.
LEMMA NewestAtMost ==
    ASSUME NEW ids \in SUBSET Nat, IsFiniteSet(ids), NEW n \in Nat
    PROVE  /\ Newest(ids, n) \subseteq ids /\ IsFiniteSet(Newest(ids, n))
           /\ Cardinality(Newest(ids, n)) <= n
<1> DEFINE later(i) == {j \in ids : j > i}
           N == Newest(ids, n)
<1>1. N = {i \in ids : Cardinality(later(i)) < n}
  BY DEF Newest
<1>2. IsFiniteSet(N) /\ Cardinality(N) \in Nat
  BY <1>1, FS_Subset, FS_CardinalityType
<1>3. CASE N = {}
  <2>1. Cardinality(N) = 0 /\ N \subseteq ids
    BY <1>3, FS_EmptySet
  <2> HIDE DEF N
  <2> QED BY <1>2, <2>1 DEF N
<1>4. CASE N # {}
  <2>1. PICK m \in N : \A i \in N : m <= i
    BY <1>1, <1>4, LeastNat
  <2>2. \A i \in N \ {m} : i \in ids /\ i > m
    <3>1. N \subseteq ids /\ N \subseteq Nat
      BY <1>1
    <3> HIDE DEF N
    <3> QED BY <2>1, <3>1
  <2>3. /\ Cardinality(N \ {m}) <= Cardinality(later(m))
        /\ Cardinality(later(m)) \in Nat /\ Cardinality(later(m)) < n
    <3>1. N \ {m} \in SUBSET later(m) /\ m \in ids
      BY <1>1, <2>2
    <3>2. IsFiniteSet(later(m))
      BY FS_Subset
    <3> QED BY <1>1, <2>1, <3>1, <3>2, FS_Subset, FS_CardinalityType
  <2>4. Cardinality(N \ {m}) = Cardinality(N) - 1
    BY <1>2, <2>1, FS_RemoveElement
  <2>5. N \subseteq ids
    BY <1>1
  <2> HIDE DEF N, later
  <2>6. Cardinality(N) <= n
    BY <1>2, <2>3, <2>4
  <2> QED BY <1>2, <2>5, <2>6 DEF N
<1> QED BY <1>3, <1>4

\* A set is as large as another that a function maps it into without a clash.
LEMMA MapsInto ==
    ASSUME NEW S, NEW T, IsFiniteSet(T), NEW f \in [S -> T],
           \A x, y \in S : f[x] = f[y] => x = y
    PROVE  /\ IsFiniteSet(S) /\ Cardinality(S) \in Nat /\ Cardinality(T) \in Nat
           /\ Cardinality(S) <= Cardinality(T)
<1>1. f \in Injection(S, T)
  BY DEF Injection, IsInjective
<1> QED BY <1>1, FS_Injection, FS_CardinalityType
-----------------------------------------------------------------------------
\* The recursion of a concatenation.
Joins(seqs, n, f) ==
    f = [i \in 1 .. n |-> IF i = 1 THEN seqs[i] ELSE f[i - 1] \o seqs[i]]

LEMMA JoinsIs ==
    ASSUME NEW seqs, Len(seqs) # 0
    PROVE  FlattenSeq(seqs) = (CHOOSE f : Joins(seqs, Len(seqs), f))[Len(seqs)]
BY DEF FlattenSeq, Joins

LEMMA JoinsDefined ==
    ASSUME NEW seqs, NEW m \in Nat
    PROVE  \E f : Joins(seqs, m, f)
<1> DEFINE N == {n \in Nat : \E f : Joins(seqs, n, f)}
<1>1. 0 \in N
  <2>1. 1 .. 0 = {}
    OBVIOUS
  <2>2. Joins(seqs, 0, [i \in {} |-> <<>>])
    BY <2>1 DEF Joins
  <2> QED BY <2>2
<1>2. ASSUME NEW n \in Nat, n \in N PROVE n + 1 \in N
  <2>1. PICK f : Joins(seqs, n, f)
    BY <1>2
  <2> DEFINE g == [i \in 1 .. n + 1 |-> IF i = 1 THEN seqs[i] ELSE f[i - 1] \o seqs[i]]
  <2>2. ASSUME NEW i \in 1 .. n PROVE g[i] = f[i]
    <3>1. i \in 1 .. n + 1
      OBVIOUS
    <3>2. g[i] = IF i = 1 THEN seqs[i] ELSE f[i - 1] \o seqs[i]
      BY <3>1
    <3>3. f[i] = IF i = 1 THEN seqs[i] ELSE f[i - 1] \o seqs[i]
      BY <2>1, Zenon DEF Joins
    <3> QED BY <3>2, <3>3
  <2>3. ASSUME NEW i \in 1 .. n + 1, i # 1 PROVE g[i - 1] = f[i - 1]
    <3>1. i - 1 \in 1 .. n
      BY <2>3
    <3> HIDE DEF g
    <3> QED BY <2>2, <3>1
  <2>4. Joins(seqs, n + 1, g)
    <3>1. \A i \in 1 .. n + 1 : g[i] = IF i = 1 THEN seqs[i] ELSE f[i - 1] \o seqs[i]
      OBVIOUS
    <3>2. g = [i \in 1 .. n + 1 |-> g[i]]
      OBVIOUS
    <3> HIDE DEF g
    <3>3. \A i \in 1 .. n + 1 : g[i] = IF i = 1 THEN seqs[i] ELSE g[i - 1] \o seqs[i]
      BY <2>3, <3>1
    <3> QED BY <3>2, <3>3 DEF Joins
  <2>5. \E k : Joins(seqs, n + 1, k)
    <3> HIDE DEF g
    <3> QED BY <2>4
  <2> QED BY <2>5
<1>3. \A n \in Nat : n \in N
  <2> HIDE DEF N
  <2> QED BY <1>1, <1>2, NatSetInduction
<1> QED BY <1>3

\* What holds of nothing, and is kept by each sequence that is appended, holds
\* of the concatenation: G has pairs of a number and what so many give.
LEMMA Flattened ==
    ASSUME NEW X, NEW seqs \in Seq(Seq(X)), NEW G, <<0, <<>>>> \in G,
           \A i \in 1 .. Len(seqs), s \in Seq(X) : <<i - 1, s>> \in G => <<i, s \o seqs[i]>> \in G
    PROVE  FlattenSeq(seqs) \in Seq(X) /\ <<Len(seqs), FlattenSeq(seqs)>> \in G
<1>1. CASE Len(seqs) = 0
  <2>1. seqs = <<>> /\ FlattenSeq(seqs) = seqs
    BY <1>1, EmptySeq DEF FlattenSeq
  <2>2. FlattenSeq(seqs) = <<>> /\ <<>> \in Seq(X)
    BY <2>1, EmptySeq
  <2> QED BY <1>1, <2>2
<1>2. CASE Len(seqs) # 0
  <2> DEFINE m == Len(seqs)
  <2>1. m \in Nat /\ m >= 1
    BY <1>2
  <2>2. PICK f : Joins(seqs, m, f) /\ FlattenSeq(seqs) = f[m]
    BY <1>2, <2>1, JoinsDefined, JoinsIs
  <2>3. \A i \in 1 .. m : f[i] = IF i = 1 THEN seqs[i] ELSE f[i - 1] \o seqs[i]
    BY <2>2 DEF Joins
  <2>4. \A i \in 1 .. m : seqs[i] \in Seq(X)
    OBVIOUS
  <2> DEFINE N == {n \in Nat : n + 1 <= m => f[n + 1] \in Seq(X) /\ <<n + 1, f[n + 1]>> \in G}
  <2>5. 0 \in N
    <3>1. 1 \in 1 .. m /\ f[1] = seqs[1] /\ seqs[1] \in Seq(X)
      BY <2>1, <2>3, <2>4
    <3>2. <<>> \in Seq(X) /\ <<>> \o seqs[1] = seqs[1]
      BY <3>1, ConcatEmptySeq
    <3>3. <<1, <<>> \o seqs[1]>> \in G
      <4>1. <<1 - 1, <<>>>> \in G
        OBVIOUS
      <4> QED BY <3>1, <3>2, <4>1
    <3>4. 0 + 1 = 1 /\ f[1] \in Seq(X) /\ <<1, f[1]>> \in G
      BY <3>1, <3>2, <3>3
    <3> QED BY <3>4
  <2>6. ASSUME NEW n \in Nat, n \in N PROVE n + 1 \in N
    <3> SUFFICES ASSUME n + 2 <= m
                 PROVE  f[n + 2] \in Seq(X) /\ <<n + 2, f[n + 2]>> \in G
      BY <2>1
    <3>1. f[n + 1] \in Seq(X) /\ <<n + 1, f[n + 1]>> \in G
      BY <2>1, <2>6
    <3>2. n + 2 \in 1 .. m /\ n + 2 # 1 /\ (n + 2) - 1 = n + 1
      BY <2>1
    <3>3. f[n + 2] = f[n + 1] \o seqs[n + 2] /\ seqs[n + 2] \in Seq(X)
      BY <2>3, <2>4, <3>2
    <3>4. <<(n + 2) - 1, f[n + 1]>> \in G
      BY <3>1, <3>2
    <3>5. <<n + 2, f[n + 1] \o seqs[n + 2]>> \in G
      BY <3>1, <3>2, <3>4
    <3> QED BY <3>1, <3>3, <3>5, ConcatProperties
  <2>7. \A n \in Nat : n \in N
    <3> HIDE DEF N
    <3> QED BY <2>5, <2>6, NatSetInduction
  <2>8. m - 1 \in Nat /\ (m - 1) + 1 = m
    BY <2>1
  <2>9. f[m] \in Seq(X) /\ <<m, f[m]>> \in G
    <3>1. m - 1 \in N
      BY <2>7, <2>8
    <3> HIDE DEF m
    <3> QED BY <2>1, <2>8, <3>1
  <2> QED BY <2>2, <2>9
<1> QED BY <1>1, <1>2
-----------------------------------------------------------------------------
\* The rows of search_logs that Search and Feedback write.
Logged == [result_ids : Lists, actioned_id : Properties \cup {None},
           action_type : Actions \cup {None}]

\* The label columns are filled together.
LabelsWhole(logs) ==
    \A i \in DOMAIN logs : logs[i].action_type # None <=> logs[i].actioned_id # None

LEMMA ListsAre ==
    ASSUME NEW ids \in Lists
    PROVE  /\ ids \in Seq(Properties) /\ DOMAIN ids = 1 .. Len(ids)
           /\ \A m, n \in DOMAIN ids : ids[m] = ids[n] => m = n
<1>1. PICK n \in Nat : ids \in Injection(1 .. n, Properties)
  BY MetricConstants, FS_CardinalityType DEF Lists
<1>2. ids \in [1 .. n -> Properties] /\ IsInjective(ids)
  BY <1>1 DEF Injection
<1> QED BY <1>2 DEF IsInjective

\* The rows of one log name its results, each once, and only that of its action
\* has a label.
OfLog(rows, log, id) ==
    /\ rows \in Seq(Rows)
    /\ \A j \in DOMAIN rows :
           /\ rows[j].search_log_id = id
           /\ rows[j].property_id \in Range(log.result_ids)
           /\ rows[j].label > 0 => rows[j].property_id = log.actioned_id
    /\ \A j, k \in DOMAIN rows : rows[j].property_id = rows[k].property_id => j = k

LEMMA LabelIs ==
    ASSUME NEW log \in Logged, log.actioned_id # None => log.action_type # None,
           NEW p \in Properties
    PROVE  Label(log, p) \in 0 .. 3 /\ (Label(log, p) > 0 => p = log.actioned_id)
<1>1. CASE log.actioned_id = p
  <2>1. log.action_type \in {"click", "favorite", "inquiry"}
    BY <1>1, MetricConstants DEF Logged
  <2>2. Grade[log.action_type] \in 1 .. 3
    BY <2>1 DEF Grade
  <2> QED BY <1>1, <2>2 DEF Label
<1>2. CASE log.actioned_id # p
  BY <1>2 DEF Label
<1> QED BY <1>1, <1>2

LEMMA RowsOfLogAre ==
    ASSUME NEW log \in Logged, log.actioned_id # None => log.action_type # None,
           NEW id \in 1 .. MaxLogs, NEW features
    PROVE  OfLog(RowsOfLog(log, id, features), log, id)
<1> DEFINE ids == log.result_ids
           row(n) == [search_log_id |-> id, property_id |-> ids[n], label |-> Label(log, ids[n])]
           seqs == [n \in DOMAIN ids |-> IF ids[n] \in features THEN <<row(n)>> ELSE <<>>]
           Places(n, s) ==
               /\ \A j \in DOMAIN s :
                      /\ s[j].search_log_id = id
                      /\ \E k \in 1 .. n : s[j].property_id = ids[k]
                      /\ s[j].label > 0 => s[j].property_id = log.actioned_id
               /\ \A j, k \in DOMAIN s : s[j].property_id = s[k].property_id => j = k
           G == {w \in (0 .. Len(ids)) \X Seq(Rows) : Places(w[1], w[2])}
<1>1. /\ ids \in Seq(Properties) /\ DOMAIN ids = 1 .. Len(ids) /\ Len(ids) \in Nat
      /\ \A m, n \in DOMAIN ids : ids[m] = ids[n] => m = n
  BY ListsAre DEF Logged
<1>2. RowsOfLog(log, id, features) = FlattenSeq(seqs)
  BY DEF RowsOfLog
<1>3. ASSUME NEW n \in 1 .. Len(ids)
      PROVE  /\ row(n) \in Rows /\ row(n).search_log_id = id /\ row(n).property_id = ids[n]
             /\ row(n).label > 0 => row(n).property_id = log.actioned_id
  <2>1. ids[n] \in Properties
    BY <1>1
  <2>2. Label(log, ids[n]) \in 0 .. 3 /\ (Label(log, ids[n]) > 0 => ids[n] = log.actioned_id)
    BY <2>1, LabelIs
  <2> QED BY <2>1, <2>2 DEF Rows
<1> HIDE DEF row
<1>4. /\ \A n \in 1 .. Len(ids) :
             seqs[n] = (IF ids[n] \in features THEN <<row(n)>> ELSE <<>>) /\ seqs[n] \in Seq(Rows)
      /\ seqs \in Seq(Seq(Rows)) /\ Len(seqs) = Len(ids)
  <2>1. \A n \in 1 .. Len(ids) :
            seqs[n] = (IF ids[n] \in features THEN <<row(n)>> ELSE <<>>) /\ seqs[n] \in Seq(Rows)
    BY <1>1, <1>3
  <2>2. DOMAIN seqs = 1 .. Len(ids) /\ seqs = [n \in 1 .. Len(ids) |-> seqs[n]]
    BY <1>1
  <2> HIDE DEF seqs, ids
  <2> QED BY <1>1, <2>1, <2>2
<1> HIDE DEF seqs
<1>5. <<0, <<>>>> \in G
  <2>1. <<>> \in Seq(Rows) /\ 0 \in 0 .. Len(ids)
    BY <1>1
  <2>2. Places(0, <<>>)
    OBVIOUS
  <2> HIDE DEF Places
  <2> QED BY <2>1, <2>2
<1>6. ASSUME NEW n \in 1 .. Len(seqs), NEW s \in Seq(Rows), <<n - 1, s>> \in G
      PROVE  <<n, s \o seqs[n]>> \in G
  <2>1. Places(n - 1, s)
    BY <1>6
  <2>2. n \in 1 .. Len(ids) /\ n \in 0 .. Len(ids) /\ n \in DOMAIN ids
    BY <1>1, <1>4
  <2>3. CASE seqs[n] = <<>>
    <3>1. s \o seqs[n] = s
      BY <2>3, ConcatEmptySeq
    <3>2. Places(n, s)
      BY <2>1, <2>2
    <3> HIDE DEF Places
    <3> QED BY <2>2, <3>1, <3>2
  <2>4. CASE seqs[n] = <<row(n)>>
    <3> DEFINE t == s \o <<row(n)>>
    <3>1. /\ t \in Seq(Rows) /\ Len(t) = Len(s) + 1 /\ t[Len(s) + 1] = row(n)
          /\ \A j \in DOMAIN s : t[j] = s[j]
          /\ \A j \in DOMAIN t : j \in DOMAIN s \/ j = Len(s) + 1
      BY <1>3, <2>2
    <3>2. \A j \in DOMAIN s : s[j].property_id # ids[n]
      <4> SUFFICES ASSUME NEW j \in DOMAIN s PROVE s[j].property_id # ids[n]
        OBVIOUS
      <4>1. PICK k \in 1 .. n - 1 : s[j].property_id = ids[k]
        BY <2>1
      <4>2. k \in DOMAIN ids /\ k # n
        BY <1>1, <2>2
      <4> QED BY <1>1, <2>2, <4>1, <4>2
    <3> HIDE DEF t
    <3>3. Places(n, t)
      <4>1. ASSUME NEW j \in DOMAIN t
            PROVE  /\ t[j].search_log_id = id
                   /\ \E k \in 1 .. n : t[j].property_id = ids[k]
                   /\ t[j].label > 0 => t[j].property_id = log.actioned_id
        <5>1. CASE j \in DOMAIN s
          <6>1. t[j] = s[j] /\ 1 .. n - 1 \subseteq 1 .. n
            BY <3>1, <5>1, <2>2
          <6> QED BY <2>1, <5>1, <6>1
        <5>2. CASE j = Len(s) + 1
          BY <1>3, <2>2, <3>1, <5>2
        <5> QED BY <3>1, <5>1, <5>2
      <4>2. ASSUME NEW j \in DOMAIN t, NEW k \in DOMAIN t, t[j].property_id = t[k].property_id
            PROVE  j = k
        BY <1>3, <2>1, <2>2, <3>1, <3>2, <4>2
      <4> QED BY <4>1, <4>2
    <3>4. t = s \o seqs[n]
      BY <2>4 DEF t
    <3> HIDE DEF Places
    <3> QED BY <2>2, <3>1, <3>3, <3>4
  <2> QED BY <1>4, <2>2, <2>3, <2>4
<1>7. FlattenSeq(seqs) \in Seq(Rows) /\ <<Len(seqs), FlattenSeq(seqs)>> \in G
  <2> HIDE DEF G
  <2> QED BY <1>4, <1>5, <1>6, Flattened
<1>8. Places(Len(ids), FlattenSeq(seqs))
  BY <1>4, <1>7
<1>9. \A k \in 1 .. Len(ids) : ids[k] \in Range(ids)
  BY <1>1 DEF Range
<1> QED BY <1>2, <1>7, <1>8, <1>9 DEF OfLog

\* The searches that rows come from.
Searches(rows) == {rows[j].search_log_id : j \in DOMAIN rows}

\* Rows in the order of their searches, which are as many at most as the query
\* takes; each row for a result, and one at most of a search with a label, which
\* the search then has.
Fine(rows, logs) ==
    /\ rows \in Seq(Rows)
    /\ \A j \in DOMAIN rows :
           LET id == rows[j].search_log_id IN
           /\ id \in DOMAIN logs
           /\ rows[j].property_id \in Range(logs[id].result_ids)
           /\ rows[j].label > 0 => logs[id].actioned_id # None
    /\ \A j, k \in DOMAIN rows : j <= k => rows[j].search_log_id <= rows[k].search_log_id
    /\ \A j, k \in DOMAIN rows :
           /\ rows[j].search_log_id = rows[k].search_log_id
           /\ rows[j].label > 0 /\ rows[k].label > 0
           => j = k
    /\ Cardinality(Searches(rows)) <= LogLimit

LEMMA TrainingRowsFine ==
    ASSUME NEW logs \in Seq(Logged), Len(logs) <= MaxLogs, LabelsWhole(logs), NEW features
    PROVE  Fine(TrainingRows(logs, features), logs)
<1> DEFINE recent == RecentIds(logs)
           seqs == [i \in DOMAIN logs |->
                       IF i \in recent THEN RowsOfLog(logs[i], i, features) ELSE <<>>]
           Upto(n, s) ==
               /\ \A j \in DOMAIN s :
                      /\ s[j].search_log_id \in recent /\ s[j].search_log_id <= n
                      /\ s[j].property_id \in Range(logs[s[j].search_log_id].result_ids)
                      /\ s[j].label > 0 =>
                             s[j].property_id = logs[s[j].search_log_id].actioned_id
               /\ \A j, k \in DOMAIN s : j <= k => s[j].search_log_id <= s[k].search_log_id
               /\ \A j, k \in DOMAIN s :
                      /\ s[j].search_log_id = s[k].search_log_id
                      /\ s[j].property_id = s[k].property_id
                      => j = k
           G == {w \in (0 .. Len(logs)) \X Seq(Rows) : Upto(w[1], w[2])}
<1>1. /\ DOMAIN logs = 1 .. Len(logs) /\ Len(logs) \in Nat /\ DOMAIN logs \subseteq 1 .. MaxLogs
      /\ \A i \in DOMAIN logs : logs[i] \in Logged
  BY RetrainingConstants
<1>2. /\ recent \subseteq DOMAIN logs /\ IsFiniteSet(recent)
      /\ Cardinality(recent) \in Nat /\ Cardinality(recent) <= LogLimit
  <2> DEFINE ids == {i \in DOMAIN logs : logs[i].result_ids # <<>>}
  <2>1. ids \in SUBSET Nat /\ IsFiniteSet(ids) /\ ids \subseteq DOMAIN logs
    <3>1. IsFiniteSet(DOMAIN logs) /\ DOMAIN logs \subseteq Nat
      BY <1>1, FS_Interval
    <3>2. ids \subseteq DOMAIN logs
      OBVIOUS
    <3> HIDE DEF ids
    <3> QED BY <3>1, <3>2, FS_Subset
  <2>2. recent = Newest(ids, LogLimit)
    BY DEF RecentIds
  <2> HIDE DEF ids, recent
  <2> QED BY <2>1, <2>2, NewestAtMost, MetricConstants, FS_CardinalityType
<1>3. TrainingRows(logs, features) = FlattenSeq(seqs)
  BY DEF TrainingRows
<1> HIDE DEF recent
<1>4. ASSUME NEW i \in DOMAIN logs
      PROVE  OfLog(RowsOfLog(logs[i], i, features), logs[i], i)
  BY <1>1, RowsOfLogAre DEF LabelsWhole
<1>5. /\ \A i \in 1 .. Len(logs) :
             /\ i \in recent => OfLog(seqs[i], logs[i], i)
             /\ i \notin recent => seqs[i] = <<>>
             /\ seqs[i] \in Seq(Rows)
      /\ seqs \in Seq(Seq(Rows)) /\ Len(seqs) = Len(logs)
  <2>1. \A i \in 1 .. Len(logs) :
             /\ i \in recent => OfLog(seqs[i], logs[i], i)
             /\ i \notin recent => seqs[i] = <<>>
             /\ seqs[i] \in Seq(Rows)
    <3>1. ASSUME NEW i \in 1 .. Len(logs), i \in recent PROVE OfLog(seqs[i], logs[i], i)
      BY <1>1, <1>4, <3>1
    <3>2. ASSUME NEW i \in 1 .. Len(logs), i \notin recent PROVE seqs[i] = <<>>
      BY <1>1, <3>2
    <3> HIDE DEF seqs
    <3>3. \A i \in 1 .. Len(logs) : seqs[i] \in Seq(Rows)
      <4> SUFFICES ASSUME NEW i \in 1 .. Len(logs) PROVE seqs[i] \in Seq(Rows)
        OBVIOUS
      <4>1. CASE i \in recent
        BY <3>1, <4>1 DEF OfLog
      <4>2. CASE i \notin recent
        <5>1. seqs[i] = <<>>
          BY <3>2, <4>2
        <5> QED BY <5>1, EmptySeq
      <4> QED BY <4>1, <4>2
    <3> QED BY <3>1, <3>2, <3>3
  <2>2. DOMAIN seqs = 1 .. Len(logs) /\ seqs = [i \in 1 .. Len(logs) |-> seqs[i]]
    BY <1>1
  <2> HIDE DEF seqs
  <2> QED BY <1>1, <2>1, <2>2
<1> HIDE DEF seqs
<1>6. <<0, <<>>>> \in G
  <2>1. <<>> \in Seq(Rows) /\ 0 \in 0 .. Len(logs)
    BY <1>1
  <2>2. Upto(0, <<>>)
    OBVIOUS
  <2> HIDE DEF Upto
  <2> QED BY <2>1, <2>2
<1>7. ASSUME NEW n \in 1 .. Len(seqs), NEW s \in Seq(Rows), <<n - 1, s>> \in G
      PROVE  <<n, s \o seqs[n]>> \in G
  <2>1. Upto(n - 1, s)
    BY <1>7
  <2>2. n \in 1 .. Len(logs) /\ n \in 0 .. Len(logs) /\ n \in DOMAIN logs
    BY <1>1, <1>5
  <2>3. \A j \in DOMAIN s : s[j].search_log_id \in Nat /\ s[j].search_log_id < n
    BY <1>1, <1>2, <2>1, <2>2
  <2>4. CASE n \notin recent
    <3>1. s \o seqs[n] = s
      BY <1>5, <2>2, <2>4, ConcatEmptySeq
    <3>2. Upto(n, s)
      BY <2>1, <2>2, <2>3
    <3> HIDE DEF Upto
    <3> QED BY <2>2, <3>1, <3>2
  <2>5. CASE n \in recent
    <3>1. PICK b : b = seqs[n]
      OBVIOUS
    <3>2. OfLog(b, logs[n], n) /\ b \in Seq(Rows)
      BY <1>5, <2>2, <2>5, <3>1
    <3> DEFINE t == s \o b
    <3>3. /\ t \in Seq(Rows) /\ Len(t) = Len(s) + Len(b) /\ Len(s) \in Nat /\ Len(b) \in Nat
          /\ DOMAIN s = 1 .. Len(s) /\ DOMAIN b = 1 .. Len(b) /\ DOMAIN t = 1 .. Len(t)
          /\ \A j \in DOMAIN t : j <= Len(s) => j \in DOMAIN s /\ t[j] = s[j]
          /\ \A j \in DOMAIN t :
                 ~(j <= Len(s)) => j - Len(s) \in DOMAIN b /\ t[j] = b[j - Len(s)]
      BY <3>2, ConcatProperties
    <3> HIDE DEF t
    <3>4. ASSUME NEW j \in DOMAIN t
          PROVE  /\ t[j].search_log_id \in recent /\ t[j].search_log_id <= n
                 /\ t[j].property_id \in Range(logs[t[j].search_log_id].result_ids)
                 /\ t[j].label > 0 => t[j].property_id = logs[t[j].search_log_id].actioned_id
      <4>1. CASE j <= Len(s)
        BY <2>1, <2>2, <2>3, <3>3, <4>1
      <4>2. CASE ~(j <= Len(s))
        BY <2>2, <2>5, <3>2, <3>3, <4>2 DEF OfLog
      <4> QED BY <4>1, <4>2
    <3>5. \A j \in DOMAIN t : j <= Len(s) <=> t[j].search_log_id < n
      BY <2>2, <2>3, <3>2, <3>3 DEF OfLog
    <3>6. \A j \in DOMAIN t : ~(j <= Len(s)) => t[j].search_log_id = n
      BY <3>2, <3>3 DEF OfLog
    <3>7. ASSUME NEW j \in DOMAIN t, NEW k \in DOMAIN t, j <= k
          PROVE  t[j].search_log_id <= t[k].search_log_id
      <4>1. CASE k <= Len(s)
        <5>1. j <= Len(s)
          BY <3>3, <3>7, <4>1
        <5> QED BY <2>1, <3>3, <3>7, <4>1, <5>1
      <4>2. CASE ~(k <= Len(s))
        BY <3>4, <3>6, <4>2
      <4> QED BY <4>1, <4>2
    <3>8. ASSUME NEW j \in DOMAIN t, NEW k \in DOMAIN t,
                 t[j].search_log_id = t[k].search_log_id, t[j].property_id = t[k].property_id
          PROVE  j = k
      <4>1. CASE j <= Len(s)
        <5>1. k <= Len(s)
          BY <3>5, <3>8, <4>1
        <5> QED BY <2>1, <3>3, <3>8, <4>1, <5>1
      <4>2. CASE ~(j <= Len(s))
        <5>1. ~(k <= Len(s))
          BY <3>5, <3>8, <4>2
        <5>2. j - Len(s) = k - Len(s)
          BY <3>2, <3>3, <3>8, <4>2, <5>1 DEF OfLog
        <5> QED BY <3>3, <5>2
      <4> QED BY <4>1, <4>2
    <3>9. Upto(n, t)
      BY <3>4, <3>7, <3>8
    <3>10. t = s \o seqs[n]
      BY <3>1 DEF t
    <3> HIDE DEF Upto
    <3> QED BY <2>2, <3>3, <3>9, <3>10
  <2> QED BY <2>4, <2>5
<1>8. FlattenSeq(seqs) \in Seq(Rows) /\ <<Len(seqs), FlattenSeq(seqs)>> \in G
  <2> HIDE DEF G
  <2> QED BY <1>5, <1>6, <1>7, Flattened
<1> DEFINE rows == FlattenSeq(seqs)
<1>9. Upto(Len(logs), rows)
  BY <1>5, <1>8
<1> HIDE DEF rows
<1>10. \A j \in DOMAIN rows :
           rows[j].label > 0 => logs[rows[j].search_log_id].actioned_id # None
  <2>1. \A j \in DOMAIN rows : rows[j] \in Rows
    BY <1>8 DEF rows
  <2>2. \A j \in DOMAIN rows : rows[j].property_id # None
    BY <2>1, MetricConstants DEF Rows
  <2> QED BY <1>9, <2>2
<1>11. Cardinality(Searches(rows)) <= LogLimit
  <2>1. Searches(rows) \subseteq recent
    BY <1>9 DEF Searches
  <2>2. Cardinality(Searches(rows)) \in Nat /\ Cardinality(Searches(rows)) <= Cardinality(recent)
    BY <1>2, <2>1, FS_Subset, FS_CardinalityType
  <2> QED BY <1>2, <2>2, MetricConstants
<1>12. \A j, k \in DOMAIN rows :
           /\ rows[j].search_log_id = rows[k].search_log_id
           /\ rows[j].label > 0 /\ rows[k].label > 0
           => j = k
  BY <1>9
<1>13. rows \in Seq(Rows) /\ TrainingRows(logs, features) = rows
  BY <1>3, <1>8 DEF rows
<1> QED BY <1>2, <1>9, <1>10, <1>11, <1>12, <1>13 DEF Fine

\* They stay so while logs are added and labelled,
Continues(logs, old) ==
    /\ DOMAIN old \subseteq DOMAIN logs
    /\ \A i \in DOMAIN old :
           /\ logs[i].result_ids = old[i].result_ids
           /\ old[i].actioned_id # None => logs[i].actioned_id # None

LEMMA FineStill ==
    ASSUME NEW rows, NEW old, NEW logs, Fine(rows, old), Continues(logs, old)
    PROVE  Fine(rows, logs)
BY DEF Fine, Continues

\* and so does each part of the file from its start on.
LEMMA FineStart ==
    ASSUME NEW rows, NEW logs, Fine(rows, logs), NEW n \in Int, n <= Len(rows)
    PROVE  Fine(SubSeq(rows, 1, n), logs)
<1> DEFINE t == SubSeq(rows, 1, n)
<1>1. rows \in Seq(Rows)
  BY DEF Fine
<1>2. /\ t \in Seq(Rows) /\ DOMAIN t \subseteq DOMAIN rows
      /\ \A j \in DOMAIN t : t[j] = rows[j]
  <2>1. \A j \in 1 .. n : rows[j] \in Rows
    BY <1>1
  <2>2. /\ t \in Seq(Rows) /\ Len(t) = (IF 1 <= n THEN n - 1 + 1 ELSE 0)
        /\ \A j \in 1 .. n - 1 + 1 : t[j] = rows[1 + j - 1]
    BY <2>1, SubSeqProperties
  <2> HIDE DEF t
  <2>3. DOMAIN t = 1 .. Len(t) /\ DOMAIN rows = 1 .. Len(rows)
    BY <1>1, <2>2
  <2>4. \A j \in 1 .. n : t[j] = rows[j]
    <3> SUFFICES ASSUME NEW j \in 1 .. n PROVE t[j] = rows[j]
      OBVIOUS
    <3>1. j \in 1 .. n - 1 + 1 /\ 1 + j - 1 = j
      OBVIOUS
    <3> QED BY <2>2, <3>1
  <2> QED BY <1>1, <2>2, <2>3, <2>4
<1> HIDE DEF t
<1>3. Cardinality(Searches(t)) <= LogLimit
  <2>1. Searches(t) \subseteq Searches(rows)
    BY <1>2 DEF Searches
  <2>2. IsFiniteSet(Searches(rows))
    <3>1. Searches(rows) \subseteq 1 .. MaxLogs
      <4>1. \A j \in DOMAIN rows : rows[j] \in Rows
        BY <1>1
      <4>2. \A r \in Rows : r.search_log_id \in 1 .. MaxLogs
        BY DEF Rows
      <4> QED BY <4>1, <4>2 DEF Searches
    <3>2. IsFiniteSet(1 .. MaxLogs)
      BY RetrainingConstants, FS_Interval
    <3> QED BY <3>1, <3>2, FS_Subset
  <2>3. /\ Cardinality(Searches(t)) \in Nat /\ Cardinality(Searches(rows)) \in Nat
        /\ Cardinality(Searches(t)) <= Cardinality(Searches(rows))
    BY <2>1, <2>2, FS_Subset, FS_CardinalityType
  <2> QED BY <2>3, MetricConstants DEF Fine
<1>4. Fine(t, logs)
  BY <1>2, <1>3 DEF Fine
<1> QED BY <1>4 DEF t
-----------------------------------------------------------------------------
\* Where each group of rows ends.
End(sizes, g) == Sum([h \in 1 .. g |-> sizes[h]])

\* A sum is of what the function is on the set that is summed.
LEMMA SumUpto ==
    ASSUME NEW k \in Nat, NEW f, NEW g, \A x \in 1 .. k : f[x] \in Int /\ g[x] = f[x]
    PROVE  SumFunctionOnSet(f, 1 .. k) = SumFunctionOnSet(g, 1 .. k)
<1> DEFINE a(n) == SumFunctionOnSet(f, 1 .. n)
           b(n) == SumFunctionOnSet(g, 1 .. n)
           N == {n \in Nat : n <= k => a(n) = b(n)}
<1>1. 0 \in N
  <2>1. 1 .. 0 = {}
    OBVIOUS
  <2>2. SumFunctionOnSet(f, {}) = 0 /\ SumFunctionOnSet(g, {}) = 0
    BY SumRemove, FS_EmptySet
  <2> QED BY <2>1, <2>2
<1>2. ASSUME NEW n \in Nat, n \in N PROVE n + 1 \in N
  <2> SUFFICES ASSUME n + 1 <= k PROVE a(n + 1) = b(n + 1)
    OBVIOUS
  <2>1. 1 .. n + 1 = (1 .. n) \cup {n + 1} /\ n + 1 \notin 1 .. n /\ n + 1 \in 1 .. k
    OBVIOUS
  <2>2. IsFiniteSet(1 .. n) /\ \A y \in 1 .. n : f[y] \in Int /\ g[y] \in Int
    BY FS_Interval
  <2>3. f[n + 1] \in Int /\ g[n + 1] = f[n + 1]
    BY <2>1
  <2>4. SumFunctionOnSet(f, (1 .. n) \cup {n + 1}) = f[n + 1] + SumFunctionOnSet(f, 1 .. n)
    BY <2>1, <2>2, <2>3, SumAdd
  <2>5. SumFunctionOnSet(g, (1 .. n) \cup {n + 1}) = g[n + 1] + SumFunctionOnSet(g, 1 .. n)
    BY <2>1, <2>2, <2>3, SumAdd
  <2>6. a(n) = b(n)
    BY <1>2
  <2> QED BY <2>1, <2>3, <2>4, <2>5, <2>6
<1>3. \A n \in Nat : n \in N
  <2> HIDE DEF N
  <2> QED BY <1>1, <1>2, NatSetInduction
<1>4. k \in N
  BY <1>3
<1> QED BY <1>4

Positive == Nat \ {0}

LEMMA EndIs ==
    ASSUME NEW sizes \in Seq(Positive), NEW g \in 0 .. Len(sizes)
    PROVE  End(sizes, g) = SumFunctionOnSet(sizes, 1 .. g)
<1> DEFINE f == [h \in 1 .. g |-> sizes[h]]
<1>1. \A h \in 1 .. g : f[h] \in Int /\ sizes[h] = f[h]
  BY DEF Positive
<1>2. g \in Nat /\ DOMAIN f = 1 .. g
  OBVIOUS
<1> HIDE DEF f
<1>3. SumFunctionOnSet(f, 1 .. g) = SumFunctionOnSet(sizes, 1 .. g)
  BY <1>1, <1>2, SumUpto
<1>4. Sum(f) = SumFunctionOnSet(f, 1 .. g)
  BY <1>2 DEF Sum, SumFunction
<1> QED BY <1>3, <1>4 DEF End, f

LEMMA EndStep ==
    ASSUME NEW sizes \in Seq(Positive)
    PROVE  /\ End(sizes, 0) = 0
           /\ \A g \in 0 .. Len(sizes) : End(sizes, g) \in Nat
           /\ \A g \in 1 .. Len(sizes) : End(sizes, g) = End(sizes, g - 1) + sizes[g]
<1> DEFINE k == Len(sizes)
<1>1. k \in Nat /\ \A h \in 1 .. k : sizes[h] \in Nat /\ sizes[h] > 0
  BY DEF Positive
<1>2. End(sizes, 0) = 0
  <2>1. 1 .. 0 = {} /\ 0 \in 0 .. k
    BY <1>1
  <2>2. SumFunctionOnSet(sizes, {}) = 0
    BY SumRemove, FS_EmptySet
  <2> QED BY <2>1, <2>2, EndIs
<1>3. ASSUME NEW g \in 1 .. k
      PROVE  /\ End(sizes, g) = sizes[g] + End(sizes, g - 1)
             /\ End(sizes, g - 1) \in Int
  <2>1. /\ 1 .. g = (1 .. g - 1) \cup {g} /\ g \notin 1 .. g - 1
        /\ g \in 0 .. k /\ g - 1 \in 0 .. k
    BY <1>1
  <2>2. /\ IsFiniteSet(1 .. g - 1) /\ \A y \in 1 .. g - 1 : sizes[y] \in Int
        /\ sizes[g] \in Int
    <3>1. g - 1 \in Int /\ 1 .. g - 1 \subseteq 1 .. k
      BY <1>1
    <3>2. IsFiniteSet(1 .. g - 1)
      BY <3>1, FS_Interval
    <3> HIDE DEF k
    <3> QED BY <1>1, <3>1, <3>2
  <2>3. SumFunctionOnSet(sizes, (1 .. g - 1) \cup {g})
          = sizes[g] + SumFunctionOnSet(sizes, 1 .. g - 1)
    BY <2>1, <2>2, SumAdd
  <2>4. SumFunctionOnSet(sizes, 1 .. g - 1) \in Int
    BY <2>2, SumRemove
  <2> QED BY <2>1, <2>3, <2>4, EndIs
<1> DEFINE N == {n \in Nat : n <= k => End(sizes, n) \in Nat}
<1>4. 0 \in N
  BY <1>2
<1>5. ASSUME NEW n \in Nat, n \in N PROVE n + 1 \in N
  <2> SUFFICES ASSUME n + 1 <= k PROVE End(sizes, n + 1) \in Nat
    OBVIOUS
  <2>1. End(sizes, n) \in Nat /\ n + 1 \in 1 .. k /\ (n + 1) - 1 = n
    BY <1>1, <1>5
  <2>2. End(sizes, n + 1) = sizes[n + 1] + End(sizes, n)
    BY <1>3, <2>1
  <2> QED BY <1>1, <2>1, <2>2
<1>6. \A n \in Nat : n \in N
  <2> HIDE DEF N
  <2> QED BY <1>4, <1>5, NatSetInduction
<1>7. \A g \in 0 .. k : End(sizes, g) \in Nat
  <2>1. \A g \in 0 .. k : g \in N /\ g <= k
    BY <1>1, <1>6
  <2> QED BY <2>1
<1>8. \A g \in 1 .. k : End(sizes, g) = End(sizes, g - 1) + sizes[g]
  BY <1>1, <1>3
<1> QED BY <1>2, <1>7, <1>8

\* A group ends after those before it.
LEMMA EndsRise ==
    ASSUME NEW sizes \in Seq(Positive), NEW g \in 0 .. Len(sizes), NEW h \in 0 .. Len(sizes), g < h
    PROVE  End(sizes, g) < End(sizes, h)
<1> DEFINE k == Len(sizes)
           N == {n \in Nat : g < n /\ n <= k => End(sizes, g) < End(sizes, n)}
<1>1. k \in Nat /\ \A i \in 1 .. k : sizes[i] \in Nat /\ sizes[i] > 0
  BY DEF Positive
<1>2. 0 \in N
  OBVIOUS
<1>3. ASSUME NEW n \in Nat, n \in N PROVE n + 1 \in N
  <2> SUFFICES ASSUME g < n + 1, n + 1 <= k PROVE End(sizes, g) < End(sizes, n + 1)
    OBVIOUS
  <2>1. n + 1 \in 1 .. k /\ (n + 1) - 1 = n /\ n \in 0 .. k /\ n + 1 \in 0 .. k
    BY <1>1
  <2>2. /\ End(sizes, n + 1) = End(sizes, n) + sizes[n + 1]
        /\ End(sizes, n) \in Nat /\ End(sizes, g) \in Nat
    BY <2>1, EndStep
  <2>3. g = n \/ End(sizes, g) < End(sizes, n)
    BY <1>3, <2>1
  <2> QED BY <1>1, <2>1, <2>2, <2>3
<1>4. \A n \in Nat : n \in N
  <2> HIDE DEF N
  <2> QED BY <1>2, <1>3, NatSetInduction
<1>5. h \in N
  BY <1>4
<1> QED BY <1>5

\* One more group leaves the others where they were.
LEMMA EndAppend ==
    ASSUME NEW sizes \in Seq(Positive), NEW v \in Positive
    PROVE  /\ Append(sizes, v) \in Seq(Positive) /\ Len(Append(sizes, v)) = Len(sizes) + 1
           /\ \A g \in 0 .. Len(sizes) : End(Append(sizes, v), g) = End(sizes, g)
           /\ End(Append(sizes, v), Len(sizes) + 1) = End(sizes, Len(sizes)) + v
<1> DEFINE t == Append(sizes, v)
<1>1. /\ t \in Seq(Positive) /\ Len(t) = Len(sizes) + 1 /\ t[Len(sizes) + 1] = v
      /\ \A i \in 1 .. Len(sizes) : t[i] = sizes[i]
  BY AppendProperties
<1> HIDE DEF t
<1>2. ASSUME NEW g \in 0 .. Len(sizes) PROVE End(t, g) = End(sizes, g)
  <2>1. [h \in 1 .. g |-> t[h]] = [h \in 1 .. g |-> sizes[h]]
    BY <1>1
  <2> QED BY <2>1 DEF End
<1>3. End(t, Len(sizes) + 1) = End(t, Len(sizes)) + v
  <2>1. Len(sizes) + 1 \in 1 .. Len(t) /\ (Len(sizes) + 1) - 1 = Len(sizes)
    BY <1>1
  <2> QED BY <1>1, <2>1, EndStep
<1>4. Len(sizes) \in 0 .. Len(sizes)
  OBVIOUS
<1> QED BY <1>1, <1>2, <1>3, <1>4 DEF t
-----------------------------------------------------------------------------
\* The recursion of the loop that counts group sizes, and one round of it.
Before == [current_qid |-> None, size |-> 0, group_sizes |-> <<>>]

Round(s, qid) ==
    IF s.current_qid \in {None, qid}
    THEN [s EXCEPT !.current_qid = qid, !.size = @ + 1]
    ELSE [current_qid |-> qid, size |-> 1, group_sizes |-> Append(s.group_sizes, s.size)]

Rounds(rows, m, f) ==
    f = [n \in 0 .. m |-> IF n = 0 THEN Before ELSE Round(f[n - 1], rows[n].search_log_id)]

LEMMA ScanIs ==
    ASSUME NEW rows
    PROVE  Scan(rows) = (CHOOSE f : Rounds(rows, Len(rows), f))[Len(rows)]
BY DEF Scan, Rounds, Round, Before

LEMMA RoundsDefined ==
    ASSUME NEW rows, NEW m \in Nat
    PROVE  \E f : Rounds(rows, m, f)
<1> DEFINE N == {n \in Nat : \E f : Rounds(rows, n, f)}
<1>1. 0 \in N
  <2> DEFINE f == [n \in 0 .. 0 |-> Before]
  <2>1. \A n \in 0 .. 0 : n = 0
    OBVIOUS
  <2>2. Rounds(rows, 0, f)
    BY <2>1 DEF Rounds
  <2> QED BY <2>2
<1>2. ASSUME NEW n \in Nat, n \in N PROVE n + 1 \in N
  <2>1. PICK f : Rounds(rows, n, f)
    BY <1>2
  <2> DEFINE g == [i \in 0 .. n + 1 |->
                      IF i = 0 THEN Before ELSE Round(f[i - 1], rows[i].search_log_id)]
  <2>2. ASSUME NEW i \in 0 .. n PROVE g[i] = f[i]
    <3>1. i \in 0 .. n + 1
      OBVIOUS
    <3>2. g[i] = IF i = 0 THEN Before ELSE Round(f[i - 1], rows[i].search_log_id)
      BY <3>1
    <3>3. f[i] = IF i = 0 THEN Before ELSE Round(f[i - 1], rows[i].search_log_id)
      BY <2>1, Zenon DEF Rounds
    <3> QED BY <3>2, <3>3
  <2>3. ASSUME NEW i \in 0 .. n + 1, i # 0 PROVE g[i - 1] = f[i - 1]
    <3>1. i - 1 \in 0 .. n
      BY <2>3
    <3> HIDE DEF g
    <3> QED BY <2>2, <3>1
  <2>4. Rounds(rows, n + 1, g)
    <3>1. \A i \in 0 .. n + 1 :
              g[i] = IF i = 0 THEN Before ELSE Round(f[i - 1], rows[i].search_log_id)
      OBVIOUS
    <3>2. g = [i \in 0 .. n + 1 |-> g[i]]
      OBVIOUS
    <3> HIDE DEF g
    <3>3. \A i \in 0 .. n + 1 :
              g[i] = IF i = 0 THEN Before ELSE Round(g[i - 1], rows[i].search_log_id)
      BY <2>3, <3>1
    <3> QED BY <3>2, <3>3 DEF Rounds
  <2>5. \E k : Rounds(rows, n + 1, k)
    <3> HIDE DEF g
    <3> QED BY <2>4
  <2> QED BY <2>5
<1>3. \A n \in Nat : n \in N
  <2> HIDE DEF N
  <2> QED BY <1>1, <1>2, NatSetInduction
<1> QED BY <1>3

InOrder(rows) ==
    \A j, k \in DOMAIN rows : j <= k => rows[j].search_log_id <= rows[k].search_log_id

\* Groups of the first n rows: as many as there are searches, and each ends where
\* the search changes.
Grouped(rows, n, sizes, size) ==
    /\ sizes \in Seq(Positive) /\ size \in Positive
    /\ Len(sizes) + 1 = Cardinality({rows[j].search_log_id : j \in 1 .. n})
    /\ End(sizes, Len(sizes)) + size = n
    /\ \A i \in 1 .. n - 1 :
           rows[i].search_log_id # rows[i + 1].search_log_id
           <=> \E g \in 1 .. Len(sizes) : End(sizes, g) = i

\* A row of the same search counts in the last group,
LEMMA GroupGrows ==
    ASSUME NEW rows \in Seq(Rows), NEW n \in Nat \ {0}, n + 1 <= Len(rows),
           NEW sizes, NEW size, Grouped(rows, n, sizes, size),
           rows[n + 1].search_log_id = rows[n].search_log_id
    PROVE  Grouped(rows, n + 1, sizes, size + 1)
<1>1. /\ sizes \in Seq(Positive) /\ size \in Nat /\ size > 0 /\ Len(sizes) \in Nat
      /\ End(sizes, Len(sizes)) \in Nat /\ End(sizes, Len(sizes)) + size = n
  BY EndStep DEF Grouped, Positive
<1>2. {rows[j].search_log_id : j \in 1 .. n + 1} = {rows[j].search_log_id : j \in 1 .. n}
  <2>1. \A j \in 1 .. n + 1 : j \in 1 .. n \/ j = n + 1
    OBVIOUS
  <2>2. n \in 1 .. n /\ 1 .. n \subseteq 1 .. n + 1
    OBVIOUS
  <2> QED BY <2>1, <2>2
<1>3. \A g \in 1 .. Len(sizes) : End(sizes, g) # n
  <2> SUFFICES ASSUME NEW g \in 1 .. Len(sizes) PROVE End(sizes, g) # n
    OBVIOUS
  <2>1. g \in 0 .. Len(sizes) /\ Len(sizes) \in 0 .. Len(sizes)
    BY <1>1
  <2>2. g = Len(sizes) \/ End(sizes, g) < End(sizes, Len(sizes))
    BY <1>1, <2>1, EndsRise
  <2>3. End(sizes, g) \in Nat
    BY <1>1, <2>1, EndStep
  <2> QED BY <1>1, <2>2, <2>3
<1>4. ASSUME NEW i \in 1 .. (n + 1) - 1
      PROVE  rows[i].search_log_id # rows[i + 1].search_log_id
             <=> \E g \in 1 .. Len(sizes) : End(sizes, g) = i
  <2>1. CASE i = n
    BY <1>3, <2>1
  <2>2. CASE i # n
    <3>1. i \in 1 .. n - 1
      BY <2>2
    <3> QED BY <3>1 DEF Grouped
  <2> QED BY <2>1, <2>2
<1>5. size + 1 \in Positive /\ End(sizes, Len(sizes)) + (size + 1) = n + 1
  BY <1>1 DEF Positive
<1> QED BY <1>1, <1>2, <1>4, <1>5 DEF Grouped

\* and one of another search starts the next.
LEMMA GroupStarts ==
    ASSUME NEW rows \in Seq(Rows), InOrder(rows), NEW n \in Nat \ {0}, n + 1 <= Len(rows),
           NEW sizes, NEW size, Grouped(rows, n, sizes, size),
           rows[n + 1].search_log_id # rows[n].search_log_id
    PROVE  Grouped(rows, n + 1, Append(sizes, size), 1)
<1> DEFINE more == Append(sizes, size)
           ids(k) == {rows[j].search_log_id : j \in 1 .. k}
<1>1. /\ sizes \in Seq(Positive) /\ size \in Positive /\ size \in Nat /\ Len(sizes) \in Nat
      /\ End(sizes, Len(sizes)) + size = n
  BY DEF Grouped, Positive
<1>2. /\ more \in Seq(Positive) /\ Len(more) = Len(sizes) + 1
      /\ \A g \in 0 .. Len(sizes) : End(more, g) = End(sizes, g)
      /\ End(more, Len(sizes) + 1) = n
  BY <1>1, EndAppend
<1> HIDE DEF more
<1>3. Cardinality(ids(n + 1)) = Cardinality(ids(n)) + 1
  <2>1. \A j \in 1 .. n + 1 : j \in DOMAIN rows /\ rows[j].search_log_id \in Nat
    <3>1. \A r \in Rows : r.search_log_id \in Nat
      BY RetrainingConstants DEF Rows
    <3>2. \A j \in 1 .. n + 1 : j \in DOMAIN rows /\ rows[j] \in Rows
      OBVIOUS
    <3> QED BY <3>1, <3>2
  <2>2. n + 1 \in 1 .. n + 1 /\ n \in 1 .. n + 1 /\ 1 .. n \subseteq 1 .. n + 1
    OBVIOUS
  <2>3. rows[n].search_log_id < rows[n + 1].search_log_id
    BY <2>1, <2>2 DEF InOrder
  <2>4. \A j \in 1 .. n : rows[j].search_log_id < rows[n + 1].search_log_id
    <3> SUFFICES ASSUME NEW j \in 1 .. n
                 PROVE  rows[j].search_log_id < rows[n + 1].search_log_id
      OBVIOUS
    <3>1. rows[j].search_log_id <= rows[n].search_log_id
      BY <2>1, <2>2 DEF InOrder
    <3> QED BY <2>1, <2>2, <2>3, <3>1
  <2>5. rows[n + 1].search_log_id \notin ids(n)
    BY <2>1, <2>2, <2>4
  <2>6. ids(n + 1) = ids(n) \cup {rows[n + 1].search_log_id}
    <3>1. \A j \in 1 .. n + 1 : j \in 1 .. n \/ j = n + 1
      OBVIOUS
    <3> QED BY <2>2, <3>1
  <2>7. IsFiniteSet(ids(n))
    <3>1. ids(n) \subseteq 1 .. MaxLogs
      <4>1. \A r \in Rows : r.search_log_id \in 1 .. MaxLogs
        BY DEF Rows
      <4>2. \A j \in 1 .. n : rows[j] \in Rows
        OBVIOUS
      <4> QED BY <4>1, <4>2
    <3>2. IsFiniteSet(1 .. MaxLogs)
      BY RetrainingConstants, FS_Interval
    <3> HIDE DEF ids
    <3> QED BY <3>1, <3>2, FS_Subset
  <2> HIDE DEF ids
  <2> QED BY <2>5, <2>6, <2>7, FS_AddElement
<1>4. ASSUME NEW i \in 1 .. (n + 1) - 1
      PROVE  rows[i].search_log_id # rows[i + 1].search_log_id
             <=> \E g \in 1 .. Len(more) : End(more, g) = i
  <2>1. CASE i = n
    <3>1. Len(sizes) + 1 \in 1 .. Len(more)
      BY <1>1, <1>2
    <3> QED BY <1>2, <2>1, <3>1
  <2>2. CASE i # n
    <3>1. i \in 1 .. n - 1
      BY <2>2
    <3>2. (\E g \in 1 .. Len(more) : End(more, g) = i)
            <=> \E g \in 1 .. Len(sizes) : End(sizes, g) = i
      BY <1>1, <1>2, <2>2
    <3> QED BY <3>1, <3>2 DEF Grouped
  <2> QED BY <2>1, <2>2
<1>5. 1 \in Positive /\ End(more, Len(more)) + 1 = n + 1
  BY <1>2 DEF Positive
<1>6. Len(more) + 1 = Cardinality(ids(n + 1))
  <2>1. Len(sizes) + 1 = Cardinality(ids(n))
    BY DEF Grouped
  <2> HIDE DEF ids
  <2> QED BY <1>2, <1>3, <2>1
<1> QED BY <1>2, <1>4, <1>5, <1>6 DEF Grouped, more

LEMMA GroupSizesAre ==
    ASSUME NEW rows \in Seq(Rows), InOrder(rows), Len(rows) > 0
    PROVE  \E sizes, size : /\ Grouped(rows, Len(rows), sizes, size)
                            /\ GroupSizes(rows) = Append(sizes, size)
<1> DEFINE m == Len(rows)
           State(s) == s = [current_qid |-> s.current_qid, size |-> s.size,
                            group_sizes |-> s.group_sizes]
<1>1. m \in Nat /\ DOMAIN rows = 1 .. m
  OBVIOUS
<1>2. PICK f : Rounds(rows, m, f) /\ Scan(rows) = f[m]
  BY <1>1, RoundsDefined, ScanIs
<1>3. /\ f[0] = Before
      /\ \A n \in 1 .. m : f[n] = Round(f[n - 1], rows[n].search_log_id)
  <2>1. 0 \in 0 .. m /\ \A n \in 1 .. m : n \in 0 .. m /\ n # 0
    BY <1>1
  <2>2. \A n \in 0 .. m : f[n] = IF n = 0 THEN Before ELSE Round(f[n - 1], rows[n].search_log_id)
    BY <1>2, Zenon DEF Rounds
  <2> HIDE DEF m
  <2> QED BY <2>1, <2>2
<1>4. \A n \in 1 .. m : rows[n].search_log_id \in Nat /\ rows[n].search_log_id # None
  <2>1. \A r \in Rows : r.search_log_id \in Nat
    BY RetrainingConstants DEF Rows
  <2>2. \A n \in 1 .. m : rows[n] \in Rows
    OBVIOUS
  <2> QED BY <2>1, <2>2, RetrainingConstants
<1> DEFINE N == {n \in Nat : n + 1 <= m =>
                     /\ State(f[n + 1]) /\ f[n + 1].current_qid = rows[n + 1].search_log_id
                     /\ Grouped(rows, n + 1, f[n + 1].group_sizes, f[n + 1].size)}
<1> HIDE DEF m
<1>5. 0 \in N
  <2>1. 1 \in 1 .. m /\ 1 - 1 = 0 /\ 0 + 1 = 1
    BY <1>1 DEF m
  <2>2. f[1] = Round(Before, rows[1].search_log_id)
    BY <1>3, <2>1
  <2>3. f[1] = [current_qid |-> rows[1].search_log_id, size |-> 1, group_sizes |-> <<>>]
    <3>1. Before.current_qid = None /\ Before.size = 0
      BY DEF Before
    <3>2. f[1] = [Before EXCEPT !.current_qid = rows[1].search_log_id, !.size = @ + 1]
      BY <2>2, <3>1, Zenon DEF Round
    <3>3. PICK q : q = rows[1].search_log_id
      OBVIOUS
    <3>4. 0 + 1 = 1
      OBVIOUS
    <3>5. f[1] = [Before EXCEPT !.current_qid = q, !.size = 1]
      BY <3>1, <3>2, <3>3, <3>4
    <3>6. f[1] = [current_qid |-> q, size |-> 1, group_sizes |-> <<>>]
      BY <3>5 DEF Before
    <3> QED BY <3>3, <3>6
  <2>4. /\ State(f[1]) /\ f[1].current_qid = rows[1].search_log_id
        /\ f[1].size = 1 /\ f[1].group_sizes = <<>>
    BY <2>3
  <2>5. Grouped(rows, 1, <<>>, 1)
    <3>1. <<>> \in Seq(Positive) /\ 1 \in Positive /\ Len(<<>>) = 0
      BY DEF Positive
    <3>2. End(<<>>, 0) = 0
      BY <3>1, EndStep
    <3>3. Cardinality({rows[j].search_log_id : j \in 1 .. 1}) = 1
      <4>1. {rows[j].search_log_id : j \in 1 .. 1} = {rows[1].search_log_id}
        OBVIOUS
      <4> QED BY <4>1, FS_Singleton
    <3>4. 1 .. 1 - 1 = {}
      OBVIOUS
    <3> QED BY <3>1, <3>2, <3>3, <3>4 DEF Grouped
  <2> HIDE DEF State
  <2> QED BY <2>1, <2>4, <2>5
<1>6. ASSUME NEW n \in Nat, n \in N PROVE n + 1 \in N
  <2> SUFFICES ASSUME n + 2 <= m
               PROVE  /\ State(f[n + 2]) /\ f[n + 2].current_qid = rows[n + 2].search_log_id
                      /\ Grouped(rows, n + 2, f[n + 2].group_sizes, f[n + 2].size)
    <3>1. (n + 1) + 1 = n + 2
      OBVIOUS
    <3> HIDE DEF State
    <3> QED BY <3>1
  <2> DEFINE s == f[n + 1]
             qid == rows[n + 2].search_log_id
  <2>1. /\ State(s) /\ s.current_qid = rows[n + 1].search_log_id
        /\ Grouped(rows, n + 1, s.group_sizes, s.size)
    <3>1. n + 1 <= m
      BY <1>1
    <3> HIDE DEF State
    <3> QED BY <1>6, <3>1
  <2>2. n + 1 \in 1 .. m /\ n + 2 \in 1 .. m /\ (n + 2) - 1 = n + 1 /\ (n + 1) + 1 = n + 2
    BY <1>1
  <2>3. f[n + 2] = Round(s, qid)
    BY <1>3, <2>2
  <2>4. s.current_qid # None
    BY <1>4, <2>1, <2>2
  <2>5. n + 1 \in Nat \ {0} /\ (n + 1) + 1 <= Len(rows)
    BY <1>1, <2>2 DEF m
  <2> HIDE DEF s
  <2>6. CASE qid = rows[n + 1].search_log_id
    <3>1. f[n + 2] = [s EXCEPT !.current_qid = qid, !.size = @ + 1]
      BY <2>1, <2>3, <2>6 DEF Round
    <3>2. /\ f[n + 2].current_qid = qid /\ f[n + 2].size = s.size + 1
          /\ f[n + 2].group_sizes = s.group_sizes /\ State(f[n + 2])
      BY <2>1, <3>1
    <3>3. Grouped(rows, n + 2, s.group_sizes, s.size + 1)
      BY <2>1, <2>2, <2>5, <2>6, GroupGrows
    <3> HIDE DEF State
    <3> QED BY <3>2, <3>3
  <2>7. CASE qid # rows[n + 1].search_log_id
    <3>1. f[n + 2] = [current_qid |-> qid, size |-> 1,
                      group_sizes |-> Append(s.group_sizes, s.size)]
      BY <2>1, <2>3, <2>4, <2>7 DEF Round
    <3>2. /\ f[n + 2].current_qid = qid /\ f[n + 2].size = 1
          /\ f[n + 2].group_sizes = Append(s.group_sizes, s.size) /\ State(f[n + 2])
      BY <3>1
    <3>3. Grouped(rows, n + 2, Append(s.group_sizes, s.size), 1)
      BY <2>1, <2>2, <2>5, <2>7, GroupStarts
    <3> HIDE DEF State
    <3> QED BY <3>2, <3>3
  <2> QED BY <2>6, <2>7
<1>7. \A n \in Nat : n \in N
  <2> HIDE DEF N
  <2> QED BY <1>5, <1>6, NatSetInduction
<1>8. Grouped(rows, m, f[m].group_sizes, f[m].size)
  <2>1. m - 1 \in Nat /\ (m - 1) + 1 = m
    BY <1>1 DEF m
  <2>2. m - 1 \in N
    BY <1>7, <2>1
  <2> HIDE DEF State
  <2> QED BY <1>1, <2>1, <2>2
<1>9. f[m].size > 0
  BY <1>8 DEF Grouped, Positive
<1>10. GroupSizes(rows) = Append(f[m].group_sizes, f[m].size)
  BY <1>2, <1>9 DEF GroupSizes
<1> QED BY <1>8, <1>10 DEF m

\* What the loop of load_training_data returns for rows in the order of their
\* searches, however many: one group a search, which together cover the rows and
\* end exactly where the search changes.
THEOREM Groups ==
    ASSUME NEW rows \in Seq(Rows), InOrder(rows), Len(rows) > 0
    PROVE  /\ GroupSizes(rows) \in Seq(Positive)
           /\ Len(GroupSizes(rows)) = Cardinality(Searches(rows))
           /\ Sum(GroupSizes(rows)) = Len(rows)
           /\ \A g \in 1 .. Len(GroupSizes(rows)) : End(GroupSizes(rows), g) \in Nat
           /\ \A i \in 1 .. Len(rows) - 1 :
                  rows[i].search_log_id # rows[i + 1].search_log_id
                  <=> \E g \in 1 .. Len(GroupSizes(rows)) : End(GroupSizes(rows), g) = i
<1>1. PICK sizes, size : /\ Grouped(rows, Len(rows), sizes, size)
                         /\ GroupSizes(rows) = Append(sizes, size)
  BY GroupSizesAre
<1> DEFINE more == Append(sizes, size)
           m == Len(rows)
<1>2. /\ sizes \in Seq(Positive) /\ size \in Positive /\ Len(sizes) \in Nat /\ m \in Nat
      /\ Len(sizes) + 1 = Cardinality({rows[j].search_log_id : j \in 1 .. m})
      /\ End(sizes, Len(sizes)) + size = m
      /\ \A i \in 1 .. m - 1 :
             rows[i].search_log_id # rows[i + 1].search_log_id
             <=> \E g \in 1 .. Len(sizes) : End(sizes, g) = i
  BY <1>1 DEF Grouped
<1>3. /\ more \in Seq(Positive) /\ Len(more) = Len(sizes) + 1
      /\ \A g \in 0 .. Len(sizes) : End(more, g) = End(sizes, g)
      /\ End(more, Len(sizes) + 1) = m
  BY <1>2, EndAppend
<1> HIDE DEF more
<1>4. Sum(more) = m
  <2>1. more = [h \in 1 .. Len(more) |-> more[h]]
    BY <1>3
  <2>2. Sum(more) = End(more, Len(more))
    BY <2>1 DEF End
  <2> QED BY <1>3, <2>2
<1>5. \A g \in 1 .. Len(more) : End(more, g) \in Nat
  BY <1>3, EndStep
<1>6. ASSUME NEW i \in 1 .. m - 1
      PROVE  (\E g \in 1 .. Len(sizes) : End(sizes, g) = i)
             <=> \E g \in 1 .. Len(more) : End(more, g) = i
  <2>1. i # m
    BY <1>2
  <2>2. \A g \in 1 .. Len(more) : g \in 1 .. Len(sizes) \/ g = Len(sizes) + 1
    BY <1>2, <1>3
  <2>3. \A g \in 1 .. Len(sizes) : g \in 0 .. Len(sizes) /\ g \in 1 .. Len(more)
    BY <1>2, <1>3
  <2> HIDE DEF m
  <2> QED BY <1>3, <2>1, <2>2, <2>3
<1>7. Searches(rows) = {rows[j].search_log_id : j \in 1 .. m}
  BY DEF Searches
<1>8. Len(more) = Cardinality(Searches(rows))
  BY <1>2, <1>3, <1>7
<1>9. GroupSizes(rows) = more
  BY <1>1 DEF more
<1> HIDE DEF m
<1>10. \A i \in 1 .. m - 1 :
           rows[i].search_log_id # rows[i + 1].search_log_id
           <=> \E g \in 1 .. Len(more) : End(more, g) = i
  BY <1>2, <1>6
<1> QED BY <1>3, <1>4, <1>5, <1>8, <1>9, <1>10 DEF m

\* So two rows are in the same group, counted by the groups that end before
\* them, if and only if they are of the same search.
LEMMA SameGroup ==
    ASSUME NEW rows \in Seq(Rows), InOrder(rows), NEW sizes \in Seq(Positive),
           \A g \in 1 .. Len(sizes) : End(sizes, g) \in Nat,
           \A i \in 1 .. Len(rows) - 1 :
               rows[i].search_log_id # rows[i + 1].search_log_id
               <=> \E g \in 1 .. Len(sizes) : End(sizes, g) = i,
           NEW i \in DOMAIN rows, NEW j \in DOMAIN rows, i <= j
    PROVE  Cardinality({g \in DOMAIN sizes : End(sizes, g) < i})
             = Cardinality({g \in DOMAIN sizes : End(sizes, g) < j})
           <=> rows[i].search_log_id = rows[j].search_log_id
<1> DEFINE before(n) == {g \in DOMAIN sizes : End(sizes, g) < n}
           id(n) == rows[n].search_log_id
<1>1. /\ DOMAIN rows = 1 .. Len(rows) /\ Len(rows) \in Nat
      /\ DOMAIN sizes = 1 .. Len(sizes) /\ Len(sizes) \in Nat
  OBVIOUS
<1>2. \A n \in DOMAIN rows : id(n) \in Nat
  <2>1. \A r \in Rows : r.search_log_id \in Nat
    BY RetrainingConstants DEF Rows
  <2>2. \A n \in DOMAIN rows : rows[n] \in Rows
    OBVIOUS
  <2> QED BY <2>1, <2>2
<1>3. IsFiniteSet(before(i)) /\ IsFiniteSet(before(j)) /\ before(i) \subseteq before(j)
  <2>1. IsFiniteSet(DOMAIN sizes)
    BY <1>1, FS_Interval
  <2>2. before(i) \subseteq DOMAIN sizes /\ before(j) \subseteq DOMAIN sizes
    OBVIOUS
  <2>3. before(i) \subseteq before(j)
    BY <1>1
  <2> HIDE DEF before
  <2> QED BY <2>1, <2>2, <2>3, FS_Subset
<1>4. Cardinality(before(i)) = Cardinality(before(j)) <=> before(i) = before(j)
  <2> HIDE DEF before
  <2> QED BY <1>3, FS_Subset
<1> HIDE DEF id
<1>5. ASSUME id(i) = id(j), NEW g \in DOMAIN sizes, End(sizes, g) < j PROVE End(sizes, g) < i
  <2> DEFINE e == End(sizes, g)
  <2> SUFFICES ASSUME ~(e < i) PROVE FALSE
    OBVIOUS
  <2>1. /\ e \in Nat /\ i <= e /\ e + 1 <= j /\ e \in 1 .. Len(rows) - 1
        /\ e \in DOMAIN rows /\ e + 1 \in DOMAIN rows
    BY <1>1, <1>5
  <2>2. id(e) # id(e + 1)
    BY <1>1, <2>1 DEF id
  <2> HIDE DEF e
  <2>3. id(i) <= id(e) /\ id(e) <= id(e + 1) /\ id(e + 1) <= id(j)
    BY <2>1 DEF InOrder, id
  <2> QED BY <1>2, <1>5, <2>1, <2>2, <2>3
<1>6. ASSUME id(i) # id(j) PROVE \E g \in DOMAIN sizes : End(sizes, g) < j /\ ~(End(sizes, g) < i)
  <2> DEFINE T == {k \in i .. j : id(k) # id(i)}
  <2>1. T \in SUBSET Nat /\ T # {}
    BY <1>1, <1>6
  <2>2. PICK k \in T : \A l \in T : k <= l
    <3> HIDE DEF T
    <3> QED BY <2>1, LeastNat
  <2>3. k \in i .. j /\ k # i /\ k - 1 \in i .. j /\ k - 1 \notin T
    BY <1>1, <2>2
  <2>4. id(k - 1) = id(i) /\ id(k) # id(i)
    BY <2>2, <2>3
  <2>5. k - 1 \in 1 .. Len(rows) - 1 /\ (k - 1) + 1 = k
    BY <1>1, <2>3
  <2>6. PICK g \in 1 .. Len(sizes) : End(sizes, g) = k - 1
    BY <2>4, <2>5 DEF id
  <2>7. k - 1 < j /\ ~(k - 1 < i)
    BY <1>1, <2>3
  <2>8. g \in DOMAIN sizes
    BY <1>1
  <2> QED BY <2>6, <2>7, <2>8
<1>7. before(i) = before(j) <=> id(i) = id(j)
  <2>1. CASE id(i) = id(j)
    BY <1>3, <1>5, <2>1
  <2>2. CASE id(i) # id(j)
    BY <1>6, <2>2
  <2> QED BY <2>1, <2>2
<1> QED BY <1>4, <1>7 DEF id

\* A file with a positive label has rows; its positive rows are not more than its
\* searches, those not more than its rows, and all of them were logged with
\* results.
LEMMA CountsOf ==
    ASSUME NEW logs \in Seq(Logged), NEW rows, Fine(rows, logs), PositiveCount(rows) > 0
    PROVE  /\ Len(rows) \in Nat \ {0}
           /\ PositiveCount(rows) \in 1 .. Cardinality(Searches(rows))
           /\ Cardinality(Searches(rows)) \in 1 .. LogLimit
           /\ Cardinality(Searches(rows)) <= Len(rows)
           /\ Cardinality(Searches(rows)) <=
                  Cardinality({i \in DOMAIN logs : logs[i].result_ids # <<>>})
<1> DEFINE pos == {n \in DOMAIN rows : rows[n].label > 0}
           logged == {i \in DOMAIN logs : logs[i].result_ids # <<>>}
           ids == Searches(rows)
<1>1. /\ rows \in Seq(Rows) /\ DOMAIN rows = 1 .. Len(rows) /\ Len(rows) \in Nat
      /\ IsFiniteSet(DOMAIN rows)
  BY FS_Interval DEF Fine
<1>2. IsFiniteSet(pos) /\ pos \subseteq DOMAIN rows /\ PositiveCount(rows) = Cardinality(pos)
  BY <1>1, FS_Subset DEF PositiveCount
<1>3. ids \subseteq logged
  <2> SUFFICES ASSUME NEW j \in DOMAIN rows PROVE rows[j].search_log_id \in logged
    BY DEF Searches
  <2>1. PICK id : id = rows[j].search_log_id
    OBVIOUS
  <2>2. id \in DOMAIN logs /\ rows[j].property_id \in Range(logs[id].result_ids)
    BY <2>1 DEF Fine
  <2>3. logs[id].result_ids # <<>>
    BY <2>2 DEF Range
  <2> QED BY <2>1, <2>2, <2>3
<1>4. IsFiniteSet(logged)
  <2>1. IsFiniteSet(DOMAIN logs)
    BY FS_Interval
  <2>2. logged \subseteq DOMAIN logs
    OBVIOUS
  <2> HIDE DEF logged
  <2> QED BY <2>1, <2>2, FS_Subset
<1>5. /\ IsFiniteSet(ids) /\ Cardinality(ids) \in Nat
      /\ Cardinality(ids) <= Cardinality(logged)
  <2> HIDE DEF ids, logged
  <2> QED BY <1>3, <1>4, FS_Subset, FS_CardinalityType
<1>6. Cardinality(pos) <= Cardinality(ids) /\ Cardinality(pos) \in Nat
  <2> DEFINE f == [n \in pos |-> rows[n].search_log_id]
  <2>1. f \in [pos -> ids]
    BY <1>2 DEF Searches
  <2>2. \A x, y \in pos : f[x] = f[y] => x = y
    BY <1>2 DEF Fine
  <2> HIDE DEF f, pos, ids
  <2> QED BY <1>5, <2>1, <2>2, MapsInto
<1>7. Cardinality(ids) <= Len(rows)
  <2> DEFINE f == [j \in DOMAIN rows |-> rows[j].search_log_id]
  <2>1. f \in Surjection(DOMAIN rows, ids)
    BY DEF Surjection, Searches
  <2>2. Cardinality(ids) <= Cardinality(DOMAIN rows)
    <3> HIDE DEF f, ids
    <3> QED BY <1>1, <2>1, FS_Surjection
  <2>3. Cardinality(DOMAIN rows) = Len(rows)
    <3>1. PICK m \in Nat : m = Len(rows)
      BY <1>1
    <3>2. Cardinality(1 .. m) = m
      BY FS_Interval
    <3> QED BY <1>1, <3>1, <3>2
  <2> HIDE DEF ids
  <2> QED BY <2>2, <2>3
<1>8. Cardinality(ids) <= LogLimit
  BY DEF Fine
<1>9. Cardinality(pos) > 0
  BY <1>2
<1> HIDE DEF pos, ids, logged
<1>10. /\ Len(rows) \in Nat \ {0}
       /\ Cardinality(pos) \in 1 .. Cardinality(ids)
       /\ Cardinality(ids) \in 1 .. LogLimit
  BY <1>1, <1>5, <1>6, <1>7, <1>8, <1>9, MetricConstants
<1> QED BY <1>2, <1>5, <1>7, <1>10 DEF ids, logged
-----------------------------------------------------------------------------
\* The inductive invariant: labels are whole; what the job holds and what the
\* file holds are fine for the logs as they are now, a file that is being written
\* exists, and rows that are about to be learned from have passed the checks.
IInv ==
    /\ TypeOK
    /\ retrain = [pc |-> retrain.pc, by |-> retrain.by, rows |-> retrain.rows,
                  group_sizes |-> retrain.group_sizes]
    /\ LabelsWhole(search_logs)
    /\ Fine(retrain.rows, search_logs)
    /\ train_csv = None \/ Fine(train_csv, search_logs)
    /\ retrain.pc = "write" => Fine(train_csv, search_logs)
    /\ retrain.pc = "save" =>
           /\ PositiveCount(retrain.rows) > 0
           /\ retrain.group_sizes = GroupSizes(retrain.rows)

\* The job and the file, without the logs.
Held(r, csv, logs) ==
    /\ r.pc \in {"idle", "fetch", "open", "write", "load", "save"}
    /\ r.by \in {None, "weekly", "builder", "trainer"}
    /\ r.group_sizes \in Seq(Positive)
    /\ r = [pc |-> r.pc, by |-> r.by, rows |-> r.rows, group_sizes |-> r.group_sizes]
    /\ Fine(r.rows, logs)
    /\ csv = None \/ Fine(csv, logs)
    /\ r.pc = "write" => Fine(csv, logs)
    /\ r.pc = "save" => PositiveCount(r.rows) > 0 /\ r.group_sizes = GroupSizes(r.rows)

Models == [rows : Nat \ {0}, queries : 1 .. LogLimit, positive_rows : 1 .. LogLimit]

Outside ==
    /\ search_logs \in Seq(Logged) /\ Len(search_logs) <= MaxLogs /\ LabelsWhole(search_logs)
    /\ property_features \subseteq Properties
    /\ adopt_lgbm \in BOOLEAN \cup {None}
    /\ model = None \/ model \in Models

LEMMA IInvIs == IInv <=> Outside /\ Held(retrain, train_csv, search_logs)
BY Zenon DEF IInv, TypeOK, Outside, Held, Fine, Logged, Models, Positive

LEMMA IInvNext == IInv' <=> Outside' /\ Held(retrain', train_csv', search_logs')
BY Zenon DEF IInv, TypeOK, Outside, Held, Fine, Logged, Models, Positive, LabelsWhole

LEMMA NoRows == ASSUME NEW logs PROVE Fine(<<>>, logs)
<1>1. <<>> \in Seq(Rows) /\ DOMAIN <<>> = {}
  OBVIOUS
<1>2. Searches(<<>>) = {}
  BY <1>1 DEF Searches
<1>3. Cardinality(Searches(<<>>)) <= LogLimit
  BY <1>2, FS_EmptySet, MetricConstants
<1> QED BY <1>1, <1>3 DEF Fine

\* Without a job only the file counts.
LEMMA IdleHeld ==
    ASSUME NEW csv, NEW logs, csv = None \/ Fine(csv, logs)
    PROVE  Held(Idle, csv, logs)
BY NoRows, SMT DEF Held, Idle, Positive

LEMMA InitInv == Init => IInv
<1> SUFFICES ASSUME Init PROVE IInv
  OBVIOUS
<1>1. Outside
  BY RetrainingConstants DEF Init, Outside, LabelsWhole
<1>2. Held(retrain, train_csv, search_logs)
  BY IdleHeld DEF Init
<1> QED BY <1>1, <1>2, IInvIs
-----------------------------------------------------------------------------
\* What a search or a feedback does to the logs.
LEMMA SearchKeeps ==
    ASSUME Outside, Search
    PROVE  Outside' /\ Continues(search_logs', search_logs)
<1>1. PICK s \in Lists :
          search_logs' = Append(search_logs,
              [result_ids |-> s, actioned_id |-> None, action_type |-> None])
  BY DEF Search
<1> DEFINE log == [result_ids |-> s, actioned_id |-> None, action_type |-> None]
<1>2. log \in Logged /\ log.action_type = None /\ log.actioned_id = None
  BY DEF Logged
<1>3. search_logs \in Seq(Logged) /\ Len(search_logs) < MaxLogs /\ MaxLogs \in Nat
  BY RetrainingConstants DEF Outside, Search
<1> HIDE DEF log
<1>4. /\ search_logs' \in Seq(Logged) /\ Len(search_logs') = Len(search_logs) + 1
      /\ \A i \in 1 .. Len(search_logs) : search_logs'[i] = search_logs[i]
      /\ search_logs'[Len(search_logs) + 1] = log
  BY <1>1, <1>2, <1>3, AppendProperties DEF log
<1>5. Continues(search_logs', search_logs)
  BY <1>3, <1>4 DEF Continues
<1>6. LabelsWhole(search_logs')
  <2>1. \A i \in DOMAIN search_logs' : i \in DOMAIN search_logs \/ i = Len(search_logs) + 1
    BY <1>3, <1>4
  <2>2. \A i \in DOMAIN search_logs : search_logs'[i] = search_logs[i]
    BY <1>3, <1>4
  <2> QED BY <1>2, <1>4, <2>1, <2>2 DEF Outside, LabelsWhole
<1>7. Len(search_logs') <= MaxLogs
  BY <1>3, <1>4
<1>8. UNCHANGED <<property_features, adopt_lgbm, model>>
  BY DEF Search
<1>9. (/\ property_features \subseteq Properties
       /\ adopt_lgbm \in BOOLEAN \cup {None}
       /\ model = None \/ model \in Models)'
  BY <1>8 DEF Outside
<1> QED BY <1>4, <1>5, <1>6, <1>7, <1>9 DEF Outside

LEMMA FeedbackKeeps ==
    ASSUME Outside, NEW i \in DOMAIN search_logs, NEW p \in Properties, NEW a \in Actions,
           Feedback(i, p, a)
    PROVE  Outside' /\ Continues(search_logs', search_logs)
<1>1. search_logs' = [search_logs EXCEPT ![i].actioned_id = p, ![i].action_type = a]
  BY DEF Feedback
<1>2. search_logs \in Seq(Logged) /\ Len(search_logs) <= MaxLogs
  BY DEF Outside
<1>3. /\ search_logs[i] \in Logged
      /\ [search_logs[i] EXCEPT !.actioned_id = p, !.action_type = a] \in Logged
  <2>1. \A log \in Logged : [log EXCEPT !.actioned_id = p, !.action_type = a] \in Logged
    BY DEF Logged
  <2>2. search_logs[i] \in Logged
    BY <1>2
  <2> QED BY <2>1, <2>2
<1>4. /\ search_logs' \in Seq(Logged) /\ Len(search_logs') = Len(search_logs)
      /\ DOMAIN search_logs' = DOMAIN search_logs
  <2>1. search_logs' = [search_logs EXCEPT
            ![i] = [search_logs[i] EXCEPT !.actioned_id = p, !.action_type = a]]
    BY <1>1, <1>2
  <2> QED BY <1>2, <1>3, <2>1
<1>5. p # None /\ a # None
  BY MetricConstants
<1>6. /\ search_logs'[i].actioned_id = p /\ search_logs'[i].action_type = a
      /\ \A j \in DOMAIN search_logs :
             /\ search_logs'[j].result_ids = search_logs[j].result_ids
             /\ j # i => search_logs'[j] = search_logs[j]
  BY <1>1, <1>2, <1>3 DEF Logged
<1>7. Continues(search_logs', search_logs)
  BY <1>4, <1>5, <1>6 DEF Continues
<1>8. LabelsWhole(search_logs')
  BY <1>4, <1>5, <1>6 DEF LabelsWhole, Outside
<1>9. UNCHANGED <<property_features, adopt_lgbm, model>>
  BY DEF Feedback
<1>10. (/\ property_features \subseteq Properties
        /\ adopt_lgbm \in BOOLEAN \cup {None}
        /\ model = None \/ model \in Models)'
  BY <1>9 DEF Outside
<1> QED BY <1>2, <1>4, <1>7, <1>8, <1>10 DEF Outside

\* What the job holds stays fine for logs that continue.
LEMMA HeldStill ==
    ASSUME NEW r, NEW csv, NEW old, NEW logs, Held(r, csv, old), Continues(logs, old)
    PROVE  Held(r, csv, logs)
BY FineStill DEF Held

\* The steps of the job, on what it holds.
LEMMA FetchHeld ==
    ASSUME Outside, NEW r, NEW csv, Held(r, csv, search_logs), NEW features
    PROVE  Held([r EXCEPT !.pc = "open", !.rows = TrainingRows(search_logs, features)],
                csv, search_logs)
<1> DEFINE rows == TrainingRows(search_logs, features)
           t == [r EXCEPT !.pc = "open", !.rows = rows]
<1>1. Fine(rows, search_logs)
  BY TrainingRowsFine DEF Outside
<1> HIDE DEF rows
<1>2. PICK a, b, c, d : /\ a = r.pc /\ b = r.by /\ c = r.rows /\ d = r.group_sizes
                       /\ r \in [pc : {a}, by : {b}, rows : {c}, group_sizes : {d}]
  BY DEF Held
<1>3. t \in [pc : {"open"}, by : {b}, rows : {rows}, group_sizes : {d}]
  BY <1>2
<1> HIDE DEF t
<1>4. /\ t.pc = "open" /\ t.by = r.by /\ t.rows = rows /\ t.group_sizes = r.group_sizes
      /\ t = [pc |-> t.pc, by |-> t.by, rows |-> t.rows, group_sizes |-> t.group_sizes]
  BY <1>2, <1>3
<1>5. Held(t, csv, search_logs)
  BY <1>1, <1>4 DEF Held
<1> QED BY <1>5 DEF t, rows

LEMMA OpenHeld ==
    ASSUME NEW r, NEW csv, NEW logs, Held(r, csv, logs)
    PROVE  Held([r EXCEPT !.pc = "write"], <<>>, logs)
<1> DEFINE t == [r EXCEPT !.pc = "write"]
<1>1. r = [pc |-> r.pc, by |-> r.by, rows |-> r.rows, group_sizes |-> r.group_sizes]
  BY DEF Held
<1>2. /\ t.pc = "write" /\ t.by = r.by /\ t.rows = r.rows /\ t.group_sizes = r.group_sizes
      /\ t = [pc |-> t.pc, by |-> t.by, rows |-> t.rows, group_sizes |-> t.group_sizes]
  BY <1>1
<1> HIDE DEF t
<1>3. Held(t, <<>>, logs)
  BY <1>2, NoRows DEF Held
<1> QED BY <1>3 DEF t

LEMMA FlushHeld ==
    ASSUME NEW r, NEW csv, NEW logs, Held(r, csv, logs), r.pc = "write",
           NEW n \in Int, n <= Len(r.rows)
    PROVE  Held(r, SubSeq(r.rows, 1, n), logs)
BY FineStart DEF Held

LEMMA CloseHeld ==
    ASSUME NEW r, NEW csv, NEW logs, Held(r, csv, logs)
    PROVE  Held([r EXCEPT !.pc = "load", !.rows = <<>>], csv, logs)
<1> DEFINE t == [r EXCEPT !.pc = "load", !.rows = <<>>]
<1>1. PICK a, b, c, d : /\ a = r.pc /\ b = r.by /\ c = r.rows /\ d = r.group_sizes
                       /\ r \in [pc : {a}, by : {b}, rows : {c}, group_sizes : {d}]
  BY DEF Held
<1>2. t \in [pc : {"load"}, by : {b}, rows : {<<>>}, group_sizes : {d}]
  BY <1>1
<1> HIDE DEF t
<1>3. /\ t.pc = "load" /\ t.by = r.by /\ t.rows = <<>> /\ t.group_sizes = r.group_sizes
      /\ t = [pc |-> t.pc, by |-> t.by, rows |-> t.rows, group_sizes |-> t.group_sizes]
  BY <1>1, <1>2
<1>4. Held(t, csv, logs)
  BY <1>3, NoRows DEF Held
<1> QED BY <1>4 DEF t

LEMMA LoadHeld ==
    ASSUME NEW r, NEW csv, NEW logs \in Seq(Logged), Held(r, csv, logs), csv # None,
           PositiveCount(csv) > 0
    PROVE  Held([r EXCEPT !.pc = "save", !.rows = csv, !.group_sizes = GroupSizes(csv)],
                csv, logs)
<1> DEFINE t == [r EXCEPT !.pc = "save", !.rows = csv, !.group_sizes = GroupSizes(csv)]
<1>1. Fine(csv, logs)
  BY DEF Held
<1>2. GroupSizes(csv) \in Seq(Positive)
  <2>1. Len(csv) \in Nat \ {0}
    BY <1>1, CountsOf
  <2>2. csv \in Seq(Rows) /\ InOrder(csv)
    BY <1>1 DEF Fine, InOrder
  <2> QED BY <2>1, <2>2, Groups
<1>3. PICK a, b, c, d : /\ a = r.pc /\ b = r.by /\ c = r.rows /\ d = r.group_sizes
                       /\ r \in [pc : {a}, by : {b}, rows : {c}, group_sizes : {d}]
  BY DEF Held
<1>4. t \in [pc : {"save"}, by : {b}, rows : {csv}, group_sizes : {GroupSizes(csv)}]
  BY <1>3
<1> HIDE DEF t
<1>5. /\ t.pc = "save" /\ t.by = r.by /\ t.rows = csv /\ t.group_sizes = GroupSizes(csv)
      /\ t = [pc |-> t.pc, by |-> t.by, rows |-> t.rows, group_sizes |-> t.group_sizes]
  BY <1>3, <1>4
<1>6. Held(t, csv, logs)
  BY <1>1, <1>2, <1>5 DEF Held
<1> QED BY <1>6 DEF t

\* What is learned has counts that the metadata file can show.
LEMMA ModelTyped ==
    ASSUME NEW logs \in Seq(Logged), NEW r, NEW csv, Held(r, csv, logs), r.pc = "save"
    PROVE  /\ [rows |-> Len(r.rows), queries |-> Len(r.group_sizes),
               positive_rows |-> PositiveCount(r.rows)] \in Models
           /\ PositiveCount(r.rows) \in 1 .. Len(r.group_sizes)
           /\ Len(r.group_sizes) <= Len(r.rows)
           /\ Len(r.group_sizes) <= Cardinality({i \in DOMAIN logs : logs[i].result_ids # <<>>})
<1> DEFINE ids == Searches(r.rows)
           logged == {i \in DOMAIN logs : logs[i].result_ids # <<>>}
<1>1. Fine(r.rows, logs) /\ PositiveCount(r.rows) > 0 /\ r.group_sizes = GroupSizes(r.rows)
  BY DEF Held
<1>2. /\ Len(r.rows) \in Nat \ {0} /\ PositiveCount(r.rows) \in 1 .. Cardinality(ids)
      /\ Cardinality(ids) \in 1 .. LogLimit /\ Cardinality(ids) <= Len(r.rows)
      /\ Cardinality(ids) <= Cardinality(logged)
  BY <1>1, CountsOf
<1>3. r.rows \in Seq(Rows) /\ InOrder(r.rows)
  BY <1>1 DEF Fine, InOrder
<1>4. Len(r.group_sizes) = Cardinality(ids)
  BY <1>1, <1>2, <1>3, Groups
<1> HIDE DEF ids, logged
<1>5. PositiveCount(r.rows) \in 1 .. LogLimit
  BY <1>2, MetricConstants
<1> QED BY <1>2, <1>4, <1>5 DEF Models, logged
-----------------------------------------------------------------------------
\* A step of the job that leaves the tables alone.
LEMMA JobKeeps ==
    ASSUME Outside, UNCHANGED inputs, model' = None \/ model' \in Models,
           Held(retrain', train_csv', search_logs)
    PROVE  IInv'
<1>1. Outside'
  BY DEF Outside, inputs, LabelsWhole
<1>2. search_logs' = search_logs
  BY DEF inputs
<1>3. Held(retrain', train_csv', search_logs')
  BY <1>2
<1> QED BY <1>1, <1>3, IInvNext

LEMMA StepInv == IInv /\ [Next]_vars => IInv'
<1> SUFFICES ASSUME IInv, [Next]_vars PROVE IInv'
  OBVIOUS
<1>1. /\ Outside /\ Held(retrain, train_csv, search_logs)
      /\ model = None \/ model \in Models
      /\ train_csv = None \/ Fine(train_csv, search_logs)
  BY IInvIs DEF Outside, Held
<1>2. ASSUME Outside', Continues(search_logs', search_logs), UNCHANGED <<train_csv, retrain>>
      PROVE  IInv'
  <2>1. Held(retrain, train_csv, search_logs')
    BY <1>1, <1>2, HeldStill
  <2>2. Held(retrain', train_csv', search_logs')
    BY <1>2, <2>1
  <2> QED BY <1>2, <2>2, IInvNext
<1>3. CASE Search
  BY <1>1, <1>2, <1>3, SearchKeeps DEF Search
<1>4. ASSUME NEW i \in DOMAIN search_logs, NEW p \in Properties, NEW a \in Actions,
             Feedback(i, p, a)
      PROVE  IInv'
  BY <1>1, <1>2, <1>4, FeedbackKeeps DEF Feedback
<1>5. ASSUME UNCHANGED search_logs PROVE Continues(search_logs', search_logs)
  BY <1>5 DEF Continues
<1>6. CASE DailyFeatures
  <2>1. Outside'
    BY <1>1, <1>6, Zenon DEF DailyFeatures, Outside, LabelsWhole
  <2> QED BY <1>2, <1>5, <1>6, <2>1 DEF DailyFeatures
<1>7. CASE Decide
  <2>1. Outside'
    BY <1>1, <1>7, Zenon DEF Decide, Outside, LabelsWhole
  <2> QED BY <1>2, <1>5, <1>7, <2>1 DEF Decide
<1>8. CASE Permitted \/ Generate \/ Fit
  <2>1. \A r : (/\ r.pc \in {"fetch", "load"} /\ r.by \in {"weekly", "builder", "trainer"}
                /\ r.rows = <<>> /\ r.group_sizes = <<>>
                /\ r = [pc |-> r.pc, by |-> r.by, rows |-> r.rows, group_sizes |-> r.group_sizes])
               => Held(r, train_csv, search_logs)
    BY <1>1, NoRows, SMT DEF Held, Positive
  <2>2. PICK pc \in {"fetch", "load"}, by \in {"weekly", "builder", "trainer"} :
            retrain' = [pc |-> pc, by |-> by, rows |-> <<>>, group_sizes |-> <<>>]
    BY <1>8 DEF Permitted, Generate, Fit, Idle
  <2>3. PICK r : r = retrain'
    OBVIOUS
  <2>4. Held(r, train_csv, search_logs)
    BY <2>1, <2>2, <2>3
  <2>5. UNCHANGED <<inputs, train_csv, model>>
    BY <1>8 DEF Permitted, Generate, Fit
  <2> QED BY <1>1, <2>3, <2>4, <2>5, JobKeeps
<1>9. CASE FetchTrainingRows
  BY <1>1, <1>9, FetchHeld, JobKeeps DEF FetchTrainingRows
<1>10. CASE OpenCsv
  BY <1>1, <1>10, OpenHeld, JobKeeps DEF OpenCsv
<1>11. CASE FlushRows
  <2>1. PICK n \in Len(train_csv) + 1 .. Len(retrain.rows) :
            train_csv' = SubSeq(retrain.rows, 1, n)
    BY <1>11 DEF FlushRows
  <2>2. retrain.pc = "write" /\ UNCHANGED <<inputs, model, retrain>>
    BY <1>11 DEF FlushRows
  <2>3. Fine(train_csv, search_logs) /\ Fine(retrain.rows, search_logs)
    BY <1>1, <2>2 DEF Held
  <2>4. n \in Int /\ n <= Len(retrain.rows)
    <3>1. train_csv \in Seq(Rows) /\ retrain.rows \in Seq(Rows)
      BY <2>3 DEF Fine
    <3> QED BY <2>1, <3>1
  <2>5. Held(retrain', train_csv', search_logs)
    BY <1>1, <2>1, <2>2, <2>4, FlushHeld
  <2> QED BY <1>1, <2>2, <2>5, JobKeeps
<1>12. CASE CloseCsv
  BY <1>1, <1>12, CloseHeld, IdleHeld, JobKeeps DEF CloseCsv
<1>13. CASE LoadTrainingData
  <2>1. search_logs \in Seq(Logged)
    BY <1>1 DEF Outside
  <2> QED BY <1>1, <1>13, <2>1, LoadHeld, JobKeeps DEF LoadTrainingData
<1>14. CASE SaveModel
  <2>1. search_logs \in Seq(Logged)
    BY <1>1 DEF Outside
  <2>2. model' \in Models
    BY <1>1, <1>14, <2>1, ModelTyped DEF SaveModel
  <2>3. Held(Idle, train_csv, search_logs)
    BY <1>1, IdleHeld
  <2> QED BY <1>1, <1>14, <2>2, <2>3, JobKeeps DEF SaveModel
<1>15. CASE RetrainEnd
  BY <1>1, <1>15, IdleHeld, JobKeeps DEF RetrainEnd
<1>16. CASE UNCHANGED vars
  BY <1>1, <1>16, JobKeeps DEF vars
<1> QED BY <1>3, <1>4, <1>6, <1>7, <1>8, <1>9, <1>10, <1>11, <1>12, <1>13, <1>14, <1>15,
           <1>16 DEF Next

\* Every state of the system is as IInv says.
THEOREM Invariance == Spec => []IInv
BY InitInv, StepInv, PTL DEF Spec

\* Training rows are about logged searches, have grades for labels, and make
\* groups that are not empty; a model's counts are positive and within the limit
\* of the query.
THEOREM Types == Spec => []TypeOK
<1>1. IInv => TypeOK
  BY DEF IInv
<1> QED BY <1>1, Invariance, PTL

\* In a state that IInv allows, the groups are those of the searches: by Groups the
\* ends of the groups are where the search changes, and by SameGroup rows between
\* the same ends have the same search.
LEMMA GroupsOfLogs == IInv => GroupsMatchLogs
<1> SUFFICES ASSUME IInv, retrain.pc = "save" PROVE GroupsMatchLogs
  BY DEF GroupsMatchLogs
<1> DEFINE rows == retrain.rows
           sizes == retrain.group_sizes
<1>1. /\ search_logs \in Seq(Logged) /\ Fine(rows, search_logs) /\ PositiveCount(rows) > 0
      /\ sizes = GroupSizes(rows)
  BY DEF IInv, TypeOK, Logged
<1>2. Len(rows) \in Nat \ {0} /\ rows \in Seq(Rows) /\ InOrder(rows)
  <2>1. Len(rows) \in Nat \ {0}
    BY <1>1, CountsOf
  <2> QED BY <1>1, <2>1 DEF Fine, InOrder
<1> HIDE DEF rows, sizes
<1>3. /\ sizes \in Seq(Positive) /\ Sum(sizes) = Len(rows)
      /\ \A g \in 1 .. Len(sizes) : End(sizes, g) \in Nat
      /\ \A i \in 1 .. Len(rows) - 1 :
             rows[i].search_log_id # rows[i + 1].search_log_id
             <=> \E g \in 1 .. Len(sizes) : End(sizes, g) = i
  BY <1>1, <1>2, Groups
<1>4. \A i \in DOMAIN rows :
          GroupOf(i) = Cardinality({g \in DOMAIN sizes : End(sizes, g) < i})
  BY DEF GroupOf, End, sizes
<1>5. ASSUME NEW i \in DOMAIN rows, NEW j \in DOMAIN rows, i <= j
      PROVE  GroupOf(i) = GroupOf(j) <=> rows[i].search_log_id = rows[j].search_log_id
  <2>1. Cardinality({g \in DOMAIN sizes : End(sizes, g) < i})
          = Cardinality({g \in DOMAIN sizes : End(sizes, g) < j})
        <=> rows[i].search_log_id = rows[j].search_log_id
    BY <1>2, <1>3, <1>5, SameGroup
  <2> HIDE DEF GroupOf
  <2> QED BY <1>4, <2>1, Zenon
<1>6. ASSUME NEW i \in DOMAIN rows, NEW j \in DOMAIN rows
      PROVE  GroupOf(i) = GroupOf(j) <=> rows[i].search_log_id = rows[j].search_log_id
  <2>1. i \in Nat /\ j \in Nat
    BY <1>2
  <2>2. CASE i <= j
    BY <1>5, <2>2
  <2>3. CASE j <= i
    BY <1>5, <2>3
  <2> QED BY <2>1, <2>2, <2>3
<1> QED BY <1>3, <1>6 DEF GroupsMatchLogs, rows, sizes

\* The group sizes that LightGBM is given cut the rows exactly at the ends of the
\* searches, for files of any length, parts of files that a killed job left, and
\* logs that changed since.
THEOREM GroupsAlwaysMatch == Spec => []GroupsMatchLogs
BY Invariance, GroupsOfLogs, PTL

\* However late the rows are read, and by whichever command, a search has one
\* positive row at most, for one of its results, and only if it has a label.
THEOREM LabelsAlwaysReach == Spec => []LabelsReachTraining
<1>1. ASSUME NEW rows, Fine(rows, search_logs), NEW i \in DOMAIN rows
      PROVE  LET id == rows[i].search_log_id IN
             /\ rows[i].property_id \in Range(search_logs[id].result_ids)
             /\ rows[i].label > 0 =>
                    /\ search_logs[id].actioned_id # None
                    /\ \A j \in DOMAIN rows \ {i} :
                           rows[j].search_log_id = id => rows[j].label = 0
  <2>1. \A j \in DOMAIN rows : rows[j].label \in 0 .. 3
    <3>1. \A r \in Rows : r.label \in 0 .. 3
      BY DEF Rows
    <3>2. rows \in Seq(Rows)
      BY <1>1 DEF Fine
    <3> QED BY <3>1, <3>2
  <2>2. \A j \in DOMAIN rows : ~(rows[j].label > 0) => rows[j].label = 0
    BY <2>1
  <2> QED BY <1>1, <2>2 DEF Fine
<1>2. IInv => LabelsReachTraining
  <2> SUFFICES ASSUME IInv PROVE LabelsReachTraining
    OBVIOUS
  <2>1. Fine(retrain.rows, search_logs)
    BY DEF IInv
  <2>2. Fine(IF train_csv = None THEN <<>> ELSE train_csv, search_logs)
    BY NoRows DEF IInv
  <2> QED BY <1>1, <2>1, <2>2 DEF LabelsReachTraining
<1> QED BY <1>2, Invariance, PTL

\* A new model has learned from a choice of a user, from as many groups as it
\* has positive rows at least, and from no more searches than were logged.
THEOREM AlwaysLearned == Spec => ModelLearned
<1>1. IInv /\ [Next]_vars =>
          [model' # model =>
              /\ model'.positive_rows \in 1 .. model'.queries
              /\ model'.queries <= model'.rows
              /\ model'.queries <=
                     Cardinality({i \in DOMAIN search_logs : search_logs[i].result_ids # <<>>})]_vars
  <2> SUFFICES ASSUME IInv, [Next]_vars, model' # model
               PROVE  /\ model'.positive_rows \in 1 .. model'.queries
                      /\ model'.queries <= model'.rows
                      /\ model'.queries <=
                             Cardinality({i \in DOMAIN search_logs :
                                             search_logs[i].result_ids # <<>>})
    OBVIOUS
  <2>1. SaveModel
    BY DEF Next, vars, Search, Feedback, DailyFeatures, Decide, Permitted, Generate, Fit,
       FetchTrainingRows, OpenCsv, FlushRows, CloseCsv, LoadTrainingData, RetrainEnd
  <2>2. /\ search_logs \in Seq(Logged) /\ Held(retrain, train_csv, search_logs)
        /\ retrain.pc = "save"
    BY <2>1, IInvIs DEF SaveModel, Outside
  <2>3. /\ PositiveCount(retrain.rows) \in 1 .. Len(retrain.group_sizes)
        /\ Len(retrain.group_sizes) <= Len(retrain.rows)
        /\ Len(retrain.group_sizes) <=
               Cardinality({i \in DOMAIN search_logs : search_logs[i].result_ids # <<>>})
    BY <2>2, ModelTyped
  <2>4. /\ model'.rows = Len(retrain.rows) /\ model'.queries = Len(retrain.group_sizes)
        /\ model'.positive_rows = PositiveCount(retrain.rows)
    BY <2>1 DEF SaveModel
  <2> QED BY <2>3, <2>4
<1> QED BY <1>1, Invariance, PTL DEF Spec, ModelLearned
=============================================================================
