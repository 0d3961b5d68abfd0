----------------------------- MODULE Chunks_proofs -----------------------------
(****************************************************************************)
(* Lemmas on what the loops and sorts of the models are made of, for any    *)
(* sequences: induction, recursive functions, sorting, and the type of what *)
(* samplesToChunks returns.                                                 *)
(****************************************************************************)
EXTENDS Chunks, FiniteSetTheorems, WellFoundedInduction, TLAPS

------------------------------------------------------------------------------
(* Induction *)

LEMMA NatInduct ==
    ASSUME NEW G, 0 \in G, \A n \in Nat : n \in G => n + 1 \in G
    PROVE  Nat \subseteq G
<1> DEFINE Bad == {n \in Nat : n \notin G}
<1>1. SUFFICES ASSUME Bad # {} PROVE FALSE
  OBVIOUS
<1>2. PICK m \in Bad : \A k \in Bad : ~(<<k, m>> \in OpToRel(<, Nat))
  <2>1. Bad \subseteq Nat
    OBVIOUS
  <2> HIDE DEF Bad
  <2> QED BY <1>1, <2>1, WFMin, NatLessThanWellFounded
<1>3. \A k \in Nat : k < m => k \in G
  BY <1>2 DEF OpToRel
<1>4. m \in Nat /\ m \notin G
  BY <1>2
<1>5. m # 0 /\ m - 1 \in Nat /\ m - 1 < m /\ (m - 1) + 1 = m
  BY <1>4
<1>6. m - 1 \in G
  BY <1>3, <1>5
<1>7. (m - 1) + 1 \in G
  BY <1>5, <1>6
<1> QED BY <1>4, <1>5, <1>7

LEMMA IntervalInduct ==
    ASSUME NEW n \in Nat, NEW G, 0 \in G, \A i \in 1..n : i - 1 \in G => i \in G
    PROVE  0..n \subseteq G
<1> DEFINE H == {i \in Nat : i <= n => i \in G}
<1>1. 0 \in H
  OBVIOUS
<1>2. ASSUME NEW i \in Nat, i \in H PROVE i + 1 \in H
  <2>1. SUFFICES ASSUME i + 1 <= n PROVE i + 1 \in G
    OBVIOUS
  <2>2. i \in G /\ i + 1 \in 1..n /\ (i + 1) - 1 = i
    BY <1>2, <2>1
  <2> QED BY <2>2
<1> HIDE DEF H
<1>3. Nat \subseteq H
  BY <1>1, <1>2, NatInduct
<1> QED BY <1>3 DEF H

LEMMA SubsetInduct ==
    ASSUME NEW S, IsFiniteSet(S), NEW G,
           \A U \in SUBSET S : (\A V \in SUBSET U : V # U => V \in G) => U \in G
    PROVE  S \in G
<1> DEFINE Bad == {U \in SUBSET S : U \notin G}
<1>1. SUFFICES ASSUME Bad # {} PROVE FALSE
  OBVIOUS
<1>2. IsWellFoundedOn(StrictSubsetOrdering(S), SUBSET S)
  BY FS_StrictSubsetOrderingWellFounded, FS_FiniteSubsetsOfFinite
<1>3. PICK U \in Bad : \A V \in Bad : ~(<<V, U>> \in StrictSubsetOrdering(S))
  <2>1. Bad \subseteq SUBSET S
    OBVIOUS
  <2> HIDE DEF Bad
  <2> QED BY <1>1, <1>2, <2>1, WFMin
<1>4. \A V \in SUBSET U : V # U => V \in G
  BY <1>3 DEF StrictSubsetOrdering
<1> QED BY <1>3, <1>4

(* What a fold is after each element, for a step that is a function.        *)
FoldIs(g, T, F, base, s) ==
    /\ g \in [0..Len(s) -> T] /\ g[0] = base
    /\ \A i \in 1..Len(s) : g[i] = F[g[i - 1]][s[i]]

LEMMA FoldExists ==
    ASSUME NEW T, NEW X, NEW F \in [T -> [X -> T]], NEW base \in T, NEW s \in Seq(X)
    PROVE  \E g : FoldIs(g, T, F, base, s)
<1> DEFINE Is(g, n) == /\ g \in [0..n -> T] /\ g[0] = base
                       /\ \A i \in 1..n : g[i] = F[g[i - 1]][s[i]]
           G == {n \in 0..Len(s) : \E g : Is(g, n)}
<1>0. Len(s) \in Nat /\ \A i \in 1..Len(s) : s[i] \in X
  OBVIOUS
<1>1. 0 \in G
  <2>1. Is([i \in 0..0 |-> base], 0)
    OBVIOUS
  <2>2. 0 \in 0..Len(s)
    BY <1>0
  <2> HIDE DEF Is
  <2> QED BY <2>1, <2>2
<1>2. ASSUME NEW n \in 1..Len(s), n - 1 \in G PROVE n \in G
  <2>1. PICK g : Is(g, n - 1)
    BY <1>2
  <2>2. n \in Nat /\ n - 1 \in 0..(n - 1) /\ g[n - 1] \in T
    BY <1>0, <2>1
  <2> DEFINE h == [i \in 0..n |-> IF i < n THEN g[i] ELSE F[g[n - 1]][s[n]]]
  <2>3. h \in [0..n -> T]
    <3>1. F[g[n - 1]][s[n]] \in T
      BY <1>0, <2>2
    <3> QED BY <2>1, <2>2, <3>1
  <2>4. h[0] = base
    BY <2>1, <2>2
  <2>5. \A i \in 1..n : h[i] = F[h[i - 1]][s[i]]
    <3> SUFFICES ASSUME NEW i \in 1..n PROVE h[i] = F[h[i - 1]][s[i]]
      OBVIOUS
    <3>1. h[i - 1] = g[i - 1]
      BY <2>2
    <3>2. CASE i = n
      <4>1. h[n] = F[g[n - 1]][s[n]]
        BY <2>2
      <4> QED BY <3>1, <3>2, <4>1
    <3>3. CASE i < n
      BY <2>1, <2>2, <3>1, <3>3
    <3> QED BY <2>2, <3>2, <3>3
  <2>6. Is(h, n)
    BY <2>3, <2>4, <2>5
  <2> HIDE DEF Is
  <2> QED BY <1>0, <2>6
<1> HIDE DEF G
<1>3. Len(s) \in G
  <2>1. 0..Len(s) \subseteq G
    BY <1>0, <1>1, <1>2, IntervalInduct
  <2> QED BY <1>0, <2>1
<1> QED BY <1>3 DEF G, FoldIs

------------------------------------------------------------------------------
(* Sequences *)

LEMMA AppendAt ==
    ASSUME NEW T, NEW s \in Seq(T), NEW x \in T
    PROVE  /\ Append(s, x) \in Seq(T) /\ Append(s, x) # <<>>
           /\ Len(Append(s, x)) = Len(s) + 1 /\ Len(s) \in Nat
           /\ DOMAIN s = 1..Len(s) /\ DOMAIN Append(s, x) = 1..(Len(s) + 1)
           /\ \A i \in DOMAIN s : i \in DOMAIN Append(s, x) /\ Append(s, x)[i] = s[i]
           /\ Append(s, x)[Len(s) + 1] = x /\ Len(s) + 1 \in DOMAIN Append(s, x)
           /\ \A i \in DOMAIN Append(s, x) : i \in DOMAIN s \/ i = Len(s) + 1
<1>1. Append(s, x) \in Seq(T) /\ Len(Append(s, x)) = Len(s) + 1 /\ Len(s) \in Nat
  OBVIOUS
<1>2. Append(s, x) # <<>>
  BY <1>1
<1>3. DOMAIN s = 1..Len(s) /\ DOMAIN Append(s, x) = 1..(Len(s) + 1)
  BY <1>1
<1>4. \A i \in 1..Len(s) : Append(s, x)[i] = s[i]
  OBVIOUS
<1>5. Append(s, x)[Len(s) + 1] = x
  OBVIOUS
<1> QED BY <1>1, <1>2, <1>3, <1>4, <1>5

LEMMA ConcatAt ==
    ASSUME NEW T, NEW s \in Seq(T), NEW t \in Seq(T)
    PROVE  /\ s \o t \in Seq(T) /\ DOMAIN s = 1..Len(s) /\ Len(s) \in Nat
           /\ \A i \in DOMAIN s : i \in DOMAIN (s \o t) /\ (s \o t)[i] = s[i]
           /\ \A k \in DOMAIN t : /\ Len(s) + k \in DOMAIN (s \o t)
                                  /\ (s \o t)[Len(s) + k] = t[k]
<1>1. s \o t \in Seq(T) /\ DOMAIN s = 1..Len(s) /\ Len(s) \in Nat
      /\ DOMAIN t = 1..Len(t) /\ Len(t) \in Nat
      /\ DOMAIN (s \o t) = 1..(Len(s) + Len(t))
  OBVIOUS
<1>2. \A i \in 1..Len(s) : (s \o t)[i] = s[i]
  OBVIOUS
<1>3. \A k \in 1..Len(t) : (s \o t)[Len(s) + k] = t[k]
  OBVIOUS
<1> QED BY <1>1, <1>2, <1>3

LEMMA TailAt ==
    ASSUME NEW T, NEW s \in Seq(T), s # <<>>
    PROVE  /\ Tail(s) \in Seq(T) /\ Head(s) \in T /\ Head(s) = s[1] /\ 1 \in DOMAIN s
           /\ \A i \in DOMAIN Tail(s) : i \in Nat \ {0} /\ i + 1 \in DOMAIN s /\ Tail(s)[i] = s[i + 1]
           /\ \A i \in DOMAIN s : i = 1 \/ (i - 1 \in DOMAIN Tail(s) /\ Tail(s)[i - 1] = s[i])
<1>1. /\ Tail(s) \in Seq(T) /\ Len(s) \in Nat /\ Len(s) # 0 /\ DOMAIN s = 1..Len(s)
      /\ Head(s) = s[1] /\ Len(Tail(s)) = Len(s) - 1 /\ DOMAIN Tail(s) = 1..(Len(s) - 1)
  OBVIOUS
<1>2. \A i \in 1..(Len(s) - 1) : Tail(s)[i] = s[i + 1]
  OBVIOUS
<1>3. Head(s) \in T /\ 1 \in DOMAIN s
  BY <1>1
<1>4. \A i \in DOMAIN Tail(s) : i \in Nat \ {0} /\ i + 1 \in DOMAIN s /\ Tail(s)[i] = s[i + 1]
  BY <1>1, <1>2
<1>5. ASSUME NEW i \in DOMAIN s
      PROVE  i = 1 \/ (i - 1 \in DOMAIN Tail(s) /\ Tail(s)[i - 1] = s[i])
  <2>1. SUFFICES ASSUME i # 1 PROVE i - 1 \in 1..(Len(s) - 1) /\ (i - 1) + 1 = i
    BY <1>1, <1>2
  <2> QED BY <1>1, <2>1
<1> QED BY <1>1, <1>3, <1>4, <1>5

LEMMA ToSetFinite ==
    ASSUME NEW T, NEW s \in Seq(T)
    PROVE  /\ IsFiniteSet(ToSet(s)) /\ ToSet(s) \in SUBSET T
           /\ \A x : x \in ToSet(s) <=> \E i \in DOMAIN s : s[i] = x
<1>1. Len(s) \in Nat /\ DOMAIN s = 1..Len(s) /\ \A i \in 1..Len(s) : s[i] \in T
  OBVIOUS
<1>2. ToSet(s) = {s[i] : i \in DOMAIN s}
  BY DEF ToSet
<1>3. IsFiniteSet(1..Len(s))
  BY <1>1, FS_Interval
<1>4. s \in Surjection(1..Len(s), ToSet(s))
  <2>1. s \in [1..Len(s) -> ToSet(s)]
    BY <1>1, <1>2
  <2> QED BY <1>1, <1>2, <2>1 DEF Surjection
<1>5. IsFiniteSet(ToSet(s))
  BY <1>3, <1>4, FS_Surjection
<1> QED BY <1>1, <1>2, <1>5

------------------------------------------------------------------------------
(* Sorting *)

SortedIs(s, S, key) ==
    /\ s \in [1..Cardinality(S) -> S]
    /\ {s[i] : i \in DOMAIN s} = S
    /\ \A i, j \in DOMAIN s : i < j => key[s[i]] <= key[s[j]]

(* A set that is not empty has an element that none comes after.            *)
LEMMA LastExists ==
    ASSUME NEW S, IsFiniteSet(S), S # {}, NEW key, \A x \in S : key[x] \in Nat
    PROVE  \E m \in S : \A x \in S : key[x] <= key[m]
<1> DEFINE G == {U \in SUBSET S : U # {} => \E m \in U : \A x \in U : key[x] <= key[m]}
<1>1. ASSUME NEW U \in SUBSET S, \A V \in SUBSET U : V # U => V \in G
      PROVE  U \in G
  <2>1. SUFFICES ASSUME U # {} PROVE \E m \in U : \A x \in U : key[x] <= key[m]
    OBVIOUS
  <2>2. PICK y \in U : TRUE
    BY <2>1
  <2>3. CASE U = {y}
    BY <2>3
  <2>4. CASE U # {y}
    <3>1. U \ {y} \in G /\ U \ {y} # {}
      BY <1>1, <2>2, <2>4
    <3>2. PICK m \in U \ {y} : \A x \in U \ {y} : key[x] <= key[m]
      BY <3>1
    <3>3. CASE key[y] <= key[m]
      BY <3>2, <3>3
    <3>4. CASE ~(key[y] <= key[m])
      <4>1. \A x \in U : key[x] <= key[y]
        BY <3>2, <3>4
      <4> QED BY <2>2, <4>1
    <3> QED BY <3>3, <3>4
  <2> QED BY <2>3, <2>4
<1> HIDE DEF G
<1>2. S \in G
  BY <1>1, SubsetInduct
<1> QED BY <1>2 DEF G

LEMMA SortExists ==
    ASSUME NEW S, IsFiniteSet(S), NEW key, \A x \in S : key[x] \in Nat
    PROVE  \E s : SortedIs(s, S, key)
<1> DEFINE G == {U \in SUBSET S : \E s : SortedIs(s, U, key)}
<1>1. ASSUME NEW U \in SUBSET S, \A V \in SUBSET U : V # U => V \in G
      PROVE  U \in G
  <2>0. IsFiniteSet(U)
    BY FS_Subset
  <2>1. CASE U = {}
    <3>1. SortedIs(<<>>, {}, key)
      BY FS_EmptySet DEF SortedIs
    <3> QED BY <2>1, <3>1
  <2>2. CASE U # {}
    <3>1. PICK m \in U : \A x \in U : key[x] <= key[m]
      BY <2>0, <2>2, LastExists
    <3> DEFINE V == U \ {m}
               n == Cardinality(V)
    <3>2. V \in G /\ IsFiniteSet(V)
      BY <1>1, <2>0, FS_Subset
    <3>3. n \in Nat /\ Cardinality(U) = n + 1
      <4>1. U = V \cup {m} /\ m \notin V
        OBVIOUS
      <4> QED BY <3>2, <4>1, FS_AddElement, FS_CardinalityType
    <3>4. PICK s : SortedIs(s, V, key)
      BY <3>2
    <3> DEFINE t == [i \in 1..(n + 1) |-> IF i <= n THEN s[i] ELSE m]
    <3>5. /\ s \in [1..n -> V] /\ \A v \in V : \E i \in 1..n : s[i] = v
          /\ \A i, j \in 1..n : i < j => key[s[i]] <= key[s[j]]
      BY <3>4 DEF SortedIs
    <3> HIDE DEF n
    <3>6. t \in [1..(n + 1) -> U]
      BY <3>3, <3>5
    <3>7. {t[i] : i \in 1..(n + 1)} = U
      <4>1. \A v \in U : \E i \in 1..(n + 1) : t[i] = v
        <5> SUFFICES ASSUME NEW v \in U PROVE \E i \in 1..(n + 1) : t[i] = v
          OBVIOUS
        <5>1. CASE v = m
          <6>1. n + 1 \in 1..(n + 1) /\ t[n + 1] = m
            BY <3>3
          <6> QED BY <5>1, <6>1
        <5>2. CASE v # m
          <6>1. PICK i \in 1..n : s[i] = v
            BY <3>5, <5>2
          <6>2. i \in 1..(n + 1) /\ t[i] = v
            BY <3>3, <6>1
          <6> QED BY <6>2
        <5> QED BY <5>1, <5>2
      <4> QED BY <3>6, <4>1
    <3>8. \A i, j \in 1..(n + 1) : i < j => key[t[i]] <= key[t[j]]
      <4> SUFFICES ASSUME NEW i \in 1..(n + 1), NEW j \in 1..(n + 1), i < j
                   PROVE  key[t[i]] <= key[t[j]]
        OBVIOUS
      <4>1. i \in 1..n /\ t[i] = s[i] /\ s[i] \in U
        BY <3>3, <3>5
      <4>2. CASE j \in 1..n
        BY <3>3, <3>5, <4>1, <4>2
      <4>3. CASE j = n + 1
        BY <3>1, <3>3, <4>1, <4>3
      <4> QED BY <3>3, <4>2, <4>3
    <3>9. DOMAIN t = 1..(n + 1)
      OBVIOUS
    <3> HIDE DEF t
    <3>10. SortedIs(t, U, key)
      BY <3>3, <3>6, <3>7, <3>8, <3>9 DEF SortedIs
    <3> QED BY <3>10
  <2> QED BY <2>1, <2>2
<1> HIDE DEF G
<1>2. S \in G
  BY <1>1, SubsetInduct
<1> QED BY <1>2 DEF G

(* A file holds the elements of the buffer, each once, in order.            *)
LEMMA SortedFile ==
    ASSUME NEW S, IsFiniteSet(S), NEW key, \A x \in S : key[x] \in Nat
    PROVE  /\ Sorted(S, key) \in Seq(S) /\ Len(Sorted(S, key)) = Cardinality(S)
           /\ {Sorted(S, key)[i] : i \in DOMAIN Sorted(S, key)} = S
           /\ \A i, j \in DOMAIN Sorted(S, key) :
                 /\ i < j => key[Sorted(S, key)[i]] <= key[Sorted(S, key)[j]]
                 /\ Sorted(S, key)[i] = Sorted(S, key)[j] => i = j
<1> DEFINE s == Sorted(S, key)
           n == Cardinality(S)
<1>1. SortedIs(s, S, key)
  <2>1. PICK t : SortedIs(t, S, key)
    BY SortExists
  <2>2. /\ t \in [1..Cardinality(S) -> S]
        /\ {t[i] : i \in DOMAIN t} = S
        /\ \A i, j \in DOMAIN t : i < j => key[t[i]] <= key[t[j]]
    BY <2>1 DEF SortedIs
  <2> QED BY <2>2 DEF SortedIs, Sorted
<1>2. n \in Nat
  BY FS_CardinalityType
<1> HIDE DEF s
<1>3. s \in [1..n -> S] /\ {s[i] : i \in 1..n} = S /\ DOMAIN s = 1..n
  BY <1>1 DEF SortedIs
<1>4. s \in Surjection(1..n, S)
  BY <1>3 DEF Surjection
<1>5. IsFiniteSet(1..n) /\ Cardinality(1..n) = n
  BY <1>2, FS_Interval
<1>6. s \in Injection(1..n, S)
  BY <1>4, <1>5, FS_SurjSameCardinalityImpliesInj
<1>7. \A i, j \in 1..n : s[i] = s[j] => i = j
  BY <1>6 DEF Injection, IsInjective
<1>8. s \in Seq(S) /\ Len(s) = n
  BY <1>2, <1>3
<1> QED BY <1>1, <1>3, <1>7, <1>8 DEF SortedIs, s

(* There is one order of a set by keys that differ.                         *)
Rises(s, S, key) ==
    /\ s \in Seq(S) /\ {s[i] : i \in DOMAIN s} = S
    /\ \A i, j \in DOMAIN s : i < j => key[s[i]] < key[s[j]]

LEMMA OneOrder ==
    ASSUME NEW S, NEW key, \A x \in S : key[x] \in Nat,
           NEW s, Rises(s, S, key), NEW t, Rises(t, S, key)
    PROVE  s = t
<1> DEFINE m == Len(s)
           l == Len(t)
           G == {n \in 0..m : n <= l /\ \A i \in 1..n : s[i] = t[i]}
<1>1. /\ s \in Seq(S) /\ m \in Nat /\ DOMAIN s = 1..m /\ t \in Seq(S) /\ l \in Nat /\ DOMAIN t = 1..l
      /\ \A i \in 1..m : s[i] \in S /\ key[s[i]] \in Nat
      /\ \A i \in 1..l : t[i] \in S /\ key[t[i]] \in Nat
  BY DEF Rises
<1>2. /\ \A x \in S : \E i \in 1..m : s[i] = x
      /\ \A x \in S : \E i \in 1..l : t[i] = x
      /\ \A i, j \in 1..m : i < j => key[s[i]] < key[s[j]]
      /\ \A i, j \in 1..l : i < j => key[t[i]] < key[t[j]]
  BY <1>1 DEF Rises
<1> HIDE DEF m, l
<1>3. \A x, y \in Nat : x < y => x # y
  OBVIOUS
<1>4. 0 \in G
  BY <1>1
<1>5. ASSUME NEW n \in 1..m, n - 1 \in G PROVE n \in G
  <2>1. n \in Nat /\ n - 1 <= l /\ \A i \in 1..(n - 1) : s[i] = t[i]
    BY <1>1, <1>5
  <2>2. ASSUME NEW j \in 1..l, t[j] = s[n] PROVE ~(j < n)
    <3>1. SUFFICES ASSUME j < n PROVE FALSE
      OBVIOUS
    <3>2. j \in 1..(n - 1) /\ j \in 1..m
      BY <1>1, <2>1, <3>1
    <3>3. s[j] = s[n] /\ key[s[j]] < key[s[n]]
      BY <1>2, <2>1, <2>2, <3>1, <3>2
    <3> QED BY <1>1, <1>3, <3>2, <3>3
  <2>3. PICK j \in 1..l : t[j] = s[n]
    BY <1>1, <1>2
  <2>4. n \in 1..l
    BY <1>1, <2>1, <2>2, <2>3
  <2>5. PICK i \in 1..m : s[i] = t[n]
    BY <1>1, <1>2, <2>4
  <2>6. ~(i < n)
    <3>1. SUFFICES ASSUME i < n PROVE FALSE
      OBVIOUS
    <3>2. i \in 1..(n - 1) /\ i \in 1..l
      BY <1>1, <2>1, <2>4, <3>1
    <3>3. t[i] = t[n] /\ key[t[i]] < key[t[n]]
      BY <1>2, <2>1, <2>4, <2>5, <3>1, <3>2
    <3> QED BY <1>1, <1>3, <2>4, <3>2, <3>3
  <2>7. s[n] = t[n]
    <3>1. CASE j = n
      BY <2>3, <3>1
    <3>2. CASE j # n
      <4>1. n < j /\ (i = n \/ n < i)
        BY <1>1, <2>1, <2>2, <2>3, <2>6, <3>2
      <4>2. key[t[n]] < key[s[n]]
        BY <1>2, <2>3, <2>4, <4>1
      <4>3. i = n \/ key[s[n]] < key[t[n]]
        BY <1>2, <2>5, <4>1
      <4>4. \A x, y \in Nat : ~(x < y /\ y < x)
        OBVIOUS
      <4> QED BY <1>1, <2>4, <2>5, <4>2, <4>3, <4>4
    <3> QED BY <3>1, <3>2
  <2>8. \A k \in 1..n : k \in 1..(n - 1) \/ k = n
    BY <2>1
  <2>9. n \in 0..m /\ n <= l
    BY <1>1, <2>4
  <2> QED BY <2>1, <2>7, <2>8, <2>9
<1> HIDE DEF G
<1>6. 0..m \subseteq G
  BY <1>1, <1>4, <1>5, IntervalInduct
<1>7. m <= l /\ \A i \in 1..m : s[i] = t[i]
  <2>1. m \in G
    BY <1>1, <1>6
  <2> QED BY <2>1 DEF G
<1>8. l <= m
  <2>1. SUFFICES ASSUME m < l PROVE FALSE
    BY <1>1
  <2>2. l \in 1..l
    BY <1>1, <2>1
  <2>3. PICK i \in 1..m : s[i] = t[l]
    BY <1>1, <1>2, <2>2
  <2>4. i \in 1..l /\ i < l /\ t[i] = t[l]
    BY <1>1, <1>7, <2>1, <2>3
  <2>5. key[t[i]] < key[t[l]]
    BY <1>2, <2>2, <2>4
  <2> QED BY <1>1, <1>3, <2>2, <2>4, <2>5
<1>9. m = l
  BY <1>1, <1>7, <1>8
<1> QED BY <1>1, <1>7, <1>9

LEMMA SortedIsRising ==
    ASSUME NEW S, IsFiniteSet(S), NEW key, \A x \in S : key[x] \in Nat,
           NEW s, Rises(s, S, key)
    PROVE  Sorted(S, key) = s
<1> DEFINE f == Sorted(S, key)
<1>1. /\ f \in Seq(S) /\ {f[i] : i \in DOMAIN f} = S
      /\ \A i, j \in DOMAIN f : /\ i < j => key[f[i]] <= key[f[j]]
                                /\ f[i] = f[j] => i = j
  BY SortedFile
<1> HIDE DEF f
<1>2. /\ s \in Seq(S) /\ \A x \in S : \E i \in DOMAIN s : s[i] = x
      /\ \A i, j \in DOMAIN s : i < j => key[s[i]] < key[s[j]]
  BY DEF Rises
<1>3. \A x, y \in S : key[x] = key[y] => x = y
  <2> SUFFICES ASSUME NEW x \in S, NEW y \in S, key[x] = key[y] PROVE x = y
    OBVIOUS
  <2>1. PICK i \in DOMAIN s : s[i] = x
    BY <1>2
  <2>2. PICK j \in DOMAIN s : s[j] = y
    BY <1>2
  <2>3. key[x] \in Nat /\ ~(key[x] < key[x])
    OBVIOUS
  <2>4. ~(i < j) /\ ~(j < i)
    BY <1>2, <2>1, <2>2, <2>3
  <2>5. i \in Nat /\ j \in Nat
    BY <1>2
  <2>6. i = j
    BY <2>4, <2>5
  <2> QED BY <2>1, <2>2, <2>6
<1>4. ASSUME NEW i \in DOMAIN f, NEW j \in DOMAIN f, i < j PROVE key[f[i]] < key[f[j]]
  <2>1. f[i] \in S /\ f[j] \in S /\ i \in Nat /\ j \in Nat
    BY <1>1
  <2>2. key[f[i]] \in Nat /\ key[f[j]] \in Nat /\ key[f[i]] <= key[f[j]]
    BY <1>1, <1>4, <2>1
  <2>3. key[f[i]] # key[f[j]]
    <3>1. i # j
      BY <1>4, <2>1
    <3> QED BY <1>1, <1>3, <2>1, <3>1
  <2> QED BY <2>2, <2>3
<1>5. Rises(f, S, key)
  BY <1>1, <1>4 DEF Rises
<1> QED BY <1>5, OneOrder DEF f

------------------------------------------------------------------------------
(* samplesToChunks: what the samples taken leave is a chunk's, or is open.   *)

ChunkSet == [min : Nat, max : Nat, samples : Seq(Nat)]
TakenSet == [failed : BOOLEAN, prev : Nat, open : Seq(Nat), chunks : Seq(ChunkSet)]

LEMMA FinishChunkType ==
    ASSUME NEW a \in TakenSet, a.open # <<>>, NEW t \in Nat
    PROVE  FinishChunk(a, t) \in TakenSet
<1>1. a.open \in Seq(Nat) /\ a.chunks \in Seq(ChunkSet)
  BY DEF TakenSet
<1>2. Head(a.open) \in Nat
  BY <1>1
<1> DEFINE c == [min |-> Head(a.open), max |-> t, samples |-> a.open]
<1>3. c \in ChunkSet
  BY <1>1, <1>2 DEF ChunkSet
<1> HIDE DEF c
<1>4. Append(a.chunks, c) \in Seq(ChunkSet) /\ <<>> \in Seq(Nat)
  BY <1>1, <1>3
<1>5. FinishChunk(a, t) = [a EXCEPT !.chunks = Append(a.chunks, c), !.open = <<>>]
  BY DEF FinishChunk, c
<1> QED BY <1>4, <1>5 DEF TakenSet

LEMMA AddSampleType ==
    ASSUME NEW a \in TakenSet, NEW ts \in Int, NEW minTime, NEW maxTime
    PROVE  AddSample(a, ts, minTime, maxTime) \in TakenSet
<1>1. CASE a.failed \/ ts <= a.prev
  BY <1>1 DEF AddSample, TakenSet
<1>2. CASE ~(a.failed \/ ts <= a.prev) /\ Outside(ts, minTime, maxTime)
  BY <1>2 DEF AddSample
<1>3. CASE ~(a.failed \/ ts <= a.prev) /\ ~Outside(ts, minTime, maxTime)
  <2> DEFINE b == [a EXCEPT !.open = Append(@, ts), !.prev = ts]
  <2>1. a.prev \in Nat /\ a.open \in Seq(Nat)
    BY DEF TakenSet
  <2>2. ts \in Nat
    BY <1>3, <2>1
  <2>3. Append(a.open, ts) \in Seq(Nat) /\ Append(a.open, ts) # <<>>
    <3>1. Append(a.open, ts) \in Seq(Nat)
      BY <2>1, <2>2
    <3>2. Len(Append(a.open, ts)) # 0
      BY <2>1, <2>2
    <3> QED BY <3>1, <3>2
  <2>4. b \in TakenSet /\ b.open = Append(a.open, ts)
    BY <2>2, <2>3 DEF TakenSet
  <2>5. FinishChunk(b, ts) \in TakenSet
    BY <2>2, <2>3, <2>4, FinishChunkType
  <2>6. AddSample(a, ts, minTime, maxTime) =
            IF Len(b.open) >= SamplesPerChunk THEN FinishChunk(b, ts) ELSE b
    BY <1>3 DEF AddSample, TakeSample
  <2> QED BY <2>4, <2>5, <2>6
<1> QED BY <1>1, <1>2, <1>3

LEMMA TakingType ==
    ASSUME NEW samples \in Seq(Int), NEW minTime, NEW maxTime
    PROVE  /\ Taking(samples, minTime, maxTime) \in [0..Len(samples) -> TakenSet]
           /\ Taking(samples, minTime, maxTime)[0] = NoSamples
           /\ \A i \in 1..Len(samples) : Taking(samples, minTime, maxTime)[i] =
                  AddSample(Taking(samples, minTime, maxTime)[i - 1], samples[i], minTime, maxTime)
<1> DEFINE F == [a \in TakenSet |-> [ts \in Int |-> AddSample(a, ts, minTime, maxTime)]]
           n == Len(samples)
           Body(g) == [i \in 0..n |-> IF i = 0 THEN NoSamples
                          ELSE AddSample(g[i - 1], samples[i], minTime, maxTime)]
<1>1. F \in [TakenSet -> [Int -> TakenSet]]
  BY AddSampleType
<1>2. NoSamples \in TakenSet
  BY DEF NoSamples, TakenSet
<1>3. n \in Nat /\ \A i \in 1..n : samples[i] \in Int
  OBVIOUS
<1> HIDE DEF F
<1>4. PICK g : FoldIs(g, TakenSet, F, NoSamples, samples)
  BY <1>1, <1>2, FoldExists
<1>5. \A i \in 1..n : g[i] = AddSample(g[i - 1], samples[i], minTime, maxTime)
  <2> SUFFICES ASSUME NEW i \in 1..n
               PROVE  g[i] = AddSample(g[i - 1], samples[i], minTime, maxTime)
    OBVIOUS
  <2>1. g[i - 1] \in TakenSet /\ samples[i] \in Int
    BY <1>3, <1>4 DEF FoldIs
  <2>2. F[g[i - 1]][samples[i]] = AddSample(g[i - 1], samples[i], minTime, maxTime)
    BY <2>1 DEF F
  <2> QED BY <1>4, <2>2 DEF FoldIs
<1>6. g = Body(g)
  BY <1>3, <1>4, <1>5 DEF FoldIs
<1>7. Taking(samples, minTime, maxTime) = CHOOSE h : h = Body(h)
  BY DEF Taking
<1> DEFINE t == CHOOSE h : h = Body(h)
<1>8. t = Body(t)
  BY <1>6
<1>9. Taking(samples, minTime, maxTime) = t
  BY <1>7
<1> HIDE DEF t
<1>10. t[0] = NoSamples
  BY <1>3, <1>8
<1>11. \A i \in 1..n : t[i] = AddSample(t[i - 1], samples[i], minTime, maxTime)
  BY <1>3, <1>8
<1>12. \A i \in 0..n : t[i] \in TakenSet
  <2> DEFINE G == {i \in 0..n : t[i] \in TakenSet}
  <2>1. 0 \in G
    BY <1>2, <1>3, <1>10
  <2>2. \A i \in 1..n : i - 1 \in G => i \in G
    BY <1>3, <1>11, AddSampleType
  <2> HIDE DEF G
  <2>3. 0..n \subseteq G
    BY <1>3, <2>1, <2>2, IntervalInduct
  <2> QED BY <2>3 DEF G
<1>13. t \in [0..n -> TakenSet]
  <2>1. t = [i \in 0..n |-> t[i]]
    BY <1>8
  <2> QED BY <1>12, <2>1
<1> QED BY <1>9, <1>10, <1>11, <1>13

LEMMA ChunksType ==
    ASSUME NEW samples \in Seq(Int), NEW minTime, NEW maxTime
    PROVE  SamplesToChunks(samples, minTime, maxTime).chunks \in Seq(ChunkSet)
<1> DEFINE a == Taking(samples, minTime, maxTime)[Len(samples)]
<1>1. a \in TakenSet
  <2>1. Len(samples) \in 0..Len(samples)
    OBVIOUS
  <2> QED BY <2>1, TakingType
<1>2. SamplesToChunks(samples, minTime, maxTime).chunks =
          IF a.open = <<>> THEN a.chunks ELSE FinishChunk(a, a.prev).chunks
  BY DEF SamplesToChunks
<1> HIDE DEF a
<1>3. a.chunks \in Seq(ChunkSet) /\ a.prev \in Nat
  BY <1>1 DEF TakenSet
<1>4. CASE a.open = <<>>
  BY <1>2, <1>3, <1>4
<1>5. CASE a.open # <<>>
  <2>1. FinishChunk(a, a.prev) \in TakenSet
    BY <1>1, <1>3, <1>5, FinishChunkType
  <2>2. FinishChunk(a, a.prev).chunks \in Seq(ChunkSet)
    BY <2>1 DEF TakenSet
  <2> QED BY <1>2, <1>5, <2>2
<1> QED BY <1>4, <1>5

------------------------------------------------------------------------------
(* Least and greatest, order *)

LEMMA MaxIs ==
    ASSUME NEW S, IsFiniteSet(S), S # {}, S \subseteq Nat
    PROVE  Max(S) \in S /\ \A x \in S : x <= Max(S)
<1> DEFINE key == [x \in S |-> x]
<1>1. \A x \in S : key[x] \in Nat /\ key[x] = x
  OBVIOUS
<1> HIDE DEF key
<1>2. PICK m \in S : \A x \in S : key[x] <= key[m]
  BY <1>1, LastExists
<1>3. \A x \in S : m >= x
  BY <1>1, <1>2
<1> QED BY <1>1, <1>3 DEF Max

LEMMA MinIs ==
    ASSUME NEW S, S # {}, S \subseteq Nat
    PROVE  Min(S) \in S /\ \A x \in S : Min(S) <= x
<1>1. PICK m \in S : \A k \in S : ~(<<k, m>> \in OpToRel(<, Nat))
  BY WFMin, NatLessThanWellFounded
<1>2. \A k \in S : m =< k
  <2> SUFFICES ASSUME NEW k \in S PROVE m =< k
    OBVIOUS
  <2>1. ~(k < m)
    BY <1>1 DEF OpToRel
  <2> QED BY <2>1
<1> QED BY <1>2 DEF Min

LEMMA MaxUnique ==
    ASSUME NEW S, NEW m \in S, S \subseteq Int, \A x \in S : x <= m
    PROVE  Max(S) = m
<1>1. m \in S /\ \A x \in S : m >= x
  OBVIOUS
<1>2. Max(S) \in S /\ \A x \in S : Max(S) >= x
  BY <1>1 DEF Max
<1>3. Max(S) \in Int /\ m \in Int /\ Max(S) >= m /\ m >= Max(S)
  BY <1>1, <1>2
<1> HIDE <1>1, <1>2
<1> QED BY <1>3

LEMMA MinUnique ==
    ASSUME NEW S, NEW m \in S, S \subseteq Int, \A x \in S : m <= x
    PROVE  Min(S) = m
<1>1. m \in S /\ \A x \in S : m <= x
  OBVIOUS
<1>2. Min(S) \in S /\ \A x \in S : Min(S) <= x
  BY <1>1 DEF Min
<1>3. Min(S) \in Int /\ m \in Int /\ Min(S) <= m /\ m <= Min(S)
  BY <1>1, <1>2
<1> HIDE <1>1, <1>2
<1> QED BY <1>3

LEMMA OfTwo ==
    ASSUME NEW a \in Int, NEW b \in Int
    PROVE  /\ Min({a, b}) \in {a, b} /\ Min({a, b}) <= a /\ Min({a, b}) <= b
           /\ Max({a, b}) \in {a, b} /\ a <= Max({a, b}) /\ b <= Max({a, b})
<1> DEFINE S == {a, b}
<1>1. a \in S /\ b \in S /\ S \subseteq Int
  OBVIOUS
<1> HIDE DEF S
<1>2. CASE a <= b
  <2>1. \A x \in S : a <= x /\ x <= b
    BY <1>2 DEF S
  <2>2. Min(S) = a /\ Max(S) = b
    BY <1>1, <2>1, MinUnique, MaxUnique
  <2> QED BY <1>2, <2>2 DEF S
<1>3. CASE ~(a <= b)
  <2>1. \A x \in S : b <= x /\ x <= a
    BY <1>3 DEF S
  <2>2. Min(S) = b /\ Max(S) = a
    BY <1>1, <2>1, MinUnique, MaxUnique
  <2> QED BY <1>3, <2>2 DEF S
<1> QED BY <1>2, <1>3

------------------------------------------------------------------------------
(* Sequences of sequences, flattened *)

JoinIs(g, T, bs) ==
    /\ g \in [0..Len(bs) -> Seq(T)] /\ g[0] = <<>>
    /\ \A i \in 1..Len(bs) : g[i] = g[i - 1] \o bs[i]
    /\ FlattenSeq(bs) = g[Len(bs)]

LEMMA JoinExists ==
    ASSUME NEW T, NEW bs \in Seq(Seq(T))
    PROVE  \E g : JoinIs(g, T, bs)
<1> DEFINE F == [x \in Seq(T) |-> [y \in Seq(T) |-> x \o y]]
           n == Len(bs)
           Body(f) == [i \in 1..n |-> IF i = 1 THEN bs[i] ELSE f[i - 1] \o bs[i]]
<1>1. F \in [Seq(T) -> [Seq(T) -> Seq(T)]] /\ <<>> \in Seq(T)
  OBVIOUS
<1>2. n \in Nat /\ \A i \in 1..n : bs[i] \in Seq(T)
  OBVIOUS
<1> HIDE DEF F
<1>3. PICK g : FoldIs(g, Seq(T), F, <<>>, bs)
  BY <1>1, FoldExists
<1>4. g \in [0..n -> Seq(T)] /\ g[0] = <<>>
  BY <1>3 DEF FoldIs
<1>5. ASSUME NEW i \in 1..n PROVE g[i] = g[i - 1] \o bs[i]
  <2>0. i - 1 \in 0..n
    BY <1>2
  <2>1. g[i - 1] \in Seq(T) /\ bs[i] \in Seq(T)
    BY <1>2, <1>4, <2>0
  <2>2. F[g[i - 1]][bs[i]] = g[i - 1] \o bs[i]
    BY <2>1 DEF F
  <2> QED BY <1>3, <2>2 DEF FoldIs
<1>6. FlattenSeq(bs) = g[n]
  <2>1. CASE n = 0
    <3>1. bs = <<>>
      BY <2>1
    <3> QED BY <1>4, <2>1, <3>1 DEF FlattenSeq
  <2>2. CASE n # 0
    <3> DEFINE h == [i \in 1..n |-> g[i]]
    <3>1. h = Body(h)
      <4> SUFFICES ASSUME NEW i \in 1..n
                   PROVE  g[i] = IF i = 1 THEN bs[i] ELSE h[i - 1] \o bs[i]
        OBVIOUS
      <4>1. CASE i = 1
        <5>1. 1 \in 1..n /\ 1 - 1 = 0
          BY <4>1
        <5>2. g[1] = <<>> \o bs[1] /\ bs[1] \in Seq(T)
          BY <1>2, <1>4, <1>5, <5>1
        <5> QED BY <4>1, <5>2
      <4>2. CASE i # 1
        <5>1. i - 1 \in 1..n
          BY <1>2, <4>2
        <5> QED BY <1>5, <4>2, <5>1
      <4> QED BY <4>1, <4>2
    <3>2. FlattenSeq(bs) = (CHOOSE f : f = Body(f))[n]
      BY <2>2 DEF FlattenSeq
    <3> DEFINE c == CHOOSE f : f = Body(f)
    <3>3. c = Body(c)
      BY <3>1
    <3>4. FlattenSeq(bs) = c[n]
      BY <3>2
    <3> HIDE DEF c, h
    <3>5. \A i \in 1..n : c[i] = IF i = 1 THEN bs[i] ELSE c[i - 1] \o bs[i]
      BY <1>2, <3>3
    <3> DEFINE G == {i \in 0..n : i # 0 => c[i] = g[i]}
    <3>6. 0 \in G
      BY <1>2
    <3>7. ASSUME NEW i \in 1..n, i - 1 \in G PROVE i \in G
      <4>1. CASE i = 1
        <5>1. 1 \in 1..n /\ 1 - 1 = 0
          BY <4>1
        <5>2. g[1] = <<>> \o bs[1] /\ bs[1] \in Seq(T) /\ c[1] = bs[1]
          BY <1>2, <1>4, <1>5, <3>5, <5>1
        <5>3. 1 \in 0..n
          BY <1>2, <5>1
        <5> QED BY <4>1, <5>2, <5>3
      <4>2. CASE i # 1
        <5>1. i - 1 # 0 /\ c[i - 1] = g[i - 1] /\ i \in 0..n
          BY <1>2, <3>7, <4>2
        <5> QED BY <1>5, <3>5, <4>2, <5>1
      <4> QED BY <4>1, <4>2
    <3> HIDE DEF G
    <3>8. 0..n \subseteq G
      BY <1>2, <3>6, <3>7, IntervalInduct
    <3>9. c[n] = g[n]
      BY <1>2, <2>2, <3>8 DEF G
    <3> QED BY <3>4, <3>9
  <2> QED BY <2>1, <2>2
<1> QED BY <1>4, <1>5, <1>6 DEF JoinIs

LEMMA FlattenEmpty == FlattenSeq(<<>>) = <<>>
BY DEF FlattenSeq

LEMMA FlattenAppend ==
    ASSUME NEW T, NEW bs \in Seq(Seq(T)), NEW b \in Seq(T)
    PROVE  /\ FlattenSeq(Append(bs, b)) = FlattenSeq(bs) \o b
           /\ FlattenSeq(bs) \in Seq(T)
<1> DEFINE cs == Append(bs, b)
           n == Len(bs)
<1>1. /\ cs \in Seq(Seq(T)) /\ n \in Nat /\ Len(cs) = n + 1 /\ cs[n + 1] = b
      /\ \A i \in 1..n : cs[i] = bs[i]
  OBVIOUS
<1> HIDE DEF cs
<1>2. PICK g : JoinIs(g, T, bs)
  BY JoinExists
<1>3. PICK h : JoinIs(h, T, cs)
  BY <1>1, JoinExists
<1>4. /\ g[0] = <<>> /\ \A i \in 1..n : g[i] = g[i - 1] \o bs[i]
      /\ FlattenSeq(bs) = g[n] /\ g[n] \in Seq(T)
  <2>1. n \in 0..n
    BY <1>1
  <2> QED BY <1>2, <2>1 DEF JoinIs
<1>5. /\ h[0] = <<>> /\ \A i \in 1..(n + 1) : h[i] = h[i - 1] \o cs[i]
      /\ FlattenSeq(cs) = h[n + 1]
  BY <1>1, <1>3 DEF JoinIs
<1> DEFINE G == {i \in 0..n : h[i] = g[i]}
<1>6. 0 \in G
  BY <1>1, <1>4, <1>5
<1>7. \A i \in 1..n : i - 1 \in G => i \in G
  <2> SUFFICES ASSUME NEW i \in 1..n, i - 1 \in G PROVE i \in G
    OBVIOUS
  <2>1. i \in 1..(n + 1) /\ i \in 0..n /\ cs[i] = bs[i]
    BY <1>1
  <2>2. h[i] = h[i - 1] \o cs[i] /\ g[i] = g[i - 1] \o bs[i]
    BY <1>4, <1>5, <2>1
  <2> QED BY <2>1, <2>2
<1> HIDE DEF G
<1>8. 0..n \subseteq G
  BY <1>1, <1>6, <1>7, IntervalInduct
<1>9. h[n] = g[n]
  BY <1>1, <1>8 DEF G
<1>10. h[n + 1] = h[n] \o b
  <2>1. n + 1 \in 1..(n + 1) /\ (n + 1) - 1 = n
    BY <1>1
  <2> QED BY <1>1, <1>5, <2>1
<1> QED BY <1>4, <1>5, <1>9, <1>10 DEF cs

LEMMA ConcatSet ==
    ASSUME NEW T, NEW s \in Seq(T), NEW t \in Seq(T)
    PROVE  /\ s \o t \in Seq(T) /\ ToSet(s \o t) = ToSet(s) \cup ToSet(t)
           /\ ToSet(<<>>) = {}
<1>1. /\ s \o t \in Seq(T) /\ Len(s) \in Nat /\ Len(t) \in Nat
      /\ DOMAIN s = 1..Len(s) /\ DOMAIN t = 1..Len(t)
      /\ DOMAIN (s \o t) = 1..(Len(s) + Len(t))
  OBVIOUS
<1>2. \A i \in DOMAIN s : i \in DOMAIN (s \o t) /\ (s \o t)[i] = s[i]
  BY ConcatAt
<1>3. \A k \in DOMAIN t : /\ Len(s) + k \in DOMAIN (s \o t)
                          /\ (s \o t)[Len(s) + k] = t[k]
  BY ConcatAt
<1>4. ASSUME NEW k \in DOMAIN (s \o t) PROVE (s \o t)[k] \in ToSet(s) \cup ToSet(t)
  <2>1. CASE k <= Len(s)
    BY <1>1, <1>2, <2>1 DEF ToSet
  <2>2. CASE ~(k <= Len(s))
    <3>1. k - Len(s) \in DOMAIN t /\ Len(s) + (k - Len(s)) = k
      BY <1>1, <2>2
    <3> QED BY <1>3, <3>1 DEF ToSet
  <2> QED BY <2>1, <2>2
<1>5. ToSet(s) \subseteq ToSet(s \o t)
  BY <1>2 DEF ToSet
<1>6. ToSet(t) \subseteq ToSet(s \o t)
  BY <1>3 DEF ToSet
<1>7. ToSet(s \o t) \subseteq ToSet(s) \cup ToSet(t)
  BY <1>4 DEF ToSet
<1>8. ToSet(<<>>) = {}
  BY DEF ToSet
<1> QED BY <1>1, <1>5, <1>6, <1>7, <1>8

LEMMA ConcatAscending ==
    ASSUME NEW s \in Seq(Int), NEW t \in Seq(Int), IsAscending(s), IsAscending(t),
           \A x \in ToSet(s), y \in ToSet(t) : x < y
    PROVE  IsAscending(s \o t)
<1>1. /\ Len(s) \in Nat /\ Len(t) \in Nat
      /\ DOMAIN s = 1..Len(s) /\ DOMAIN t = 1..Len(t)
      /\ DOMAIN (s \o t) = 1..(Len(s) + Len(t))
  OBVIOUS
<1>2. \A i \in DOMAIN s : (s \o t)[i] = s[i] /\ s[i] \in ToSet(s)
  BY ConcatAt DEF ToSet
<1>3. ASSUME NEW k \in DOMAIN (s \o t), k > Len(s)
      PROVE  /\ k - Len(s) \in DOMAIN t /\ (s \o t)[k] = t[k - Len(s)]
             /\ t[k - Len(s)] \in ToSet(t)
  <2>1. k - Len(s) \in DOMAIN t /\ Len(s) + (k - Len(s)) = k
    BY <1>1, <1>3
  <2>2. (s \o t)[Len(s) + (k - Len(s))] = t[k - Len(s)]
    BY <2>1, ConcatAt
  <2> QED BY <2>1, <2>2 DEF ToSet
<1> SUFFICES ASSUME NEW i \in DOMAIN (s \o t), NEW j \in DOMAIN (s \o t), i < j
             PROVE  (s \o t)[i] < (s \o t)[j]
  BY DEF IsAscending
<1>4. CASE j <= Len(s)
  BY <1>1, <1>2, <1>4 DEF IsAscending
<1>5. CASE i <= Len(s) /\ j > Len(s)
  <2>1. i \in DOMAIN s
    BY <1>1, <1>5
  <2> QED BY <1>2, <1>3, <1>5, <2>1
<1>6. CASE i > Len(s) /\ j > Len(s)
  <2>1. i - Len(s) < j - Len(s)
    BY <1>1
  <2> QED BY <1>3, <1>6, <2>1 DEF IsAscending
<1> QED BY <1>1, <1>4, <1>5, <1>6

(* What is flattened has the elements of its parts, and is in order when    *)
(* they are, and come one after the other.                                  *)
LEMMA FlattenHas ==
    ASSUME NEW T, NEW bs \in Seq(Seq(T))
    PROVE  /\ FlattenSeq(bs) \in Seq(T)
           /\ ToSet(FlattenSeq(bs)) = UNION {ToSet(bs[i]) : i \in DOMAIN bs}
<1> DEFINE n == Len(bs)
<1>1. PICK g : JoinIs(g, T, bs)
  BY JoinExists
<1>2. n \in Nat /\ DOMAIN bs = 1..n /\ n \in 0..n /\ \A i \in 1..n : bs[i] \in Seq(T)
  OBVIOUS
<1> HIDE DEF n
<1>3. /\ g \in [0..n -> Seq(T)] /\ g[0] = <<>> /\ FlattenSeq(bs) = g[n]
      /\ \A i \in 1..n : g[i] = g[i - 1] \o bs[i]
  BY <1>1 DEF JoinIs, n
<1> DEFINE G == {i \in 0..n : ToSet(g[i]) = UNION {ToSet(bs[j]) : j \in 1..i}}
<1>4. 0 \in G
  <2>1. ToSet(g[0]) = {}
    BY <1>3 DEF ToSet
  <2>2. 1..0 = {} /\ 0 \in 0..n
    BY <1>2
  <2> QED BY <2>1, <2>2
<1>5. ASSUME NEW i \in 1..n, i - 1 \in G PROVE i \in G
  <2>1. i - 1 \in 0..n /\ i \in 0..n /\ 1..i = (1..(i - 1)) \cup {i}
    BY <1>2
  <2>2. g[i - 1] \in Seq(T) /\ bs[i] \in Seq(T)
    BY <1>2, <1>3, <2>1
  <2>3. ToSet(g[i]) = ToSet(g[i - 1]) \cup ToSet(bs[i])
    <3>1. g[i] = g[i - 1] \o bs[i]
      BY <1>3
    <3>2. ToSet(g[i - 1] \o bs[i]) = ToSet(g[i - 1]) \cup ToSet(bs[i])
      BY <2>2, ConcatSet
    <3> QED BY <3>1, <3>2
  <2>4. ToSet(g[i - 1]) = UNION {ToSet(bs[j]) : j \in 1..(i - 1)}
    BY <1>5
  <2> QED BY <2>1, <2>3, <2>4
<1> HIDE DEF G
<1>6. 0..n \subseteq G
  BY <1>2, <1>4, <1>5, IntervalInduct
<1>7. ToSet(g[n]) = UNION {ToSet(bs[j]) : j \in 1..n}
  BY <1>2, <1>6 DEF G
<1> QED BY <1>2, <1>3, <1>7

LEMMA FlattenAscending ==
    ASSUME NEW bs \in Seq(Seq(Int)), \A i \in DOMAIN bs : IsAscending(bs[i]),
           \A i, j \in DOMAIN bs : i < j =>
               \A x \in ToSet(bs[i]), y \in ToSet(bs[j]) : x < y
    PROVE  IsAscending(FlattenSeq(bs))
<1> DEFINE n == Len(bs)
<1>1. PICK g : JoinIs(g, Int, bs)
  BY JoinExists
<1>2. n \in Nat /\ DOMAIN bs = 1..n /\ n \in 0..n /\ \A i \in 1..n : bs[i] \in Seq(Int)
  OBVIOUS
<1> HIDE DEF n
<1>3. /\ g \in [0..n -> Seq(Int)] /\ g[0] = <<>> /\ FlattenSeq(bs) = g[n]
      /\ \A i \in 1..n : g[i] = g[i - 1] \o bs[i]
  BY <1>1 DEF JoinIs, n
<1> DEFINE G == {i \in 0..n : /\ IsAscending(g[i])
                              /\ \A x \in ToSet(g[i]) : \E j \in 1..i : x \in ToSet(bs[j])}
<1>4. 0 \in G
  <2>1. DOMAIN g[0] = {} /\ 0 \in 0..n
    BY <1>2, <1>3
  <2> QED BY <2>1 DEF ToSet, IsAscending
<1>5. ASSUME NEW i \in 1..n, i - 1 \in G PROVE i \in G
  <2>1. i - 1 \in 0..n /\ i \in 0..n /\ 1..i = (1..(i - 1)) \cup {i}
        /\ \A j \in 1..(i - 1) : j \in 1..n /\ j < i
    BY <1>2
  <2>2. g[i - 1] \in Seq(Int) /\ bs[i] \in Seq(Int)
    BY <1>2, <1>3, <2>1
  <2>3. ToSet(g[i]) = ToSet(g[i - 1]) \cup ToSet(bs[i])
    <3>1. g[i] = g[i - 1] \o bs[i]
      BY <1>3
    <3>2. ToSet(g[i - 1] \o bs[i]) = ToSet(g[i - 1]) \cup ToSet(bs[i])
      BY <2>2, ConcatSet
    <3> QED BY <3>1, <3>2
  <2>4. /\ IsAscending(g[i - 1])
        /\ \A x \in ToSet(g[i - 1]) : \E j \in 1..(i - 1) : x \in ToSet(bs[j])
    BY <1>5
  <2>5. \A x \in ToSet(g[i - 1]), y \in ToSet(bs[i]) : x < y
    BY <1>2, <2>1, <2>4
  <2>6. IsAscending(g[i])
    BY <1>2, <1>3, <2>2, <2>4, <2>5, ConcatAscending
  <2>7. \A x \in ToSet(g[i]) : \E j \in 1..i : x \in ToSet(bs[j])
    BY <2>1, <2>3, <2>4
  <2> QED BY <2>1, <2>6, <2>7
<1> HIDE DEF G
<1>6. 0..n \subseteq G
  BY <1>2, <1>4, <1>5, IntervalInduct
<1> QED BY <1>2, <1>3, <1>6 DEF G

------------------------------------------------------------------------------
(* One element more *)

LEMMA AppendSet ==
    ASSUME NEW T, NEW s \in Seq(T), NEW x \in T
    PROVE  ToSet(Append(s, x)) = ToSet(s) \cup {x}
<1>1. <<x>> \in Seq(T) /\ Append(s, x) = s \o <<x>> /\ Append(s, x) \in Seq(T)
  OBVIOUS
<1>2. ToSet(<<x>>) = {x}
  BY DEF ToSet
<1> DEFINE t == <<x>>
<1>3. ToSet(s \o t) = ToSet(s) \cup ToSet(t)
  <2>1. t \in Seq(T)
    BY <1>1
  <2> HIDE DEF t
  <2> QED BY <2>1, ConcatSet
<1> QED BY <1>1, <1>2, <1>3

LEMMA SeqWider ==
    ASSUME NEW S, NEW T, S \subseteq T, NEW s \in Seq(S)
    PROVE  s \in Seq(T)
<1>1. Len(s) \in Nat /\ s \in [1..Len(s) -> S]
  OBVIOUS
<1>2. s \in [1..Len(s) -> T]
  BY <1>1
<1> QED BY <1>1, <1>2

LEMMA AppendHas ==
    ASSUME NEW T, NEW s \in Seq(T), NEW x
    PROVE  ToSet(Append(s, x)) = ToSet(s) \cup {x}
<1> DEFINE U == T \cup {x}
<1>1. T \subseteq U /\ x \in U
  OBVIOUS
<1> HIDE DEF U
<1>2. s \in Seq(U)
  BY <1>1, SeqWider
<1> QED BY <1>1, <1>2, AppendSet

LEMMA AppendAscending ==
    ASSUME NEW s \in Seq(Int), NEW x \in Int, IsAscending(s), \A y \in ToSet(s) : y < x
    PROVE  IsAscending(Append(s, x))
<1>1. <<x>> \in Seq(Int) /\ Append(s, x) = s \o <<x>> /\ ToSet(<<x>>) = {x}
  BY DEF ToSet
<1>2. IsAscending(<<x>>)
  BY DEF IsAscending
<1> QED BY <1>1, <1>2, ConcatAscending

LEMMA LastGreatest ==
    ASSUME NEW s \in Seq(Nat), s # <<>>, IsAscending(s)
    PROVE  /\ Len(s) \in DOMAIN s /\ Last(s) \in ToSet(s) /\ Last(s) \in Nat
           /\ Head(s) \in ToSet(s) /\ Last(s) = s[Len(s)]
           /\ \A x \in ToSet(s) : Head(s) <= x /\ x <= Last(s)
<1>1. /\ Len(s) \in DOMAIN s /\ 1 \in DOMAIN s /\ Head(s) = s[1] /\ Last(s) = s[Len(s)]
      /\ Len(s) \in Nat /\ DOMAIN s = 1..Len(s) /\ \A i \in DOMAIN s : s[i] \in Nat
  BY DEF Last
<1>2. \A i \in DOMAIN s : s[i] <= s[Len(s)]
  <2> SUFFICES ASSUME NEW i \in DOMAIN s PROVE s[i] <= s[Len(s)]
    OBVIOUS
  <2>1. CASE i = Len(s)
    BY <1>1, <2>1
  <2>2. CASE i < Len(s)
    <3>1. s[i] < s[Len(s)]
      BY <1>1, <2>2 DEF IsAscending
    <3> QED BY <1>1, <3>1
  <2> QED BY <1>1, <2>1, <2>2
<1>3. \A i \in DOMAIN s : s[1] <= s[i]
  <2> SUFFICES ASSUME NEW i \in DOMAIN s PROVE s[1] <= s[i]
    OBVIOUS
  <2>1. CASE i = 1
    BY <1>1, <2>1
  <2>2. CASE 1 < i
    <3>1. s[1] < s[i]
      BY <1>1, <2>2 DEF IsAscending
    <3> QED BY <1>1, <3>1
  <2> QED BY <1>1, <2>1, <2>2
<1> QED BY <1>1, <1>2, <1>3 DEF ToSet

LEMMA ConcatAssoc ==
    ASSUME NEW T, NEW r \in Seq(T), NEW s \in Seq(T), NEW x \in T
    PROVE  r \o Append(s, x) = Append(r \o s, x)
OBVIOUS

LEMMA PrefixGrows ==
    ASSUME NEW T, NEW s \in Seq(T), NEW n \in 1..Len(s)
    PROVE  /\ SubSeq(s, 1, n) = Append(SubSeq(s, 1, n - 1), s[n])
           /\ SubSeq(s, 1, n - 1) \in Seq(T) /\ s[n] \in T
<1> DEFINE p == SubSeq(s, 1, n - 1)
           q == SubSeq(s, 1, n)
<1>1. n \in Nat /\ n # 0 /\ Len(s) \in Nat /\ n <= Len(s) /\ s[n] \in T
  OBVIOUS
<1>2. /\ p \in Seq(T) /\ Len(p) = n - 1 /\ DOMAIN p = 1..(n - 1)
      /\ \A i \in 1..(n - 1) : p[i] = s[i]
  BY <1>1
<1>3. /\ q \in Seq(T) /\ DOMAIN q = 1..n /\ \A i \in 1..n : q[i] = s[i]
  BY <1>1
<1> HIDE DEF p, q
<1> DEFINE a == Append(p, s[n])
<1>4. /\ a \in Seq(T) /\ DOMAIN a = 1..n
      /\ a[n] = s[n] /\ \A i \in 1..(n - 1) : a[i] = s[i]
  <2>1. Len(p) + 1 = n /\ DOMAIN p = 1..(n - 1)
    BY <1>1, <1>2
  <2>2. /\ a \in Seq(T) /\ DOMAIN a = 1..(Len(p) + 1)
        /\ \A i \in DOMAIN p : a[i] = p[i]
        /\ a[Len(p) + 1] = s[n]
    BY <1>1, <1>2, AppendAt
  <2> QED BY <1>2, <2>1, <2>2
<1> HIDE DEF a
<1>5. \A i \in 1..n : a[i] = q[i]
  <2>1. \A i \in 1..n : i = n \/ i \in 1..(n - 1)
    BY <1>1
  <2> QED BY <1>3, <1>4, <2>1
<1>6. a = q
  BY <1>3, <1>4, <1>5
<1> QED BY <1>1, <1>2, <1>6 DEF a, p, q

------------------------------------------------------------------------------
(* samplesToChunks of one block *)

SamplesOf(cs) == [k \in DOMAIN cs |-> cs[k].samples]
GoodChunk(c) ==
    /\ c \in ChunkSet /\ c.samples # <<>> /\ Len(c.samples) <= SamplesPerChunk
    /\ c.min = Head(c.samples) /\ c.max = Last(c.samples)
    /\ \A x \in ToSet(c.samples) : c.min <= x /\ x <= c.max
GoodChunks(cs) == cs \in Seq(ChunkSet) /\ \A k \in DOMAIN cs : GoodChunk(cs[k])

(* What the loop over a block has after n samples. *)
TakenTo(a, b, n) ==
    /\ a \in TakenSet /\ ~a.failed /\ GoodChunks(a.chunks)
    /\ n = 0 => a.prev = 0
    /\ n > 0 => a.prev = b[n]
    /\ Len(a.open) < SamplesPerChunk /\ IsAscending(a.open)
    /\ a.open # <<>> => a.prev = Last(a.open)
    /\ FlattenSeq(SamplesOf(a.chunks)) \o a.open = SubSeq(b, 1, n)

LEMMA SamplesType ==
    ASSUME NEW cs, GoodChunks(cs)
    PROVE  SamplesOf(cs) \in Seq(Seq(Nat))
<1>1. Len(cs) \in Nat /\ DOMAIN cs = 1..Len(cs) /\ \A k \in 1..Len(cs) : cs[k] \in ChunkSet
  BY DEF GoodChunks
<1>2. \A d \in ChunkSet : d.samples \in Seq(Nat)
  BY DEF ChunkSet
<1> QED BY <1>1, <1>2 DEF SamplesOf

LEMMA OneMoreChunk ==
    ASSUME NEW cs, GoodChunks(cs), NEW c, GoodChunk(c)
    PROVE  /\ GoodChunks(Append(cs, c))
           /\ FlattenSeq(SamplesOf(Append(cs, c))) = FlattenSeq(SamplesOf(cs)) \o c.samples
           /\ FlattenSeq(SamplesOf(cs)) \in Seq(Nat)
<1> DEFINE ds == Append(cs, c)
           s  == SamplesOf(cs)
           t  == SamplesOf(ds)
           n  == Len(cs)
<1>1. cs \in Seq(ChunkSet) /\ c \in ChunkSet /\ \A k \in DOMAIN cs : GoodChunk(cs[k])
  BY DEF GoodChunks, GoodChunk
<1>2. /\ ds \in Seq(ChunkSet) /\ n \in Nat /\ DOMAIN cs = 1..n /\ DOMAIN ds = 1..(n + 1)
      /\ ds[n + 1] = c /\ \A k \in 1..n : ds[k] = cs[k]
  BY <1>1
<1>3. \A k \in 1..(n + 1) : k \in 1..n \/ k = n + 1
  BY <1>2
<1> HIDE DEF ds, n
<1>4. GoodChunks(ds)
  BY <1>1, <1>2, <1>3 DEF GoodChunks
<1>5. c.samples \in Seq(Nat) /\ \A k \in 1..n : cs[k].samples \in Seq(Nat)
  <2>1. \A d \in ChunkSet : d.samples \in Seq(Nat)
    BY DEF ChunkSet
  <2>2. \A k \in 1..n : cs[k] \in ChunkSet
    BY <1>1, <1>2
  <2> QED BY <1>1, <2>1, <2>2
<1>6. s \in Seq(Seq(Nat)) /\ Len(s) = n /\ DOMAIN s = 1..n
      /\ \A k \in 1..n : s[k] = cs[k].samples
  BY <1>2, <1>5 DEF SamplesOf
<1>7. DOMAIN t = 1..(n + 1) /\ t = [k \in 1..(n + 1) |-> ds[k].samples]
  BY <1>2 DEF SamplesOf
<1> DEFINE u == Append(s, c.samples)
<1>8. /\ u \in Seq(Seq(Nat)) /\ DOMAIN u = 1..(n + 1)
      /\ u[n + 1] = c.samples /\ \A k \in 1..n : u[k] = s[k]
  BY <1>2, <1>5, <1>6
<1> HIDE DEF s, t, u
<1>9. \A k \in 1..(n + 1) : u[k] = ds[k].samples
  BY <1>2, <1>3, <1>6, <1>8
<1>10. u = t
  BY <1>2, <1>7, <1>8, <1>9
<1>11. FlattenSeq(u) = FlattenSeq(s) \o c.samples /\ FlattenSeq(s) \in Seq(Nat)
  BY <1>5, <1>6, FlattenAppend DEF u
<1> QED BY <1>4, <1>10, <1>11 DEF ds, s, t

(* What is open makes a good chunk. *)
LEMMA ChunkOfOpen ==
    ASSUME NEW open \in Seq(Nat), open # <<>>, Len(open) <= SamplesPerChunk,
           IsAscending(open), NEW t \in Nat, t = Last(open)
    PROVE  GoodChunk([min |-> Head(open), max |-> t, samples |-> open])
<1>1. \A x \in ToSet(open) : Head(open) <= x /\ x <= t
  BY LastGreatest
<1>2. Head(open) \in Nat
  OBVIOUS
<1> QED BY <1>1, <1>2 DEF GoodChunk, ChunkSet

LEMMA FinishChunkIs ==
    ASSUME NEW a \in TakenSet, GoodChunks(a.chunks), a.open # <<>>,
           Len(a.open) <= SamplesPerChunk, IsAscending(a.open),
           NEW t \in Nat, t = Last(a.open)
    PROVE  /\ FinishChunk(a, t) \in TakenSet
           /\ FinishChunk(a, t).failed = a.failed /\ FinishChunk(a, t).prev = a.prev
           /\ FinishChunk(a, t).open = <<>> /\ GoodChunks(FinishChunk(a, t).chunks)
           /\ FlattenSeq(SamplesOf(FinishChunk(a, t).chunks)) =
                  FlattenSeq(SamplesOf(a.chunks)) \o a.open
<1> DEFINE c == [min |-> Head(a.open), max |-> t, samples |-> a.open]
           f == FinishChunk(a, t)
<1>1. a.open \in Seq(Nat)
  BY DEF TakenSet
<1>2. GoodChunk(c) /\ c.samples = a.open
  BY <1>1, ChunkOfOpen
<1>3. f \in TakenSet
  BY FinishChunkType
<1>4. /\ f.failed = a.failed /\ f.prev = a.prev /\ f.open = <<>>
      /\ f.chunks = Append(a.chunks, c)
  BY DEF FinishChunk, TakenSet
<1> HIDE DEF c, f
<1>5. /\ GoodChunks(Append(a.chunks, c))
      /\ FlattenSeq(SamplesOf(Append(a.chunks, c))) =
             FlattenSeq(SamplesOf(a.chunks)) \o c.samples
  BY <1>2, OneMoreChunk
<1> QED BY <1>2, <1>3, <1>4, <1>5 DEF f

LEMMA TakeStep ==
    ASSUME NEW b \in Seq(Nat), IsAscending(b), \A x \in ToSet(b) : x > 0,
           NEW n \in 1..Len(b), NEW a, TakenTo(a, b, n - 1)
    PROVE  TakenTo(AddSample(a, b[n], 0, 0), b, n)
<1> DEFINE ts == b[n]
           open == Append(a.open, ts)
           c == [a EXCEPT !.open = open, !.prev = ts]
           r == AddSample(a, ts, 0, 0)
           flat == FlattenSeq(SamplesOf(a.chunks))
<1>1. /\ a \in TakenSet /\ ~a.failed /\ GoodChunks(a.chunks)
      /\ Len(a.open) < SamplesPerChunk /\ flat \o a.open = SubSeq(b, 1, n - 1)
      /\ IsAscending(a.open) /\ (a.open # <<>> => a.prev = Last(a.open))
  BY DEF TakenTo
<1>2. ts \in Nat /\ n \in Nat /\ n # 0 /\ a.prev < ts
  <2>1. n \in DOMAIN b /\ ts \in Nat /\ n \in Nat /\ n > 0
    OBVIOUS
  <2>2. ts \in ToSet(b)
    BY <2>1 DEF ToSet
  <2>3. CASE n - 1 = 0
    BY <2>1, <2>2, <2>3 DEF TakenTo
  <2>4. CASE n - 1 # 0
    <3>1. n - 1 \in DOMAIN b /\ n - 1 > 0 /\ n - 1 < n
      BY <2>1, <2>4
    <3>2. b[n - 1] < ts
      BY <2>1, <3>1 DEF IsAscending
    <3>3. a.prev = b[n - 1]
      BY <3>1 DEF TakenTo
    <3> QED BY <2>1, <3>2, <3>3
  <2> QED BY <2>1, <2>3, <2>4
<1> HIDE DEF ts
<1>3. a.open \in Seq(Nat) /\ a.prev \in Nat
  BY <1>1 DEF TakenSet
<1>4. /\ open \in Seq(Nat) /\ open # <<>> /\ Len(open) = Len(a.open) + 1
      /\ Last(open) = ts /\ Len(a.open) \in Nat /\ IsAscending(open)
  <2>1. /\ open \in Seq(Nat) /\ open # <<>> /\ Len(open) = Len(a.open) + 1
        /\ open[Len(a.open) + 1] = ts /\ Len(a.open) \in Nat
    BY <1>2, <1>3, AppendAt
  <2>2. \A y \in ToSet(a.open) : y < ts
    <3>1. CASE a.open = <<>>
      BY <3>1 DEF ToSet
    <3>2. CASE a.open # <<>>
      <4>1. \A y \in ToSet(a.open) : y \in Nat /\ y <= a.prev
        <5>1. \A y \in ToSet(a.open) : y <= Last(a.open)
          BY <1>1, <1>3, <3>2, LastGreatest
        <5>2. \A y \in ToSet(a.open) : y \in Nat
          BY <1>3 DEF ToSet
        <5> QED BY <1>1, <3>2, <5>1, <5>2
      <4> QED BY <1>2, <1>3, <4>1
    <3> QED BY <3>1, <3>2
  <2>3. IsAscending(open)
    <3>1. a.open \in Seq(Int) /\ ts \in Int
      BY <1>2, <1>3, SeqWider
    <3> QED BY <1>1, <2>2, <3>1, AppendAscending
  <2> QED BY <2>1, <2>3 DEF Last
<1>5. flat \in Seq(Nat)
  <2>1. SamplesOf(a.chunks) \in Seq(Seq(Nat))
    BY <1>1, SamplesType
  <2> QED BY <2>1, FlattenHas
<1>6. flat \o open = SubSeq(b, 1, n)
  <2>1. flat \o open = Append(flat \o a.open, ts)
    <3> DEFINE o == a.open
    <3>1. o \in Seq(Nat) /\ flat \in Seq(Nat) /\ ts \in Nat
      BY <1>2, <1>3, <1>5
    <3> HIDE DEF flat, o
    <3>2. flat \o Append(o, ts) = Append(flat \o o, ts)
      BY <3>1, ConcatAssoc
    <3> QED BY <3>2 DEF o
  <2>2. SubSeq(b, 1, n) = Append(SubSeq(b, 1, n - 1), b[n])
    BY PrefixGrows
  <2> QED BY <1>1, <2>1, <2>2 DEF ts
<1> HIDE DEF open
<1>7. /\ c \in TakenSet /\ c.open = open /\ c.prev = ts /\ c.chunks = a.chunks
      /\ ~c.failed
  BY <1>1, <1>2, <1>4 DEF TakenSet
<1>8. r = IF Len(open) >= SamplesPerChunk THEN FinishChunk(c, ts) ELSE c
  <2>1. ~(ts <= a.prev)
    BY <1>2, <1>3
  <2>2. ~Outside(ts, 0, 0)
    BY DEF Outside
  <2>3. r = TakeSample(a, ts)
    BY <1>1, <2>1, <2>2 DEF AddSample
  <2>4. TakeSample(a, ts) = IF Len(c.open) >= SamplesPerChunk THEN FinishChunk(c, ts) ELSE c
    BY DEF TakeSample, open
  <2> QED BY <1>7, <2>3, <2>4
<1> HIDE DEF c, r
<1>9. SamplesPerChunk \in Nat \ {0}
  BY ChunksAssumption
<1>10. CASE Len(open) >= SamplesPerChunk
  <2> DEFINE f == FinishChunk(c, ts)
  <2>1. Len(open) <= SamplesPerChunk
    BY <1>1, <1>4, <1>9
  <2>2. /\ f \in TakenSet /\ f.failed = c.failed /\ f.prev = c.prev /\ f.open = <<>>
        /\ GoodChunks(f.chunks)
        /\ FlattenSeq(SamplesOf(f.chunks)) = FlattenSeq(SamplesOf(c.chunks)) \o c.open
    BY <1>1, <1>2, <1>4, <1>7, <2>1, FinishChunkIs
  <2> HIDE DEF f
  <2>3. r = f
    BY <1>8, <1>10 DEF f
  <2>4. FlattenSeq(SamplesOf(f.chunks)) = SubSeq(b, 1, n)
    BY <1>6, <1>7, <2>2
  <2>5. FlattenSeq(SamplesOf(f.chunks)) \o f.open = SubSeq(b, 1, n)
    <3>1. SubSeq(b, 1, n) \in Seq(Nat)
      BY <1>4, <1>5, <1>6, ConcatAt
    <3> QED BY <2>2, <2>4, <3>1
  <2>6. Len(f.open) < SamplesPerChunk /\ IsAscending(f.open)
    BY <1>9, <2>2 DEF IsAscending
  <2>7. TakenTo(f, b, n)
    BY <1>2, <1>7, <2>2, <2>5, <2>6 DEF TakenTo, ts
  <2> QED BY <2>3, <2>7 DEF r, ts
<1>11. CASE ~(Len(open) >= SamplesPerChunk)
  <2>1. r = c /\ Len(open) < SamplesPerChunk
    BY <1>4, <1>8, <1>9, <1>11
  <2>2. TakenTo(c, b, n)
    BY <1>1, <1>2, <1>4, <1>6, <1>7, <2>1 DEF TakenTo, ts
  <2> QED BY <2>1, <2>2 DEF r, ts
<1> QED BY <1>10, <1>11

(* All samples of a block are in its chunks, in order, and each chunk says  *)
(* of itself what it is.                                                    *)
LEMMA BlockChunksAre ==
    ASSUME NEW b \in Seq(Nat), IsAscending(b), \A x \in ToSet(b) : x > 0
    PROVE  /\ ~SamplesToChunks(b, 0, 0).failed
           /\ GoodChunks(SamplesToChunks(b, 0, 0).chunks)
           /\ FlattenSeq(SamplesOf(SamplesToChunks(b, 0, 0).chunks)) = b
<1> DEFINE len == Len(b)
           t   == Taking(b, 0, 0)
           G   == {n \in 0..len : TakenTo(t[n], b, n)}
<1>1. b \in Seq(Nat) /\ IsAscending(b) /\ \A x \in ToSet(b) : x > 0
  OBVIOUS
<1>2. b \in Seq(Int)
  BY <1>1, SeqWider
<1>3. len \in Nat /\ t[0] = NoSamples
      /\ \A n \in 1..len : t[n] = AddSample(t[n - 1], b[n], 0, 0)
  BY <1>1, <1>2, TakingType
<1> HIDE DEF t
<1>4. 0 \in G
  <2>1. NoSamples \in TakenSet /\ ~NoSamples.failed /\ NoSamples.prev = 0
        /\ NoSamples.open = <<>> /\ NoSamples.chunks = <<>>
    BY DEF NoSamples, TakenSet
  <2>2. GoodChunks(<<>>)
    BY DEF GoodChunks
  <2>3. SamplesOf(<<>>) = <<>>
    BY DEF SamplesOf
  <2>4. FlattenSeq(SamplesOf(<<>>)) \o <<>> = SubSeq(b, 1, 0)
    <3>1. SubSeq(b, 1, 0) = <<>> /\ <<>> \o <<>> = <<>>
      OBVIOUS
    <3> QED BY <2>3, <3>1, FlattenEmpty, Zenon
  <2>5. Len(<<>>) < SamplesPerChunk /\ ~(0 > 0) /\ IsAscending(<<>>)
    BY ChunksAssumption DEF IsAscending
  <2>6. TakenTo(NoSamples, b, 0)
    BY <2>1, <2>2, <2>4, <2>5, ZenonT(30) DEF TakenTo
  <2> QED BY <1>3, <2>6
<1>5. \A n \in 1..len : n - 1 \in G => n \in G
  <2> SUFFICES ASSUME NEW n \in 1..len, TakenTo(t[n - 1], b, n - 1)
               PROVE  TakenTo(t[n], b, n)
    BY <1>3
  <2>1. TakenTo(AddSample(t[n - 1], b[n], 0, 0), b, n)
    BY <1>1, TakeStep
  <2> QED BY <1>3, <2>1
<1> HIDE DEF G
<1>6. 0..len \subseteq G
  BY <1>3, <1>4, <1>5, IntervalInduct
<1> DEFINE a == t[len]
<1>7. TakenTo(a, b, len)
  BY <1>3, <1>6 DEF G
<1>8. SamplesToChunks(b, 0, 0) =
          [failed |-> a.failed,
           chunks |-> IF a.open = <<>> THEN a.chunks ELSE FinishChunk(a, a.prev).chunks]
  BY DEF SamplesToChunks, t
<1> HIDE DEF a
<1>9. /\ a \in TakenSet /\ ~a.failed /\ GoodChunks(a.chunks)
      /\ Len(a.open) < SamplesPerChunk /\ IsAscending(a.open)
      /\ (a.open # <<>> => a.prev = Last(a.open))
      /\ FlattenSeq(SamplesOf(a.chunks)) \o a.open = SubSeq(b, 1, len)
  BY <1>7 DEF TakenTo
<1>10. SubSeq(b, 1, len) = b
  BY <1>1
<1>11. a.open \in Seq(Nat) /\ a.prev \in Nat
  BY <1>9 DEF TakenSet
<1>12. CASE a.open = <<>>
  <2>1. FlattenSeq(SamplesOf(a.chunks)) \in Seq(Nat)
    BY <1>9, SamplesType, FlattenHas
  <2>2. FlattenSeq(SamplesOf(a.chunks)) = b
    BY <1>9, <1>10, <1>12, <2>1
  <2> QED BY <1>8, <1>9, <1>12, <2>2
<1>13. CASE a.open # <<>>
  <2>1. Len(a.open) <= SamplesPerChunk
    BY <1>9, <1>11, ChunksAssumption
  <2>2. /\ GoodChunks(FinishChunk(a, a.prev).chunks)
        /\ FlattenSeq(SamplesOf(FinishChunk(a, a.prev).chunks)) =
               FlattenSeq(SamplesOf(a.chunks)) \o a.open
    BY <1>9, <1>11, <1>13, <2>1, FinishChunkIs
  <2> DEFINE f == FinishChunk(a, a.prev)
  <2>3. GoodChunks(f.chunks) /\ FlattenSeq(SamplesOf(f.chunks)) = b
    BY <1>9, <1>10, <2>2
  <2> HIDE DEF f
  <2>4. SamplesToChunks(b, 0, 0) = [failed |-> a.failed, chunks |-> f.chunks]
    BY <1>8, <1>13 DEF f
  <2>5. ~SamplesToChunks(b, 0, 0).failed /\ SamplesToChunks(b, 0, 0).chunks = f.chunks
    BY <1>9, <2>4
  <2> QED BY <2>3, <2>5
<1> QED BY <1>12, <1>13

------------------------------------------------------------------------------
(* samplesToChunks with a block's time: the samples outside of it might not *)
(* be there.                                                                *)

LEMMA InsideIs ==
    ASSUME NEW samples \in Seq(Int), NEW minTime, NEW maxTime
    PROVE  /\ Inside(samples, minTime, maxTime) \in [0..Len(samples) -> Seq(Int)]
           /\ Inside(samples, minTime, maxTime)[0] = <<>>
           /\ \A n \in 1..Len(samples) :
                 Inside(samples, minTime, maxTime)[n] =
                     IF Outside(samples[n], minTime, maxTime)
                     THEN Inside(samples, minTime, maxTime)[n - 1]
                     ELSE Append(Inside(samples, minTime, maxTime)[n - 1], samples[n])
<1> DEFINE Put(k, ts) == IF Outside(ts, minTime, maxTime) THEN k ELSE Append(k, ts)
           F == [k \in Seq(Int) |-> [ts \in Int |-> Put(k, ts)]]
           len == Len(samples)
           Body(g) == [n \in 0..len |-> IF n = 0 THEN <<>> ELSE Put(g[n - 1], samples[n])]
<1>1. F \in [Seq(Int) -> [Int -> Seq(Int)]]
  OBVIOUS
<1>2. <<>> \in Seq(Int) /\ len \in Nat /\ \A n \in 1..len : samples[n] \in Int
  OBVIOUS
<1> HIDE DEF F
<1>3. PICK g : FoldIs(g, Seq(Int), F, <<>>, samples)
  BY <1>1, <1>2, FoldExists
<1>4. g \in [0..len -> Seq(Int)] /\ g[0] = <<>> /\ \A n \in 1..len : g[n] = F[g[n - 1]][samples[n]]
  BY <1>3 DEF FoldIs
<1>5. ASSUME NEW n \in 1..len PROVE g[n] = Put(g[n - 1], samples[n])
  <2>1. g[n - 1] \in Seq(Int) /\ samples[n] \in Int
    <3>1. n - 1 \in 0..len /\ samples[n] \in Int
      BY <1>2
    <3>2. g \in [0..len -> Seq(Int)]
      BY <1>4
    <3> QED BY <3>1, <3>2
  <2> QED BY <1>4, <2>1 DEF F
<1> DEFINE t == CHOOSE h : h = Body(h)
<1>6. Inside(samples, minTime, maxTime) = t
  BY DEF Inside
<1> HIDE DEF Put
<1>7. g = Body(g)
  BY <1>2, <1>4, <1>5
<1>8. t = Body(t)
  BY <1>7
<1> HIDE DEF t
<1>9. t[0] = <<>> /\ \A n \in 1..len : t[n] = Put(t[n - 1], samples[n])
  BY <1>2, <1>8
<1> DEFINE G == {n \in 0..len : t[n] \in Seq(Int)}
<1> HIDE DEF len
<1>10. 0 \in G
  <2>1. t[0] \in Seq(Int)
    BY <1>2, <1>9
  <2> QED BY <1>2, <2>1
<1>11. ASSUME NEW n \in 1..len, n - 1 \in G PROVE n \in G
  <2>1. t[n - 1] \in Seq(Int) /\ samples[n] \in Int
    BY <1>2, <1>11
  <2>2. Append(t[n - 1], samples[n]) \in Seq(Int)
    BY <2>1
  <2>3. t[n] \in Seq(Int)
    BY <1>9, <2>1, <2>2 DEF Put
  <2>4. n \in 0..len
    BY <1>2
  <2> QED BY <2>3, <2>4
<1> HIDE DEF G
<1>12. 0..len \subseteq G
  BY <1>2, <1>10, <1>11, IntervalInduct
<1>13. t \in [0..len -> Seq(Int)]
  <2>1. t = [n \in 0..len |-> t[n]]
    BY <1>8
  <2>2. \A n \in 0..len : t[n] \in Seq(Int)
    BY <1>12 DEF G
  <2> QED BY <2>1, <2>2
<1> QED BY <1>6, <1>9, <1>13 DEF Put, len

LEMMA TakingAppend ==
    ASSUME NEW k \in Seq(Int), NEW x \in Int
    PROVE  Taking(Append(k, x), 0, 0)[Len(Append(k, x))] =
               AddSample(Taking(k, 0, 0)[Len(k)], x, 0, 0)
<1> DEFINE l == Append(k, x)
           n == Len(k)
           t == Taking(k, 0, 0)
           u == Taking(l, 0, 0)
<1>1. l \in Seq(Int) /\ n \in Nat /\ Len(l) = n + 1 /\ l[n + 1] = x /\ \A i \in 1..n : l[i] = k[i]
  OBVIOUS
<1> HIDE DEF l
<1>2. t[0] = NoSamples /\ \A i \in 1..n : t[i] = AddSample(t[i - 1], k[i], 0, 0)
  BY TakingType
<1>3. u[0] = NoSamples /\ \A i \in 1..Len(l) : u[i] = AddSample(u[i - 1], l[i], 0, 0)
  BY <1>1, TakingType
<1> HIDE DEF t, u
<1> DEFINE G == {i \in 0..n : t[i] = u[i]}
<1>4. 0 \in G
  BY <1>1, <1>2, <1>3
<1>5. \A i \in 1..n : i - 1 \in G => i \in G
  <2> SUFFICES ASSUME NEW i \in 1..n, t[i - 1] = u[i - 1] PROVE t[i] = u[i]
    BY <1>1
  <2>1. i \in 1..Len(l) /\ l[i] = k[i]
    BY <1>1
  <2> QED BY <1>2, <1>3, <2>1
<1> HIDE DEF G
<1>6. 0..n \subseteq G
  BY <1>1, <1>4, <1>5, IntervalInduct
<1>7. t[n] = u[n]
  BY <1>1, <1>6 DEF G
<1>8. u[n + 1] = AddSample(u[n], x, 0, 0)
  <2>1. n + 1 \in 1..Len(l) /\ (n + 1) - 1 = n
    BY <1>1
  <2> QED BY <1>1, <1>3, <2>1
<1> QED BY <1>1, <1>7, <1>8 DEF l, t, u

IsRising(s) == s \in Seq(Nat) /\ IsAscending(s) /\ \A x \in ToSet(s) : x > 0

(* What the loop has, when it has not failed, is what it would have of the  *)
(* samples inside alone.                                                    *)
SameInside(a, k) ==
    ~a.failed => /\ a = Taking(k, 0, 0)[Len(k)] /\ IsRising(k)
                 /\ \A x \in ToSet(k) : x <= a.prev

LEMMA SameInsideStep ==
    ASSUME NEW a \in TakenSet, NEW k \in Seq(Int), SameInside(a, k), NEW ts \in Int,
           NEW minTime, NEW maxTime
    PROVE  SameInside(AddSample(a, ts, minTime, maxTime),
                      IF Outside(ts, minTime, maxTime) THEN k ELSE Append(k, ts))
<1> DEFINE r == AddSample(a, ts, minTime, maxTime)
           l == Append(k, ts)
<1>1. CASE a.failed \/ ts <= a.prev
  <2>1. r = [a EXCEPT !.failed = TRUE]
    BY <1>1 DEF AddSample
  <2>2. r.failed
    BY <2>1 DEF TakenSet
  <2> QED BY <2>2 DEF SameInside
<1>2. CASE ~(a.failed \/ ts <= a.prev) /\ Outside(ts, minTime, maxTime)
  BY <1>2 DEF AddSample
<1>3. CASE ~(a.failed \/ ts <= a.prev) /\ ~Outside(ts, minTime, maxTime)
  <2>1. /\ r = TakeSample(a, ts) /\ a.prev \in Nat /\ a.prev < ts
        /\ a.failed = FALSE /\ a.open \in Seq(Nat)
    BY <1>3 DEF AddSample, TakenSet
  <2>2. /\ a = Taking(k, 0, 0)[Len(k)] /\ k \in Seq(Nat) /\ IsAscending(k)
        /\ \A x \in ToSet(k) : x > 0 /\ x <= a.prev
    BY <1>3 DEF SameInside, IsRising
  <2>3. r = Taking(l, 0, 0)[Len(l)]
    <3>1. ~Outside(ts, 0, 0) /\ ~(ts <= a.prev)
      BY <1>3 DEF Outside
    <3>2. AddSample(a, ts, 0, 0) = TakeSample(a, ts)
      BY <2>1, <3>1 DEF AddSample
    <3>3. Taking(l, 0, 0)[Len(l)] = AddSample(Taking(k, 0, 0)[Len(k)], ts, 0, 0)
      BY TakingAppend
    <3> QED BY <2>1, <2>2, <3>2, <3>3
  <2>4. r.prev = ts
    <3> DEFINE b == [a EXCEPT !.open = Append(@, ts), !.prev = ts]
    <3>1. b.prev = ts /\ DOMAIN b = {"failed", "prev", "open", "chunks"}
      BY <2>1 DEF TakenSet
    <3>2. r = FinishChunk(b, ts) \/ r = b
      BY <2>1 DEF TakeSample
    <3> HIDE DEF b
    <3>3. FinishChunk(b, ts).prev = b.prev
      BY <3>1 DEF FinishChunk
    <3> QED BY <3>1, <3>2, <3>3
  <2>5. ToSet(l) = ToSet(k) \cup {ts}
    BY AppendHas
  <2>6. \A x \in ToSet(k) : x \in Nat
    BY <2>2 DEF ToSet
  <2>7. \A x \in ToSet(l) : x > 0 /\ x <= ts
    BY <2>1, <2>2, <2>5, <2>6
  <2>8. IsAscending(l)
    BY <2>1, <2>2, <2>6, AppendAscending
  <2>9. l \in Seq(Nat)
    BY <2>1, <2>2
  <2> QED BY <1>3, <2>3, <2>4, <2>7, <2>8, <2>9 DEF SameInside, IsRising
<1> QED BY <1>1, <1>2, <1>3

LEMMA OnlyInside ==
    ASSUME NEW samples \in Seq(Int), NEW minTime, NEW maxTime,
           ~SamplesToChunks(samples, minTime, maxTime).failed
    PROVE  LET k == Inside(samples, minTime, maxTime)[Len(samples)]
           IN  /\ IsRising(k)
               /\ SamplesToChunks(samples, minTime, maxTime) = SamplesToChunks(k, 0, 0)
<1> DEFINE t == Taking(samples, minTime, maxTime)
           s == Inside(samples, minTime, maxTime)
           len == Len(samples)
           k == s[len]
           G == {n \in 0..len : SameInside(t[n], s[n])}
<1>1. /\ t \in [0..len -> TakenSet] /\ t[0] = NoSamples
      /\ \A n \in 1..len : t[n] = AddSample(t[n - 1], samples[n], minTime, maxTime)
  BY TakingType
<1>2. /\ s \in [0..len -> Seq(Int)] /\ s[0] = <<>>
      /\ \A n \in 1..len : s[n] = IF Outside(samples[n], minTime, maxTime)
                                  THEN s[n - 1] ELSE Append(s[n - 1], samples[n])
  BY InsideIs
<1>3. len \in Nat /\ \A n \in 1..len : samples[n] \in Int
  OBVIOUS
<1>4. SamplesToChunks(samples, minTime, maxTime) =
          [failed |-> t[len].failed,
           chunks |-> IF t[len].open = <<>> THEN t[len].chunks
                      ELSE FinishChunk(t[len], t[len].prev).chunks]
  BY DEF SamplesToChunks
<1> HIDE DEF t, s, len
<1>5. 0 \in G
  <2>1. <<>> \in Seq(Int) /\ <<>> \in Seq(Nat) /\ Len(<<>>) = 0 /\ ToSet(<<>>) = {}
    BY DEF ToSet
  <2>2. Taking(<<>>, 0, 0)[Len(<<>>)] = NoSamples
    <3>1. Taking(<<>>, 0, 0)[0] = NoSamples
      <4>1. <<>> \in Seq(Int)
        BY <2>1
      <4> QED BY <4>1, TakingType
    <3> QED BY <2>1, <3>1, Zenon
  <2>3. IsRising(<<>>)
    BY <2>1 DEF IsRising, IsAscending
  <2>4. SameInside(NoSamples, <<>>)
    BY <2>1, <2>2, <2>3 DEF SameInside
  <2> QED BY <1>1, <1>2, <1>3, <2>4
<1>6. \A n \in 1..len : n - 1 \in G => n \in G
  <2> SUFFICES ASSUME NEW n \in 1..len, SameInside(t[n - 1], s[n - 1])
               PROVE  SameInside(t[n], s[n])
    BY <1>3
  <2>1. t[n - 1] \in TakenSet /\ s[n - 1] \in Seq(Int) /\ samples[n] \in Int
    BY <1>1, <1>2, <1>3
  <2>2. SameInside(AddSample(t[n - 1], samples[n], minTime, maxTime),
                   IF Outside(samples[n], minTime, maxTime)
                   THEN s[n - 1] ELSE Append(s[n - 1], samples[n]))
    BY <2>1, SameInsideStep
  <2> QED BY <1>1, <1>2, <2>2
<1> HIDE DEF G
<1>7. 0..len \subseteq G
  BY <1>3, <1>5, <1>6, IntervalInduct
<1>8. SameInside(t[len], k) /\ ~t[len].failed
  BY <1>3, <1>4, <1>7 DEF G
<1>9. t[len] = Taking(k, 0, 0)[Len(k)] /\ IsRising(k)
  BY <1>8 DEF SameInside
<1> HIDE DEF k
<1>10. SamplesToChunks(samples, minTime, maxTime) = SamplesToChunks(k, 0, 0)
  BY <1>4, <1>9 DEF SamplesToChunks
<1> QED BY <1>9, <1>10 DEF k, s, len
================================================================================
