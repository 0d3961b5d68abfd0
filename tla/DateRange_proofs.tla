--------------------------- MODULE DateRange_proofs ---------------------------
(****************************************************************************)
(* Proofs about DateRange.tla and the operators of Samples.tla and          *)
(* Chunks.tla it uses, for any files, threads, times and lengths of a day.  *)
(****************************************************************************)
EXTENDS DateRange, Chunks_proofs

------------------------------------------------------------------------------
(* The points of an archive *)

LEMMA TimeOrder ==
    ASSUME NEW s \in Seq(Nat)
    PROVE  /\ InTimeOrder(s) \in Seq(Nat) /\ Len(InTimeOrder(s)) = Len(s)
           /\ ToSet(InTimeOrder(s)) = ToSet(s)
           /\ \A i, j \in 1..Len(s) : /\ i < j => InTimeOrder(s)[i] <= InTimeOrder(s)[j]
                                      /\ i # j /\ InTimeOrder(s)[i] = InTimeOrder(s)[j] =>
                                             \E m, n \in DOMAIN s :
                                                 m # n /\ s[m] = InTimeOrder(s)[i] /\ s[n] = s[m]
<1> DEFINE p == Sorted(DOMAIN s, s)
           o == [n \in DOMAIN s |-> s[p[n]]]
<1>1. InTimeOrder(s) = o
  BY DEF InTimeOrder
<1>0. Len(s) \in Nat /\ DOMAIN s = 1..Len(s) /\ \A i \in DOMAIN s : s[i] \in Nat
  OBVIOUS
<1>2. /\ Len(s) \in Nat /\ DOMAIN s = 1..Len(s) /\ \A i \in DOMAIN s : s[i] \in Nat
      /\ IsFiniteSet(DOMAIN s) /\ Cardinality(DOMAIN s) = Len(s)
  <2> DEFINE n == Len(s)
  <2>1. n \in Nat
    BY <1>0
  <2> HIDE DEF n
  <2>2. IsFiniteSet(1..n) /\ Cardinality(1..n) = n
    BY <2>1, FS_Interval
  <2> QED BY <1>0, <2>2 DEF n
<1>3. /\ p \in Seq(DOMAIN s) /\ Len(p) = Len(s)
      /\ {p[i] : i \in DOMAIN p} = DOMAIN s
      /\ \A i, j \in DOMAIN p : /\ i < j => s[p[i]] <= s[p[j]]
                                /\ p[i] = p[j] => i = j
  <2> DEFINE D == DOMAIN s
  <2>1. IsFiniteSet(D) /\ Cardinality(D) = Len(s) /\ \A x \in D : s[x] \in Nat
    BY <1>2
  <2> HIDE DEF D
  <2>2. /\ Sorted(D, s) \in Seq(D) /\ Len(Sorted(D, s)) = Cardinality(D)
        /\ {Sorted(D, s)[i] : i \in DOMAIN Sorted(D, s)} = D
        /\ \A i, j \in DOMAIN Sorted(D, s) :
              /\ i < j => s[Sorted(D, s)[i]] <= s[Sorted(D, s)[j]]
              /\ Sorted(D, s)[i] = Sorted(D, s)[j] => i = j
    BY <2>1, SortedFile
  <2> QED BY <2>1, <2>2 DEF D
<1> HIDE DEF p
<1>4. DOMAIN p = DOMAIN s /\ \A i \in DOMAIN s : p[i] \in DOMAIN s /\ o[i] = s[p[i]]
  BY <1>2, <1>3
<1>5. DOMAIN o = 1..Len(s) /\ \A i \in 1..Len(s) : o[i] \in Nat
  BY <1>2, <1>4
<1>6. o \in Seq(Nat) /\ Len(o) = Len(s)
  <2>1. o = [i \in 1..Len(s) |-> s[p[i]]]
    BY <1>2
  <2>2. \A i \in 1..Len(s) : s[p[i]] \in Nat
    BY <1>2, <1>4
  <2> QED BY <1>2, <2>1, <2>2
<1>7. ToSet(o) = ToSet(s)
  <2>1. \A x \in ToSet(o) : x \in ToSet(s)
    BY <1>2, <1>4, <1>5 DEF ToSet
  <2>2. ASSUME NEW x \in ToSet(s) PROVE x \in ToSet(o)
    <3>1. PICK m \in DOMAIN s : x = s[m]
      BY DEF ToSet
    <3>2. PICK i \in DOMAIN p : m = p[i]
      BY <1>3
    <3> QED BY <1>2, <1>4, <1>5, <3>1, <3>2 DEF ToSet
  <2> QED BY <2>1, <2>2
<1>8. \A i, j \in 1..Len(s) : i < j => o[i] <= o[j]
  BY <1>2, <1>3, <1>4
<1>9. \A i, j \in 1..Len(s) : i # j /\ o[i] = o[j] =>
          \E m, n \in DOMAIN s : m # n /\ s[m] = o[i] /\ s[n] = s[m]
  <2> SUFFICES ASSUME NEW i \in 1..Len(s), NEW j \in 1..Len(s), i # j, o[i] = o[j]
               PROVE  \E m, n \in DOMAIN s : m # n /\ s[m] = o[i] /\ s[n] = s[m]
    OBVIOUS
  <2>1. p[i] \in DOMAIN s /\ p[j] \in DOMAIN s /\ p[i] # p[j]
        /\ s[p[i]] = o[i] /\ s[p[j]] = o[j]
    BY <1>2, <1>3, <1>4
  <2> QED BY <2>1
<1> HIDE DEF o
<1> QED BY <1>1, <1>6, <1>7, <1>8, <1>9

LEMMA KeepingIs ==
    ASSUME NEW points \in Seq(Nat), NEW lower, NEW i
    PROVE  /\ Keeping(points, lower, i) \in [0..Len(points) -> Seq(Nat)]
           /\ Keeping(points, lower, i)[0] = <<>>
           /\ \A n \in 1..Len(points) :
                 Keeping(points, lower, i)[n] =
                     IF IsKept(points[n], lower, i)
                     THEN Append(Keeping(points, lower, i)[n - 1], points[n])
                     ELSE Keeping(points, lower, i)[n - 1]
<1> DEFINE Keep(a, ts) == IF IsKept(ts, lower, i) THEN Append(a, ts) ELSE a
           F == [a \in Seq(Nat) |-> [ts \in Nat |-> Keep(a, ts)]]
           len == Len(points)
           Body(g) == [n \in 0..len |-> IF n = 0 THEN <<>> ELSE Keep(g[n - 1], points[n])]
<1>1. F \in [Seq(Nat) -> [Nat -> Seq(Nat)]]
  OBVIOUS
<1>2. <<>> \in Seq(Nat) /\ len \in Nat /\ \A n \in 1..len : points[n] \in Nat
  OBVIOUS
<1> HIDE DEF F
<1>3. PICK g : FoldIs(g, Seq(Nat), F, <<>>, points)
  BY <1>1, <1>2, FoldExists
<1>4. \A n \in 1..len : g[n] = Keep(g[n - 1], points[n])
  <2> SUFFICES ASSUME NEW n \in 1..len PROVE g[n] = Keep(g[n - 1], points[n])
    OBVIOUS
  <2>1. g[n - 1] \in Seq(Nat) /\ points[n] \in Nat
    BY <1>2, <1>3 DEF FoldIs
  <2>2. F[g[n - 1]][points[n]] = Keep(g[n - 1], points[n])
    BY <2>1 DEF F
  <2> QED BY <1>3, <2>2 DEF FoldIs
<1> DEFINE t == CHOOSE h : h = Body(h)
<1>5. Keeping(points, lower, i) = t
  BY DEF Keeping
<1> HIDE DEF Keep
<1>6. g = Body(g)
  BY <1>2, <1>3, <1>4 DEF FoldIs
<1>7. t = Body(t)
  BY <1>6
<1> HIDE DEF t
<1>8. t[0] = <<>> /\ \A n \in 1..len : t[n] = Keep(t[n - 1], points[n])
  BY <1>2, <1>7
<1>9. \A n \in 0..len : t[n] = g[n]
  <2> DEFINE G == {n \in 0..len : t[n] = g[n]}
  <2>1. 0 \in G
    BY <1>2, <1>3, <1>8 DEF FoldIs
  <2>2. \A n \in 1..len : n - 1 \in G => n \in G
    BY <1>2, <1>4, <1>8
  <2> HIDE DEF G
  <2>3. 0..len \subseteq G
    BY <1>2, <2>1, <2>2, IntervalInduct
  <2> QED BY <2>3 DEF G
<1>10. t \in [0..len -> Seq(Nat)]
  <2>1. t = [n \in 0..len |-> t[n]] /\ \A n \in 0..len : g[n] \in Seq(Nat)
    BY <1>3, <1>7 DEF FoldIs
  <2> QED BY <1>9, <2>1
<1> QED BY <1>5, <1>8, <1>10 DEF Keep

Times == 0..(Uint32 - 1)

LEMMA WhisperType ==
    ASSUME NEW w \in WhisperFiles
    PROVE  /\ Len(w) \in Nat /\ DOMAIN w = 1..Len(w)
           /\ \A i \in DOMAIN w :
                 /\ w[i].retention \in Times
                 /\ w[i].slots \in Seq(Times) /\ w[i].slots \in Seq(Nat)
                 /\ \A m, n \in DOMAIN w[i].slots :
                       m # n /\ w[i].slots[m] = w[i].slots[n] => w[i].slots[m] = 0
           /\ \A i, j \in DOMAIN w : i < j => w[i].retention < w[j].retention
<1> DEFINE Archive == [retention : Times, slots : Seq(Times)]
<1>1. w \in Seq(Archive)
  BY DEF WhisperFiles, Times
<1>2. /\ \A i, j \in DOMAIN w : i < j => w[i].retention < w[j].retention
      /\ \A i \in DOMAIN w : \A m, n \in DOMAIN w[i].slots :
             m # n /\ w[i].slots[m] = w[i].slots[n] => w[i].slots[m] = 0
  BY DEF WhisperFiles
<1>3. \A i \in DOMAIN w : w[i] \in Archive
  <2> HIDE DEF Archive
  <2> QED BY <1>1
<1>4. Len(w) \in Nat /\ DOMAIN w = 1..Len(w)
  <2> HIDE DEF Archive
  <2> QED BY <1>1
<1>5. \A i \in DOMAIN w : w[i].retention \in Times /\ w[i].slots \in Seq(Times)
  BY <1>3
<1>6. Times \subseteq Nat
  BY DEF Times
<1>7. \A s \in Seq(Times) : s \in Seq(Nat)
  BY <1>6, SeqWider
<1> QED BY <1>2, <1>4, <1>5, <1>7

LEMMA ArchivePointsAre ==
    ASSUME NEW w \in WhisperFiles, NEW i \in DOMAIN w
    PROVE  /\ ArchivePoints(w, i) \in Seq(Nat) /\ IsAscending(ArchivePoints(w, i))
           /\ ToSet(ArchivePoints(w, i)) =
                  {ts \in Points(w[i]) : IsKept(ts, LowerBoundTs(w), i)}
<1> DEFINE lower == LowerBoundTs(w)
           slots == w[i].slots
           o     == InTimeOrder(slots)
           len   == Len(slots)
           kept  == Keeping(o, lower, i)
<1>1. slots \in Seq(Nat) /\ len \in Nat /\ DOMAIN slots = 1..len
      /\ \A m, n \in 1..len : m # n /\ slots[m] = slots[n] => slots[m] = 0
  <2>1. slots \in Seq(Nat)
    BY WhisperType
  <2>2. len \in Nat /\ DOMAIN slots = 1..len
    BY <2>1
  <2> QED BY <2>1, <2>2, WhisperType
<1>2. ArchivePoints(w, i) = kept[len]
  BY DEF ArchivePoints
<1>3. Points(w[i]) = ToSet(slots) \ {0}
  BY DEF Points
<1> HIDE DEF lower, slots
<1>4. /\ o \in Seq(Nat) /\ Len(o) = len /\ ToSet(o) = ToSet(slots)
      /\ \A m, n \in 1..len : m < n => o[m] <= o[n]
  BY <1>1, TimeOrder
<1>5. \A m, n \in 1..len : m # n /\ o[m] = o[n] => o[m] = 0
  <2> SUFFICES ASSUME NEW m \in 1..len, NEW n \in 1..len, m # n, o[m] = o[n]
               PROVE  o[m] = 0
    OBVIOUS
  <2>1. PICK a \in DOMAIN slots : \E b \in DOMAIN slots :
            a # b /\ slots[a] = o[m] /\ slots[b] = slots[a]
    BY <1>1, TimeOrder
  <2> QED BY <1>1, <2>1
<1> HIDE DEF o
<1>6. /\ kept \in [0..len -> Seq(Nat)] /\ kept[0] = <<>>
      /\ \A n \in 1..len : kept[n] = IF IsKept(o[n], lower, i)
                                     THEN Append(kept[n - 1], o[n]) ELSE kept[n - 1]
  <2>1. /\ kept \in [0..Len(o) -> Seq(Nat)] /\ kept[0] = <<>>
        /\ \A n \in 1..Len(o) : kept[n] = IF IsKept(o[n], lower, i)
                                     THEN Append(kept[n - 1], o[n]) ELSE kept[n - 1]
    BY <1>4, KeepingIs
  <2> QED BY <1>4, <2>1
<1> HIDE DEF kept
<1>7. /\ \A n \in 1..len : o[n] \in Nat /\ n \in 0..len /\ n - 1 \in 0..len
      /\ DOMAIN o = 1..len /\ len \in 0..len
  BY <1>1, <1>4
<1> DEFINE G == {n \in 0..len :
                   /\ IsAscending(kept[n])
                   /\ \A ts : ts \in ToSet(kept[n]) <=>
                          \E m \in 1..n : ts = o[m] /\ IsKept(ts, lower, i)}
<1>8. 0 \in G
  <2>1. IsAscending(<<>>) /\ ToSet(<<>>) = {} /\ 1..0 = {} /\ 0 \in 0..len
    BY <1>1 DEF IsAscending, ToSet
  <2> QED BY <1>6, <2>1
<1>9. ASSUME NEW n \in 1..len, n - 1 \in G PROVE n \in G
  <2>1. /\ n \in 0..len /\ 1..n = (1..(n - 1)) \cup {n}
        /\ \A m \in 1..(n - 1) : m \in 1..len /\ m < n
    BY <1>1
  <2>2. /\ kept[n - 1] \in Seq(Nat) /\ o[n] \in Nat /\ IsAscending(kept[n - 1])
        /\ \A ts : ts \in ToSet(kept[n - 1]) <=>
               \E m \in 1..(n - 1) : ts = o[m] /\ IsKept(ts, lower, i)
    BY <1>6, <1>7, <1>9
  <2>3. CASE ~IsKept(o[n], lower, i)
    <3>1. kept[n] = kept[n - 1]
      BY <1>6, <2>3
    <3> QED BY <2>1, <2>2, <2>3, <3>1
  <2>4. CASE IsKept(o[n], lower, i)
    <3>1. kept[n] = Append(kept[n - 1], o[n])
      BY <1>6, <2>4
    <3>2. ToSet(kept[n]) = ToSet(kept[n - 1]) \cup {o[n]}
      <4>1. ToSet(Append(kept[n - 1], o[n])) = ToSet(kept[n - 1]) \cup {o[n]}
        BY <2>2, AppendHas
      <4> QED BY <3>1, <4>1
    <3>3. o[n] # 0
      BY <2>4 DEF IsKept
    <3>4. \A y \in ToSet(kept[n - 1]) : y < o[n]
      BY <1>4, <1>5, <1>7, <2>1, <2>2, <3>3
    <3>5. IsAscending(kept[n])
      <4>1. kept[n - 1] \in Seq(Int) /\ o[n] \in Int
        BY <2>2
      <4> QED BY <2>2, <3>1, <3>4, <4>1, AppendAscending
    <3> QED BY <2>1, <2>2, <2>4, <3>2, <3>5
  <2> QED BY <2>3, <2>4
<1> HIDE DEF G
<1>10. 0..len \subseteq G
  BY <1>1, <1>8, <1>9, IntervalInduct
<1>11. /\ IsAscending(kept[len]) /\ kept[len] \in Seq(Nat)
       /\ \A ts : ts \in ToSet(kept[len]) <=>
              \E m \in 1..len : ts = o[m] /\ IsKept(ts, lower, i)
  BY <1>6, <1>7, <1>10 DEF G
<1>12. \A ts : ts \in ToSet(kept[len]) <=>
           ts \in ToSet(slots) \ {0} /\ IsKept(ts, lower, i)
  <2>1. \A ts : ts \in ToSet(slots) <=> \E m \in 1..len : ts = o[m]
    BY <1>4, <1>7 DEF ToSet
  <2>2. \A ts : IsKept(ts, lower, i) => ts # 0
    BY DEF IsKept
  <2> QED BY <1>11, <2>1, <2>2
<1> QED BY <1>2, <1>3, <1>11, <1>12 DEF lower

------------------------------------------------------------------------------
(* The points of a file *)

LEMMA PointsAre ==
    ASSUME NEW w \in WhisperFiles, NEW i \in DOMAIN w
    PROVE  /\ Points(w[i]) \subseteq Times \ {0} /\ IsFiniteSet(Points(w[i]))
           /\ Points(w[i]) \cup {0} \subseteq Nat /\ IsFiniteSet(Points(w[i]) \cup {0})
<1>1. w[i].slots \in Seq(Times)
  BY WhisperType
<1>2. IsFiniteSet(ToSet(w[i].slots)) /\ ToSet(w[i].slots) \in SUBSET Times
  BY <1>1, ToSetFinite
<1>3. Points(w[i]) \subseteq ToSet(w[i].slots) /\ 0 \notin Points(w[i])
  BY DEF Points
<1>4. IsFiniteSet(Points(w[i]))
  BY <1>2, <1>3, FS_Subset
<1>5. IsFiniteSet(Points(w[i]) \cup {0})
  BY <1>4, FS_AddElement
<1> QED BY <1>2, <1>3, <1>4, <1>5 DEF Times

LEMMA NowType ==
    ASSUME NEW w \in WhisperFiles, w # <<>>
    PROVE  Now(w) \in Nat /\ MaxTs(w) \in Nat
<1> DEFINE used == {i \in DOMAIN w : Points(w[i]) # {}}
           n    == Newest(w)
<1>1. Len(w) \in Nat \ {0} /\ DOMAIN w = 1..Len(w)
  <2>1. Len(w) # 0
    BY DEF WhisperFiles
  <2> QED BY <2>1, WhisperType
<1>2. n \in DOMAIN w
  <2>1. CASE used = {}
    BY <1>1, <2>1 DEF Newest
  <2>2. CASE used # {}
    <3>1. used \subseteq Nat /\ used \subseteq DOMAIN w
      BY <1>1
    <3>2. n = Min(used)
      BY <2>2 DEF Newest
    <3> HIDE DEF used
    <3>3. Min(used) \in used
      BY <2>2, <3>1, MinIs
    <3> QED BY <3>1, <3>2, <3>3
  <2> QED BY <2>1, <2>2
<1>3. Now(w) = Max(Points(w[n]) \cup {0}) + (IF n > 1 THEN w[n - 1].retention ELSE 0)
  BY DEF Now
<1> HIDE DEF n
<1> DEFINE P == Points(w[n]) \cup {0}
<1>4. Max(P) \in Nat
  <2>1. P # {} /\ P \subseteq Nat /\ IsFiniteSet(P)
    BY <1>2, PointsAre
  <2> HIDE DEF P
  <2> QED BY <2>1, MaxIs
<1>5. n > 1 => w[n - 1].retention \in Nat
  <2>1. n > 1 => n - 1 \in DOMAIN w
    BY <1>1, <1>2
  <2> QED BY <2>1, WhisperType DEF Times
<1>6. Now(w) \in Nat
  BY <1>3, <1>4, <1>5
<1>7. Now(w) % Uint32 \in Nat
  BY <1>6, SamplesAssumption
<1> QED BY <1>6, <1>7 DEF MaxTs

LEMMA LowerBoundsFall ==
    ASSUME NEW w \in WhisperFiles
    PROVE  /\ \A i \in DOMAIN w : LowerBoundTs(w)[i] \in Nat
           /\ \A i, j \in DOMAIN w : i <= j => LowerBoundTs(w)[j] <= LowerBoundTs(w)[i]
<1>1. CASE w = <<>>
  BY <1>1
<1>2. CASE w # <<>>
  <2>1. MaxTs(w) \in Nat
    BY <1>2, NowType
  <2>2. \A i \in DOMAIN w : w[i].retention \in Nat /\ i \in Nat
    BY WhisperType DEF Times
  <2>3. \A i \in DOMAIN w : LowerBoundTs(w)[i] =
            IF MaxTs(w) < w[i].retention THEN 0 ELSE MaxTs(w) - w[i].retention
    BY DEF LowerBoundTs
  <2>4. \A i, j \in DOMAIN w : i <= j => w[i].retention <= w[j].retention
    <3> SUFFICES ASSUME NEW i \in DOMAIN w, NEW j \in DOMAIN w, i <= j
                 PROVE  w[i].retention <= w[j].retention
      OBVIOUS
    <3>1. CASE i = j
      BY <2>2, <3>1
    <3>2. CASE i # j
      <4>1. i < j
        BY <2>2, <3>2
      <4>2. w[i].retention < w[j].retention
        BY <4>1, WhisperType
      <4> QED BY <2>2, <4>2
    <3> QED BY <3>1, <3>2
  <2> QED BY <2>1, <2>2, <2>3, <2>4
<1> QED BY <1>1, <1>2

KeptOf(w, i) == {ts \in Points(w[i]) : IsKept(ts, LowerBoundTs(w), i)}

LEMMA ReadPointsAre ==
    ASSUME NEW w \in WhisperFiles
    PROVE  /\ ReadPoints(w) \in Seq(Nat) /\ IsAscending(ReadPoints(w))
           /\ ToSet(ReadPoints(w)) = UNION {KeptOf(w, i) : i \in DOMAIN w}
           /\ ToSet(ReadPoints(w)) \subseteq Times \ {0}
<1> DEFINE n  == Len(w)
           ps == [i \in DOMAIN w |-> ArchivePoints(w, i)]
           bs == [k \in 1..n |-> ArchivePoints(w, (n - k) + 1)]
<1>1. n \in Nat /\ DOMAIN w = 1..n
  BY WhisperType
<1>2. \A k \in 1..n : (n - k) + 1 \in DOMAIN w
  BY <1>1
<1>3. /\ \A i \in DOMAIN w : /\ ArchivePoints(w, i) \in Seq(Nat)
                             /\ IsAscending(ArchivePoints(w, i))
                             /\ ToSet(ArchivePoints(w, i)) = KeptOf(w, i)
  BY ArchivePointsAre DEF KeptOf
<1>4. ReadPoints(w) = FlattenSeq(bs)
  <2>1. ps \in Seq(Seq(Nat)) /\ Len(ps) = n
    <3>1. ps = [i \in 1..n |-> ArchivePoints(w, i)]
      BY <1>1
    <3>2. \A i \in 1..n : ArchivePoints(w, i) \in Seq(Nat)
      BY <1>1, <1>3
    <3> QED BY <1>1, <3>1, <3>2
  <2>2. Reverse(ps) = bs
    BY <1>1, <1>2, <2>1 DEF Reverse
  <2> QED BY <2>2 DEF ReadPoints
<1>5. bs \in Seq(Seq(Nat)) /\ DOMAIN bs = 1..n
  <2>1. \A k \in 1..n : ArchivePoints(w, (n - k) + 1) \in Seq(Nat)
    BY <1>2, <1>3
  <2> QED BY <1>1, <2>1
<1>6. \A k \in 1..n : /\ bs[k] = ArchivePoints(w, (n - k) + 1)
                      /\ ToSet(bs[k]) = KeptOf(w, (n - k) + 1)
                      /\ IsAscending(bs[k])
  BY <1>2, <1>3
<1> HIDE DEF n, bs
<1>7. FlattenSeq(bs) \in Seq(Nat)
      /\ ToSet(FlattenSeq(bs)) = UNION {ToSet(bs[k]) : k \in DOMAIN bs}
  BY <1>5, FlattenHas
<1>8. UNION {ToSet(bs[k]) : k \in DOMAIN bs} = UNION {KeptOf(w, i) : i \in DOMAIN w}
  <2>1. ASSUME NEW i \in DOMAIN w PROVE \E k \in 1..n : i = (n - k) + 1
    <3>1. (n - i) + 1 \in 1..n /\ i = (n - ((n - i) + 1)) + 1
      BY <1>1
    <3> QED BY <3>1
  <2>2. \A x : x \in UNION {ToSet(bs[k]) : k \in DOMAIN bs} <=>
              \E k \in 1..n : x \in KeptOf(w, (n - k) + 1)
    BY <1>5, <1>6
  <2>3. \A x : x \in UNION {KeptOf(w, i) : i \in DOMAIN w} <=>
              \E i \in DOMAIN w : x \in KeptOf(w, i)
    OBVIOUS
  <2> QED BY <1>2, <2>1, <2>2, <2>3
<1>9. \A i, j \in DOMAIN bs : i < j =>
          \A x \in ToSet(bs[i]), y \in ToSet(bs[j]) : x < y
  <2> SUFFICES ASSUME NEW i \in 1..n, NEW j \in 1..n, i < j,
                      NEW x \in ToSet(bs[i]), NEW y \in ToSet(bs[j])
               PROVE  x < y
    BY <1>5
  <2> DEFINE a == (n - i) + 1
             b == (n - j) + 1
  <2>1. a \in DOMAIN w /\ b \in DOMAIN w /\ a - 1 \in DOMAIN w /\ b <= a - 1 /\ a > 1
    BY <1>1
  <2>2. x \in KeptOf(w, a) /\ y \in KeptOf(w, b)
    BY <1>6
  <2> HIDE DEF a, b
  <2>3. x \in Nat /\ y \in Nat
    BY <2>1, <2>2, PointsAre DEF KeptOf
  <2>4. x <= LowerBoundTs(w)[a - 1] /\ y > LowerBoundTs(w)[b]
    BY <2>1, <2>2 DEF KeptOf, IsKept
  <2>5. LowerBoundTs(w)[a - 1] <= LowerBoundTs(w)[b]
        /\ LowerBoundTs(w)[a - 1] \in Nat /\ LowerBoundTs(w)[b] \in Nat
    BY <2>1, LowerBoundsFall
  <2> QED BY <2>3, <2>4, <2>5
<1>10. IsAscending(FlattenSeq(bs))
  <2>1. bs \in Seq(Seq(Int))
    <3>1. Seq(Nat) \subseteq Seq(Int)
      BY SeqWider
    <3> QED BY <1>5, <3>1, SeqWider
  <2>2. \A i \in DOMAIN bs : IsAscending(bs[i])
    BY <1>5, <1>6
  <2> QED BY <1>9, <2>1, <2>2, FlattenAscending
<1>11. \A i \in DOMAIN w : KeptOf(w, i) \subseteq Times \ {0}
  BY PointsAre DEF KeptOf
<1> QED BY <1>4, <1>7, <1>8, <1>10, <1>11

(* When the sum does not wrap, a point is kept by the boundaries exactly    *)
(* when it is by its age.                                                   *)
LEMMA KeptByAge ==
    ASSUME NEW w \in WhisperFiles, w # <<>>, Now(w) < Uint32
    PROVE  ToSet(ReadPoints(w)) = Kept(w)
<1> DEFINE now == Now(w)
           ByAge(i) == {ts \in Points(w[i]) :
                          /\ now - ts < w[i].retention
                          /\ i > 1 => now - ts >= w[i - 1].retention}
<1>1. now \in Nat /\ MaxTs(w) = now
  <2>1. now \in Nat
    BY NowType
  <2>2. now % Uint32 = now
    BY <2>1, SamplesAssumption
  <2> QED BY <2>1, <2>2 DEF MaxTs
<1>2. Kept(w) = UNION {ByAge(i) : i \in DOMAIN w}
  BY DEF Kept
<1> HIDE DEF now
<1>3. \A i \in DOMAIN w : w[i].retention \in Nat /\ i \in Nat /\ (i > 1 => i - 1 \in DOMAIN w)
  BY WhisperType DEF Times
<1>4. \A i \in DOMAIN w : LowerBoundTs(w)[i] =
          IF now < w[i].retention THEN 0 ELSE now - w[i].retention
  BY <1>1 DEF LowerBoundTs
<1>5. \A i \in DOMAIN w : \A ts \in Points(w[i]) : ts \in Nat /\ ts > 0
  <2>1. \A i \in DOMAIN w : Points(w[i]) \subseteq Times \ {0}
    BY PointsAre
  <2>2. Times \ {0} \subseteq Nat \ {0}
    BY DEF Times
  <2> QED BY <2>1, <2>2
<1>6. ASSUME NEW i \in DOMAIN w PROVE KeptOf(w, i) = ByAge(i)
  <2> SUFFICES ASSUME NEW ts \in Points(w[i])
               PROVE  IsKept(ts, LowerBoundTs(w), i) <=>
                          /\ now - ts < w[i].retention
                          /\ i > 1 => now - ts >= w[i - 1].retention
    BY DEF KeptOf
  <2>1. ts \in Nat /\ ts > 0 /\ w[i].retention \in Nat
    BY <1>3, <1>5
  <2>2. ts > LowerBoundTs(w)[i] <=> now - ts < w[i].retention
    BY <1>1, <1>4, <2>1
  <2>3. ASSUME i > 1
        PROVE  ts <= LowerBoundTs(w)[i - 1] <=> now - ts >= w[i - 1].retention
    <3>1. i - 1 \in DOMAIN w /\ w[i - 1].retention \in Nat
      BY <1>3, <2>3
    <3> QED BY <1>1, <1>4, <2>1, <3>1
  <2>4. IsKept(ts, LowerBoundTs(w), i) <=>
            ts > LowerBoundTs(w)[i] /\ (i > 1 => ts <= LowerBoundTs(w)[i - 1])
    BY <2>1 DEF IsKept
  <2> QED BY <2>2, <2>3, <2>4
<1>7. {KeptOf(w, i) : i \in DOMAIN w} = {ByAge(i) : i \in DOMAIN w}
  BY <1>6
<1> HIDE DEF ByAge
<1> QED BY <1>2, <1>7, ReadPointsAre

------------------------------------------------------------------------------
(* The days of a file's samples *)

LEMMA DayType ==
    ASSUME NEW a \in Nat
    PROVE  /\ DayOf(a) \in Nat /\ a % Day \in 0..(Day - 1)
           /\ a = Day * DayOf(a) + (a % Day)
BY SamplesAssumption DEF DayOf

LEMMA DaysStep ==
    ASSUME NEW q \in Int, NEW r \in Int, NEW d \in Nat \ {0}, q < r
    PROVE  d * q + d <= d * r
<1>1. r - q - 1 >= 0 /\ d * (r - q - 1) = d * r - d * q - d
  OBVIOUS
<1>2. d * (r - q - 1) >= 0
  BY <1>1
<1> QED BY <1>1, <1>2

LEMMA DayMonotone ==
    ASSUME NEW a \in Nat, NEW b \in Nat, a <= b
    PROVE  DayOf(a) <= DayOf(b)
<1> DEFINE q == DayOf(b)
           r == DayOf(a)
<1>1. SUFFICES ASSUME q < r PROVE FALSE
  BY DayType
<1>2. /\ q \in Nat /\ r \in Nat /\ a % Day \in Nat /\ b % Day \in Nat /\ b % Day < Day
      /\ a = Day * r + (a % Day) /\ b = Day * q + (b % Day)
  <2>1. q \in Nat /\ b % Day \in 0..(Day - 1) /\ b = Day * q + (b % Day)
    BY DayType
  <2>2. r \in Nat /\ a % Day \in 0..(Day - 1) /\ a = Day * r + (a % Day)
    BY DayType
  <2>3. \A k \in 0..(Day - 1) : k \in Nat /\ k < Day
    BY SamplesAssumption
  <2> HIDE DEF q, r
  <2> QED BY <2>1, <2>2, <2>3
<1>3. Day \in Nat \ {0} /\ Day * q \in Nat /\ Day * r \in Nat
  BY <1>2, SamplesAssumption
<1>4. Day * q + Day <= Day * r
  BY <1>1, <1>2, <1>3, DaysStep
<1> HIDE DEF q, r
<1> QED BY <1>2, <1>3, <1>4

LEMMA SplittingIs ==
    ASSUME NEW samples \in Seq(Nat)
    PROVE  /\ Splitting(samples)[0] = <<>>
           /\ \A n \in 1..Len(samples) :
                 Splitting(samples)[n] = AddToDays(Splitting(samples)[n - 1], samples[n])
<1> DEFINE T == Seq(Seq(Nat))
           F == [b \in T |-> [ts \in Nat |-> AddToDays(b, ts)]]
           len == Len(samples)
           Body(g) == [n \in 0..len |-> IF n = 0 THEN <<>> ELSE AddToDays(g[n - 1], samples[n])]
<1>1. \A b \in T, ts \in Nat : AddToDays(b, ts) \in T
  <2> SUFFICES ASSUME NEW b \in T, NEW ts \in Nat PROVE AddToDays(b, ts) \in T
    OBVIOUS
  <2> DEFINE c == Append(b[Len(b)], ts)
  <2>1. CASE b # <<>>
    <3>1. Len(b) \in 1..Len(b) /\ b[Len(b)] \in Seq(Nat)
      BY <2>1
    <3>2. c \in Seq(Nat) /\ <<ts>> \in Seq(Nat)
      BY <3>1
    <3>3. AddToDays(b, ts) = [b EXCEPT ![Len(b)] = c] \/ AddToDays(b, ts) = Append(b, <<ts>>)
      BY DEF AddToDays
    <3> HIDE DEF c
    <3>4. [b EXCEPT ![Len(b)] = c] \in T /\ Append(b, <<ts>>) \in T
      BY <3>1, <3>2
    <3> QED BY <3>3, <3>4
  <2>2. CASE b = <<>>
    <3>1. AddToDays(b, ts) = Append(b, <<ts>>) /\ <<ts>> \in Seq(Nat)
      BY <2>2 DEF AddToDays
    <3> QED BY <3>1
  <2> QED BY <2>1, <2>2
<1>2. F \in [T -> [Nat -> T]]
  BY <1>1
<1>3. <<>> \in T /\ len \in Nat /\ \A n \in 1..len : samples[n] \in Nat
  OBVIOUS
<1> HIDE DEF F, T
<1>4. PICK g : FoldIs(g, T, F, <<>>, samples)
  BY <1>2, <1>3, FoldExists
<1>5. \A n \in 1..len : g[n] = AddToDays(g[n - 1], samples[n])
  <2> SUFFICES ASSUME NEW n \in 1..len PROVE g[n] = AddToDays(g[n - 1], samples[n])
    OBVIOUS
  <2>1. g[n - 1] \in T /\ samples[n] \in Nat
    BY <1>3, <1>4 DEF FoldIs
  <2>2. F[g[n - 1]][samples[n]] = AddToDays(g[n - 1], samples[n])
    BY <2>1 DEF F
  <2> QED BY <1>4, <2>2 DEF FoldIs
<1> DEFINE t == CHOOSE h : h = Body(h)
<1>6. Splitting(samples) = t
  BY DEF Splitting
<1>7. g = Body(g)
  BY <1>3, <1>4, <1>5 DEF FoldIs
<1>8. t = Body(t)
  BY <1>7
<1> HIDE DEF t
<1>9. t[0] = <<>> /\ \A n \in 1..len : t[n] = AddToDays(t[n - 1], samples[n])
  BY <1>3, <1>8
<1> QED BY <1>6, <1>9

(* A block: the samples of one day, in order. *)
GoodBlock(b) ==
    /\ b \in Seq(Nat) /\ b # <<>> /\ IsAscending(b)
    /\ \A x \in ToSet(b) : x > 0 /\ DayOf(x) = DayOf(Head(b))
ApartBlocks(bs) ==
    /\ bs \in Seq(Seq(Nat)) /\ \A i \in DOMAIN bs : GoodBlock(bs[i])
    /\ \A i, j \in DOMAIN bs : i < j => DayOf(Head(bs[i])) < DayOf(Head(bs[j]))

LEMMA OneMoreBlock ==
    ASSUME NEW front, ApartBlocks(front), NEW c, GoodBlock(c),
           \A i \in DOMAIN front : DayOf(Head(front[i])) < DayOf(Head(c))
    PROVE  ApartBlocks(Append(front, c))
<1> DEFINE bs == Append(front, c)
           n  == Len(front)
<1>1. front \in Seq(Seq(Nat)) /\ c \in Seq(Nat)
  BY DEF ApartBlocks, GoodBlock
<1>2. /\ bs \in Seq(Seq(Nat)) /\ n \in Nat /\ DOMAIN front = 1..n /\ DOMAIN bs = 1..(n + 1)
      /\ bs[n + 1] = c /\ \A i \in 1..n : bs[i] = front[i]
  BY <1>1
<1> HIDE DEF bs, n
<1>3. \A i \in 1..(n + 1) : i \in 1..n \/ i = n + 1
  BY <1>2
<1>4. \A i \in DOMAIN bs : GoodBlock(bs[i])
  BY <1>2, <1>3 DEF ApartBlocks
<1>5. ASSUME NEW i \in DOMAIN bs, NEW j \in DOMAIN bs, i < j
      PROVE  DayOf(Head(bs[i])) < DayOf(Head(bs[j]))
  <2>1. i \in 1..n
    BY <1>2, <1>5
  <2>2. CASE j = n + 1
    BY <1>2, <2>1, <2>2
  <2>3. CASE j \in 1..n
    BY <1>2, <1>5, <2>1, <2>3 DEF ApartBlocks
  <2> QED BY <1>2, <1>3, <2>2, <2>3
<1> QED BY <1>2, <1>4, <1>5 DEF ApartBlocks, bs

LEMMA GrowBlock ==
    ASSUME NEW b, GoodBlock(b), NEW ts \in Nat, DayOf(ts) = DayOf(Head(b)), Last(b) < ts
    PROVE  GoodBlock(Append(b, ts)) /\ Head(Append(b, ts)) = Head(b)
<1>1. b \in Seq(Nat) /\ b # <<>> /\ IsAscending(b)
      /\ \A x \in ToSet(b) : x > 0 /\ DayOf(x) = DayOf(Head(b))
  BY DEF GoodBlock
<1>2. /\ Append(b, ts) \in Seq(Nat) /\ Append(b, ts) # <<>>
      /\ Head(Append(b, ts)) = Head(b)
  <2>1. Append(b, ts) \in Seq(Nat) /\ Append(b, ts) # <<>>
    BY <1>1, AppendAt
  <2>2. Append(b, ts)[1] = b[1]
    BY <1>1
  <2> QED BY <1>1, <2>1, <2>2
<1>3. ToSet(Append(b, ts)) = ToSet(b) \cup {ts}
  BY <1>1, AppendHas
<1>4. Last(b) \in Nat /\ \A x \in ToSet(b) : x \in Nat /\ x <= Last(b)
  <2>1. \A x \in ToSet(b) : x \in Nat
    BY <1>1 DEF ToSet
  <2> QED BY <1>1, <2>1, LastGreatest
<1>5. ts > 0 /\ \A x \in ToSet(b) : x < ts
  BY <1>4
<1>6. IsAscending(Append(b, ts))
  <2>1. b \in Seq(Int)
    BY <1>1, SeqWider
  <2> QED BY <1>1, <1>5, <2>1, AppendAscending
<1> QED BY <1>1, <1>2, <1>3, <1>5, <1>6 DEF GoodBlock

LEMMA NewBlock ==
    ASSUME NEW ts \in Nat, ts > 0
    PROVE  GoodBlock(<<ts>>) /\ Head(<<ts>>) = ts /\ Last(<<ts>>) = ts
<1>1. <<ts>> \in Seq(Nat) /\ <<ts>> # <<>> /\ Head(<<ts>>) = ts
  OBVIOUS
<1>2. ToSet(<<ts>>) = {ts} /\ IsAscending(<<ts>>) /\ Last(<<ts>>) = ts
  BY DEF ToSet, IsAscending, Last
<1> QED BY <1>1, <1>2 DEF GoodBlock

LEMMA FrontLast ==
    ASSUME NEW T, NEW bs \in Seq(T), bs # <<>>
    PROVE  /\ Front(bs) \in Seq(T) /\ Last(bs) \in T /\ Len(bs) \in DOMAIN bs
           /\ Last(bs) = bs[Len(bs)] /\ bs = Append(Front(bs), Last(bs))
           /\ \A c \in T : [bs EXCEPT ![Len(bs)] = c] = Append(Front(bs), c)
           /\ \A i \in DOMAIN Front(bs) : i \in DOMAIN bs /\ Front(bs)[i] = bs[i] /\ i < Len(bs)
<1> DEFINE n == Len(bs)
           f == SubSeq(bs, 1, n - 1)
<1>1. /\ n \in Nat /\ n # 0 /\ DOMAIN bs = 1..n /\ n \in DOMAIN bs
      /\ Last(bs) = bs[n] /\ bs[n] \in T
  BY DEF Last
<1>2. /\ f \in Seq(T) /\ Len(f) = n - 1 /\ DOMAIN f = 1..(n - 1)
      /\ \A i \in 1..(n - 1) : f[i] = bs[i]
  BY <1>1
<1>3. Front(bs) = f
  BY DEF Front
<1> HIDE DEF f
<1>4. ASSUME NEW c \in T PROVE [bs EXCEPT ![n] = c] = Append(f, c)
  <2> DEFINE a == Append(f, c)
  <2>1. /\ a \in Seq(T) /\ Len(a) = n /\ DOMAIN a = 1..n
        /\ a[n] = c /\ \A i \in 1..(n - 1) : a[i] = bs[i]
    <3>1. Len(f) + 1 = n /\ DOMAIN f = 1..(n - 1)
      BY <1>1, <1>2
    <3>2. /\ a \in Seq(T) /\ Len(a) = Len(f) + 1 /\ DOMAIN a = 1..(Len(f) + 1)
          /\ \A i \in DOMAIN f : a[i] = f[i]
          /\ a[Len(f) + 1] = c
      BY <1>2, AppendAt
    <3> QED BY <1>2, <3>1, <3>2
  <2> HIDE DEF a, n
  <2>2. a = [i \in 1..n |-> a[i]]
    BY <2>1
  <2>3. [bs EXCEPT ![n] = c] = [i \in 1..n |-> IF i = n THEN c ELSE bs[i]]
    BY <1>1
  <2>4. \A i \in 1..n : a[i] = IF i = n THEN c ELSE bs[i]
    <3>1. \A i \in 1..n : i = n \/ (i \in 1..(n - 1) /\ i # n)
      BY <1>1
    <3> QED BY <2>1, <3>1
  <2>5. a = [i \in 1..n |-> IF i = n THEN c ELSE bs[i]]
    BY <2>2, <2>4
  <2> QED BY <2>3, <2>5 DEF a
<1>5. bs = Append(f, bs[n])
  <2>1. [bs EXCEPT ![n] = bs[n]] = bs
    BY <1>1
  <2> QED BY <1>1, <1>4, <2>1
<1>6. \A i \in DOMAIN f : i \in DOMAIN bs /\ f[i] = bs[i] /\ i < n
  BY <1>1, <1>2
<1> QED BY <1>1, <1>2, <1>3, <1>4, <1>5, <1>6

(* What the loop over the samples has after n of them. *)
SplitTo(bs, s, n) ==
    /\ ApartBlocks(bs) /\ FlattenSeq(bs) = SubSeq(s, 1, n)
    /\ n = 0 => bs = <<>>
    /\ n > 0 => bs # <<>> /\ Last(Last(bs)) = s[n]

LEMMA SplitStep ==
    ASSUME NEW s \in Seq(Nat), IsAscending(s), \A x \in ToSet(s) : x > 0,
           NEW n \in 1..Len(s), NEW bs, SplitTo(bs, s, n - 1)
    PROVE  SplitTo(AddToDays(bs, s[n]), s, n)
<1> DEFINE ts == s[n]
           as == AddToDays(bs, ts)
<1>1. /\ ts \in Nat /\ ts > 0 /\ n \in Nat /\ n > 0
      /\ n - 1 # 0 => n - 1 \in DOMAIN s /\ s[n - 1] < ts /\ s[n - 1] \in Nat
  <2>1. n \in DOMAIN s /\ ts \in Nat /\ n \in Nat /\ n > 0
    OBVIOUS
  <2>2. ts \in ToSet(s)
    BY <2>1 DEF ToSet
  <2>3. n - 1 # 0 => n - 1 \in DOMAIN s /\ s[n - 1] \in Nat
    BY <2>1
  <2>4. n - 1 # 0 => s[n - 1] < s[n]
    BY <2>1, <2>3 DEF IsAscending
  <2> QED BY <2>1, <2>2, <2>3, <2>4
<1>2. /\ bs \in Seq(Seq(Nat)) /\ \A i \in DOMAIN bs : GoodBlock(bs[i])
      /\ \A i, j \in DOMAIN bs : i < j => DayOf(Head(bs[i])) < DayOf(Head(bs[j]))
      /\ ApartBlocks(bs) /\ FlattenSeq(bs) = SubSeq(s, 1, n - 1)
  BY DEF SplitTo, ApartBlocks
<1>3. bs # <<>> => n - 1 # 0 /\ Last(Last(bs)) = s[n - 1]
  BY <1>1 DEF SplitTo
<1>4. SubSeq(s, 1, n) = Append(FlattenSeq(bs), ts)
  BY <1>2, PrefixGrows
<1> HIDE DEF ts
(* In the last block the day is one, that of its last sample too. *)
<1>5. ASSUME bs # <<>>
      PROVE  /\ Last(bs) \in Seq(Nat) /\ GoodBlock(Last(bs)) /\ Last(Last(bs)) < ts
             /\ Head(Last(bs)) \in Nat /\ DayOf(Head(Last(bs))) \in Nat
             /\ DayOf(Head(Last(bs))) <= DayOf(ts) /\ DayOf(ts) \in Nat
             /\ \A i \in DOMAIN bs : DayOf(Head(bs[i])) \in Nat
  <2>1. GoodBlock(Last(bs)) /\ Last(bs) \in Seq(Nat) /\ Len(bs) \in DOMAIN bs
    <3>1. Last(bs) \in Seq(Nat) /\ Len(bs) \in DOMAIN bs /\ Last(bs) = bs[Len(bs)]
      <4> DEFINE T == Seq(Nat)
      <4>1. bs \in Seq(T)
        BY <1>2
      <4> HIDE DEF T
      <4>2. Last(bs) \in T /\ Len(bs) \in DOMAIN bs /\ Last(bs) = bs[Len(bs)]
        BY <1>5, <4>1, FrontLast
      <4> QED BY <4>2 DEF T
    <3> QED BY <1>2, <3>1
  <2>2. ASSUME NEW i \in DOMAIN bs
        PROVE  Head(bs[i]) \in Nat /\ DayOf(Head(bs[i])) \in Nat
    <3>1. bs[i] \in Seq(Nat)
      BY <1>2
    <3>2. bs[i] # <<>>
      BY <1>2 DEF GoodBlock
    <3>3. Head(bs[i]) \in Nat
      BY <3>1, <3>2
    <3> QED BY <3>3, DayType
  <2>3. Last(bs) = bs[Len(bs)]
    BY DEF Last
  <2> DEFINE b == Last(bs)
  <2>4. b \in Seq(Nat) /\ b # <<>> /\ IsAscending(b)
        /\ \A x \in ToSet(b) : x > 0 /\ DayOf(x) = DayOf(Head(b))
    BY <2>1 DEF GoodBlock
  <2> HIDE DEF b
  <2>5. Last(b) \in ToSet(b) /\ Last(b) \in Nat
    BY <2>4, LastGreatest
  <2>6. Last(b) < ts /\ Last(b) = s[n - 1]
    BY <1>1, <1>3, <1>5 DEF b, ts
  <2>7. DayOf(Last(b)) <= DayOf(ts) /\ DayOf(ts) \in Nat
    <3>1. Last(b) <= ts
      BY <1>1, <2>5, <2>6
    <3> QED BY <1>1, <2>5, <3>1, DayMonotone, DayType
  <2>8. DayOf(Last(b)) = DayOf(Head(b))
    BY <2>4, <2>5
  <2> QED BY <2>1, <2>2, <2>3, <2>6, <2>7, <2>8 DEF b
(* The day begins with this sample, *)
<1>6. CASE bs = <<>> \/ DayOf(Head(Last(bs))) # DayOf(ts)
  <2> DEFINE c == <<ts>>
  <2>1. c \in Seq(Nat) /\ GoodBlock(c) /\ Head(c) = ts /\ Last(c) = ts
    BY <1>1, NewBlock
  <2>2. as = Append(bs, c)
    BY <1>6 DEF AddToDays
  <2> HIDE DEF c, as
  <2>3. \A i \in DOMAIN bs : DayOf(Head(bs[i])) < DayOf(Head(c))
    <3> SUFFICES ASSUME NEW i \in DOMAIN bs PROVE DayOf(Head(bs[i])) < DayOf(ts)
      BY <2>1
    <3>1. bs # <<>> /\ i \in Nat /\ i <= Len(bs) /\ Len(bs) \in Nat
      BY <1>2
    <3>2. DayOf(Head(Last(bs))) < DayOf(ts)
      BY <1>5, <1>6, <3>1
    <3>3. CASE i = Len(bs)
      BY <3>2, <3>3 DEF Last
    <3>4. CASE i < Len(bs)
      <4>1. DayOf(Head(bs[i])) < DayOf(Head(Last(bs)))
        <5>1. Len(bs) \in DOMAIN bs /\ Last(bs) = bs[Len(bs)]
          BY <1>2, <3>1, FrontLast
        <5> QED BY <1>2, <3>4, <5>1
      <4> QED BY <1>5, <3>1, <3>2, <4>1
    <3> QED BY <3>1, <3>3, <3>4
  <2>4. ApartBlocks(as)
    BY <1>2, <2>1, <2>2, <2>3, OneMoreBlock
  <2>5. as # <<>> /\ Last(as) = c
    <3>1. as # <<>> /\ Len(as) = Len(bs) + 1 /\ as[Len(bs) + 1] = c
      BY <1>2, <2>1, <2>2, AppendAt
    <3> QED BY <3>1 DEF Last
  <2>6. FlattenSeq(as) = FlattenSeq(bs) \o c /\ FlattenSeq(bs) \in Seq(Nat)
    BY <1>2, <2>1, <2>2, FlattenAppend
  <2>7. FlattenSeq(bs) \o c = Append(FlattenSeq(bs), ts)
    BY <1>1, <2>6 DEF c
  <2> QED BY <1>1, <1>4, <2>1, <2>4, <2>5, <2>6, <2>7 DEF SplitTo, as, ts
(* or goes on with it. *)
<1>7. CASE bs # <<>> /\ DayOf(Head(Last(bs))) = DayOf(ts)
  <2> DEFINE f == Front(bs)
             b == Last(bs)
             c == Append(b, ts)
  <2>1. /\ f \in Seq(Seq(Nat)) /\ bs = Append(f, b)
        /\ \A d \in Seq(Nat) : [bs EXCEPT ![Len(bs)] = d] = Append(f, d)
        /\ \A i \in DOMAIN f : i \in DOMAIN bs /\ f[i] = bs[i] /\ i < Len(bs)
        /\ b = bs[Len(bs)] /\ Len(bs) \in DOMAIN bs
    BY <1>2, <1>7, FrontLast
  <2>2. b \in Seq(Nat) /\ GoodBlock(b) /\ Last(b) < ts
    BY <1>5, <1>7
  <2>3. c \in Seq(Nat)
    BY <1>1, <2>2
  <2>4. GoodBlock(c) /\ Head(c) = Head(b)
    BY <1>1, <1>7, <2>2, GrowBlock
  <2>5. as = [bs EXCEPT ![Len(bs)] = c]
    BY <1>7, <2>1 DEF AddToDays
  <2> HIDE DEF f, c, as
  <2>6. as = Append(f, c)
    BY <2>1, <2>3, <2>5
  <2>7. ApartBlocks(f)
    BY <1>2, <2>1 DEF ApartBlocks
  <2>8. \A i \in DOMAIN f : DayOf(Head(f[i])) < DayOf(Head(c))
    BY <1>2, <2>1, <2>4
  <2>9. ApartBlocks(as)
    BY <2>4, <2>6, <2>7, <2>8, OneMoreBlock
  <2>10. as # <<>> /\ Last(as) = c
    <3>1. as # <<>> /\ Len(as) = Len(f) + 1 /\ as[Len(f) + 1] = c
      BY <2>1, <2>3, <2>6, AppendAt
    <3> QED BY <3>1 DEF Last
  <2>11. Last(c) = ts
    <3>1. Len(c) = Len(b) + 1 /\ c[Len(b) + 1] = ts
      BY <1>1, <2>2, AppendAt DEF c
    <3> QED BY <3>1 DEF Last
  <2>12. FlattenSeq(as) = FlattenSeq(f) \o c /\ FlattenSeq(f) \in Seq(Nat)
    BY <2>1, <2>3, <2>6, FlattenAppend
  <2>13. FlattenSeq(bs) = FlattenSeq(f) \o b
    BY <2>1, <2>2, FlattenAppend
  <2>14. FlattenSeq(f) \o c = Append(FlattenSeq(f) \o b, ts)
    BY <1>1, <2>2, <2>12, ConcatAssoc DEF c
  <2>15. FlattenSeq(as) = Append(FlattenSeq(bs), ts)
    BY <2>12, <2>13, <2>14
  <2>16. FlattenSeq(as) = SubSeq(s, 1, n) /\ Last(Last(as)) = s[n]
    BY <1>4, <2>10, <2>11, <2>15 DEF ts
  <2> HIDE DEF b
  <2>17. n # 0
    BY <1>1
  <2>18. SplitTo(as, s, n)
    BY <2>9, <2>10, <2>16, <2>17, ZenonT(30) DEF SplitTo
  <2> QED BY <2>18 DEF as, ts
<1> QED BY <1>6, <1>7

(* The blocks of a file's samples: all samples, each day's once, in order.  *)
LEMMA SplitSamplesByDaysIs ==
    ASSUME NEW s \in Seq(Nat), IsAscending(s), \A x \in ToSet(s) : x > 0
    PROVE  SplitTo(SplitSamplesByDays(s), s, Len(s))
<1> DEFINE len == Len(s)
           t   == Splitting(s)
           G   == {n \in 0..len : SplitTo(t[n], s, n)}
<1>1. len \in Nat /\ t[0] = <<>> /\ \A n \in 1..len : t[n] = AddToDays(t[n - 1], s[n])
  BY SplittingIs
<1> HIDE DEF t
<1>2. 0 \in G
  <2>1. ApartBlocks(<<>>)
    BY DEF ApartBlocks
  <2>2. SubSeq(s, 1, 0) = <<>>
    OBVIOUS
  <2>3. SplitTo(<<>>, s, 0)
    <3>1. ~(0 > 0)
      OBVIOUS
    <3>2. FlattenSeq(<<>>) = SubSeq(s, 1, 0)
      BY <2>2, FlattenEmpty, Zenon
    <3> QED BY <2>1, <3>1, <3>2, ZenonT(30) DEF SplitTo
  <2>4. 0 \in 0..len /\ SplitTo(t[0], s, 0)
    BY <1>1, <2>3
  <2> QED BY <2>4
<1>3. \A n \in 1..len : n - 1 \in G => n \in G
  <2> SUFFICES ASSUME NEW n \in 1..len, SplitTo(t[n - 1], s, n - 1)
               PROVE  SplitTo(t[n], s, n)
    BY <1>1
  <2>1. SplitTo(AddToDays(t[n - 1], s[n]), s, n)
    BY SplitStep
  <2> QED BY <1>1, <2>1
<1> HIDE DEF G
<1>4. 0..len \subseteq G
  BY <1>1, <1>2, <1>3, IntervalInduct
<1>5. SplitTo(t[len], s, len)
  BY <1>1, <1>4 DEF G
<1> QED BY <1>5 DEF SplitSamplesByDays, t

------------------------------------------------------------------------------
(* One file's samples in blocks and chunks *)

(* What DaysApart says of the points of one file. *)
SplitsWell(points) ==
    LET blocks == SplitSamplesByDays(points)
    IN  /\ FlattenSeq(blocks) = points
        /\ \A i, j \in DOMAIN blocks :
             i < j => DayOf(Last(blocks[i])) < DayOf(Head(blocks[j]))
        /\ \A i \in DOMAIN blocks :
             LET c == SamplesToChunks(blocks[i], 0, 0)
             IN  /\ ~c.failed
                 /\ FlattenSeq([k \in DOMAIN c.chunks |-> c.chunks[k].samples]) = blocks[i]
                 /\ \A k \in DOMAIN c.chunks :
                      /\ Len(c.chunks[k].samples) <= SamplesPerChunk
                      /\ c.chunks[k].min = Head(c.chunks[k].samples)
                      /\ c.chunks[k].max = Last(c.chunks[k].samples)

LEMMA EveryFileSplitsWell ==
    ASSUME NEW s \in Seq(Nat), IsAscending(s), \A x \in ToSet(s) : x > 0
    PROVE  SplitsWell(s)
<1> DEFINE blocks == SplitSamplesByDays(s)
<1>1. SplitTo(blocks, s, Len(s))
  BY SplitSamplesByDaysIs
<1> HIDE DEF blocks
<1>2. /\ FlattenSeq(blocks) = SubSeq(s, 1, Len(s)) /\ \A i \in DOMAIN blocks : GoodBlock(blocks[i])
      /\ \A i, j \in DOMAIN blocks : i < j => DayOf(Head(blocks[i])) < DayOf(Head(blocks[j]))
  BY <1>1 DEF SplitTo, ApartBlocks
<1>3. FlattenSeq(blocks) = s
  BY <1>2
<1>4. ASSUME NEW i \in DOMAIN blocks PROVE DayOf(Last(blocks[i])) = DayOf(Head(blocks[i]))
  <2>1. /\ blocks[i] \in Seq(Nat) /\ blocks[i] # <<>> /\ IsAscending(blocks[i])
        /\ \A x \in ToSet(blocks[i]) : DayOf(x) = DayOf(Head(blocks[i]))
    BY <1>2 DEF GoodBlock
  <2> QED BY <2>1, LastGreatest
<1>5. \A i, j \in DOMAIN blocks : i < j => DayOf(Last(blocks[i])) < DayOf(Head(blocks[j]))
  BY <1>2, <1>4
<1>6. ASSUME NEW i \in DOMAIN blocks
      PROVE  LET c == SamplesToChunks(blocks[i], 0, 0)
             IN  /\ ~c.failed
                 /\ FlattenSeq([k \in DOMAIN c.chunks |-> c.chunks[k].samples]) = blocks[i]
                 /\ \A k \in DOMAIN c.chunks :
                      /\ Len(c.chunks[k].samples) <= SamplesPerChunk
                      /\ c.chunks[k].min = Head(c.chunks[k].samples)
                      /\ c.chunks[k].max = Last(c.chunks[k].samples)
  <2> DEFINE c == SamplesToChunks(blocks[i], 0, 0)
  <2>1. ~c.failed /\ GoodChunks(c.chunks) /\ FlattenSeq(SamplesOf(c.chunks)) = blocks[i]
    BY <1>2, BlockChunksAre DEF GoodBlock
  <2> HIDE DEF c
  <2>2. \A k \in DOMAIN c.chunks : GoodChunk(c.chunks[k])
    BY <2>1 DEF GoodChunks
  <2>3. /\ ~c.failed
        /\ FlattenSeq([k \in DOMAIN c.chunks |-> c.chunks[k].samples]) = blocks[i]
        /\ \A k \in DOMAIN c.chunks :
             /\ Len(c.chunks[k].samples) <= SamplesPerChunk
             /\ c.chunks[k].min = Head(c.chunks[k].samples)
             /\ c.chunks[k].max = Last(c.chunks[k].samples)
    BY <2>1, <2>2 DEF SamplesOf, GoodChunk
  <2> QED BY <2>3 DEF c
<1> QED BY <1>3, <1>5, <1>6 DEF SplitsWell, blocks

------------------------------------------------------------------------------
(* The inductive invariant                                                  *)

PointsOf(f) == ToSet(ReadPoints(content[f]))
AllPoints == UNION {PointsOf(f) : f \in Meant}
Busy(t) == tpc[t] \in {"have", "min", "max"}

(* The times, and what stands for none. *)
Lowest  == Times \cup {MaxInt64}
Highest == Times \cup {-MaxInt64}

TypeInv ==
    /\ content \in [Files -> WhisperFiles]
    /\ source \in {"walk", "file-list", "own"}
    /\ list \subseteq Files \cup {Blank} /\ toFeed \subseteq Files \cup {Blank}
    /\ pc \in {"listing", "feeding", "waiting", "collecting", "over", "failed", "panicked"}
    /\ tpc \in [Threads -> {"recv", "have", "min", "max", "done"}]
    /\ tfile \in [Threads -> Files \cup {Blank, NoFile}]
    /\ bounds \in [Threads -> [min : Lowest, max : Highest]]
    /\ seen \in [min : Lowest, max : Highest]
    /\ readsDone \in BOOLEAN
    /\ printed \in {<<>>} \cup Seq((0..DayOf(Uint32)) \cup {NoDay})

(* What a thread that has a file knows of it. *)
ThreadsInv ==
    \A t \in Threads :
        /\ Busy(t) => tfile[t] \in Meant \cup {Blank}
        /\ tpc[t] \in {"min", "max"} =>
             /\ tfile[t] \in Files /\ PointsOf(tfile[t]) # {}
             /\ bounds[t].min = Min(PointsOf(tfile[t])) /\ bounds[t].max = Max(PointsOf(tfile[t]))
        /\ tpc[t] = "max" => seen.min <= bounds[t].min

(* No file that is meant is forgotten: it has to be sent, or a thread has   *)
(* it, or its samples are all within what was seen.                         *)
Covered(f) == \A x \in PointsOf(f) : seen.min <= x /\ x <= seen.max
Accounted(f) == f \in toFeed \/ (\E t \in Threads : Busy(t) /\ tfile[t] = f) \/ Covered(f)
FilesInv ==
    /\ pc = "listing" => /\ source = "file-list" /\ toFeed \subseteq Files
                         /\ list = Matching \ toFeed
    /\ pc = "feeding" => \A f \in toFeed : IsSent(f) => f \in Meant \cup {Blank}
    /\ pc \in {"feeding", "waiting", "collecting", "over"} => \A f \in Meant : Accounted(f)
    /\ pc \in {"waiting", "collecting", "over"} => toFeed = {}

(* Nothing was seen that no file has. *)
SeenInv ==
    /\ seen.min \in AllPoints \cup {MaxInt64}
    /\ seen.max \in AllPoints \cup {-MaxInt64}

Expected == IF AllDays = {} THEN <<NoDay, NoDay>> ELSE <<Min(AllDays), Max(AllDays)>>
EndInv ==
    /\ pc \in {"collecting", "over"} => readsDone
    /\ readsDone => pc \in {"collecting", "over"} /\ \A t \in Threads : tpc[t] = "done"
    /\ printed # <<>> => printed = Expected
    /\ pc = "over" => printed # <<>>

IInv == TypeInv /\ ThreadsInv /\ FilesInv /\ SeenInv /\ EndInv

------------------------------------------------------------------------------
(* Facts about files and times *)

LEMMA TimesType ==
    /\ Times \subseteq Nat /\ MaxInt64 \in Int /\ -MaxInt64 \in Int
    /\ Lowest \subseteq Int /\ Highest \subseteq Int
    /\ \A x \in Times : x < MaxInt64 /\ -MaxInt64 < x /\ x < Uint32
    /\ MaxInt64 # -MaxInt64 /\ Uint32 \in Nat
BY SamplesAssumption, ChunksAssumption DEF Times, Lowest, Highest

LEMMA MeantFiles ==
    ASSUME TypeInv
    PROVE  /\ Meant \subseteq Files /\ Blank \notin Meant
           /\ \A f \in Files : content[f] \in WhisperFiles
           /\ \A f \in Files : PointsOf(f) \subseteq Times \ {0} /\ IsFiniteSet(PointsOf(f))
           /\ AllPoints \subseteq Times \ {0}
<1>1. Meant \subseteq Files /\ Blank \notin Meant
  BY DateRangeAssumption DEF TypeInv, Meant
<1>2. \A f \in Files : content[f] \in WhisperFiles
  BY DEF TypeInv
<1>3. ASSUME NEW f \in Files
      PROVE  PointsOf(f) \subseteq Times \ {0} /\ IsFiniteSet(PointsOf(f))
  <2>1. content[f] \in WhisperFiles
    BY <1>2
  <2>2. ReadPoints(content[f]) \in Seq(Nat) /\ ToSet(ReadPoints(content[f])) \subseteq Times \ {0}
    BY <2>1, ReadPointsAre
  <2> QED BY <2>2, ToSetFinite DEF PointsOf
<1>4. AllPoints \subseteq Times \ {0}
  BY <1>1, <1>3 DEF AllPoints
<1> QED BY <1>1, <1>2, <1>3, <1>4

(* What the operator meant does not change. *)
LEMMA MeantStays ==
    ASSUME UNCHANGED <<content, source>>, list' = list \/ source # "own"
    PROVE  /\ Meant' = Meant /\ AllPoints' = AllPoints /\ Expected' = Expected
           /\ \A f : PointsOf(f)' = PointsOf(f)
<1>1. Meant' = Meant
  BY DEF Meant
<1>2. \A f : PointsOf(f)' = PointsOf(f)
  BY DEF PointsOf
<1>3. AllPoints' = AllPoints
  BY <1>1, <1>2 DEF AllPoints
<1>4. AllDays' = AllDays
  BY <1>1 DEF AllDays
<1> QED BY <1>1, <1>2, <1>3, <1>4 DEF Expected

LEMMA CollectIs ==
    ASSUME seen \in [min : Lowest, max : Highest], NEW ts \in Times, Collect(ts)
    PROVE  /\ seen' \in [min : Lowest, max : Highest]
           /\ seen'.min <= seen.min /\ seen'.min <= ts /\ seen'.min \in {seen.min, ts}
           /\ seen.max <= seen'.max /\ ts <= seen'.max /\ seen'.max \in {seen.max, ts}
           /\ printed = <<>>
<1>1. /\ seen' = [min |-> Min({seen.min, ts}), max |-> Max({seen.max, ts})]
      /\ printed = <<>>
  BY DEF Collect
<1>2. seen.min \in Lowest /\ seen.max \in Highest /\ ts \in Int
      /\ seen.min \in Int /\ seen.max \in Int /\ ts \in Lowest /\ ts \in Highest
  BY TimesType DEF Lowest, Highest
<1> DEFINE lo == Min({seen.min, ts})
           hi == Max({seen.max, ts})
<1>3. lo \in {seen.min, ts} /\ lo <= seen.min /\ lo <= ts
  BY <1>2, OfTwo
<1>4. hi \in {seen.max, ts} /\ seen.max <= hi /\ ts <= hi
  BY <1>2, OfTwo
<1>5. seen'.min = lo /\ seen'.max = hi /\ seen' = [min |-> lo, max |-> hi]
  BY <1>1
<1> HIDE DEF lo, hi
<1>6. seen' \in [min : Lowest, max : Highest]
  BY <1>2, <1>3, <1>4, <1>5
<1> QED BY <1>1, <1>3, <1>4, <1>5, <1>6

(* A thread that has a file, has one of those meant, or an empty line.      *)
LEMMA HeldFile ==
    ASSUME TypeInv, ThreadsInv, NEW t \in Threads, Busy(t), tfile[t] # Blank
    PROVE  tfile[t] \in Meant /\ tfile[t] \in Files
BY MeantFiles DEF ThreadsInv

LEMMA ConvertIs ==
    ASSUME TypeInv, ThreadsInv, NEW t \in Threads, Convert(t)
    PROVE  /\ tfile[t] \in Files /\ PointsOf(tfile[t]) # {}
           /\ Min(PointsOf(tfile[t])) \in Times /\ Max(PointsOf(tfile[t])) \in Times
           /\ bounds' = [bounds EXCEPT ![t] = [min |-> Min(PointsOf(tfile[t])),
                                               max |-> Max(PointsOf(tfile[t]))]]
<1> DEFINE r == ReadPoints(content[tfile[t]])
           P == PointsOf(tfile[t])
<1>1. tfile[t] \in Files
  BY HeldFile DEF Convert, Busy
<1>2. r # <<>> /\ bounds' = [bounds EXCEPT ![t] = [min |-> Min(ToSet(r)), max |-> Max(ToSet(r))]]
  BY DEF Convert
<1>3. r \in Seq(Nat) /\ P = ToSet(r)
  <2>1. content[tfile[t]] \in WhisperFiles
    BY <1>1, MeantFiles
  <2> QED BY <2>1, ReadPointsAre DEF PointsOf
<1>4. P # {} /\ P \subseteq Times /\ IsFiniteSet(P)
  <2>1. P \subseteq Times /\ IsFiniteSet(P)
    BY <1>1, MeantFiles
  <2>2. Len(r) \in DOMAIN r
    BY <1>2, <1>3
  <2> HIDE DEF r
  <2>3. ToSet(r) # {}
    BY <2>2 DEF ToSet
  <2> QED BY <1>3, <2>1, <2>3
<1>5. Min(P) \in P /\ Max(P) \in P
  <2>1. P \subseteq Nat
    BY <1>4, TimesType
  <2> HIDE DEF P
  <2> QED BY <1>4, <2>1, MinIs, MaxIs
<1> HIDE DEF P, r
<1>6. bounds' = [bounds EXCEPT ![t] = [min |-> Min(P), max |-> Max(P)]]
  BY <1>2, <1>3
<1> QED BY <1>1, <1>4, <1>5, <1>6 DEF P

(* The bounds a thread sends are times, its file's points' first and last.  *)
LEMMA SentBounds ==
    ASSUME TypeInv, ThreadsInv, NEW t \in Threads, tpc[t] \in {"min", "max"}
    PROVE  /\ tfile[t] \in Meant
           /\ bounds[t].min \in PointsOf(tfile[t]) /\ bounds[t].min \in Times
           /\ bounds[t].max \in PointsOf(tfile[t]) /\ bounds[t].max \in Times
           /\ \A x \in PointsOf(tfile[t]) : bounds[t].min <= x /\ x <= bounds[t].max
<1> DEFINE P == PointsOf(tfile[t])
<1>1. /\ tfile[t] \in Files /\ tfile[t] \in Meant \cup {Blank} /\ P # {}
      /\ bounds[t].min = Min(P) /\ bounds[t].max = Max(P)
  BY DEF ThreadsInv, Busy
<1>2. P \subseteq Times /\ IsFiniteSet(P) /\ P \subseteq Nat
  BY <1>1, MeantFiles, TimesType
<1> HIDE DEF P
<1>3. /\ Min(P) \in P /\ Max(P) \in P
      /\ \A x \in P : Min(P) <= x /\ x <= Max(P)
  BY <1>1, <1>2, MinIs, MaxIs
<1>4. tfile[t] \in Meant
  BY <1>1, DateRangeAssumption
<1> QED BY <1>1, <1>2, <1>3, <1>4 DEF P

------------------------------------------------------------------------------
(* Types *)

LEMMA InitInv == Init => IInv
<1> SUFFICES ASSUME Init PROVE IInv
  OBVIOUS
<1>1. PICK i \in Inputs :
        /\ content = i.content /\ source = i.source /\ list = i.list
        /\ toFeed = IF i.source = "own" THEN i.list ELSE Files
        /\ pc = IF i.source = "file-list" THEN "listing" ELSE "feeding"
  BY DEF Init
<1>2. /\ i.content \in [Files -> WhisperFiles]
      /\ i.source \in {"walk", "file-list", "own"} /\ i.list \subseteq Files \cup {Blank}
      /\ i.source # "own" => i.list = {}
  BY DateRangeAssumption
<1>3. /\ tpc = [t \in Threads |-> "recv"] /\ tfile = [t \in Threads |-> NoFile]
      /\ bounds = [t \in Threads |-> Unset] /\ seen = Unset /\ readsDone = FALSE
      /\ printed = <<>>
  BY DEF Init
<1>4. Unset \in [min : Lowest, max : Highest] /\ Unset.min = MaxInt64 /\ Unset.max = -MaxInt64
  BY DEF Unset, Lowest, Highest
<1>5. TypeInv
  BY <1>1, <1>2, <1>3, <1>4 DEF TypeInv
<1>6. ThreadsInv
  BY <1>3 DEF ThreadsInv, Busy
<1>7. FilesInv
  BY <1>1, <1>2, DateRangeAssumption DEF FilesInv, IsSent, IsMatchingFile, Meant, Accounted
<1>8. SeenInv
  BY <1>3, <1>4 DEF SeenInv
<1>9. EndInv
  BY <1>1, <1>3 DEF EndInv
<1> QED BY <1>5, <1>6, <1>7, <1>8, <1>9 DEF IInv

LEMMA TypeStep == TypeInv /\ ThreadsInv /\ [Next]_vars => TypeInv'
<1> SUFFICES ASSUME TypeInv, ThreadsInv, [Next]_vars PROVE TypeInv'
  OBVIOUS
<1> USE DEF TypeInv
<1>1. CASE EndList
  BY <1>1 DEF EndList, input, thread
<1>2. CASE CloseChan
  BY <1>2 DEF CloseChan, input, thread
<1>3. CASE CloseReadsDone
  BY <1>3 DEF CloseReadsDone, input, thread
<1>4. CASE End
  BY <1>4 DEF End, input, thread
<1>5. ASSUME NEW f \in Files \cup {Blank}, ListFile(f) PROVE TypeInv'
  BY <1>5 DEF ListFile, input, thread
<1>6. ASSUME NEW f \in Files \cup {Blank}, PassOver(f) PROVE TypeInv'
  BY <1>6 DEF PassOver, input, thread
<1>7. ASSUME NEW f \in Files \cup {Blank}, NEW t \in Threads, Feed(t, f) PROVE TypeInv'
  BY <1>7 DEF Feed, input
<1>8. CASE Report
  <2>1. printed' \in Seq((0..DayOf(Uint32)) \cup {NoDay})
    <3> DEFINE a == IF seen.min = MaxInt64 THEN NoDay ELSE DayOf(seen.min)
               b == IF seen.max = -MaxInt64 THEN NoDay ELSE DayOf(seen.max)
               D == (0..DayOf(Uint32)) \cup {NoDay}
    <3>1. \A x \in Times : DayOf(x) \in 0..DayOf(Uint32)
      <4> SUFFICES ASSUME NEW x \in Times PROVE DayOf(x) \in 0..DayOf(Uint32)
        OBVIOUS
      <4>1. x \in Nat /\ Uint32 \in Nat /\ x <= Uint32
        BY TimesType
      <4>2. DayOf(x) \in Nat /\ DayOf(Uint32) \in Nat /\ DayOf(x) <= DayOf(Uint32)
        BY <4>1, DayType, DayMonotone
      <4> QED BY <4>2
    <3>2. seen.min \in Lowest /\ seen.max \in Highest
      OBVIOUS
    <3>3. a \in D /\ b \in D
      BY <3>1, <3>2 DEF Lowest, Highest
    <3>4. printed' = <<a, b>>
      BY <1>8 DEF Report
    <3> HIDE DEF a, b, D
    <3>5. printed' \in Seq(D)
      BY <3>3, <3>4
    <3> QED BY <3>5 DEF D
  <2> HIDE DEF NoDay
  <2> QED BY <1>8, <2>1 DEF Report, input, thread
<1>9. ASSUME NEW t \in Threads, Panic(t) PROVE TypeInv'
  BY <1>9 DEF Panic, input, thread
<1>10. ASSUME NEW t \in Threads, Skip(t) PROVE TypeInv'
  BY <1>10 DEF Skip, input
<1>11. ASSUME NEW t \in Threads, Convert(t) PROVE TypeInv'
  <2> DEFINE lo == Min(PointsOf(tfile[t]))
             hi == Max(PointsOf(tfile[t]))
  <2>1. /\ lo \in Times /\ hi \in Times
        /\ bounds' = [bounds EXCEPT ![t] = [min |-> lo, max |-> hi]]
    BY <1>11, ConvertIs
  <2> HIDE DEF lo, hi
  <2>2. bounds' \in [Threads -> [min : Lowest, max : Highest]]
    BY <2>1 DEF Lowest, Highest
  <2> QED BY <1>11, <2>2 DEF Convert, input
<1>12. ASSUME NEW t \in Threads, SendMin(t) PROVE TypeInv'
  <2>1. seen' \in [min : Lowest, max : Highest]
    BY <1>12, SentBounds, CollectIs DEF SendMin
  <2> QED BY <1>12, <2>1 DEF SendMin, input
<1>13. ASSUME NEW t \in Threads, SendMax(t) PROVE TypeInv'
  <2>1. seen' \in [min : Lowest, max : Highest]
    BY <1>13, SentBounds, CollectIs DEF SendMax
  <2>2. Unset \in [min : Lowest, max : Highest]
    BY DEF Unset, Lowest, Highest
  <2> QED BY <1>13, <2>1, <2>2 DEF SendMax, input
<1>14. ASSUME NEW t \in Threads, EndThread(t) PROVE TypeInv'
  BY <1>14 DEF EndThread, input
<1>15. CASE ListFails
  BY <1>15 DEF ListFails, input, thread
<1>16. CASE UNCHANGED vars
  BY <1>16 DEF vars, input, thread
<1> QED
  BY <1>1, <1>2, <1>3, <1>4, <1>5, <1>6, <1>7, <1>8, <1>9, <1>10, <1>11, <1>12, <1>13,
     <1>14, <1>15, <1>16 DEF Next, Step, MainStep, ThreadStep

------------------------------------------------------------------------------
(* What threads know *)

LEMMA ThreadsStay ==
    ASSUME ThreadsInv, UNCHANGED <<input, thread, seen>>, list' = list \/ source # "own"
    PROVE  ThreadsInv'
<1>1. Meant' = Meant
  BY MeantStays DEF input
<1> QED BY <1>1 DEF ThreadsInv, Busy, PointsOf, input, thread

LEMMA ThreadsStep == TypeInv /\ ThreadsInv /\ FilesInv /\ [Next]_vars => ThreadsInv'
<1> SUFFICES ASSUME TypeInv, ThreadsInv, FilesInv, [Next]_vars PROVE ThreadsInv'
  OBVIOUS
<1>0. ASSUME UNCHANGED <<content, source, list>>
      PROVE  Meant' = Meant /\ \A f : PointsOf(f)' = PointsOf(f)
  BY <1>0, MeantStays
<1>1. CASE EndList
  BY <1>1, ThreadsStay DEF EndList
<1>2. CASE CloseChan
  BY <1>2, ThreadsStay DEF CloseChan
<1>3. CASE CloseReadsDone
  BY <1>3, ThreadsStay DEF CloseReadsDone
<1>4. CASE End
  BY <1>4, ThreadsStay DEF End
<1>5. ASSUME NEW f \in Files \cup {Blank}, ListFile(f) PROVE ThreadsInv'
  <2>1. source # "own"
    BY <1>5 DEF ListFile, FilesInv
  <2> QED BY <1>5, <2>1, ThreadsStay DEF ListFile
<1>6. ASSUME NEW f \in Files \cup {Blank}, PassOver(f) PROVE ThreadsInv'
  BY <1>6, ThreadsStay DEF PassOver
<1>7. ASSUME NEW f \in Files \cup {Blank}, NEW t \in Threads, Feed(t, f) PROVE ThreadsInv'
  <2>1. Meant' = Meant /\ f \in Meant \cup {Blank}
    BY <1>0, <1>7 DEF Feed, input, FilesInv
  <2> QED BY <1>7, <2>1 DEF Feed, input, ThreadsInv, Busy, PointsOf, TypeInv
<1>8. CASE Report
  BY <1>8, ThreadsStay DEF Report
<1>9. ASSUME NEW t \in Threads, Panic(t) PROVE ThreadsInv'
  BY <1>9, ThreadsStay DEF Panic
<1>10. ASSUME NEW t \in Threads, Skip(t) PROVE ThreadsInv'
  <2>1. Meant' = Meant
    BY <1>0, <1>10 DEF Skip, input
  <2> QED BY <1>10, <2>1 DEF Skip, input, ThreadsInv, Busy, PointsOf, TypeInv
<1>11. ASSUME NEW t \in Threads, Convert(t) PROVE ThreadsInv'
  <2> DEFINE lo == Min(PointsOf(tfile[t]))
             hi == Max(PointsOf(tfile[t]))
  <2>1. /\ tfile[t] \in Files /\ PointsOf(tfile[t]) # {}
        /\ bounds' = [bounds EXCEPT ![t] = [min |-> lo, max |-> hi]]
    BY <1>11, ConvertIs
  <2>2. Meant' = Meant /\ content' = content /\ tfile' = tfile /\ seen' = seen
        /\ tpc' = [tpc EXCEPT ![t] = "min"] /\ tpc[t] = "have"
    BY <1>0, <1>11 DEF Convert, input
  <2>3. tpc \in [Threads -> {"recv", "have", "min", "max", "done"}]
        /\ bounds \in [Threads -> [min : Lowest, max : Highest]]
    BY DEF TypeInv
  <2>4. bounds'[t].min = lo /\ bounds'[t].max = hi
    BY <2>1, <2>3
  <2>5. \A u \in Threads : u # t => bounds'[u] = bounds[u] /\ tpc'[u] = tpc[u]
    BY <2>1, <2>2, <2>3
  <2>6. tpc'[t] = "min"
    BY <2>2, <2>3
  <2> SUFFICES ASSUME NEW u \in Threads
               PROVE  /\ Busy(u)' => tfile'[u] \in Meant' \cup {Blank}
                      /\ tpc'[u] \in {"min", "max"} =>
                           /\ tfile'[u] \in Files /\ PointsOf(tfile[u])' # {}
                           /\ bounds'[u].min = Min(PointsOf(tfile[u])')
                           /\ bounds'[u].max = Max(PointsOf(tfile[u])')
                      /\ tpc'[u] = "max" => seen'.min <= bounds'[u].min
    BY DEF ThreadsInv
  <2>7. CASE u = t
    BY <2>1, <2>2, <2>4, <2>6, <2>7 DEF ThreadsInv, Busy, PointsOf
  <2>8. CASE u # t
    BY <2>2, <2>5, <2>8 DEF ThreadsInv, Busy, PointsOf
  <2> QED BY <2>7, <2>8
<1>12. ASSUME NEW t \in Threads, SendMin(t) PROVE ThreadsInv'
  <2>1. Meant' = Meant /\ content' = content /\ tfile' = tfile /\ bounds' = bounds
        /\ tpc' = [tpc EXCEPT ![t] = "max"] /\ tpc[t] = "min"
    BY <1>0, <1>12 DEF SendMin, input
  <2>2. /\ seen'.min \in Int /\ seen.min \in Int
        /\ seen'.min <= seen.min /\ seen'.min <= bounds[t].min
    <3>1. bounds[t].min \in Times /\ seen \in [min : Lowest, max : Highest]
      BY <2>1, SentBounds DEF TypeInv
    <3>2. /\ seen' \in [min : Lowest, max : Highest]
          /\ seen'.min <= seen.min /\ seen'.min <= bounds[t].min
      BY <1>12, <3>1, CollectIs DEF SendMin
    <3> QED BY <3>1, <3>2, TimesType
  <2>3. \A u \in Threads : bounds[u].min \in Int
    BY TimesType DEF TypeInv
  <2>4. \A u \in Threads : tpc'[u] = "max" => seen'.min <= bounds'[u].min
    BY <2>1, <2>2, <2>3 DEF ThreadsInv, TypeInv
  <2> QED BY <2>1, <2>4 DEF ThreadsInv, Busy, PointsOf, TypeInv
<1>13. ASSUME NEW t \in Threads, SendMax(t) PROVE ThreadsInv'
  <2>1. Meant' = Meant /\ content' = content
        /\ tpc' = [tpc EXCEPT ![t] = "recv"] /\ tpc[t] = "max"
        /\ tfile' = [tfile EXCEPT ![t] = NoFile] /\ bounds' = [bounds EXCEPT ![t] = Unset]
    BY <1>0, <1>13 DEF SendMax, input
  <2>2. seen'.min \in Int /\ seen.min \in Int /\ seen'.min <= seen.min
    <3>1. bounds[t].max \in Times /\ seen \in [min : Lowest, max : Highest]
      BY <2>1, SentBounds DEF TypeInv
    <3>2. seen' \in [min : Lowest, max : Highest] /\ seen'.min <= seen.min
      BY <1>13, <3>1, CollectIs DEF SendMax
    <3> QED BY <3>1, <3>2, TimesType
  <2>3. \A u \in Threads : bounds[u].min \in Int
    BY TimesType DEF TypeInv
  <2>4. \A u \in Threads : u # t => bounds'[u] = bounds[u] /\ tpc'[u] = tpc[u] /\ tfile'[u] = tfile[u]
    BY <2>1 DEF TypeInv
  <2>5. tpc'[t] = "recv"
    BY <2>1 DEF TypeInv
  <2>6. \A u \in Threads : tpc'[u] = "max" => seen'.min <= bounds'[u].min
    BY <2>2, <2>3, <2>4, <2>5 DEF ThreadsInv
  <2> QED BY <2>1, <2>4, <2>5, <2>6 DEF ThreadsInv, Busy, PointsOf
<1>14. ASSUME NEW t \in Threads, EndThread(t) PROVE ThreadsInv'
  <2>1. Meant' = Meant
    BY <1>0, <1>14 DEF EndThread, input
  <2> QED BY <1>14, <2>1 DEF EndThread, input, ThreadsInv, Busy, PointsOf, TypeInv
<1>15. CASE ListFails
  BY <1>15, ThreadsStay DEF ListFails
<1>16. CASE UNCHANGED vars
  BY <1>16, ThreadsStay DEF vars
<1> QED
  BY <1>1, <1>2, <1>3, <1>4, <1>5, <1>6, <1>7, <1>8, <1>9, <1>10, <1>11, <1>12, <1>13,
     <1>14, <1>15, <1>16 DEF Next, Step, MainStep, ThreadStep

------------------------------------------------------------------------------
(* No file is forgotten *)

LEMMA StillAccounted ==
    ASSUME TypeInv, TypeInv', content' = content, NEW f \in Files, Accounted(f),
           seen'.min <= seen.min, seen.max <= seen'.max,
           f \in toFeed => Accounted(f)',
           \A t \in Threads : Busy(t) /\ tfile[t] = f => Accounted(f)'
    PROVE  Accounted(f)'
<1>1. SUFFICES ASSUME Covered(f) PROVE Covered(f)'
  BY DEF Accounted
<1>2. seen.min \in Int /\ seen.max \in Int /\ seen'.min \in Int /\ seen'.max \in Int
  BY TimesType DEF TypeInv
<1>3. PointsOf(f) \subseteq Int /\ PointsOf(f)' = PointsOf(f)
  <2>1. PointsOf(f) \subseteq Int
    <3>1. PointsOf(f) \subseteq Times \ {0}
      BY MeantFiles
    <3>2. Times \subseteq Int
      BY DEF Times
    <3> QED BY <3>1, <3>2
  <2> QED BY <2>1 DEF PointsOf
<1>4. \A x \in PointsOf(f) : seen.min <= x /\ x <= seen.max
  BY <1>1 DEF Covered
<1>5. \A x \in PointsOf(f) : seen'.min <= x /\ x <= seen'.max
  BY <1>2, <1>3, <1>4
<1> QED BY <1>3, <1>5 DEF Covered

(* Steps that leave the files where they are. *)
LEMMA FilesStay ==
    ASSUME FilesInv, UNCHANGED <<input, list, toFeed, thread, seen>>,
           \/ pc' = pc \/ pc' \in {"failed", "panicked"}
           \/ pc = "feeding" /\ toFeed = {} /\ pc' = "waiting"
           \/ pc \in {"waiting", "collecting", "over"} /\ pc' \in {"collecting", "over"}
    PROVE  FilesInv'
<1>1. Meant' = Meant
  BY MeantStays DEF input
<1> QED BY <1>1 DEF FilesInv, IsSent, Accounted, Covered, Busy, PointsOf, input, thread

(* Threads' steps leave all but the accounts.                               *)
LEMMA ThreadFiles ==
    ASSUME TypeInv, FilesInv, UNCHANGED <<input, list, pc, toFeed>>,
           \A f \in Meant : Accounted(f) => Accounted(f)'
    PROVE  FilesInv'
<1>1. Meant' = Meant
  BY MeantStays DEF input
<1> QED BY <1>1 DEF FilesInv, IsSent, input

LEMMA FilesStep ==
    TypeInv /\ ThreadsInv /\ FilesInv /\ TypeInv' /\ [Next]_vars => FilesInv'
<1> SUFFICES ASSUME TypeInv, ThreadsInv, FilesInv, TypeInv', [Next]_vars PROVE FilesInv'
  OBVIOUS
<1>0. /\ Meant \subseteq Files /\ Blank \notin Meant
      /\ seen.min \in Int /\ seen.max \in Int
      /\ tpc \in [Threads -> {"recv", "have", "min", "max", "done"}]
      /\ tfile \in [Threads -> Files \cup {Blank, NoFile}]
  BY MeantFiles, TimesType DEF TypeInv
<1>1. CASE EndList
  <2>1. pc = "listing" /\ pc' = "feeding" /\ toFeed = {} /\ toFeed' = list
    BY <1>1 DEF EndList
  <2>2. source = "file-list" /\ list = Matching /\ Meant' = Meant /\ Meant = Matching
    <3>1. source = "file-list" /\ list = Matching
      BY <2>1 DEF FilesInv
    <3> QED BY <1>1, <3>1, MeantStays DEF EndList, input, Meant
  <2> QED BY <2>1, <2>2 DEF FilesInv, Accounted
<1>2. CASE CloseChan
  BY <1>2, FilesStay DEF CloseChan
<1>3. CASE CloseReadsDone
  BY <1>3, FilesStay DEF CloseReadsDone
<1>4. CASE End
  BY <1>4, FilesStay DEF End
<1>5. ASSUME NEW f \in Files \cup {Blank}, ListFile(f) PROVE FilesInv'
  <2>1. /\ pc = "listing" /\ pc' = "listing" /\ f \in toFeed /\ toFeed' = toFeed \ {f}
        /\ list' = (IF f \in Matching THEN list \cup {f} ELSE list) /\ source' = source
    BY <1>5 DEF ListFile, IsMatchingFile, input
  <2>2. source = "file-list" /\ toFeed \subseteq Files /\ list = Matching \ toFeed
    BY <2>1 DEF FilesInv
  <2> QED BY <2>1, <2>2 DEF FilesInv
<1>6. ASSUME NEW f \in Files \cup {Blank}, PassOver(f) PROVE FilesInv'
  <2>1. /\ pc = "feeding" /\ pc' = "feeding" /\ toFeed' = toFeed \ {f}
        /\ content' = content /\ source' = source /\ list' = list /\ seen' = seen
        /\ tpc' = tpc /\ tfile' = tfile
    BY <1>6 DEF PassOver, input, thread
  <2>2. Meant' = Meant /\ source = "walk" /\ f \notin Matching /\ f \notin Meant
    BY <1>6, <2>1, MeantStays DEF PassOver, IsSent, IsMatchingFile, Meant
  <2>3. \A g \in Meant : Accounted(g)'
    BY <2>1, <2>2 DEF FilesInv, Accounted, Covered, PointsOf, Busy
  <2> QED BY <2>1, <2>2, <2>3 DEF FilesInv, IsSent
<1>7. ASSUME NEW f \in Files \cup {Blank}, NEW t \in Threads, Feed(t, f) PROVE FilesInv'
  <2>1. /\ pc = "feeding" /\ pc' = "feeding" /\ toFeed' = toFeed \ {f}
        /\ content' = content /\ source' = source /\ list' = list /\ seen' = seen
        /\ tpc[t] = "recv" /\ tpc'[t] = "have" /\ tfile'[t] = f
        /\ \A u \in Threads : u # t => tpc'[u] = tpc[u] /\ tfile'[u] = tfile[u]
    BY <1>0, <1>7 DEF Feed, input
  <2>2. Meant' = Meant
    BY <2>1, MeantStays
  <2>3. ASSUME NEW g \in Meant PROVE Accounted(g)'
    <3>1. Accounted(g) /\ g \in Files /\ g # Blank
      BY <1>0, <2>1 DEF FilesInv
    <3>2. g \in toFeed => Accounted(g)'
      BY <2>1 DEF Accounted, Busy
    <3>3. \A u \in Threads : Busy(u) /\ tfile[u] = g => Accounted(g)'
      BY <2>1 DEF Accounted, Busy
    <3>4. seen'.min <= seen.min /\ seen.max <= seen'.max
      BY <1>0, <2>1
    <3> QED BY <2>1, <3>1, <3>2, <3>3, <3>4, StillAccounted
  <2> QED BY <2>1, <2>2, <2>3 DEF FilesInv, IsSent
<1>8. CASE Report
  BY <1>8, FilesStay DEF Report
<1>9. ASSUME NEW t \in Threads, Panic(t) PROVE FilesInv'
  BY <1>9, FilesStay DEF Panic
<1>10. ASSUME NEW t \in Threads, Skip(t) PROVE FilesInv'
  <2>1. /\ UNCHANGED <<input, list, pc, toFeed>> /\ content' = content /\ toFeed' = toFeed
        /\ seen' = seen /\ Busy(t) /\ tfile[t] # Blank
        /\ \A u \in Threads : u # t => tpc'[u] = tpc[u] /\ tfile'[u] = tfile[u]
    BY <1>0, <1>10 DEF Skip, input, Busy
  <2>2. PointsOf(tfile[t]) = {}
    <3>1. ReadPoints(content[tfile[t]]) = <<>>
      BY <1>10 DEF Skip, IsConvertible
    <3> QED BY <3>1 DEF PointsOf, ToSet
  <2>3. ASSUME NEW g \in Meant, Accounted(g) PROVE Accounted(g)'
    <3>1. g \in toFeed => Accounted(g)'
      BY <2>1 DEF Accounted
    <3>2. ASSUME NEW u \in Threads, Busy(u), tfile[u] = g PROVE Accounted(g)'
      <4>1. CASE u = t
        BY <2>1, <2>2, <3>2, <4>1 DEF Accounted, Covered, PointsOf
      <4>2. CASE u # t
        BY <2>1, <3>2, <4>2 DEF Accounted, Busy
      <4> QED BY <4>1, <4>2
    <3>3. seen'.min <= seen.min /\ seen.max <= seen'.max
      BY <1>0, <2>1
    <3> QED BY <1>0, <2>1, <2>3, <3>1, <3>2, <3>3, StillAccounted
  <2> QED BY <2>1, <2>3, ThreadFiles
<1>11. ASSUME NEW t \in Threads, Convert(t) PROVE FilesInv'
  <2>1. /\ UNCHANGED <<input, list, pc, toFeed>> /\ content' = content /\ toFeed' = toFeed
        /\ seen' = seen /\ tfile' = tfile
        /\ \A u \in Threads : Busy(u) => Busy(u)'
    BY <1>0, <1>11 DEF Convert, input, Busy
  <2>2. ASSUME NEW g \in Meant, Accounted(g) PROVE Accounted(g)'
    BY <2>1, <2>2 DEF Accounted, Covered, PointsOf
  <2> QED BY <2>1, <2>2, ThreadFiles
<1>12. ASSUME NEW t \in Threads, SendMin(t) PROVE FilesInv'
  <2>1. /\ UNCHANGED <<input, list, pc, toFeed>> /\ content' = content /\ toFeed' = toFeed
        /\ tfile' = tfile /\ \A u \in Threads : Busy(u) => Busy(u)'
    BY <1>0, <1>12 DEF SendMin, input, Busy
  <2>2. seen'.min <= seen.min /\ seen.max <= seen'.max
    BY <1>12, SentBounds, CollectIs DEF SendMin, TypeInv
  <2>3. ASSUME NEW g \in Meant, Accounted(g) PROVE Accounted(g)'
    <3>1. g \in toFeed => Accounted(g)'
      BY <2>1 DEF Accounted
    <3>2. \A u \in Threads : Busy(u) /\ tfile[u] = g => Accounted(g)'
      BY <2>1 DEF Accounted
    <3> QED BY <1>0, <2>1, <2>2, <2>3, <3>1, <3>2, StillAccounted
  <2> QED BY <2>1, <2>3, ThreadFiles
<1>13. ASSUME NEW t \in Threads, SendMax(t) PROVE FilesInv'
  <2>1. /\ UNCHANGED <<input, list, pc, toFeed>> /\ content' = content /\ toFeed' = toFeed
        /\ tpc[t] = "max"
        /\ \A u \in Threads : u # t => tpc'[u] = tpc[u] /\ tfile'[u] = tfile[u]
    BY <1>0, <1>13 DEF SendMax, input
  <2>2. /\ seen'.min <= seen.min /\ seen.max <= seen'.max /\ bounds[t].max <= seen'.max
        /\ seen' \in [min : Lowest, max : Highest]
    BY <1>13, SentBounds, CollectIs DEF SendMax, TypeInv
  <2>3. seen'.min \in Int /\ seen'.max \in Int
    BY <2>2, TimesType
  <2>4. seen.min <= bounds[t].min
    BY <2>1 DEF ThreadsInv
  <2>5. /\ bounds[t].min \in Int /\ bounds[t].max \in Int /\ tfile[t] \in Files
        /\ \A x \in PointsOf(tfile[t]) : bounds[t].min <= x /\ x <= bounds[t].max
    <3>1. /\ tfile[t] \in Meant /\ bounds[t].min \in Times /\ bounds[t].max \in Times
          /\ \A x \in PointsOf(tfile[t]) : bounds[t].min <= x /\ x <= bounds[t].max
      BY <2>1, SentBounds
    <3>2. bounds[t].min \in Int /\ bounds[t].max \in Int
      BY <3>1 DEF Times
    <3> QED BY <1>0, <3>1, <3>2
  <2>6. PointsOf(tfile[t]) \subseteq Int
    <3>1. PointsOf(tfile[t]) \subseteq Times \ {0}
      BY <2>5, MeantFiles
    <3>2. Times \subseteq Int
      BY DEF Times
    <3> QED BY <3>1, <3>2
  <2>7. \A x \in PointsOf(tfile[t]) : seen'.min <= x /\ x <= seen'.max
    BY <1>0, <2>2, <2>3, <2>4, <2>5, <2>6
  <2>8. ASSUME NEW g \in Meant, Accounted(g) PROVE Accounted(g)'
    <3>1. g \in toFeed => Accounted(g)'
      BY <2>1 DEF Accounted
    <3>2. ASSUME NEW u \in Threads, Busy(u), tfile[u] = g PROVE Accounted(g)'
      <4>1. CASE u = t
        BY <2>1, <2>7, <3>2, <4>1 DEF Accounted, Covered, PointsOf
      <4>2. CASE u # t
        BY <2>1, <3>2, <4>2 DEF Accounted, Busy
      <4> QED BY <4>1, <4>2
    <3> QED BY <1>0, <2>1, <2>2, <2>8, <3>1, <3>2, StillAccounted
  <2> QED BY <2>1, <2>8, ThreadFiles
<1>14. ASSUME NEW t \in Threads, EndThread(t) PROVE FilesInv'
  <2>1. /\ UNCHANGED <<input, list, pc, toFeed>> /\ content' = content /\ toFeed' = toFeed
        /\ seen' = seen /\ tfile' = tfile
        /\ \A u \in Threads : Busy(u) => Busy(u)'
    BY <1>0, <1>14 DEF EndThread, input, Busy
  <2>2. ASSUME NEW g \in Meant, Accounted(g) PROVE Accounted(g)'
    BY <2>1, <2>2 DEF Accounted, Covered, PointsOf
  <2> QED BY <2>1, <2>2, ThreadFiles
<1>15. CASE ListFails
  BY <1>15, FilesStay DEF ListFails
<1>16. CASE UNCHANGED vars
  BY <1>16, FilesStay DEF vars
<1> QED
  BY <1>1, <1>2, <1>3, <1>4, <1>5, <1>6, <1>7, <1>8, <1>9, <1>10, <1>11, <1>12, <1>13,
     <1>14, <1>15, <1>16 DEF Next, Step, MainStep, ThreadStep

------------------------------------------------------------------------------
(* What was seen, and what is printed *)

LEMMA NoFurther ==
    ASSUME [Next]_vars, FilesInv
    PROVE  AllPoints' = AllPoints /\ Expected' = Expected
<1>1. UNCHANGED <<content, source>> /\ (list' = list \/ source # "own")
  <2>1. UNCHANGED <<input, list>> \/ \E f \in Files \cup {Blank} : ListFile(f)
    BY DEF Next, Step, MainStep, ThreadStep, EndList, CloseChan, CloseReadsDone, End,
           PassOver, Feed, Report, Panic, Skip, Convert, SendMin, SendMax, EndThread,
           ListFails, vars
  <2>2. CASE UNCHANGED <<input, list>>
    BY <2>2 DEF input
  <2>3. ASSUME NEW f \in Files \cup {Blank}, ListFile(f)
        PROVE  UNCHANGED <<content, source>> /\ source # "own"
    BY <2>3 DEF ListFile, FilesInv, input
  <2> QED BY <2>1, <2>2, <2>3
<1> QED BY <1>1, MeantStays

LEMMA SeenStep ==
    TypeInv /\ ThreadsInv /\ FilesInv /\ SeenInv /\ [Next]_vars => SeenInv'
<1> SUFFICES ASSUME TypeInv, ThreadsInv, FilesInv, SeenInv, [Next]_vars PROVE SeenInv'
  OBVIOUS
<1>1. AllPoints' = AllPoints
  BY NoFurther
<1>2. ASSUME NEW t \in Threads, SendMin(t) \/ SendMax(t) PROVE SeenInv'
  <2> DEFINE lo == bounds[t].min
             hi == bounds[t].max
  <2>1. /\ lo \in Times /\ hi \in Times /\ lo \in AllPoints /\ hi \in AllPoints
        /\ seen \in [min : Lowest, max : Highest]
    BY <1>2, SentBounds DEF SendMin, SendMax, AllPoints, TypeInv
  <2>2. CASE SendMin(t)
    <3>1. Collect(lo)
      BY <2>2 DEF SendMin
    <3> HIDE DEF lo
    <3>2. seen'.min \in {seen.min, lo} /\ seen'.max \in {seen.max, lo}
      BY <2>1, <3>1, CollectIs
    <3> QED BY <1>1, <2>1, <3>2 DEF SeenInv
  <2>3. CASE SendMax(t)
    <3>1. Collect(hi)
      BY <2>3 DEF SendMax
    <3> HIDE DEF hi
    <3>2. seen'.min \in {seen.min, hi} /\ seen'.max \in {seen.max, hi}
      BY <2>1, <3>1, CollectIs
    <3> QED BY <1>1, <2>1, <3>2 DEF SeenInv
  <2> QED BY <1>2, <2>2, <2>3
<1>3. seen' = seen \/ \E t \in Threads : SendMin(t) \/ SendMax(t)
  BY DEF Next, Step, MainStep, ThreadStep, EndList, CloseChan, CloseReadsDone, End, ListFile,
         PassOver, Feed, Report, Panic, Skip, Convert, EndThread, ListFails, vars
<1> QED BY <1>1, <1>2, <1>3 DEF SeenInv

(* When no thread and no list has a file left, all samples were seen.       *)
LEMMA AllSeen ==
    ASSUME TypeInv, FilesInv, SeenInv, pc \in {"collecting", "over"},
           \A t \in Threads : tpc[t] = "done"
    PROVE  << IF seen.min = MaxInt64 THEN NoDay ELSE DayOf(seen.min),
              IF seen.max = -MaxInt64 THEN NoDay ELSE DayOf(seen.max) >> = Expected
<1>1. AllPoints \subseteq Times /\ AllPoints \subseteq Nat /\ AllPoints \subseteq Int
  <2>1. AllPoints \subseteq Times
    BY MeantFiles
  <2> QED BY <2>1 DEF Times
<1>2. \A x \in AllPoints : seen.min <= x /\ x <= seen.max
  <2>1. \A f \in Meant : Covered(f)
    BY DEF FilesInv, Accounted, Busy
  <2> QED BY <2>1 DEF Covered, AllPoints
<1>3. AllDays = {DayOf(x) : x \in AllPoints}
  BY DEF AllDays, AllPoints, PointsOf
<1>4. CASE AllPoints = {}
  BY <1>3, <1>4 DEF SeenInv, Expected
<1>5. CASE AllPoints # {}
  <2>1. PICK x \in AllPoints : TRUE
    BY <1>5
  <2>2. x < MaxInt64 /\ -MaxInt64 < x /\ x \in Int /\ MaxInt64 \in Int
    BY <1>1, <2>1, TimesType
  <2>3. seen.min # MaxInt64 /\ seen.max # -MaxInt64
    <3>1. seen.min <= x /\ x <= seen.max
      BY <1>2
    <3> QED BY <2>2, <3>1
  <2> DEFINE lo == seen.min
             hi == seen.max
  <2>4. lo \in AllPoints /\ hi \in AllPoints
    BY <2>3 DEF SeenInv
  <2>5. \A y \in AllPoints : lo <= y /\ y <= hi
    BY <1>2
  <2> HIDE DEF lo, hi
  <2>6. \A y \in AllPoints : DayOf(y) \in Nat /\ DayOf(lo) <= DayOf(y) /\ DayOf(y) <= DayOf(hi)
    BY <1>1, <2>4, <2>5, DayType, DayMonotone
  <2> DEFINE a == DayOf(lo)
             b == DayOf(hi)
  <2>7. /\ a \in AllDays /\ b \in AllDays /\ AllDays \subseteq Int
        /\ \A d \in AllDays : a <= d /\ d <= b
    BY <1>3, <2>4, <2>6
  <2> HIDE DEF a, b
  <2>8. Min(AllDays) = a /\ Max(AllDays) = b
    BY <2>7, MinUnique, MaxUnique
  <2>9. AllDays # {}
    BY <2>7
  <2>10. Expected = <<a, b>>
    BY <2>8, <2>9 DEF Expected
  <2> QED BY <2>3, <2>10 DEF a, b, lo, hi
<1> QED BY <1>4, <1>5

LEMMA EndStep == IInv /\ [Next]_vars => EndInv'
<1> SUFFICES ASSUME TypeInv, ThreadsInv, FilesInv, SeenInv, EndInv, [Next]_vars PROVE EndInv'
  BY DEF IInv
<1>0. /\ tpc \in [Threads -> {"recv", "have", "min", "max", "done"}]
      /\ Expected' = Expected
  BY NoFurther DEF TypeInv
<1> HIDE DEF Expected
<1>1. CASE EndList
  BY <1>0, <1>1 DEF EndList, thread, EndInv
<1>2. CASE CloseChan
  BY <1>0, <1>2 DEF CloseChan, thread, EndInv
<1>3. CASE CloseReadsDone
  BY <1>0, <1>3 DEF CloseReadsDone, thread, EndInv
<1>4. CASE End
  BY <1>0, <1>4 DEF End, thread, EndInv
<1>5. ASSUME NEW f \in Files \cup {Blank}, ListFile(f) PROVE EndInv'
  BY <1>0, <1>5 DEF ListFile, thread, EndInv
<1>6. ASSUME NEW f \in Files \cup {Blank}, PassOver(f) PROVE EndInv'
  BY <1>0, <1>6 DEF PassOver, thread, EndInv
<1>7. ASSUME NEW f \in Files \cup {Blank}, NEW t \in Threads, Feed(t, f) PROVE EndInv'
  BY <1>0, <1>7 DEF Feed, EndInv
<1>8. CASE Report
  <2>1. readsDone /\ pc \in {"collecting", "over"} /\ \A t \in Threads : tpc[t] = "done"
    BY <1>8 DEF Report, EndInv
  <2> DEFINE r == << IF seen.min = MaxInt64 THEN NoDay ELSE DayOf(seen.min),
                     IF seen.max = -MaxInt64 THEN NoDay ELSE DayOf(seen.max) >>
  <2>2. r = Expected
    BY <2>1, AllSeen
  <2>3. printed' = r /\ r # <<>>
    BY <1>8 DEF Report
  <2>4. pc' = pc /\ readsDone' = readsDone /\ tpc' = tpc
    BY <1>8 DEF Report, thread
  <2> HIDE DEF r
  <2> QED BY <1>0, <2>1, <2>2, <2>3, <2>4 DEF EndInv
<1>9. ASSUME NEW t \in Threads, Panic(t) PROVE EndInv'
  BY <1>0, <1>9 DEF Panic, thread, EndInv
<1>10. ASSUME NEW t \in Threads, Skip(t) PROVE EndInv'
  BY <1>0, <1>10 DEF Skip, EndInv
<1>11. ASSUME NEW t \in Threads, Convert(t) PROVE EndInv'
  BY <1>0, <1>11 DEF Convert, EndInv
<1>12. ASSUME NEW t \in Threads, SendMin(t) PROVE EndInv'
  BY <1>0, <1>12 DEF SendMin, EndInv
<1>13. ASSUME NEW t \in Threads, SendMax(t) PROVE EndInv'
  BY <1>0, <1>13 DEF SendMax, EndInv
<1>14. ASSUME NEW t \in Threads, EndThread(t) PROVE EndInv'
  BY <1>0, <1>14 DEF EndThread, EndInv
<1>15. CASE ListFails
  BY <1>0, <1>15 DEF ListFails, thread, EndInv
<1>16. CASE UNCHANGED vars
  BY <1>0, <1>16 DEF vars, thread, EndInv
<1> QED
  BY <1>1, <1>2, <1>3, <1>4, <1>5, <1>6, <1>7, <1>8, <1>9, <1>10, <1>11, <1>12, <1>13,
     <1>14, <1>15, <1>16 DEF Next, Step, MainStep, ThreadStep

LEMMA IInvInductive == Spec => []IInv
<1>1. IInv /\ [Next]_vars => IInv'
  BY TypeStep, ThreadsStep, FilesStep, SeenStep, EndStep DEF IInv
<1> QED BY <1>1, InitInv, PTL DEF Spec

------------------------------------------------------------------------------
(* The theorems *)

(* Every variable of the command has its type, and the timestamps that go   *)
(* over the channel are times.                                              *)
THEOREM TypeCorrect == Spec => []TypeOK
<1>1. IInv => TypeOK
  <2> SUFFICES ASSUME TypeInv PROVE TypeOK
    BY DEF IInv
  <2>1. \A b \in [min : Lowest, max : Highest] :
          {b.min, b.max} \subseteq (0..Uint32) \cup {MaxInt64, -MaxInt64}
    <3>1. Times \subseteq 0..Uint32
      BY SamplesAssumption DEF Times
    <3> QED BY <3>1 DEF Lowest, Highest
  <2>2. \A b \in {seen} \cup {bounds[t] : t \in Threads} : b \in [min : Lowest, max : Highest]
    BY DEF TypeInv
  <2>3. \A b \in {seen} \cup {bounds[t] : t \in Threads} :
          {b.min, b.max} \subseteq (0..Uint32) \cup {MaxInt64, -MaxInt64}
    BY <2>1, <2>2
  <2> QED BY <2>3 DEF TypeInv, TypeOK
<1> QED BY <1>1, IInvInductive, PTL

(* The points of a file that a thread has taken (ReadPoints) are read once  *)
(* each, in order of time, and each from the archive that is to be read at  *)
(* its age, for any archives, retentions and points.                        *)
THEOREM PointsKeptAlways == Spec => []PointsKept
<1>1. IInv => PointsKept
  <2> SUFFICES ASSUME TypeInv, ThreadsInv, NEW f \in Taken
               PROVE  /\ IsAscending(ReadPoints(content[f]))
                      /\ content[f] # <<>> /\ Now(content[f]) < Uint32 =>
                             ToSet(ReadPoints(content[f])) = Kept(content[f])
    BY DEF IInv, PointsKept
  <2>1. content[f] \in WhisperFiles
    BY MeantFiles DEF Taken, ThreadsInv, Busy
  <2> QED BY <2>1, ReadPointsAre, KeptByAge
<1> QED BY <1>1, IInvInductive, PTL

(* The samples of a file that a thread has taken are cut into one block for *)
(* each day (SplitSamplesByDays), and the builder cuts every block into     *)
(* chunks that have all its samples, for any samples and any size of chunk. *)
THEOREM DaysApartAlways == Spec => []DaysApart
<1>1. IInv => DaysApart
  <2> SUFFICES ASSUME TypeInv, ThreadsInv, NEW f \in Taken
               PROVE  SplitsWell(ReadPoints(content[f]))
    BY DEF IInv, DaysApart, SplitsWell
  <2>1. content[f] \in WhisperFiles
    BY MeantFiles DEF Taken, ThreadsInv, Busy
  <2> DEFINE s == ReadPoints(content[f])
  <2>2. s \in Seq(Nat) /\ IsAscending(s) /\ ToSet(s) \subseteq Times \ {0}
    BY <2>1, ReadPointsAre
  <2> HIDE DEF s
  <2>3. \A x \in ToSet(s) : x > 0
    BY <2>2 DEF Times
  <2>4. SplitsWell(s)
    BY <2>2, <2>3, EveryFileSplitsWell
  <2> QED BY <2>4 DEF s
<1> QED BY <1>1, IInvInductive, PTL

(* The days that date-range prints are the first and the last of all files  *)
(* that are meant, for any threads, files and order of their messages.      *)
THEOREM RangeIsExactAlways == Spec => []RangeIsExact
<1>1. IInv => RangeIsExact
  BY DEF IInv, EndInv, Expected, RangeIsExact
<1> QED BY <1>1, IInvInductive, PTL
==============================================================================
