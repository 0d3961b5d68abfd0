-------------------------- MODULE BlockBuilder_proofs --------------------------
(****************************************************************************)
(* Proofs about BlockBuilder.tla, for any calls, samples, labels and sizes  *)
(* of the buffers.                                                          *)
(****************************************************************************)
EXTENDS BlockBuilder, Chunks_proofs

------------------------------------------------------------------------------
(* The recursive operators: a call's symbols, the stats. *)

StatSet == [{"numSeries", "numChunks", "numSamples", "minT", "maxT"} -> Nat]

LEMMA AddChunkType ==
    ASSUME NEW st \in StatSet, NEW chunk \in ChunkSet
    PROVE  AddChunk(st, chunk) \in StatSet
<1>1. chunk.min \in Nat /\ chunk.max \in Nat /\ chunk.samples \in Seq(Nat)
  BY DEF ChunkSet
<1>2. Len(chunk.samples) \in Nat
  BY <1>1
<1>3. /\ st["numChunks"] \in Nat /\ st["numSamples"] \in Nat
      /\ st["minT"] \in Nat /\ st["maxT"] \in Nat
  BY DEF StatSet
<1> DEFINE lo == IF chunk.min < st["minT"] THEN chunk.min ELSE st["minT"]
           hi == IF chunk.max > st["maxT"] THEN chunk.max ELSE st["maxT"]
<1>4. lo \in Nat /\ hi \in Nat /\ st["numChunks"] + 1 \in Nat
      /\ st["numSamples"] + Len(chunk.samples) \in Nat
  BY <1>1, <1>2, <1>3
<1>5. AddChunk(st, chunk) =
          [st EXCEPT !["numChunks"] = st["numChunks"] + 1,
                     !["numSamples"] = st["numSamples"] + Len(chunk.samples),
                     !["minT"] = lo, !["maxT"] = hi]
  BY DEF AddChunk, StatSet
<1> HIDE DEF lo, hi
<1> QED BY <1>4, <1>5 DEF StatSet

LEMMA SummingIs ==
    ASSUME NEW st \in StatSet, NEW chunks \in Seq(ChunkSet)
    PROVE  /\ Summing(st, chunks) \in [0..Len(chunks) -> StatSet]
           /\ Summing(st, chunks)[0] = [st EXCEPT !["numSeries"] = st["numSeries"] + 1]
           /\ \A k \in 1..Len(chunks) :
                 Summing(st, chunks)[k] = AddChunk(Summing(st, chunks)[k - 1], chunks[k])
<1> DEFINE F == [a \in StatSet |-> [c \in ChunkSet |-> AddChunk(a, c)]]
           base == [st EXCEPT !["numSeries"] = st["numSeries"] + 1]
           n == Len(chunks)
           Body(g) == [k \in 0..n |-> IF k = 0 THEN [st EXCEPT !.numSeries = @ + 1]
                                      ELSE AddChunk(g[k - 1], chunks[k])]
<1>1. F \in [StatSet -> [ChunkSet -> StatSet]]
  BY AddChunkType
<1>2. base \in StatSet
  <2>1. st["numSeries"] + 1 \in Nat
    BY DEF StatSet
  <2> QED BY <2>1 DEF StatSet
<1>3. n \in Nat /\ \A k \in 1..n : chunks[k] \in ChunkSet
  OBVIOUS
<1>4. [st EXCEPT !.numSeries = @ + 1] = base
  BY DEF StatSet
<1> HIDE DEF F, base
<1>5. PICK g : FoldIs(g, StatSet, F, base, chunks)
  BY <1>1, <1>2, FoldExists
<1>6. \A k \in 1..n : g[k] = AddChunk(g[k - 1], chunks[k])
  <2> SUFFICES ASSUME NEW k \in 1..n PROVE g[k] = AddChunk(g[k - 1], chunks[k])
    OBVIOUS
  <2>1. g[k - 1] \in StatSet /\ chunks[k] \in ChunkSet
    BY <1>3, <1>5 DEF FoldIs
  <2>2. F[g[k - 1]][chunks[k]] = AddChunk(g[k - 1], chunks[k])
    BY <2>1 DEF F
  <2> QED BY <1>5, <2>2 DEF FoldIs
<1>7. g = Body(g)
  BY <1>3, <1>4, <1>5, <1>6 DEF FoldIs
<1> DEFINE t == CHOOSE h : h = Body(h)
<1>8. t = Body(t)
  BY <1>7
<1>9. Summing(st, chunks) = t
  BY DEF Summing
<1> HIDE DEF t
<1>10. t[0] = base
  BY <1>3, <1>4, <1>8
<1>11. \A k \in 1..n : t[k] = AddChunk(t[k - 1], chunks[k])
  BY <1>3, <1>8
<1> DEFINE G == {k \in 0..n : t[k] \in StatSet}
<1>12. 0 \in G
  BY <1>2, <1>3, <1>10
<1>13. \A k \in 1..n : k - 1 \in G => k \in G
  BY <1>3, <1>11, AddChunkType
<1> HIDE DEF G
<1>14. 0..n \subseteq G
  BY <1>3, <1>12, <1>13, IntervalInduct
<1>15. t \in [0..n -> StatSet]
  <2>1. t = [k \in 0..n |-> t[k]]
    BY <1>8
  <2>2. \A k \in 0..n : t[k] \in StatSet
    BY <1>14 DEF G
  <2> QED BY <2>1, <2>2
<1> QED BY <1>9, <1>10, <1>11, <1>15 DEF base

LEMMA AddStatsType ==
    ASSUME NEW st \in StatSet, NEW chunks \in Seq(ChunkSet)
    PROVE  AddStats(st, chunks) \in StatSet
<1>1. Len(chunks) \in 0..Len(chunks)
  OBVIOUS
<1> QED BY <1>1, SummingIs DEF AddStats

(* What the stats r tell more than st: n chunks of one series, which have   *)
(* the samples done.                                                        *)
Tells(st, r, n, done) ==
    /\ r["numSeries"] = st["numSeries"] + 1
    /\ r["numChunks"] = st["numChunks"] + n
    /\ r["numSamples"] = st["numSamples"] + Len(done)
    /\ r["minT"] \in ToSet(done) \cup {st["minT"]}
    /\ \A x \in ToSet(done) \cup {st["minT"]} : r["minT"] <= x
    /\ r["maxT"] \in ToSet(done) \cup {st["maxT"]}
    /\ \A x \in ToSet(done) \cup {st["maxT"]} : x <= r["maxT"]

LEMMA AddChunkTells ==
    ASSUME NEW st \in StatSet, NEW r \in StatSet, NEW n \in Nat, NEW done \in Seq(Nat),
           Tells(st, r, n, done), NEW c, GoodChunk(c)
    PROVE  Tells(st, AddChunk(r, c), n + 1, done \o c.samples)
<1> DEFINE all == done \o c.samples
           q == AddChunk(r, c)
           lo == IF c.min < r["minT"] THEN c.min ELSE r["minT"]
           hi == IF c.max > r["maxT"] THEN c.max ELSE r["maxT"]
           own == c.samples
<1>1. /\ c \in ChunkSet /\ own \in Seq(Nat) /\ own # <<>> /\ c.min \in Nat /\ c.max \in Nat
      /\ c.min = Head(own) /\ c.max = Last(own)
      /\ \A x \in ToSet(own) : c.min <= x /\ x <= c.max
  BY DEF GoodChunk, ChunkSet
<1>2. c.min \in ToSet(own) /\ c.max \in ToSet(own)
  BY <1>1 DEF ToSet, Last
<1>3. all \in Seq(Nat) /\ ToSet(all) = ToSet(done) \cup ToSet(own)
  BY <1>1, ConcatSet
<1>4. Len(all) = Len(done) + Len(own) /\ Len(done) \in Nat /\ Len(own) \in Nat
  BY <1>1
<1>5. /\ q["numSeries"] = r["numSeries"] /\ q["numChunks"] = r["numChunks"] + 1
      /\ q["numSamples"] = r["numSamples"] + Len(own) /\ q["minT"] = lo /\ q["maxT"] = hi
  BY DEF AddChunk, StatSet
<1>6. /\ \A k \in {"numSeries", "numChunks", "numSamples", "minT", "maxT"} :
            r[k] \in Nat /\ st[k] \in Nat
  BY DEF StatSet
<1>7. ToSet(done) \subseteq Nat /\ ToSet(own) \subseteq Nat
  BY <1>1 DEF ToSet
<1>8. /\ r["numSeries"] = st["numSeries"] + 1 /\ r["numChunks"] = st["numChunks"] + n
      /\ r["numSamples"] = st["numSamples"] + Len(done)
  BY DEF Tells
<1>9. /\ r["minT"] \in ToSet(done) \cup {st["minT"]}
      /\ \A x \in ToSet(done) \cup {st["minT"]} : r["minT"] <= x
      /\ r["maxT"] \in ToSet(done) \cup {st["maxT"]}
      /\ \A x \in ToSet(done) \cup {st["maxT"]} : x <= r["maxT"]
  BY DEF Tells
<1> DEFINE C == ToSet(own)
           D == ToSet(done)
           A == ToSet(all)
<1>10. A = D \cup C
  BY <1>3
<1> HIDE DEF all, q, own, C, D, A
<1>11. /\ q["numSeries"] = st["numSeries"] + 1 /\ q["numChunks"] = st["numChunks"] + (n + 1)
       /\ q["numSamples"] = st["numSamples"] + Len(all)
  <2>1. st["numSeries"] \in Nat /\ st["numChunks"] \in Nat /\ st["numSamples"] \in Nat
    BY <1>6
  <2>2. q["numSeries"] = st["numSeries"] + 1
    BY <1>5, <1>8
  <2>3. q["numChunks"] = st["numChunks"] + (n + 1)
    <3>1. q["numChunks"] = (st["numChunks"] + n) + 1
      BY <1>5, <1>8
    <3>2. \A x, y \in Nat : (x + y) + 1 = x + (y + 1)
      OBVIOUS
    <3> QED BY <2>1, <3>1, <3>2
  <2>4. q["numSamples"] = st["numSamples"] + Len(all)
    BY <1>4, <1>5, <1>8, <2>1
  <2> QED BY <2>2, <2>3, <2>4
<1>12. /\ lo \in A \cup {st["minT"]} /\ \A x \in A \cup {st["minT"]} : lo <= x
  <2>1. r["minT"] \in Nat /\ st["minT"] \in Nat /\ D \subseteq Nat /\ C \subseteq Nat
    BY <1>6, <1>7 DEF C, D
  <2>2. /\ r["minT"] \in D \cup {st["minT"]} /\ \A x \in D \cup {st["minT"]} : r["minT"] <= x
    BY <1>9 DEF D
  <2>3. c.min \in C /\ \A x \in C : c.min <= x
    BY <1>1, <1>2 DEF C
  <2> QED BY <1>1, <1>10, <2>1, <2>2, <2>3
<1>13. /\ hi \in A \cup {st["maxT"]} /\ \A x \in A \cup {st["maxT"]} : x <= hi
  <2>1. r["maxT"] \in Nat /\ st["maxT"] \in Nat /\ D \subseteq Nat /\ C \subseteq Nat
    BY <1>6, <1>7 DEF C, D
  <2>2. /\ r["maxT"] \in D \cup {st["maxT"]} /\ \A x \in D \cup {st["maxT"]} : x <= r["maxT"]
    BY <1>9 DEF D
  <2>3. c.max \in C /\ \A x \in C : x <= c.max
    BY <1>1, <1>2 DEF C
  <2> QED BY <1>1, <1>10, <2>1, <2>2, <2>3
<1> HIDE DEF lo, hi
<1>14. Tells(st, q, n + 1, all)
  BY <1>5, <1>11, <1>12, <1>13 DEF Tells, A
<1> QED BY <1>14 DEF q, all, own

(* AddStats adds a series, its chunks and its samples to what the stats say, *)
(* and the times of its samples to their range.                             *)
LEMMA AddStatsTells ==
    ASSUME NEW st \in StatSet, NEW cs, GoodChunks(cs)
    PROVE  Tells(st, AddStats(st, cs), Len(cs), FlattenSeq(SamplesOf(cs)))
<1> DEFINE n == Len(cs)
           t == Summing(st, cs)
           done(k) == FlattenSeq(SamplesOf(SubSeq(cs, 1, k)))
           G == {k \in 0..n : GoodChunks(SubSeq(cs, 1, k)) /\ Tells(st, t[k], k, done(k))}
<1>1. cs \in Seq(ChunkSet) /\ \A k \in DOMAIN cs : GoodChunk(cs[k])
  BY DEF GoodChunks
<1>2. n \in Nat /\ DOMAIN cs = 1..n /\ SubSeq(cs, 1, n) = cs
  BY <1>1
<1>3. /\ t \in [0..n -> StatSet] /\ t[0] = [st EXCEPT !["numSeries"] = st["numSeries"] + 1]
      /\ \A k \in 1..n : t[k] = AddChunk(t[k - 1], cs[k])
  BY <1>1, SummingIs
<1> HIDE DEF t
<1>4. 0 \in G
  <2>1. SubSeq(cs, 1, 0) = <<>>
    BY <1>1
  <2>2. GoodChunks(<<>>) /\ SamplesOf(<<>>) = <<>>
    BY DEF GoodChunks, SamplesOf
  <2>3. done(0) = <<>>
    BY <2>1, <2>2, FlattenEmpty, Zenon
  <2>4. ToSet(<<>>) = {} /\ Len(<<>>) = 0
    BY DEF ToSet
  <2>5. \A k \in {"numSeries", "numChunks", "numSamples", "minT", "maxT"} : st[k] \in Nat
    BY DEF StatSet
  <2>6. /\ t[0]["numSeries"] = st["numSeries"] + 1 /\ t[0]["numChunks"] = st["numChunks"]
        /\ t[0]["numSamples"] = st["numSamples"] /\ t[0]["minT"] = st["minT"]
        /\ t[0]["maxT"] = st["maxT"]
    BY <1>3 DEF StatSet
  <2>7. Tells(st, t[0], 0, <<>>)
    BY <2>4, <2>5, <2>6 DEF Tells
  <2>8. GoodChunks(SubSeq(cs, 1, 0)) /\ Tells(st, t[0], 0, done(0))
    BY <2>1, <2>2, <2>3, <2>7, Zenon
  <2> HIDE DEF done
  <2> QED BY <1>2, <2>8
<1>5. ASSUME NEW k \in 1..n, k - 1 \in G PROVE k \in G
  <2> DEFINE p == SubSeq(cs, 1, k - 1)
             d == FlattenSeq(SamplesOf(p))
             a == t[k - 1]
  <2>1. SubSeq(cs, 1, k) = Append(p, cs[k])
    BY <1>1, <1>2, PrefixGrows
  <2>2. GoodChunks(p) /\ Tells(st, a, k - 1, d)
    BY <1>5
  <2>3. GoodChunk(cs[k]) /\ k \in 0..n /\ k - 1 \in Nat /\ (k - 1) + 1 = k
    BY <1>1, <1>2
  <2>4. t[k] = AddChunk(a, cs[k]) /\ a \in StatSet
    BY <1>2, <1>3
  <2> HIDE DEF p, a
  <2>5. /\ GoodChunks(Append(p, cs[k])) /\ d \in Seq(Nat)
        /\ FlattenSeq(SamplesOf(Append(p, cs[k]))) = d \o cs[k].samples
    BY <2>2, <2>3, OneMoreChunk
  <2> HIDE DEF d
  <2>6. Tells(st, AddChunk(a, cs[k]), (k - 1) + 1, d \o cs[k].samples)
    BY <2>2, <2>3, <2>4, <2>5, AddChunkTells
  <2>7. GoodChunks(SubSeq(cs, 1, k)) /\ Tells(st, t[k], k, done(k))
    <3>1. done(k) = d \o cs[k].samples
      BY <2>1, <2>5
    <3> HIDE DEF done
    <3> QED BY <2>1, <2>3, <2>4, <2>5, <2>6, <3>1
  <2> HIDE DEF done
  <2> QED BY <2>3, <2>7
<1> HIDE DEF G
<1>6. 0..n \subseteq G
  BY <1>2, <1>4, <1>5, IntervalInduct
<1>7. Tells(st, t[n], n, done(n))
  <2>1. n \in G
    BY <1>2, <1>6
  <2> HIDE DEF done
  <2> QED BY <2>1 DEF G
<1>8. AddStats(st, cs) = t[n] /\ done(n) = FlattenSeq(SamplesOf(cs))
  BY <1>2 DEF AddStats, t
<1> HIDE DEF done
<1> QED BY <1>7, <1>8

------------------------------------------------------------------------------
(* The two batchers *)

FileIs(f, S, key) ==
    /\ f \in Seq(S) /\ {f[i] : i \in DOMAIN f} = S
    /\ \A i, j \in DOMAIN f : /\ i < j => key[f[i]] <= key[f[j]]
                              /\ f[i] = f[j] => i = j

SymBatch == {b \in [buffer : SUBSET Nat, files : Seq(Seq(Nat))] : IsFiniteSet(b.buffer)}
HoldsSym(b, x) ==
    \/ x \in b.buffer
    \/ \E i \in DOMAIN b.files : \E j \in DOMAIN b.files[i] : b.files[i][j] = x

(* The files are in order. *)
FilesRise(fs) == \A i \in DOMAIN fs : \A j, k \in DOMAIN fs[i] : j < k => fs[i][j] <= fs[i][k]

LEMMA FlushSymbolsKeeps ==
    ASSUME NEW b \in SymBatch, NEW force
    PROVE  /\ FlushSymbols(b, force) \in SymBatch
           /\ \A x : HoldsSym(b, x) <=> HoldsSym(FlushSymbols(b, force), x)
           /\ force => FlushSymbols(b, force).buffer = {}
           /\ FilesRise(b.files) => FilesRise(FlushSymbols(b, force).files)
<1> DEFINE S == b.buffer
           key == [n \in S |-> n]
           f == Sorted(S, key)
           flushed == [buffer |-> {}, files |-> Append(b.files, f)]
<1>1. S \in SUBSET Nat /\ IsFiniteSet(S) /\ b.files \in Seq(Seq(Nat))
  BY DEF SymBatch
<1>2. \A x \in S : key[x] = x /\ key[x] \in Nat
  BY <1>1
<1>4. FlushSymbols(b, force) = b \/ FlushSymbols(b, force) = flushed
  BY DEF FlushSymbols
<1>5. force => FlushSymbols(b, force).buffer = {}
  BY DEF FlushSymbols
<1> HIDE DEF key
<1>3. /\ f \in Seq(S) /\ {f[i] : i \in DOMAIN f} = S
      /\ \A j, k \in DOMAIN f : j < k => key[f[j]] <= key[f[k]]
  BY <1>1, <1>2, SortedFile
<1> HIDE DEF f
<1>6. f \in Seq(Nat)
  BY <1>1, <1>3
<1>7. flushed \in SymBatch
  <2>1. Append(b.files, f) \in Seq(Seq(Nat))
    BY <1>1, <1>6
  <2> QED BY <2>1, FS_EmptySet DEF SymBatch
<1>8. ASSUME NEW x, HoldsSym(b, x) PROVE HoldsSym(flushed, x)
  <2>1. CASE x \in S
    <3>1. PICK j \in DOMAIN f : f[j] = x
      BY <1>3, <2>1
    <3>2. Len(b.files) + 1 \in DOMAIN flushed.files /\ flushed.files[Len(b.files) + 1] = f
      BY <1>1, <1>6, AppendAt
    <3> QED BY <3>1, <3>2 DEF HoldsSym
  <2>2. CASE x \notin S
    <3>1. PICK i \in DOMAIN b.files : \E j \in DOMAIN b.files[i] : b.files[i][j] = x
      BY <1>8, <2>2 DEF HoldsSym
    <3>2. i \in DOMAIN flushed.files /\ flushed.files[i] = b.files[i]
      BY <1>1, <1>6, AppendAt
    <3> QED BY <3>1, <3>2 DEF HoldsSym
  <2> QED BY <2>1, <2>2
<1>9. ASSUME NEW x, HoldsSym(flushed, x) PROVE HoldsSym(b, x)
  <2>1. PICK i \in DOMAIN flushed.files : \E j \in DOMAIN flushed.files[i] : flushed.files[i][j] = x
    BY <1>9 DEF HoldsSym
  <2>2. CASE i \in DOMAIN b.files
    <3>1. flushed.files[i] = b.files[i]
      BY <1>1, <1>6, <2>2, AppendAt
    <3> QED BY <2>1, <2>2, <3>1 DEF HoldsSym
  <2>3. CASE i = Len(b.files) + 1
    <3>1. flushed.files[i] = f
      BY <1>1, <1>6, <2>3, AppendAt
    <3>2. x \in S
      BY <1>3, <2>1, <3>1
    <3> QED BY <3>2 DEF HoldsSym
  <2> QED BY <1>1, <1>6, <2>1, <2>2, <2>3, AppendAt
<1>10. ASSUME FilesRise(b.files), NEW i \in DOMAIN flushed.files,
              NEW j \in DOMAIN flushed.files[i], NEW k \in DOMAIN flushed.files[i], j < k
       PROVE  flushed.files[i][j] <= flushed.files[i][k]
  <2>1. CASE i \in DOMAIN b.files
    <3>1. flushed.files[i] = b.files[i]
      BY <1>1, <1>6, <2>1, AppendAt
    <3> QED BY <1>10, <2>1, <3>1 DEF FilesRise
  <2>2. CASE i = Len(b.files) + 1
    <3>1. flushed.files[i] = f
      BY <1>1, <1>6, <2>2, AppendAt
    <3>2. f[j] \in S /\ f[k] \in S
      BY <1>3, <3>1
    <3>3. key[f[j]] <= key[f[k]]
      BY <1>3, <1>10, <3>1
    <3> QED BY <1>2, <3>1, <3>2, <3>3
  <2> QED BY <1>1, <1>6, <2>1, <2>2, AppendAt
<1>11. FilesRise(b.files) => FilesRise(flushed.files)
  <2> HIDE DEF flushed
  <2> QED BY <1>10 DEF FilesRise
<1> HIDE DEF flushed
<1> QED BY <1>4, <1>5, <1>7, <1>8, <1>9, <1>11

LEMMA AddSymbolKeeps ==
    ASSUME NEW b \in SymBatch, NEW sym \in Nat
    PROVE  /\ AddSymbol(b, sym) \in SymBatch
           /\ \A x : HoldsSym(b, x) \/ x = sym <=> HoldsSym(AddSymbol(b, sym), x)
           /\ FilesRise(b.files) => FilesRise(AddSymbol(b, sym).files)
<1> DEFINE a == [b EXCEPT !.buffer = @ \cup {sym}]
<1>1. a \in SymBatch
  <2>1. b.buffer \cup {sym} \in SUBSET Nat /\ IsFiniteSet(b.buffer \cup {sym})
    BY FS_AddElement DEF SymBatch
  <2> QED BY <2>1 DEF SymBatch
<1>2. /\ \A x : HoldsSym(b, x) \/ x = sym <=> HoldsSym(a, x)
      /\ a.files = b.files
  <2>1. a.buffer = b.buffer \cup {sym} /\ a.files = b.files
    BY DEF SymBatch
  <2> HIDE DEF a
  <2> QED BY <2>1 DEF HoldsSym
<1> HIDE DEF a
<1>3. /\ FlushSymbols(a, FALSE) \in SymBatch
      /\ \A x : HoldsSym(a, x) <=> HoldsSym(FlushSymbols(a, FALSE), x)
      /\ FilesRise(a.files) => FilesRise(FlushSymbols(a, FALSE).files)
  BY <1>1, FlushSymbolsKeeps
<1>4. AddSymbol(b, sym) = FlushSymbols(a, FALSE)
  BY DEF AddSymbol, a
<1> QED BY <1>2, <1>3, <1>4

(* Once a call's symbols are added, they are held, and what was held is.    *)
LEMMA AddingKeeps ==
    ASSUME NEW b \in SymBatch, NEW symbols \in Seq(Nat)
    PROVE  /\ Adding(b, symbols)[Len(symbols)] \in SymBatch
           /\ \A x : HoldsSym(b, x) => HoldsSym(Adding(b, symbols)[Len(symbols)], x)
           /\ \A k \in DOMAIN symbols : HoldsSym(Adding(b, symbols)[Len(symbols)], symbols[k])
           /\ \A x : HoldsSym(Adding(b, symbols)[Len(symbols)], x) =>
                 HoldsSym(b, x) \/ \E k \in DOMAIN symbols : symbols[k] = x
           /\ FilesRise(b.files) => FilesRise(Adding(b, symbols)[Len(symbols)].files)
<1> DEFINE F == [a \in SymBatch |-> [sym \in Nat |-> AddSymbol(a, sym)]]
           n == Len(symbols)
           Body(g) == [i \in 0..n |-> IF i = 0 THEN b ELSE AddSymbol(g[i - 1], symbols[i])]
<1>1. F \in [SymBatch -> [Nat -> SymBatch]]
  BY AddSymbolKeeps
<1>2. n \in Nat /\ DOMAIN symbols = 1..n /\ \A k \in 1..n : symbols[k] \in Nat
  OBVIOUS
<1> HIDE DEF F
<1>3. PICK g : FoldIs(g, SymBatch, F, b, symbols)
  BY <1>1, FoldExists
<1>4. \A k \in 1..n : g[k] = AddSymbol(g[k - 1], symbols[k])
  <2> SUFFICES ASSUME NEW k \in 1..n PROVE g[k] = AddSymbol(g[k - 1], symbols[k])
    OBVIOUS
  <2>1. g[k - 1] \in SymBatch /\ symbols[k] \in Nat
    <3>1. k - 1 \in 0..n /\ symbols[k] \in Nat
      BY <1>2
    <3>2. g \in [0..n -> SymBatch]
      BY <1>3 DEF FoldIs
    <3> QED BY <3>1, <3>2
  <2>2. F[g[k - 1]][symbols[k]] = AddSymbol(g[k - 1], symbols[k])
    BY <2>1 DEF F
  <2> QED BY <1>3, <2>2 DEF FoldIs
<1>5. g = Body(g)
  BY <1>2, <1>3, <1>4 DEF FoldIs
<1> DEFINE t == CHOOSE h : h = Body(h)
<1>6. t = Body(t)
  BY <1>5
<1>7. Adding(b, symbols) = t
  BY DEF Adding
<1> HIDE DEF t
<1>8. t[0] = b
  BY <1>2, <1>6
<1>9. \A k \in 1..n : t[k] = AddSymbol(t[k - 1], symbols[k])
  BY <1>2, <1>6
<1> DEFINE G == {k \in 0..n : /\ t[k] \in SymBatch
                              /\ \A x : HoldsSym(b, x) => HoldsSym(t[k], x)
                              /\ \A i \in 1..k : HoldsSym(t[k], symbols[i])
                              /\ \A x : HoldsSym(t[k], x) =>
                                    HoldsSym(b, x) \/ \E i \in 1..n : symbols[i] = x
                              /\ FilesRise(b.files) => FilesRise(t[k].files)}
<1>10. 0 \in G
  BY <1>2, <1>8
<1>11. ASSUME NEW k \in 1..n, k - 1 \in G PROVE k \in G
  <2>1. /\ t[k - 1] \in SymBatch
        /\ \A x : HoldsSym(b, x) => HoldsSym(t[k - 1], x)
        /\ \A i \in 1..(k - 1) : HoldsSym(t[k - 1], symbols[i])
        /\ \A x : HoldsSym(t[k - 1], x) => HoldsSym(b, x) \/ \E i \in 1..n : symbols[i] = x
        /\ FilesRise(b.files) => FilesRise(t[k - 1].files)
    BY <1>11
  <2>2. /\ t[k] \in SymBatch
        /\ \A x : HoldsSym(t[k - 1], x) \/ x = symbols[k] <=> HoldsSym(t[k], x)
        /\ FilesRise(t[k - 1].files) => FilesRise(t[k].files)
    <3> DEFINE a == t[k - 1]
               sym == symbols[k]
    <3>1. a \in SymBatch /\ sym \in Nat /\ t[k] = AddSymbol(a, sym)
      BY <1>2, <1>9, <2>1
    <3> HIDE DEF a, sym
    <3>2. /\ AddSymbol(a, sym) \in SymBatch
          /\ \A x : HoldsSym(a, x) \/ x = sym <=> HoldsSym(AddSymbol(a, sym), x)
          /\ FilesRise(a.files) => FilesRise(AddSymbol(a, sym).files)
      BY <3>1, AddSymbolKeeps
    <3> QED BY <3>1, <3>2 DEF a, sym
  <2>3. \A i \in 1..k : i \in 1..(k - 1) \/ i = k
    BY <1>2
  <2>4. \A i \in 1..k : HoldsSym(t[k], symbols[i])
    BY <2>1, <2>2, <2>3
  <2>5. k \in 0..n
    BY <1>2
  <2> QED BY <2>1, <2>2, <2>4, <2>5
<1> HIDE DEF G
<1>12. 0..n \subseteq G
  BY <1>2, <1>10, <1>11, IntervalInduct
<1>13. n \in G
  BY <1>2, <1>12
<1> QED BY <1>2, <1>7, <1>13 DEF G

SerBatch == [buffer : Seq(Calls), files : Seq(Seq(Calls))]

(* A flush of the series leaves the batcher, or makes a file of its buffer. *)
LEMMA FlushSeriesIs ==
    ASSUME NEW b \in SerBatch, NEW force
    PROVE  /\ \/ FlushSeries(b, force) = b
              \/ \E f \in Seq(Calls) :
                    /\ FileIs(f, ToSet(b.buffer), Rank)
                    /\ FlushSeries(b, force) =
                          [buffer |-> <<>>, files |-> Append(b.files, f)]
           /\ force => FlushSeries(b, force).buffer = <<>>
           /\ FlushSeries(b, force) \in SerBatch
<1> DEFINE S == ToSet(b.buffer)
           f == Sorted(S, Rank)
           flushed == [buffer |-> <<>>, files |-> Append(b.files, f)]
<1>1. b.buffer \in Seq(Calls) /\ b.files \in Seq(Seq(Calls))
  BY DEF SerBatch
<1>2. IsFiniteSet(S) /\ S \in SUBSET Calls
  BY <1>1, ToSetFinite
<1>3. \A x \in S : Rank[x] \in Nat
  BY <1>2, BlockBuilderAssumption
<1> HIDE DEF S
<1>4. FileIs(f, S, Rank)
  BY <1>2, <1>3, SortedFile DEF FileIs
<1>5. FlushSeries(b, force) = b \/ FlushSeries(b, force) = flushed
  BY DEF FlushSeries, S
<1>6. force => FlushSeries(b, force).buffer = <<>>
  BY DEF FlushSeries
<1> HIDE DEF f
<1>7. f \in Seq(Calls)
  BY <1>2, <1>4 DEF FileIs
<1>8. flushed \in SerBatch
  <2>1. Append(b.files, f) \in Seq(Seq(Calls)) /\ <<>> \in Seq(Calls)
    BY <1>1, <1>7
  <2> QED BY <2>1 DEF SerBatch
<1> HIDE DEF flushed
<1> QED BY <1>4, <1>5, <1>6, <1>7, <1>8 DEF flushed, S

------------------------------------------------------------------------------
(* The inductive invariant, first part: where the chunks and the series are *)

BufHas(b, x)  == \E i \in DOMAIN b.buffer : b.buffer[i] = x
FileHas(b, x) == \E i \in DOMAIN b.files : \E j \in DOMAIN b.files[i] : b.files[i][j] = x
IndexHas(x, c) == \E i \in DOMAIN x.series : x.series[i].call = c
InIndex(c)    == IndexHas(index, c)
Placed(c)     == BufHas(SerBatcher, c) \/ FileHas(SerBatcher, c) \/ InIndex(c)

Entry == [call : Calls, chunks : Seq(Nat)]
Step  == {"new", "symbols", "chunks", "series", "added", "nothing", "failed"}

CallsOK    == given \in Inputs /\ cpc \in [Calls -> Step] /\ refs \in [Calls -> Seq(Nat \ {0})]
SymbolsOK  == SymBatcher \in SymBatch
SeriesOK   == SerBatcher \in SerBatch
ChunksOK   == unsorted \in Seq(Calls \X Nat) /\ chunkFile \in Seq(Calls \X Nat)
IndexOK    == index \in [symbols : Seq(Nat), series : Seq(Entry)]
FinishOK   == /\ bpc \in {"adding", "symbols", "series", "error", "finished"}
              /\ meta # <<>> <=> bpc = "finished"
StatsOK    == stats \in StatSet

RefsOwn ==
    \A c \in Calls : cpc[c] \in {"series", "added"} =>
        /\ DOMAIN refs[c] = DOMAIN ChunksOf(c)
        /\ \A k \in DOMAIN refs[c] :
              refs[c][k] \in DOMAIN unsorted /\ unsorted[refs[c][k]] = <<c, k>>
PlacedAdded == \A c \in Calls : Placed(c) <=> cpc[c] = "added"

TypeParts == CallsOK /\ SymbolsOK /\ SeriesOK /\ ChunksOK /\ IndexOK /\ FinishOK /\ StatsOK
TypeInv   == TypeParts /\ RefsOwn /\ PlacedAdded

LEMMA TypePartsOK == TypeParts => TypeOK
<1> SUFFICES ASSUME TypeParts PROVE TypeOK
  OBVIOUS
<1>1. symBuffer \subseteq Nat /\ symFiles \in Seq(Seq(Nat))
  BY DEF TypeParts, SymbolsOK, SymBatcher, SymBatch
<1>2. serBuffer \in Seq(Calls) /\ serFiles \in Seq(Seq(Calls))
  BY DEF TypeParts, SeriesOK, SerBatcher, SerBatch
<1>3. index.symbols \in Seq(Nat) /\ index.series \in Seq([call : Calls, chunks : Seq(Nat)])
  BY DEF TypeParts, IndexOK, Entry
<1>4. cpc \in [Calls -> {"new", "symbols", "chunks", "series"} \cup Ended \cup {"failed"}]
  <2>1. {"new", "symbols", "chunks", "series"} \cup Ended \cup {"failed"} = Step
    BY DEF Ended, Step
  <2> QED BY <2>1 DEF TypeParts, CallsOK
<1>5. refs \in [Calls -> Seq(Nat \ {0})]
  BY DEF TypeParts, CallsOK
<1>6. unsorted \in Seq(Calls \X Nat) /\ chunkFile \in Seq(Calls \X Nat)
  BY DEF TypeParts, ChunksOK
<1>7. /\ bpc \in {"adding", "symbols", "series", "error", "finished"}
      /\ meta # <<>> <=> bpc = "finished"
  BY DEF TypeParts, FinishOK
<1>8. stats \in [{"numSeries", "numChunks", "numSamples", "minT", "maxT"} -> Nat]
  BY DEF TypeParts, StatsOK, StatSet
<1> QED BY <1>1, <1>2, <1>3, <1>4, <1>5, <1>6, <1>7, <1>8 DEF TypeOK

LEMMA InputsTyped ==
    ASSUME given \in Inputs, NEW c \in Calls
    PROVE  ChunksOf(c) \in Seq(ChunkSet) /\ DOMAIN ChunksOf(c) = 1..Len(ChunksOf(c))
           /\ Len(ChunksOf(c)) \in Nat
<1>1. given[c].samples \in Seq(Int)
  BY BlockBuilderAssumption
<1>2. ChunksOf(c) \in Seq(ChunkSet)
  BY <1>1, ChunksType DEF ChunksOf, Converted
<1> QED BY <1>2

LEMMA TypeInit == Init => TypeInv
<1> SUFFICES ASSUME Init PROVE TypeInv
  OBVIOUS
<1>1. CallsOK
  <2>1. \A c \in Calls : <<>> \in Seq(Nat \ {0})
    OBVIOUS
  <2> QED BY <2>1 DEF Init, CallsOK, Step
<1>2. SymbolsOK
  <2>1. IsFiniteSet({0})
    BY FS_Singleton
  <2>2. {0} \in SUBSET Nat /\ <<>> \in Seq(Seq(Nat))
    OBVIOUS
  <2> QED BY <2>1, <2>2 DEF Init, SymbolsOK, SymBatcher, SymBatch
<1>3. SeriesOK
  <2>1. <<>> \in Seq(Calls) /\ <<>> \in Seq(Seq(Calls))
    OBVIOUS
  <2> QED BY <2>1 DEF Init, SeriesOK, SerBatcher, SerBatch
<1>4. ChunksOK
  BY DEF Init, ChunksOK
<1>5. IndexOK
  <2>1. <<>> \in Seq(Nat) /\ <<>> \in Seq(Entry)
    OBVIOUS
  <2> QED BY <2>1 DEF Init, IndexOK
<1>6. FinishOK
  BY DEF Init, FinishOK
<1>7. StatsOK
  <2> DEFINE K == {"numSeries", "numChunks", "numSamples", "minT", "maxT"}
  <2>1. NoStats \in [K -> Nat]
    <3>1. NoStats = [k \in K |-> IF k = "minT" THEN MaxInt64 ELSE 0]
      BY DEF NoStats
    <3> QED BY <3>1, ChunksAssumption
  <2> QED BY <2>1 DEF Init, StatsOK, StatSet
<1>8. RefsOwn
  BY DEF Init, RefsOwn
<1>9. PlacedAdded
  <2>1. DOMAIN serBuffer = {} /\ DOMAIN serFiles = {} /\ DOMAIN index.series = {}
    BY DEF Init
  <2>2. SerBatcher.buffer = serBuffer /\ SerBatcher.files = serFiles
    BY DEF SerBatcher
  <2>3. \A c \in Calls : ~Placed(c)
    BY <2>1, <2>2 DEF Placed, BufHas, FileHas, InIndex, IndexHas
  <2>4. \A c \in Calls : cpc[c] # "added"
    BY DEF Init
  <2> QED BY <2>3, <2>4 DEF PlacedAdded
<1> QED BY <1>1, <1>2, <1>3, <1>4, <1>5, <1>6, <1>7, <1>8, <1>9 DEF TypeInv, TypeParts

(* A call's step: only it moves, and to a step that is given.               *)
Moved(c, p) == /\ cpc'[c] = p
               /\ \A d \in Calls : d # c => cpc'[d] = cpc[d]

LEMMA CallMoves ==
    ASSUME CallsOK, NEW c \in Calls, NEW p \in Step, Goto(c, p)
    PROVE  cpc' \in [Calls -> Step] /\ Moved(c, p)
BY DEF CallsOK, Goto, Moved

LEMMA CallPartsStep ==
    ASSUME TypeInv, NEW c \in Calls, CallStep(c)
    PROVE  TypeParts'
<1> USE DEF TypeInv, TypeParts
<1>1. CASE Convert(c)
  <2>1. CallsOK'
    <3>1. \/ Goto(c, "failed") \/ Goto(c, "nothing") \/ Goto(c, "symbols")
      BY <1>1 DEF Convert
    <3>2. cpc' \in [Calls -> Step]
      BY <3>1, CallMoves DEF Step
    <3> QED BY <1>1, <3>2 DEF Convert, CallsOK
  <2> QED BY <1>1, <2>1 DEF Convert, symVars, serVars, outVars, SymbolsOK, SymBatcher,
             SeriesOK, SerBatcher, ChunksOK, IndexOK, FinishOK, StatsOK
<1>2. CASE AddSymbols(c)
  <2>1. CallsOK'
    <3>1. cpc' \in [Calls -> Step]
      BY <1>2, CallMoves DEF AddSymbols, Step
    <3> QED BY <1>2, <3>1 DEF AddSymbols, CallsOK
  <2>2. SymbolsOK'
    <3> DEFINE b == Adding(SymBatcher, Symbols[c])[Len(Symbols[c])]
    <3>1. b \in SymBatch
      BY AddingKeeps, BlockBuilderAssumption DEF SymbolsOK
    <3>2. symBuffer' = b.buffer /\ symFiles' = b.files
      BY <1>2 DEF AddSymbols
    <3> HIDE DEF b
    <3>3. SymBatcher' = b
      BY <3>1, <3>2 DEF SymBatcher, SymBatch
    <3> QED BY <3>1, <3>3 DEF SymbolsOK
  <2> QED BY <1>2, <2>1, <2>2 DEF AddSymbols, serVars, outVars,
             SeriesOK, SerBatcher, ChunksOK, IndexOK, FinishOK, StatsOK
<1>3. CASE WriteChunks(c)
  <2> DEFINE n == Len(ChunksOf(c))
             own == [k \in DOMAIN ChunksOf(c) |-> <<c, k>>]
             at == [k \in DOMAIN ChunksOf(c) |-> Len(unsorted) + k]
  <2>1. n \in Nat /\ DOMAIN ChunksOf(c) = 1..n /\ Len(unsorted) \in Nat
    BY InputsTyped DEF CallsOK, ChunksOK
  <2>2. own \in Seq(Calls \X Nat) /\ at \in Seq(Nat \ {0})
    <3> HIDE DEF n
    <3>1. own = [k \in 1..n |-> <<c, k>>] /\ at = [k \in 1..n |-> Len(unsorted) + k]
      BY <2>1
    <3> QED BY <2>1, <3>1
  <2>3. CallsOK'
    <3>1. cpc' \in [Calls -> Step]
      BY <1>3, CallMoves DEF WriteChunks, Step
    <3>2. refs' = [refs EXCEPT ![c] = at]
      BY <1>3 DEF WriteChunks
    <3> HIDE DEF at
    <3>3. refs' \in [Calls -> Seq(Nat \ {0})]
      BY <2>2, <3>2 DEF CallsOK
    <3> QED BY <1>3, <3>1, <3>3 DEF WriteChunks, CallsOK
  <2>4. ChunksOK'
    <3>1. unsorted' = unsorted \o own /\ chunkFile' = chunkFile
      BY <1>3 DEF WriteChunks, outVars
    <3> HIDE DEF own
    <3> QED BY <2>2, <3>1, ConcatAt DEF ChunksOK
  <2> QED BY <1>3, <2>3, <2>4 DEF WriteChunks, symVars, serVars, outVars, SymbolsOK,
             SymBatcher, SeriesOK, SerBatcher, IndexOK, FinishOK, StatsOK
<1>4. CASE AddSeries(c)
  <2>1. CallsOK'
    <3>1. cpc' \in [Calls -> Step]
      BY <1>4, CallMoves DEF AddSeries, Step
    <3> QED BY <1>4, <3>1 DEF AddSeries, CallsOK
  <2>2. SeriesOK'
    <3> DEFINE a == [SerBatcher EXCEPT !.buffer = Append(@, c)]
               b == FlushSeries(a, FALSE)
    <3>1. a \in SerBatch
      <4>1. SerBatcher.buffer \in Seq(Calls)
        BY DEF SeriesOK, SerBatch
      <4>2. Append(SerBatcher.buffer, c) \in Seq(Calls)
        BY <4>1
      <4> QED BY <4>2 DEF SeriesOK, SerBatch
    <3>2. b \in SerBatch
      BY <3>1, FlushSeriesIs
    <3>3. serBuffer' = b.buffer /\ serFiles' = b.files
      BY <1>4 DEF AddSeries
    <3> HIDE DEF b
    <3>4. SerBatcher' = b
      BY <3>2, <3>3 DEF SerBatcher, SerBatch
    <3> QED BY <3>2, <3>4 DEF SeriesOK
  <2> QED BY <1>4, <2>1, <2>2 DEF AddSeries, symVars, outVars, SymbolsOK, SymBatcher,
             ChunksOK, IndexOK, FinishOK, StatsOK
<1>5. CASE RejectLabels(c)
  <2>1. CallsOK'
    <3>1. cpc' \in [Calls -> Step]
      BY <1>5, CallMoves DEF RejectLabels, Step
    <3> QED BY <1>5, <3>1 DEF RejectLabels, CallsOK
  <2> QED BY <1>5, <2>1 DEF RejectLabels, symVars, serVars, outVars, SymbolsOK, SymBatcher,
             SeriesOK, SerBatcher, ChunksOK, IndexOK, FinishOK, StatsOK
<1> QED BY <1>1, <1>2, <1>3, <1>4, <1>5 DEF CallStep

(* What taking the head of one of the files does to a sequence of files.    *)
LEMMA TakeHead ==
    ASSUME NEW T, NEW fs \in Seq(Seq(T)), NEW i \in DOMAIN fs, fs[i] # <<>>,
           NEW gs, gs = [fs EXCEPT ![i] = Tail(@)]
    PROVE  /\ gs \in Seq(Seq(T)) /\ DOMAIN gs = DOMAIN fs
           /\ Head(fs[i]) \in T /\ fs[i] \in Seq(T)
           /\ gs[i] = Tail(fs[i]) /\ \A j \in DOMAIN fs : j # i => gs[j] = fs[j]
<1>1. fs[i] \in Seq(T)
  OBVIOUS
<1>2. Tail(fs[i]) \in Seq(T) /\ Head(fs[i]) \in T
  BY <1>1
<1>3. gs \in Seq(Seq(T))
  BY <1>2
<1> QED BY <1>1, <1>2, <1>3

(* The series whose head is least: added, with its references.              *)
LEMMA HeadAdded ==
    ASSUME TypeInv, NEW i \in Lowest(Labels(serFiles))
    PROVE  /\ i \in DOMAIN serFiles /\ serFiles[i] # <<>> /\ serFiles \in Seq(Seq(Calls))
           /\ Head(serFiles[i]) \in Calls /\ cpc[Head(serFiles[i])] = "added"
<1>1. serFiles \in Seq(Seq(Calls))
  BY DEF TypeInv, TypeParts, SeriesOK, SerBatch, SerBatcher
<1>2. i \in DOMAIN serFiles /\ serFiles[i] # <<>>
  <2>1. DOMAIN Labels(serFiles) = DOMAIN serFiles
    BY DEF Labels
  <2>2. i \in DOMAIN serFiles /\ Labels(serFiles)[i] # <<>>
    BY <2>1 DEF Lowest
  <2>3. serFiles[i] = <<>> => Labels(serFiles)[i] = <<>>
    BY <2>2 DEF Labels
  <2> QED BY <2>2, <2>3
<1>3. serFiles[i] \in Seq(Calls)
  BY <1>1, <1>2
<1>4. Head(serFiles[i]) \in Calls /\ 1 \in DOMAIN serFiles[i] /\ serFiles[i][1] = Head(serFiles[i])
  BY <1>2, <1>3
<1>5. FileHas(SerBatcher, Head(serFiles[i]))
  BY <1>2, <1>4 DEF FileHas, SerBatcher
<1> QED BY <1>1, <1>2, <1>4, <1>5 DEF TypeInv, PlacedAdded, Placed

LEMMA ChunksAtOwn ==
    ASSUME TypeInv, NEW c \in Calls, cpc[c] \in {"series", "added"}
    PROVE  ChunksAt(c) = Own(c)
<1>1. /\ DOMAIN refs[c] = DOMAIN ChunksOf(c)
      /\ \A k \in DOMAIN refs[c] : unsorted[refs[c][k]] = <<c, k>>
  BY DEF TypeInv, RefsOwn
<1> QED BY <1>1 DEF ChunksAt, Own

LEMMA OwnType ==
    ASSUME CallsOK, NEW c \in Calls
    PROVE  Own(c) \in Seq(Calls \X Nat) /\ DOMAIN Own(c) = DOMAIN ChunksOf(c)
           /\ \A k \in DOMAIN Own(c) : Own(c)[k] = <<c, k>>
<1> DEFINE n == Len(ChunksOf(c))
<1>1. n \in Nat /\ DOMAIN ChunksOf(c) = 1..n
  BY InputsTyped DEF CallsOK
<1> HIDE DEF n
<1>2. Own(c) = [k \in 1..n |-> <<c, k>>]
  BY <1>1 DEF Own
<1> QED BY <1>1, <1>2

LEMMA Shifted == \A n, m \in Nat : [k \in 1..n |-> m + k] \in Seq(Nat)
OBVIOUS

(* What NextSeries does for the series it takes.                            *)
LEMMA NextSeriesIs ==
    ASSUME TypeInv, NEW i \in Lowest(Labels(serFiles)), NEW c, c = Head(serFiles[i]),
           serFiles' = [serFiles EXCEPT ![i] = Tail(@)],
           chunkFile' = chunkFile \o ChunksAt(c),
           index' = [index EXCEPT !.series =
               Append(@, [call |-> c, chunks |->
                   [k \in DOMAIN refs[c] |-> Len(chunkFile) + k]])]
    PROVE  /\ c \in Calls /\ cpc[c] = "added"
           /\ chunkFile' = chunkFile \o Own(c)
           /\ index'.symbols = index.symbols /\ index \in [symbols : Seq(Nat), series : Seq(Entry)]
           /\ index' \in [symbols : Seq(Nat), series : Seq(Entry)]
           /\ \E e \in Entry : /\ e.call = c /\ index'.series = Append(index.series, e)
                               /\ DOMAIN e.chunks = DOMAIN ChunksOf(c)
                               /\ \A k \in DOMAIN e.chunks : e.chunks[k] = Len(chunkFile) + k
<1> DEFINE n == Len(ChunksOf(c))
           at == [k \in DOMAIN refs[c] |-> Len(chunkFile) + k]
           e == [call |-> c, chunks |-> at]
<1>1. c \in Calls /\ cpc[c] = "added"
  BY HeadAdded
<1>2. chunkFile' = chunkFile \o Own(c)
  BY <1>1, ChunksAtOwn
<1>3. n \in Nat /\ DOMAIN ChunksOf(c) = 1..n /\ Len(chunkFile) \in Nat
  BY <1>1, InputsTyped DEF TypeInv, TypeParts, CallsOK, ChunksOK
<1>4. DOMAIN refs[c] = DOMAIN ChunksOf(c)
  BY <1>1 DEF TypeInv, RefsOwn
<1> HIDE DEF n
<1>5. at = [k \in 1..n |-> Len(chunkFile) + k]
  BY <1>3, <1>4
<1>6. at \in Seq(Nat) /\ DOMAIN at = DOMAIN ChunksOf(c)
      /\ \A k \in DOMAIN at : at[k] = Len(chunkFile) + k
  <2>1. [k \in 1..n |-> Len(chunkFile) + k] \in Seq(Nat)
    BY <1>3, Shifted
  <2> HIDE DEF at
  <2> QED BY <1>3, <1>5, <2>1
<1>7. index' = [index EXCEPT !.series = Append(index.series, e)]
  OBVIOUS
<1> HIDE DEF at
<1>8. e \in Entry /\ e.call = c /\ e.chunks = at
  BY <1>1, <1>6 DEF Entry
<1> HIDE DEF e
<1>9. index \in [symbols : Seq(Nat), series : Seq(Entry)]
  BY DEF TypeInv, TypeParts, IndexOK
<1>10. Append(index.series, e) \in Seq(Entry)
  BY <1>8, <1>9
<1>11. /\ index'.series = Append(index.series, e) /\ index'.symbols = index.symbols
       /\ index' \in [symbols : Seq(Nat), series : Seq(Entry)]
  BY <1>7, <1>9, <1>10
<1> QED BY <1>1, <1>2, <1>6, <1>8, <1>9, <1>11

LEMMA FinishPartsStep ==
    ASSUME TypeInv, FinishStep
    PROVE  TypeParts'
<1> USE DEF TypeInv, TypeParts
<1>1. CASE FinishBlock
  <2> DEFINE b == FlushSymbols(SymBatcher, TRUE)
             s == FlushSeries(SerBatcher, TRUE)
  <2>1. b \in SymBatch /\ s \in SerBatch
    BY FlushSymbolsKeeps, FlushSeriesIs DEF SymbolsOK, SeriesOK
  <2>2. /\ symBuffer' = b.buffer /\ symFiles' = b.files
        /\ serBuffer' = s.buffer /\ serFiles' = s.files
    BY <1>1 DEF FinishBlock
  <2> HIDE DEF b, s
  <2>3. SymBatcher' = b /\ SerBatcher' = s
    BY <2>1, <2>2 DEF SymBatcher, SerBatcher, SymBatch, SerBatch
  <2>4. SymbolsOK' /\ SeriesOK'
    BY <2>1, <2>3 DEF SymbolsOK, SeriesOK
  <2>5. FinishOK'
    BY <1>1 DEF FinishBlock, FinishOK, outVars
  <2> QED BY <1>1, <2>4, <2>5 DEF FinishBlock, outVars, CallsOK, ChunksOK, IndexOK, StatsOK
<1>2. CASE NextSymbol
  <2>1. PICK i \in Lowest(symFiles) :
            /\ symFiles' = [symFiles EXCEPT ![i] = Tail(@)]
            /\ index' = IF index.symbols # <<>> /\ LastOf(index.symbols) = Head(symFiles[i])
                        THEN index
                        ELSE [index EXCEPT !.symbols = Append(@, Head(symFiles[i]))]
    BY <1>2 DEF NextSymbol
  <2>2. symFiles \in Seq(Seq(Nat)) /\ i \in DOMAIN symFiles /\ symFiles[i] # <<>>
    BY <2>1 DEF SymbolsOK, SymBatcher, SymBatch, Lowest
  <2>3. symFiles' \in Seq(Seq(Nat)) /\ Head(symFiles[i]) \in Nat
    BY <2>1, <2>2, TakeHead
  <2>4. SymbolsOK'
    BY <1>2, <2>3 DEF NextSymbol, SymbolsOK, SymBatcher, SymBatch
  <2>5. IndexOK'
    <3>1. index.symbols \in Seq(Nat)
      BY DEF IndexOK
    <3>2. Append(index.symbols, Head(symFiles[i])) \in Seq(Nat)
      BY <2>3, <3>1
    <3> QED BY <2>1, <3>2 DEF IndexOK
  <2> QED BY <1>2, <2>4, <2>5 DEF NextSymbol, serVars, CallsOK, SeriesOK, SerBatcher,
             ChunksOK, FinishOK, StatsOK
<1>3. CASE EndSymbols
  <2>1. FinishOK'
    BY <1>3 DEF EndSymbols, FinishOK, outVars
  <2> QED BY <1>3, <2>1 DEF EndSymbols, symVars, serVars, outVars, CallsOK, SymbolsOK,
             SymBatcher, SeriesOK, SerBatcher, ChunksOK, IndexOK, StatsOK
<1>4. CASE NextSeries
  <2>1. PICK i \in Lowest(Labels(serFiles)) :
            LET c == Head(serFiles[i])
            IN  /\ serFiles' = [serFiles EXCEPT ![i] = Tail(@)]
                /\ stats' = AddStats(stats, ChunksOf(c))
                /\ chunkFile' = chunkFile \o ChunksAt(c)
                /\ index' = [index EXCEPT !.series =
                       Append(@, [call |-> c, chunks |->
                           [k \in DOMAIN refs[c] |-> Len(chunkFile) + k]])]
    BY <1>4 DEF NextSeries
  <2> DEFINE c == Head(serFiles[i])
  <2>2. /\ c \in Calls /\ chunkFile' = chunkFile \o Own(c)
        /\ index' \in [symbols : Seq(Nat), series : Seq(Entry)]
    BY <2>1, NextSeriesIs
  <2>3. stats' = AddStats(stats, ChunksOf(c))
    BY <2>1
  <2>4. serFiles' \in Seq(Seq(Calls))
    BY <2>1, HeadAdded, TakeHead
  <2> HIDE DEF c
  <2>5. StatsOK'
    BY <2>2, <2>3, AddStatsType, InputsTyped DEF StatsOK, CallsOK
  <2>6. ChunksOK'
    BY <1>4, <2>2, OwnType, ConcatAt DEF ChunksOK, NextSeries
  <2>7. IndexOK'
    BY <2>2 DEF IndexOK
  <2>8. SeriesOK'
    BY <1>4, <2>4 DEF NextSeries, SeriesOK, SerBatcher, SerBatch
  <2> QED BY <1>4, <2>5, <2>6, <2>7, <2>8 DEF NextSeries, symVars, CallsOK, SymbolsOK,
             SymBatcher, FinishOK
<1>5. CASE SeriesFails
  <2>1. FinishOK'
    BY <1>5 DEF SeriesFails, FinishOK, outVars
  <2> QED BY <1>5, <2>1 DEF SeriesFails, symVars, serVars, outVars, CallsOK, SymbolsOK,
             SymBatcher, SeriesOK, SerBatcher, ChunksOK, IndexOK, StatsOK
<1>6. CASE WriteMeta
  <2>1. FinishOK'
    <3>1. meta' # <<>> /\ bpc' = "finished"
      BY <1>6 DEF WriteMeta
    <3> QED BY <3>1 DEF FinishOK
  <2> QED BY <1>6, <2>1 DEF WriteMeta, symVars, serVars, CallsOK, SymbolsOK,
             SymBatcher, SeriesOK, SerBatcher, ChunksOK, IndexOK, StatsOK
<1> QED BY <1>1, <1>2, <1>3, <1>4, <1>5, <1>6 DEF FinishStep

------------------------------------------------------------------------------
(* The references are a call's own, whatever other calls write.             *)

LEMMA RefsOwnStep == TypeInv /\ [Next]_vars => RefsOwn'
<1> SUFFICES ASSUME TypeInv, [Next]_vars PROVE RefsOwn'
  OBVIOUS
<1>0. UNCHANGED given
  BY DEF Next, vars, CallStep, FinishStep, Convert, AddSymbols, WriteChunks, AddSeries,
         RejectLabels, FinishBlock, NextSymbol, EndSymbols, NextSeries, SeriesFails, WriteMeta
<1>1. \A d \in Calls : ChunksOf(d)' = ChunksOf(d)
  BY <1>0 DEF ChunksOf, Converted
<1> SUFFICES ASSUME NEW d \in Calls, cpc'[d] \in {"series", "added"}
             PROVE  /\ DOMAIN refs'[d] = DOMAIN ChunksOf(d)
                    /\ \A k \in DOMAIN refs'[d] :
                          refs'[d][k] \in DOMAIN unsorted' /\ unsorted'[refs'[d][k]] = <<d, k>>
  BY <1>1 DEF RefsOwn
<1>2. cpc[d] \in {"series", "added"} =>
        /\ DOMAIN refs[d] = DOMAIN ChunksOf(d)
        /\ \A k \in DOMAIN refs[d] :
              refs[d][k] \in DOMAIN unsorted /\ unsorted[refs[d][k]] = <<d, k>>
  BY DEF TypeInv, RefsOwn
<1>3. CASE \E c \in Calls : WriteChunks(c)
  <2>1. PICK c \in Calls : WriteChunks(c)
    BY <1>3
  <2>2. /\ unsorted' = unsorted \o Own(c)
        /\ refs' = [refs EXCEPT ![c] = [k \in DOMAIN ChunksOf(c) |-> Len(unsorted) + k]]
    BY <2>1 DEF WriteChunks, Own
  <2>3. Own(c) \in Seq(Calls \X Nat) /\ DOMAIN Own(c) = DOMAIN ChunksOf(c)
        /\ \A k \in DOMAIN Own(c) : Own(c)[k] = <<c, k>>
    BY OwnType DEF TypeInv, TypeParts
  <2>4. unsorted \in Seq(Calls \X Nat)
    BY DEF TypeInv, TypeParts, ChunksOK
  <2>5. /\ \A i \in DOMAIN unsorted : i \in DOMAIN unsorted' /\ unsorted'[i] = unsorted[i]
        /\ \A k \in DOMAIN ChunksOf(c) : /\ Len(unsorted) + k \in DOMAIN unsorted'
                                         /\ unsorted'[Len(unsorted) + k] = <<c, k>>
    BY <2>2, <2>3, <2>4, ConcatAt
  <2>6. CASE d = c
    <3>1. refs'[d] = [k \in DOMAIN ChunksOf(d) |-> Len(unsorted) + k]
      BY <2>2, <2>6 DEF TypeInv, TypeParts, CallsOK
    <3> QED BY <2>5, <2>6, <3>1
  <2>7. CASE d # c
    <3>1. cpc'[d] = cpc[d] /\ refs'[d] = refs[d]
      BY <2>1, <2>2, <2>7 DEF WriteChunks, Goto, TypeInv, TypeParts, CallsOK
    <3> QED BY <1>2, <2>5, <3>1
  <2> QED BY <2>6, <2>7
<1>4. CASE ~ \E c \in Calls : WriteChunks(c)
  <2>1. UNCHANGED <<refs, unsorted>>
    BY <1>4 DEF Next, vars, CallStep, FinishStep, Convert, AddSymbols, AddSeries,
           RejectLabels, FinishBlock, NextSymbol, EndSymbols, NextSeries, SeriesFails, WriteMeta
  <2>2. cpc[d] \in {"series", "added"}
    <3>1. CASE UNCHANGED cpc
      BY <3>1
    <3>2. ASSUME NEW c \in Calls, CallStep(c) PROVE cpc[d] \in {"series", "added"}
      <4>1. \/ Goto(c, "failed") \/ Goto(c, "nothing") \/ Goto(c, "symbols")
            \/ Goto(c, "chunks") \/ (cpc[c] = "series" /\ Goto(c, "added"))
        BY <1>4, <3>2 DEF CallStep, Convert, AddSymbols, AddSeries, RejectLabels
      <4>2. CASE d = c
        <5>1. cpc'[c] \in {"failed", "nothing", "symbols", "chunks"} \/ cpc[c] = "series"
          BY <4>1 DEF Goto, TypeInv, TypeParts, CallsOK
        <5> QED BY <4>2, <5>1
      <4>3. CASE d # c
        <5>1. cpc'[d] = cpc[d]
          BY <4>1, <4>3 DEF Goto, TypeInv, TypeParts, CallsOK
        <5> QED BY <5>1
      <4> QED BY <4>2, <4>3
    <3>3. UNCHANGED cpc \/ \E c \in Calls : CallStep(c)
      BY DEF Next, vars, FinishStep, FinishBlock, NextSymbol, EndSymbols, NextSeries,
             SeriesFails, WriteMeta
    <3> QED BY <3>1, <3>2, <3>3
  <2> QED BY <1>2, <2>1, <2>2
<1> QED BY <1>3, <1>4

LEMMA CallsMove ==
    ASSUME TypeInv, NEW c \in Calls, CallStep(c)
    PROVE  \E p \in Step : /\ Goto(c, p) /\ Moved(c, p) /\ cpc[c] # "added"
                           /\ p = "added" <=> AddSeries(c)
<1>1. CallsOK
  BY DEF TypeInv, TypeParts
<1>2. CASE AddSeries(c)
  <2>1. Goto(c, "added") /\ cpc[c] # "added"
    BY <1>2 DEF AddSeries
  <2>2. "added" \in Step
    BY DEF Step
  <2>3. Moved(c, "added")
    BY <1>1, <2>1, <2>2, CallMoves
  <2> QED BY <1>2, <2>1, <2>2, <2>3
<1>3. CASE ~AddSeries(c)
  <2>1. \E p \in {"failed", "nothing", "symbols", "chunks", "series"} : Goto(c, p)
    BY <1>3 DEF CallStep, Convert, AddSymbols, WriteChunks, RejectLabels
  <2>2. PICK p \in {"failed", "nothing", "symbols", "chunks", "series"} : Goto(c, p)
    BY <2>1
  <2>3. p \in Step /\ p # "added"
    BY DEF Step
  <2>4. Moved(c, p)
    BY <1>1, <2>2, <2>3, CallMoves
  <2>5. cpc[c] # "added"
    BY <1>3 DEF CallStep, Convert, AddSymbols, WriteChunks, RejectLabels
  <2> QED BY <1>3, <2>2, <2>3, <2>4, <2>5
<1> QED BY <1>2, <1>3

------------------------------------------------------------------------------
(* The series are in one place at a time: the buffer, a file, or the index. *)

Apart(b)  == \A x : ~(BufHas(b, x) /\ FileHas(b, x))
Once(b)   == \A i, k \in DOMAIN b.files :
                \A j \in DOMAIN b.files[i], l \in DOMAIN b.files[k] :
                    b.files[i][j] = b.files[k][l] => i = k /\ j = l
InOrder(b) == \A i \in DOMAIN b.files : \A j, l \in DOMAIN b.files[i] :
                 j < l => Rank[b.files[i][j]] <= Rank[b.files[i][l]]
Filed(b)  == Apart(b) /\ Once(b) /\ InOrder(b)

LEMMA BufferGrows ==
    ASSUME NEW b \in SerBatch, NEW c \in Calls
    PROVE  LET a == [b EXCEPT !.buffer = Append(@, c)]
           IN  /\ a \in SerBatch /\ a.files = b.files
               /\ \A x : BufHas(a, x) <=> BufHas(b, x) \/ x = c
               /\ \A x : FileHas(a, x) <=> FileHas(b, x)
               /\ Filed(b) /\ ~FileHas(b, c) => Filed(a)
<1> DEFINE a == [b EXCEPT !.buffer = Append(@, c)]
<1>1. b.buffer \in Seq(Calls)
  BY DEF SerBatch
<1>2. Append(b.buffer, c) \in Seq(Calls)
  BY <1>1
<1>3. a \in SerBatch /\ a.buffer = Append(b.buffer, c) /\ a.files = b.files
  BY <1>2 DEF SerBatch
<1> HIDE DEF a
<1>4. \A x : BufHas(a, x) <=> BufHas(b, x) \/ x = c
  BY <1>1, <1>3, AppendAt DEF BufHas
<1>5. \A x : FileHas(a, x) <=> FileHas(b, x)
  BY <1>3 DEF FileHas
<1>6. Filed(b) /\ ~FileHas(b, c) => Filed(a)
  <2>1. Filed(b) /\ ~FileHas(b, c) => Apart(a)
    BY <1>4, <1>5 DEF Filed, Apart
  <2>2. Filed(b) => Once(a) /\ InOrder(a)
    BY <1>3 DEF Filed, Once, InOrder
  <2> QED BY <2>1, <2>2 DEF Filed
<1> QED BY <1>3, <1>4, <1>5, <1>6 DEF a

LEMMA FlushPlaces ==
    ASSUME NEW b \in SerBatch, NEW force
    PROVE  LET a == FlushSeries(b, force)
           IN  /\ \A x : BufHas(a, x) \/ FileHas(a, x) <=> BufHas(b, x) \/ FileHas(b, x)
               /\ Filed(b) => Filed(a)
<1> DEFINE a == FlushSeries(b, force)
<1> HIDE DEF a
<1> SUFFICES /\ \A x : BufHas(a, x) \/ FileHas(a, x) <=> BufHas(b, x) \/ FileHas(b, x)
             /\ Filed(b) => Filed(a)
  BY DEF a
<1>1. CASE a = b
  BY <1>1
<1>2. ASSUME NEW f \in Seq(Calls), FileIs(f, ToSet(b.buffer), Rank),
             a = [buffer |-> <<>>, files |-> Append(b.files, f)]
      PROVE  /\ \A x : BufHas(a, x) \/ FileHas(a, x) <=> BufHas(b, x) \/ FileHas(b, x)
             /\ Filed(b) => Filed(a)
  <2> DEFINE n == Len(b.files)
  <2>1. b.buffer \in Seq(Calls) /\ b.files \in Seq(Seq(Calls))
    BY DEF SerBatch
  <2>2. a.files = Append(b.files, f) /\ \A x : ~BufHas(a, x)
    <3>1. a.files = Append(b.files, f) /\ a.buffer = <<>>
      BY <1>2
    <3>2. DOMAIN a.buffer = {}
      BY <3>1
    <3> QED BY <3>1, <3>2 DEF BufHas
  <2>3. /\ n \in Nat /\ DOMAIN b.files = 1..n /\ n + 1 \in DOMAIN a.files /\ a.files[n + 1] = f
        /\ \A i \in DOMAIN b.files : i \in DOMAIN a.files /\ a.files[i] = b.files[i]
        /\ \A i \in DOMAIN a.files : i \in DOMAIN b.files \/ i = n + 1
    BY <2>1, <2>2, AppendAt
  <2> HIDE DEF n
  <2>4. \A x : BufHas(b, x) <=> \E j \in DOMAIN f : f[j] = x
    <3>1. \A x : x \in ToSet(b.buffer) <=> BufHas(b, x)
      BY <2>1, ToSetFinite DEF BufHas
    <3>2. \A x : x \in ToSet(b.buffer) <=> \E j \in DOMAIN f : f[j] = x
      BY <1>2 DEF FileIs
    <3> QED BY <3>1, <3>2
  <2>5. \A x : FileHas(a, x) <=> FileHas(b, x) \/ \E j \in DOMAIN f : f[j] = x
    BY <2>3 DEF FileHas
  <2>6. ASSUME Filed(b) PROVE Filed(a)
    <3>1. Apart(a)
      BY <2>2 DEF Apart
    <3>2. Once(a)
      <4> SUFFICES ASSUME NEW i \in DOMAIN a.files, NEW k \in DOMAIN a.files,
                          NEW j \in DOMAIN a.files[i], NEW l \in DOMAIN a.files[k],
                          a.files[i][j] = a.files[k][l]
                   PROVE  i = k /\ j = l
        BY DEF Once
      <4>1. CASE i \in DOMAIN b.files /\ k \in DOMAIN b.files
        BY <2>3, <2>6, <4>1 DEF Filed, Once
      <4>2. CASE i = n + 1 /\ k = n + 1
        BY <1>2, <2>3, <4>2 DEF FileIs
      <4>3. CASE i \in DOMAIN b.files /\ k = n + 1
        <5>1. FileHas(b, a.files[i][j]) /\ BufHas(b, a.files[k][l])
          BY <2>3, <2>4, <4>3 DEF FileHas
        <5> QED BY <2>6, <5>1 DEF Filed, Apart
      <4>4. CASE i = n + 1 /\ k \in DOMAIN b.files
        <5>1. FileHas(b, a.files[k][l]) /\ BufHas(b, a.files[i][j])
          BY <2>3, <2>4, <4>4 DEF FileHas
        <5> QED BY <2>6, <5>1 DEF Filed, Apart
      <4> QED BY <2>3, <4>1, <4>2, <4>3, <4>4
    <3>3. InOrder(a)
      <4> SUFFICES ASSUME NEW i \in DOMAIN a.files, NEW j \in DOMAIN a.files[i],
                          NEW l \in DOMAIN a.files[i], j < l
                   PROVE  Rank[a.files[i][j]] <= Rank[a.files[i][l]]
        BY DEF InOrder
      <4>1. CASE i \in DOMAIN b.files
        BY <2>3, <2>6, <4>1 DEF Filed, InOrder
      <4>2. CASE i = n + 1
        BY <1>2, <2>3, <4>2 DEF FileIs
      <4> QED BY <2>3, <4>1, <4>2
    <3> QED BY <3>1, <3>2, <3>3 DEF Filed
  <2> QED BY <2>2, <2>4, <2>5, <2>6
<1> QED BY <1>1, <1>2, FlushSeriesIs DEF a

(* Taking the head of a file.                                               *)
LEMMA TakePlaces ==
    ASSUME NEW b \in SerBatch, NEW i \in DOMAIN b.files, b.files[i] # <<>>,
           NEW a, a.buffer = b.buffer, a.files = [b.files EXCEPT ![i] = Tail(@)]
    PROVE  /\ FileHas(b, Head(b.files[i]))
           /\ \A x : BufHas(a, x) <=> BufHas(b, x)
           /\ \A x : FileHas(a, x) => FileHas(b, x)
           /\ \A x : FileHas(b, x) => FileHas(a, x) \/ x = Head(b.files[i])
           /\ Filed(b) => Filed(a) /\ ~FileHas(a, Head(b.files[i]))
<1> DEFINE f == b.files[i]
<1>1. b.files \in Seq(Seq(Calls))
  BY DEF SerBatch
<1>2. /\ DOMAIN a.files = DOMAIN b.files /\ f \in Seq(Calls)
      /\ a.files[i] = Tail(f) /\ \A k \in DOMAIN b.files : k # i => a.files[k] = b.files[k]
  BY <1>1, TakeHead
<1>3. /\ Head(f) = f[1] /\ 1 \in DOMAIN f
      /\ \A j \in DOMAIN Tail(f) : j \in Nat \ {0} /\ j + 1 \in DOMAIN f /\ Tail(f)[j] = f[j + 1]
      /\ \A j \in DOMAIN f : j = 1 \/ (j - 1 \in DOMAIN Tail(f) /\ Tail(f)[j - 1] = f[j])
  BY <1>2, TailAt
<1>4. FileHas(b, Head(f))
  BY <1>3 DEF FileHas
<1>5. \A x : BufHas(a, x) <=> BufHas(b, x)
  BY DEF BufHas
<1>6. ASSUME NEW x, FileHas(a, x) PROVE FileHas(b, x)
  <2>1. PICK k \in DOMAIN a.files : \E j \in DOMAIN a.files[k] : a.files[k][j] = x
    BY <1>6 DEF FileHas
  <2>2. CASE k = i
    BY <1>2, <1>3, <2>1, <2>2 DEF FileHas
  <2>3. CASE k # i
    BY <1>2, <2>1, <2>3 DEF FileHas
  <2> QED BY <2>2, <2>3
<1>7. ASSUME NEW x, FileHas(b, x) PROVE FileHas(a, x) \/ x = Head(f)
  <2>1. PICK k \in DOMAIN b.files : \E j \in DOMAIN b.files[k] : b.files[k][j] = x
    BY <1>7 DEF FileHas
  <2>2. CASE k = i
    <3>1. PICK j \in DOMAIN f : f[j] = x
      BY <2>1, <2>2
    <3>2. CASE j = 1
      BY <1>3, <3>1, <3>2
    <3>3. CASE j - 1 \in DOMAIN Tail(f) /\ Tail(f)[j - 1] = f[j]
      BY <1>2, <3>1, <3>3 DEF FileHas
    <3> QED BY <1>3, <3>2, <3>3
  <2>3. CASE k # i
    BY <1>2, <2>1, <2>3 DEF FileHas
  <2> QED BY <2>2, <2>3
<1>8. ASSUME Filed(b) PROVE Filed(a) /\ ~FileHas(a, Head(f))
  <2>1. Apart(a)
    BY <1>5, <1>6, <1>8 DEF Filed, Apart
  <2>2. Once(a)
    <3> SUFFICES ASSUME NEW m \in DOMAIN a.files, NEW k \in DOMAIN a.files,
                        NEW j \in DOMAIN a.files[m], NEW l \in DOMAIN a.files[k],
                        a.files[m][j] = a.files[k][l]
                 PROVE  m = k /\ j = l
      BY DEF Once
    <3>1. CASE m # i /\ k # i
      BY <1>2, <1>8, <3>1 DEF Filed, Once
    <3>2. CASE m = i /\ k = i
      <4>1. j + 1 = l + 1 /\ j \in Nat /\ l \in Nat
        BY <1>2, <1>3, <1>8, <3>2 DEF Filed, Once
      <4> QED BY <3>2, <4>1
    <3>3. CASE m = i /\ k # i
      BY <1>2, <1>3, <1>8, <3>3 DEF Filed, Once
    <3>4. CASE m # i /\ k = i
      BY <1>2, <1>3, <1>8, <3>4 DEF Filed, Once
    <3> QED BY <3>1, <3>2, <3>3, <3>4
  <2>3. InOrder(a)
    <3> SUFFICES ASSUME NEW k \in DOMAIN a.files, NEW j \in DOMAIN a.files[k],
                        NEW l \in DOMAIN a.files[k], j < l
                 PROVE  Rank[a.files[k][j]] <= Rank[a.files[k][l]]
      BY DEF InOrder
    <3>1. CASE k # i
      BY <1>2, <1>8, <3>1 DEF Filed, InOrder
    <3>2. CASE k = i
      <4>1. /\ j + 1 < l + 1 /\ j + 1 \in DOMAIN f /\ l + 1 \in DOMAIN f
            /\ a.files[k][j] = f[j + 1] /\ a.files[k][l] = f[l + 1]
        BY <1>2, <1>3, <3>2
      <4> QED BY <1>8, <4>1 DEF Filed, InOrder
    <3> QED BY <3>1, <3>2
  <2>4. ASSUME NEW k \in DOMAIN a.files, NEW j \in DOMAIN a.files[k]
        PROVE  a.files[k][j] # Head(f)
    <3>1. CASE k = i
      <4>1. j + 1 # 1 /\ j + 1 \in DOMAIN f /\ a.files[k][j] = f[j + 1]
        BY <1>2, <1>3, <2>4, <3>1
      <4> QED BY <1>3, <1>8, <4>1 DEF Filed, Once
    <3>2. CASE k # i
      BY <1>2, <1>3, <1>8, <2>4, <3>2 DEF Filed, Once
    <3> QED BY <3>1, <3>2
  <2> QED BY <2>1, <2>2, <2>3, <2>4 DEF Filed, FileHas
<1> QED BY <1>4, <1>5, <1>6, <1>7, <1>8

------------------------------------------------------------------------------
(* A series is placed when its call has added it, and stays.                *)

LEMMA IndexGrows ==
    ASSUME NEW i1 \in [symbols : Seq(Nat), series : Seq(Entry)], NEW e \in Entry,
           NEW i2, i2.series = Append(i1.series, e)
    PROVE  \A x : IndexHas(i2, x) <=> IndexHas(i1, x) \/ x = e.call
<1>1. i1.series \in Seq(Entry)
  OBVIOUS
<1>2. /\ Len(i1.series) + 1 \in DOMAIN i2.series /\ i2.series[Len(i1.series) + 1] = e
      /\ \A k \in DOMAIN i1.series : k \in DOMAIN i2.series /\ i2.series[k] = i1.series[k]
      /\ \A k \in DOMAIN i2.series : k \in DOMAIN i1.series \/ k = Len(i1.series) + 1
  BY <1>1, AppendAt
<1> QED BY <1>2 DEF IndexHas

LEMMA AddSeriesIs ==
    ASSUME TypeInv, NEW c \in Calls, AddSeries(c)
    PROVE  /\ \A x : BufHas(SerBatcher, x)' \/ FileHas(SerBatcher, x)' <=>
                        BufHas(SerBatcher, x) \/ FileHas(SerBatcher, x) \/ x = c
           /\ Filed(SerBatcher) => Filed(SerBatcher)'
<1> DEFINE a == [SerBatcher EXCEPT !.buffer = Append(@, c)]
           b == FlushSeries(a, FALSE)
<1>1. SerBatcher \in SerBatch
  BY DEF TypeInv, TypeParts, SeriesOK
<1>2. /\ a \in SerBatch
      /\ \A x : BufHas(a, x) <=> BufHas(SerBatcher, x) \/ x = c
      /\ \A x : FileHas(a, x) <=> FileHas(SerBatcher, x)
      /\ Filed(SerBatcher) /\ ~FileHas(SerBatcher, c) => Filed(a)
  BY <1>1, BufferGrows
<1>3. ~FileHas(SerBatcher, c)
  BY DEF AddSeries, TypeInv, PlacedAdded, Placed
<1>4. serBuffer' = b.buffer /\ serFiles' = b.files
  BY DEF AddSeries
<1> HIDE DEF a
<1>5. /\ b \in SerBatch
      /\ \A x : BufHas(b, x) \/ FileHas(b, x) <=> BufHas(a, x) \/ FileHas(a, x)
      /\ Filed(a) => Filed(b)
  BY <1>2, FlushPlaces, FlushSeriesIs
<1> HIDE DEF b
<1>6. SerBatcher' = b
  BY <1>4, <1>5 DEF SerBatcher, SerBatch
<1>7. /\ \A x : BufHas(SerBatcher, x)' <=> BufHas(b, x)
      /\ \A x : FileHas(SerBatcher, x)' <=> FileHas(b, x)
      /\ Filed(SerBatcher)' <=> Filed(b)
  BY <1>6 DEF BufHas, FileHas, Filed, Apart, Once, InOrder
<1> QED BY <1>2, <1>3, <1>5, <1>7

(* What NextSeries does to the places, and to the block's chunks.           *)
LEMMA NextSeriesPlaces ==
    ASSUME TypeInv, NextSeries
    PROVE  \E i \in Lowest(Labels(serFiles)) : \E c \in Calls : \E e \in Entry :
              /\ c = Head(serFiles[i]) /\ cpc[c] = "added" /\ ~Duplicate(c)
              /\ serFiles' = [serFiles EXCEPT ![i] = Tail(@)]
              /\ chunkFile' = chunkFile \o Own(c) /\ stats' = AddStats(stats, ChunksOf(c))
              /\ e.call = c /\ index'.series = Append(index.series, e)
              /\ index'.symbols = index.symbols
              /\ DOMAIN e.chunks = DOMAIN ChunksOf(c)
              /\ \A k \in DOMAIN e.chunks : e.chunks[k] = Len(chunkFile) + k
              /\ FileHas(SerBatcher, c)
              /\ \A x : BufHas(SerBatcher, x)' <=> BufHas(SerBatcher, x)
              /\ \A x : FileHas(SerBatcher, x)' => FileHas(SerBatcher, x)
              /\ \A x : FileHas(SerBatcher, x) => FileHas(SerBatcher, x)' \/ x = c
              /\ \A x : InIndex(x)' <=> InIndex(x) \/ x = c
              /\ Filed(SerBatcher) => Filed(SerBatcher)' /\ ~FileHas(SerBatcher', c)
<1>1. PICK i \in Lowest(Labels(serFiles)) :
          LET c == Head(serFiles[i])
          IN  /\ ~Duplicate(c) /\ stats' = AddStats(stats, ChunksOf(c))
              /\ serFiles' = [serFiles EXCEPT ![i] = Tail(@)]
              /\ chunkFile' = chunkFile \o ChunksAt(c)
              /\ index' = [index EXCEPT !.series =
                     Append(@, [call |-> c, chunks |->
                         [k \in DOMAIN refs[c] |-> Len(chunkFile) + k]])]
  BY DEF NextSeries
<1> DEFINE c == Head(serFiles[i])
<1>2. /\ c \in Calls /\ cpc[c] = "added" /\ i \in DOMAIN serFiles /\ serFiles[i] # <<>>
      /\ serFiles \in Seq(Seq(Calls))
  BY HeadAdded
<1>3. /\ chunkFile' = chunkFile \o Own(c) /\ index'.symbols = index.symbols
      /\ index \in [symbols : Seq(Nat), series : Seq(Entry)]
      /\ \E e \in Entry : /\ e.call = c /\ index'.series = Append(index.series, e)
                          /\ DOMAIN e.chunks = DOMAIN ChunksOf(c)
                          /\ \A k \in DOMAIN e.chunks : e.chunks[k] = Len(chunkFile) + k
  BY <1>1, NextSeriesIs
<1>4. PICK e \in Entry : /\ e.call = c /\ index'.series = Append(index.series, e)
                         /\ DOMAIN e.chunks = DOMAIN ChunksOf(c)
                         /\ \A k \in DOMAIN e.chunks : e.chunks[k] = Len(chunkFile) + k
  BY <1>3
<1>5. /\ ~Duplicate(c) /\ serFiles' = [serFiles EXCEPT ![i] = Tail(@)]
      /\ stats' = AddStats(stats, ChunksOf(c))
  BY <1>1
<1>6. \A x : InIndex(x)' <=> InIndex(x) \/ x = c
  BY <1>3, <1>4, IndexGrows DEF InIndex
<1> DEFINE b == SerBatcher
           a == [buffer |-> serBuffer', files |-> serFiles']
<1>7. b \in SerBatch /\ b.buffer = serBuffer /\ b.files = serFiles
  BY DEF TypeInv, TypeParts, SeriesOK, SerBatcher
<1>8. a.buffer = b.buffer /\ a.files = [b.files EXCEPT ![i] = Tail(@)]
  BY <1>5, <1>7 DEF NextSeries
<1>9. SerBatcher' = a
  BY DEF SerBatcher
<1>10. c = Head(b.files[i]) /\ i \in DOMAIN b.files /\ b.files[i] # <<>>
  BY <1>2, <1>7
<1> HIDE DEF a, b, c
<1>11. /\ FileHas(b, c)
       /\ \A x : BufHas(a, x) <=> BufHas(b, x)
       /\ \A x : FileHas(a, x) => FileHas(b, x)
       /\ \A x : FileHas(b, x) => FileHas(a, x) \/ x = c
       /\ Filed(b) => Filed(a) /\ ~FileHas(a, c)
  BY <1>7, <1>8, <1>10, TakePlaces
<1>12. /\ FileHas(SerBatcher, c)
       /\ \A x : BufHas(SerBatcher, x)' <=> BufHas(SerBatcher, x)
       /\ \A x : FileHas(SerBatcher, x)' => FileHas(SerBatcher, x)
       /\ \A x : FileHas(SerBatcher, x) => FileHas(SerBatcher, x)' \/ x = c
       /\ Filed(SerBatcher) => Filed(SerBatcher)' /\ ~FileHas(SerBatcher', c)
  <2>1. /\ \A x : BufHas(SerBatcher, x)' <=> BufHas(a, x)
        /\ \A x : FileHas(SerBatcher, x)' <=> FileHas(a, x)
        /\ FileHas(SerBatcher', c) <=> FileHas(a, c)
        /\ Filed(SerBatcher)' <=> Filed(a)
    BY <1>9 DEF BufHas, FileHas, Filed, Apart, Once, InOrder
  <2> QED BY <1>11, <2>1 DEF b
<1>13. c = Head(serFiles[i]) /\ c \in Calls /\ cpc[c] = "added"
  BY <1>2 DEF c
<1> QED BY <1>3, <1>4, <1>5, <1>6, <1>12, <1>13

(* The other steps leave the buffer, the files and the index's series.     *)
LEMMA SameBatch ==
    TypeInv /\ [Next]_vars /\ ~FinishBlock /\ ~NextSeries /\ (\A c \in Calls : ~AddSeries(c))
        => serBuffer' = serBuffer /\ serFiles' = serFiles /\ index'.series = index.series
<1> SUFFICES ASSUME TypeInv, [Next]_vars, ~FinishBlock, ~NextSeries, \A c \in Calls : ~AddSeries(c)
             PROVE  serBuffer' = serBuffer /\ serFiles' = serFiles /\ index'.series = index.series
  OBVIOUS
<1>1. CASE NextSymbol
  BY <1>1 DEF NextSymbol, serVars, TypeInv, TypeParts, IndexOK
<1>2. CASE ~NextSymbol
  BY <1>2 DEF Next, vars, CallStep, FinishStep, Convert, AddSymbols, WriteChunks,
         RejectLabels, EndSymbols, SeriesFails, WriteMeta, serVars, outVars
<1> QED BY <1>1, <1>2

LEMMA FinishBlockIs ==
    ASSUME TypeInv, FinishBlock
    PROVE  /\ \A x : BufHas(SerBatcher, x)' \/ FileHas(SerBatcher, x)' <=>
                        BufHas(SerBatcher, x) \/ FileHas(SerBatcher, x)
           /\ Filed(SerBatcher) => Filed(SerBatcher)'
           /\ \A x : HoldsSym(SymBatcher, x) <=> HoldsSym(SymBatcher, x)'
           /\ FilesRise(symFiles) => FilesRise(symFiles')
           /\ symBuffer' = {} /\ DOMAIN serBuffer' = {} /\ index' = index
<1> DEFINE a == FlushSymbols(SymBatcher, TRUE)
           b == FlushSeries(SerBatcher, TRUE)
<1>1. /\ b \in SerBatch /\ b.buffer = <<>>
      /\ \A x : BufHas(b, x) \/ FileHas(b, x) <=> BufHas(SerBatcher, x) \/ FileHas(SerBatcher, x)
      /\ Filed(SerBatcher) => Filed(b)
  BY FlushSeriesIs, FlushPlaces DEF TypeInv, TypeParts, SeriesOK
<1>2. /\ a \in SymBatch /\ a.buffer = {}
      /\ \A x : HoldsSym(SymBatcher, x) <=> HoldsSym(a, x)
      /\ FilesRise(SymBatcher.files) => FilesRise(a.files)
  BY FlushSymbolsKeeps DEF TypeInv, TypeParts, SymbolsOK
<1>3. /\ symBuffer' = a.buffer /\ symFiles' = a.files
      /\ serBuffer' = b.buffer /\ serFiles' = b.files /\ index' = index
  BY DEF FinishBlock, outVars
<1> HIDE DEF a, b
<1>4. SymBatcher' = a /\ SerBatcher' = b /\ SymBatcher.files = symFiles
  BY <1>1, <1>2, <1>3 DEF SymBatcher, SerBatcher, SymBatch, SerBatch
<1>5. /\ \A x : BufHas(SerBatcher, x)' <=> BufHas(b, x)
      /\ \A x : FileHas(SerBatcher, x)' <=> FileHas(b, x)
      /\ Filed(SerBatcher)' <=> Filed(b)
      /\ \A x : HoldsSym(SymBatcher, x)' <=> HoldsSym(a, x)
  BY <1>4 DEF BufHas, FileHas, Filed, Apart, Once, InOrder, HoldsSym
<1> QED BY <1>1, <1>2, <1>3, <1>4, <1>5

LEMMA PlacedStep ==
    ASSUME TypeInv, [Next]_vars
    PROVE  \A d \in Calls : Placed(d)' <=> Placed(d) \/ AddSeries(d)
<1>1. ASSUME NEW c \in Calls, AddSeries(c)
      PROVE  \A d \in Calls : Placed(d)' <=> Placed(d) \/ d = c
  <2>1. \A x : InIndex(x)' <=> InIndex(x)
    BY <1>1 DEF AddSeries, outVars, InIndex, IndexHas
  <2> QED BY <1>1, <2>1, AddSeriesIs DEF Placed
<1>2. ASSUME NEW c \in Calls, NEW d \in Calls, AddSeries(c), AddSeries(d) PROVE c = d
  <2>1. cpc[d] = "series" /\ cpc'[d] = "added" /\ cpc \in [Calls -> Step]
    BY <1>2 DEF AddSeries, Goto, TypeInv, TypeParts, CallsOK
  <2>2. c # d => cpc'[d] = cpc[d]
    BY <1>2, <2>1 DEF AddSeries, Goto
  <2> QED BY <2>1, <2>2
<1>3. CASE FinishBlock
  <2>1. \A x : InIndex(x)' <=> InIndex(x)
    BY <1>3, FinishBlockIs DEF InIndex, IndexHas
  <2>2. \A d \in Calls : ~AddSeries(d)
    BY <1>3 DEF FinishBlock, AddSeries, Ended
  <2> QED BY <1>3, <2>1, <2>2, FinishBlockIs DEF Placed
<1>4. CASE NextSeries
  <2>1. \A d \in Calls : ~AddSeries(d)
    <3>1. UNCHANGED cpc
      BY <1>4 DEF NextSeries
    <3> QED BY <3>1 DEF AddSeries, Goto, TypeInv, TypeParts, CallsOK
  <2> QED BY <1>4, <2>1, NextSeriesPlaces DEF Placed
<1>5. CASE /\ ~FinishBlock /\ ~NextSeries /\ \A c \in Calls : ~AddSeries(c)
  <2>1. serBuffer' = serBuffer /\ serFiles' = serFiles /\ index'.series = index.series
    BY <1>5, SameBatch
  <2>2. SerBatcher' = SerBatcher
    BY <2>1 DEF SerBatcher
  <2>3. \A x : /\ BufHas(SerBatcher, x)' <=> BufHas(SerBatcher, x)
               /\ FileHas(SerBatcher, x)' <=> FileHas(SerBatcher, x)
               /\ InIndex(x)' <=> InIndex(x)
    BY <2>1, <2>2 DEF BufHas, FileHas, InIndex, IndexHas
  <2> QED BY <1>5, <2>3 DEF Placed
<1> QED BY <1>1, <1>2, <1>3, <1>4, <1>5

LEMMA PlacedAddedStep == TypeInv /\ [Next]_vars => PlacedAdded'
<1> SUFFICES ASSUME TypeInv, [Next]_vars, NEW d \in Calls
             PROVE  Placed(d)' <=> cpc'[d] = "added"
  BY DEF PlacedAdded
<1>1. Placed(d) <=> cpc[d] = "added"
  BY DEF TypeInv, PlacedAdded
<1>2. Placed(d)' <=> Placed(d) \/ AddSeries(d)
  BY PlacedStep
<1>3. cpc'[d] = "added" <=> cpc[d] = "added" \/ AddSeries(d)
  <2>1. ASSUME NEW c \in Calls, CallStep(c)
        PROVE  cpc'[d] = "added" <=> cpc[d] = "added" \/ AddSeries(d)
    <3>1. PICK p \in Step : /\ Goto(c, p) /\ Moved(c, p) /\ cpc[c] # "added"
                            /\ p = "added" <=> AddSeries(c)
      BY <2>1, CallsMove
    <3>2. CASE d = c
      BY <3>1, <3>2 DEF Moved
    <3>3. CASE d # c
      <4>1. cpc'[d] = cpc[d]
        BY <3>1, <3>3 DEF Moved
      <4>2. ~AddSeries(d)
        BY <4>1 DEF AddSeries, Goto, TypeInv, TypeParts, CallsOK
      <4> QED BY <4>1, <4>2
    <3> QED BY <3>2, <3>3
  <2>2. CASE UNCHANGED cpc
    <3>1. ~AddSeries(d)
      BY <2>2 DEF AddSeries, Goto, TypeInv, TypeParts, CallsOK
    <3> QED BY <2>2, <3>1
  <2>3. UNCHANGED cpc \/ \E c \in Calls : CallStep(c)
    BY DEF Next, vars, FinishStep, FinishBlock, NextSymbol, EndSymbols, NextSeries,
           SeriesFails, WriteMeta
  <2> QED BY <2>1, <2>2, <2>3
<1> QED BY <1>1, <1>2, <1>3

LEMMA TypeStep == TypeInv /\ [Next]_vars => TypeInv'
<1> SUFFICES ASSUME TypeInv, [Next]_vars PROVE TypeInv'
  OBVIOUS
<1>1. TypeParts'
  <2>1. CASE UNCHANGED vars
    BY <2>1 DEF TypeInv, TypeParts, vars, symVars, serVars, outVars, CallsOK, SymbolsOK,
           SymBatcher, SeriesOK, SerBatcher, ChunksOK, IndexOK, FinishOK, StatsOK
  <2> QED BY <2>1, CallPartsStep, FinishPartsStep DEF Next
<1>2. RefsOwn' /\ PlacedAdded'
  BY RefsOwnStep, PlacedAddedStep
<1> QED BY <1>1, <1>2 DEF TypeInv

LEMMA TypeAlways == Spec => []TypeInv
<1> QED BY TypeInit, TypeStep, PTL DEF Spec

(* Every variable keeps its type: TypeOK.                                   *)
THEOREM TypeCorrect == Spec => []TypeOK
<1>1. TypeInv => TypeOK
  BY TypePartsOK DEF TypeInv
<1> QED BY <1>1, TypeAlways, PTL

------------------------------------------------------------------------------
(* The chunks of the block                                                  *)

(* Each reference of the index leads to the chunk of its series.            *)
EntryOwn(e) ==
    /\ DOMAIN e.chunks = DOMAIN ChunksOf(e.call)
    /\ \A k \in DOMAIN e.chunks :
          e.chunks[k] \in DOMAIN chunkFile /\ chunkFile[e.chunks[k]] = <<e.call, k>>
IndexOwn == \A i \in DOMAIN index.series : EntryOwn(index.series[i])

LEMMA GivenKept == [Next]_vars => UNCHANGED given
BY DEF Next, vars, CallStep, FinishStep, Convert, AddSymbols, WriteChunks, AddSeries,
       RejectLabels, FinishBlock, NextSymbol, EndSymbols, NextSeries, SeriesFails, WriteMeta

(* All other steps leave the series of the index, and the block's chunks.   *)
LEMMA SeriesKept ==
    TypeInv /\ [Next]_vars /\ ~NextSeries => chunkFile' = chunkFile /\ index'.series = index.series
<1> SUFFICES ASSUME TypeInv, [Next]_vars, ~NextSeries
             PROVE  chunkFile' = chunkFile /\ index'.series = index.series
  OBVIOUS
<1>1. CASE NextSymbol
  BY <1>1 DEF NextSymbol, TypeInv, TypeParts, IndexOK
<1>2. CASE ~NextSymbol
  BY <1>2 DEF Next, vars, CallStep, FinishStep, Convert, AddSymbols, WriteChunks, AddSeries,
         RejectLabels, FinishBlock, EndSymbols, SeriesFails, WriteMeta, outVars
<1> QED BY <1>1, <1>2

LEMMA IndexOwnStep == TypeInv /\ IndexOwn /\ [Next]_vars => IndexOwn'
<1> SUFFICES ASSUME TypeInv, IndexOwn, [Next]_vars PROVE IndexOwn'
  OBVIOUS
<1>1. \A d : ChunksOf(d)' = ChunksOf(d)
  BY GivenKept DEF ChunksOf, Converted
<1>2. CASE ~NextSeries
  BY <1>1, <1>2, SeriesKept DEF IndexOwn, EntryOwn
<1>3. CASE NextSeries
  <2>1. PICK c \in Calls, e \in Entry :
            /\ chunkFile' = chunkFile \o Own(c)
            /\ e.call = c /\ index'.series = Append(index.series, e)
            /\ DOMAIN e.chunks = DOMAIN ChunksOf(c)
            /\ \A k \in DOMAIN e.chunks : e.chunks[k] = Len(chunkFile) + k
    BY <1>3, NextSeriesPlaces
  <2>2. Own(c) \in Seq(Calls \X Nat) /\ DOMAIN Own(c) = DOMAIN ChunksOf(c)
        /\ \A k \in DOMAIN Own(c) : Own(c)[k] = <<c, k>>
    BY OwnType DEF TypeInv, TypeParts
  <2>3. chunkFile \in Seq(Calls \X Nat) /\ index.series \in Seq(Entry)
    BY DEF TypeInv, TypeParts, ChunksOK, IndexOK
  <2>4. /\ \A i \in DOMAIN chunkFile : i \in DOMAIN chunkFile' /\ chunkFile'[i] = chunkFile[i]
        /\ \A k \in DOMAIN Own(c) : /\ Len(chunkFile) + k \in DOMAIN chunkFile'
                                    /\ chunkFile'[Len(chunkFile) + k] = <<c, k>>
    BY <2>1, <2>2, <2>3, ConcatAt
  <2>5. \A i \in DOMAIN index'.series :
            index'.series[i] = e \/ (i \in DOMAIN index.series /\ index'.series[i] = index.series[i])
    BY <2>1, <2>3, AppendAt
  <2>6. EntryOwn(e)'
    BY <1>1, <2>1, <2>2, <2>4 DEF EntryOwn
  <2>7. ASSUME NEW f, EntryOwn(f) PROVE EntryOwn(f)'
    BY <1>1, <2>4, <2>7 DEF EntryOwn
  <2>8. ASSUME NEW i \in DOMAIN index'.series PROVE EntryOwn(index.series[i])'
    <3>1. PICK f : f = index'.series[i] /\ EntryOwn(f)'
      BY <2>5, <2>6, <2>7 DEF IndexOwn
    <3>2. /\ DOMAIN f.chunks = DOMAIN ChunksOf(f.call)'
          /\ \A k \in DOMAIN f.chunks : /\ f.chunks[k] \in DOMAIN chunkFile'
                                        /\ chunkFile'[f.chunks[k]] = <<f.call, k>>
      BY <3>1 DEF EntryOwn
    <3>3. ChunksOf(f.call)' = ChunksOf(f.call) /\ ChunksOf(index.series[i].call)' = ChunksOf(f.call)
      BY <1>1, <3>1, GivenKept DEF ChunksOf, Converted
    <3> QED BY <3>1, <3>2, <3>3 DEF EntryOwn
  <2> QED BY <2>8 DEF IndexOwn
<1> QED BY <1>2, <1>3

(* A call's references lead to its own chunks, whatever was written between *)
(* them and after; so do those of the block's index: OwnChunks.             *)
THEOREM OwnChunksAlways == Spec => []OwnChunks
<1>1. Init => IndexOwn
  <2> SUFFICES ASSUME Init PROVE DOMAIN index.series = {}
    BY DEF IndexOwn
  <2> QED BY DEF Init
<1>2. TypeInv /\ IndexOwn => OwnChunks
  <2> SUFFICES ASSUME TypeInv, IndexOwn PROVE OwnChunks
    OBVIOUS
  <2>1. \A c \in Calls : cpc[c] \in {"series", "added"} => ChunksAt(c) = Own(c)
    BY ChunksAtOwn
  <2>2. ASSUME NEW i \in DOMAIN index.series
        PROVE  LET e == index.series[i]
               IN  [k \in DOMAIN e.chunks |-> chunkFile[e.chunks[k]]] = Own(e.call)
    BY DEF IndexOwn, EntryOwn, Own
  <2> QED BY <2>1, <2>2 DEF OwnChunks
<1> QED BY <1>1, <1>2, TypeAlways, IndexOwnStep, PTL DEF Spec

------------------------------------------------------------------------------
(* The inductive invariant, second part: the files, the index, the phases   *)

(* A series is in one place, once; a file is in the order of its labels.    *)
OnePlace == /\ Filed(SerBatcher)
            /\ \A c \in Calls : InIndex(c) => ~BufHas(SerBatcher, c) /\ ~FileHas(SerBatcher, c)

(* The series of the index are in order, and before all that are to come.   *)
IndexSorted ==
    /\ \A i, j \in DOMAIN index.series :
          i < j => Rank[index.series[i].call] < Rank[index.series[j].call]
    /\ \A c, d \in Calls : InIndex(c) /\ FileHas(SerBatcher, d) => Rank[c] <= Rank[d]

AllRead(files) == \A i \in DOMAIN files : files[i] = <<>>
Phases ==
    /\ bpc = "adding" => DOMAIN index.series = {}
    /\ bpc # "adding" => symBuffer = {} /\ DOMAIN serBuffer = {} /\ \A c \in Calls : cpc[c] \in Ended
    /\ bpc = "finished" => AllRead(serFiles)
    /\ bpc \notin {"adding", "symbols"} => AllRead(symFiles)

(* The symbols of a call that has added them are held until they are indexed. *)
Held(x) == HoldsSym(SymBatcher, x) \/ x \in ToSet(index.symbols)
SymbolsHeld ==
    \A c \in Calls : cpc[c] \in {"chunks", "series", "added"} =>
        \A k \in DOMAIN Symbols[c] : Held(Symbols[c][k])

BlockInv == OnePlace /\ IndexSorted /\ Phases /\ SymbolsHeld

LEMMA BlockInit == Init => BlockInv
<1> SUFFICES ASSUME Init PROVE BlockInv
  OBVIOUS
<1>1. DOMAIN serBuffer = {} /\ DOMAIN serFiles = {} /\ DOMAIN index.series = {}
  BY DEF Init
<1>2. SerBatcher.buffer = serBuffer /\ SerBatcher.files = serFiles
  BY DEF SerBatcher
<1>3. OnePlace
  BY <1>1, <1>2 DEF OnePlace, Filed, Apart, Once, InOrder, BufHas, FileHas, InIndex, IndexHas
<1>4. IndexSorted
  BY <1>1 DEF IndexSorted, InIndex, IndexHas
<1>5. Phases
  BY <1>1 DEF Init, Phases
<1>6. SymbolsHeld
  BY DEF Init, SymbolsHeld
<1> QED BY <1>3, <1>4, <1>5, <1>6 DEF BlockInv

(* The calls are through when FinishBlock is on.                            *)
LEMMA CallsEnd ==
    ASSUME TypeInv, Phases, NEW c \in Calls, CallStep(c)
    PROVE  bpc = "adding" /\ bpc' = "adding" /\ index' = index
<1>1. cpc[c] \notin Ended
  BY DEF CallStep, Convert, AddSymbols, WriteChunks, AddSeries, RejectLabels, Ended
<1>2. bpc = "adding"
  BY <1>1 DEF Phases
<1>3. bpc' = bpc /\ index' = index
  BY DEF CallStep, Convert, AddSymbols, WriteChunks, AddSeries, RejectLabels, outVars
<1> QED BY <1>2, <1>3

LEMMA OnePlaceStep == TypeInv /\ BlockInv /\ [Next]_vars => OnePlace'
<1> SUFFICES ASSUME TypeInv, BlockInv, [Next]_vars PROVE OnePlace'
  OBVIOUS
<1>0. Filed(SerBatcher)
      /\ \A c \in Calls : InIndex(c) => ~BufHas(SerBatcher, c) /\ ~FileHas(SerBatcher, c)
  BY DEF BlockInv, OnePlace
<1>1. ASSUME NEW c \in Calls, AddSeries(c) PROVE OnePlace'
  <2>1. DOMAIN index'.series = {}
    BY <1>1, CallsEnd DEF CallStep, BlockInv, Phases
  <2>2. Filed(SerBatcher)'
    BY <1>0, <1>1, AddSeriesIs
  <2> QED BY <2>1, <2>2 DEF OnePlace, InIndex, IndexHas
<1>2. CASE FinishBlock
  <2>1. DOMAIN index'.series = {}
    BY <1>2, FinishBlockIs DEF FinishBlock, BlockInv, Phases
  <2> QED BY <1>0, <1>2, <2>1, FinishBlockIs DEF OnePlace, InIndex, IndexHas
<1>3. CASE NextSeries
  <2>1. PICK c \in Calls :
            /\ FileHas(SerBatcher, c)
            /\ \A x : BufHas(SerBatcher, x)' <=> BufHas(SerBatcher, x)
            /\ \A x : FileHas(SerBatcher, x)' => FileHas(SerBatcher, x)
            /\ \A x : InIndex(x)' <=> InIndex(x) \/ x = c
            /\ Filed(SerBatcher) => Filed(SerBatcher)' /\ ~FileHas(SerBatcher', c)
    BY <1>3, NextSeriesPlaces
  <2>2. ~BufHas(SerBatcher, c)
    BY <1>0, <2>1 DEF Filed, Apart
  <2>3. ASSUME NEW d \in Calls, InIndex(d)'
        PROVE  ~BufHas(SerBatcher, d)' /\ ~FileHas(SerBatcher, d)'
    <3>1. CASE d = c
      BY <1>0, <2>1, <2>2, <3>1
    <3>2. CASE d # c
      BY <1>0, <2>1, <2>3, <3>2
    <3> QED BY <3>1, <3>2
  <2> QED BY <1>0, <2>1, <2>3 DEF OnePlace
<1>4. CASE ~FinishBlock /\ ~NextSeries /\ \A c \in Calls : ~AddSeries(c)
  <2>1. SerBatcher' = SerBatcher /\ index'.series = index.series
    BY <1>4, SameBatch DEF SerBatcher
  <2>2. \A x : /\ BufHas(SerBatcher, x)' <=> BufHas(SerBatcher, x)
               /\ FileHas(SerBatcher, x)' <=> FileHas(SerBatcher, x)
               /\ InIndex(x)' <=> InIndex(x)
    BY <2>1 DEF BufHas, FileHas, InIndex, IndexHas
  <2>3. Filed(SerBatcher)'
    BY <1>0, <2>1 DEF Filed, Apart, Once, InOrder, BufHas, FileHas
  <2> QED BY <1>0, <2>2, <2>3 DEF OnePlace
<1> QED BY <1>1, <1>2, <1>3, <1>4

LEMMA LabelsType ==
    ASSUME NEW s \in Seq(Calls)
    PROVE  [j \in DOMAIN s |-> Rank[s[j]]] \in Seq(Nat)
<1>1. Len(s) \in Nat /\ DOMAIN s = 1..Len(s) /\ \A j \in 1..Len(s) : s[j] \in Calls
  OBVIOUS
<1>2. \A j \in 1..Len(s) : Rank[s[j]] \in Nat
  BY <1>1, BlockBuilderAssumption
<1> DEFINE n == Len(s)
<1> HIDE DEF n
<1>3. [j \in 1..n |-> Rank[s[j]]] \in Seq(Nat)
  BY <1>1, <1>2 DEF n
<1> QED BY <1>1, <1>3 DEF n

(* The heads that NextSeries chooses from are least among all in the files. *)
LEMMA HeadIsLeast ==
    ASSUME TypeInv, OnePlace, NEW i \in Lowest(Labels(serFiles)),
           NEW d, FileHas(SerBatcher, d)
    PROVE  Rank[Head(serFiles[i])] <= Rank[d]
<1>1. /\ i \in DOMAIN serFiles /\ serFiles[i] # <<>> /\ serFiles \in Seq(Seq(Calls))
      /\ Head(serFiles[i]) \in Calls
  BY HeadAdded
<1>2. PICK k \in DOMAIN serFiles : \E j \in DOMAIN serFiles[k] : serFiles[k][j] = d
  BY DEF FileHas, SerBatcher
<1>3. PICK j \in DOMAIN serFiles[k] : serFiles[k][j] = d
  BY <1>2
<1>4. /\ serFiles[k] \in Seq(Calls) /\ serFiles[k] # <<>>
      /\ Head(serFiles[k]) = serFiles[k][1] /\ 1 \in DOMAIN serFiles[k] /\ j \in Nat /\ 1 <= j
      /\ Head(serFiles[k]) \in Calls /\ d \in Calls
  <2>1. serFiles[k] \in Seq(Calls)
    BY <1>1
  <2>2. j \in 1..Len(serFiles[k]) /\ Len(serFiles[k]) \in Nat /\ DOMAIN serFiles[k] = 1..Len(serFiles[k])
    BY <2>1
  <2>3. serFiles[k] # <<>>
    BY <2>2
  <2> QED BY <1>3, <2>1, <2>2, <2>3
<1>5. Rank[Head(serFiles[k])] <= Rank[d]
  <2>1. CASE j = 1
    BY <1>3, <1>4, <2>1, BlockBuilderAssumption
  <2>2. CASE 1 < j
    <3>1. InOrder(SerBatcher) /\ SerBatcher.files = serFiles
      BY DEF OnePlace, Filed, SerBatcher
    <3> QED BY <1>3, <1>4, <2>2, <3>1 DEF InOrder
  <2> QED BY <1>4, <2>1, <2>2
<1>6. Rank[Head(serFiles[i])] <= Rank[Head(serFiles[k])]
  <2> DEFINE fs == Labels(serFiles)
  <2>1. /\ i \in DOMAIN fs /\ k \in DOMAIN fs
        /\ fs[i] = [j1 \in DOMAIN serFiles[i] |-> Rank[serFiles[i][j1]]]
        /\ fs[k] = [j1 \in DOMAIN serFiles[k] |-> Rank[serFiles[k][j1]]]
    BY <1>1, <1>2 DEF Labels
  <2>2. 1 \in DOMAIN serFiles[i] /\ Head(serFiles[i]) = serFiles[i][1]
    BY <1>1, TailAt
  <2>3. fs[k] # <<>> /\ Head(fs[k]) = Rank[serFiles[k][1]]
    <3>1. fs[k] \in Seq(Nat) /\ DOMAIN fs[k] = DOMAIN serFiles[k]
      BY <1>4, <2>1, LabelsType
    <3>2. fs[k] # <<>>
      BY <1>4, <3>1
    <3> HIDE DEF fs
    <3> QED BY <1>4, <2>1, <3>1, <3>2, TailAt
  <2>4. Head(fs[i]) = Rank[serFiles[i][1]]
    <3>1. fs[i] \in Seq(Nat) /\ DOMAIN fs[i] = DOMAIN serFiles[i]
      <4>1. serFiles[i] \in Seq(Calls)
        BY <1>1
      <4> QED BY <2>1, <4>1, LabelsType
    <3>2. fs[i] # <<>>
      BY <2>2, <3>1
    <3> HIDE DEF fs
    <3> QED BY <2>1, <2>2, <3>1, <3>2, TailAt
  <2>5. Head(fs[i]) <= Head(fs[k])
    BY <2>1, <2>3 DEF Lowest
  <2> QED BY <1>4, <2>2, <2>3, <2>4, <2>5
<1>7. /\ Rank[Head(serFiles[i])] \in Nat /\ Rank[Head(serFiles[k])] \in Nat /\ Rank[d] \in Nat
  BY <1>1, <1>4, BlockBuilderAssumption
<1> QED BY <1>5, <1>6, <1>7

LEMMA IndexSortedStep == TypeInv /\ BlockInv /\ [Next]_vars => IndexSorted'
<1> SUFFICES ASSUME TypeInv, BlockInv, [Next]_vars PROVE IndexSorted'
  OBVIOUS
<1>0. /\ \A i, j \in DOMAIN index.series :
            i < j => Rank[index.series[i].call] < Rank[index.series[j].call]
      /\ \A c, d \in Calls : InIndex(c) /\ FileHas(SerBatcher, d) => Rank[c] <= Rank[d]
  BY DEF BlockInv, IndexSorted
<1>1. ASSUME NEW c \in Calls, AddSeries(c) PROVE IndexSorted'
  <2>1. DOMAIN index'.series = {}
    BY <1>1, CallsEnd DEF CallStep, BlockInv, Phases
  <2> QED BY <2>1 DEF IndexSorted, InIndex, IndexHas
<1>2. CASE FinishBlock
  <2>1. DOMAIN index'.series = {}
    BY <1>2, FinishBlockIs DEF FinishBlock, BlockInv, Phases
  <2> QED BY <2>1 DEF IndexSorted, InIndex, IndexHas
<1>3. CASE NextSeries
  <2>1. PICK i \in Lowest(Labels(serFiles)), c \in Calls, e \in Entry :
            /\ c = Head(serFiles[i]) /\ ~Duplicate(c)
            /\ e.call = c /\ index'.series = Append(index.series, e)
            /\ FileHas(SerBatcher, c)
            /\ \A x : FileHas(SerBatcher, x)' => FileHas(SerBatcher, x)
            /\ \A x : InIndex(x)' <=> InIndex(x) \/ x = c
    BY <1>3, NextSeriesPlaces
  <2> DEFINE s == index.series
             n == Len(index.series)
  <2>2. /\ s \in Seq(Entry) /\ n \in Nat /\ DOMAIN s = 1..n
        /\ \A k \in DOMAIN s : s[k].call \in Calls /\ Rank[s[k].call] \in Nat
    <3>1. s \in Seq(Entry)
      BY DEF TypeInv, TypeParts, IndexOK
    <3>2. \A k \in 1..n : s[k] \in Entry
      BY <3>1
    <3>3. \A k \in 1..n : s[k].call \in Calls
      BY <3>2 DEF Entry
    <3>4. n \in Nat /\ DOMAIN s = 1..n
      BY <3>1
    <3>5. \A k \in 1..n : Rank[s[k].call] \in Nat
      BY <3>3, BlockBuilderAssumption
    <3> HIDE DEF s, n
    <3> QED BY <3>1, <3>3, <3>4, <3>5
  <2>3. /\ \A k \in DOMAIN s : k \in DOMAIN index'.series /\ index'.series[k] = s[k]
        /\ index'.series[n + 1] = e
        /\ \A k \in DOMAIN index'.series : k \in DOMAIN s \/ k = n + 1
    BY <2>1, <2>2, AppendAt
  <2>4. \A k \in DOMAIN s : Rank[s[k].call] < Rank[c]
    <3> SUFFICES ASSUME NEW k \in DOMAIN s PROVE Rank[s[k].call] < Rank[c]
      OBVIOUS
    <3>1. s # <<>> /\ n \in DOMAIN s
      BY <2>2
    <3>2. ~(Rank[s[n].call] >= Rank[c])
      BY <2>1, <3>1 DEF Duplicate, LastOf
    <3>3. Rank[s[n].call] < Rank[c]
      <4>1. Rank[s[n].call] \in Nat /\ Rank[c] \in Nat
        BY <2>2, <3>1, BlockBuilderAssumption
      <4> HIDE DEF s, n
      <4> QED BY <3>2, <4>1
    <3>4. k = n \/ Rank[s[k].call] < Rank[s[n].call]
      BY <1>0, <2>2, <3>1
    <3> HIDE DEF s, n
    <3> QED BY <2>2, <3>1, <3>3, <3>4, BlockBuilderAssumption
  <2>5. ASSUME NEW k \in DOMAIN index'.series, NEW l \in DOMAIN index'.series, k < l
        PROVE  Rank[index'.series[k].call] < Rank[index'.series[l].call]
    <3>1. k \in DOMAIN s
      BY <2>2, <2>3, <2>5
    <3>2. CASE l \in DOMAIN s
      BY <1>0, <2>3, <2>5, <3>1, <3>2
    <3>3. CASE l = n + 1
      BY <2>1, <2>3, <2>4, <3>1, <3>3
    <3> QED BY <2>3, <3>2, <3>3
  <2>6. ASSUME NEW x \in Calls, NEW d \in Calls, InIndex(x)', FileHas(SerBatcher, d)'
        PROVE  Rank[x] <= Rank[d]
    <3>1. FileHas(SerBatcher, d)
      BY <2>1, <2>6
    <3>2. CASE x = c
      BY <2>1, <3>1, <3>2, HeadIsLeast DEF BlockInv
    <3>3. CASE InIndex(x)
      BY <1>0, <3>1, <3>3
    <3> QED BY <2>1, <2>6, <3>2, <3>3
  <2> QED BY <2>5, <2>6 DEF IndexSorted
<1>4. CASE ~FinishBlock /\ ~NextSeries /\ \A c \in Calls : ~AddSeries(c)
  <2>1. SerBatcher' = SerBatcher /\ index'.series = index.series
    BY <1>4, SameBatch DEF SerBatcher
  <2>2. \A x : /\ FileHas(SerBatcher, x)' <=> FileHas(SerBatcher, x)
               /\ InIndex(x)' <=> InIndex(x)
    BY <2>1 DEF FileHas, InIndex, IndexHas
  <2> QED BY <1>0, <2>1, <2>2 DEF IndexSorted
<1> QED BY <1>1, <1>2, <1>3, <1>4

LEMMA PhasesStep == TypeInv /\ BlockInv /\ [Next]_vars => Phases'
<1> SUFFICES ASSUME TypeInv, BlockInv, [Next]_vars PROVE Phases'
  OBVIOUS
<1>0. /\ bpc = "adding" => DOMAIN index.series = {}
      /\ bpc # "adding" => /\ symBuffer = {} /\ DOMAIN serBuffer = {}
                           /\ \A c \in Calls : cpc[c] \in Ended
      /\ bpc = "finished" => AllRead(serFiles)
      /\ bpc \notin {"adding", "symbols"} => AllRead(symFiles)
  BY DEF BlockInv, Phases
<1>1. ASSUME NEW c \in Calls, CallStep(c) PROVE Phases'
  <2>1. bpc = "adding" /\ bpc' = "adding" /\ index' = index
    BY <1>1, CallsEnd DEF BlockInv
  <2> QED BY <1>0, <2>1 DEF Phases
<1>2. CASE FinishBlock
  <2>1. symBuffer' = {} /\ DOMAIN serBuffer' = {} /\ bpc' = "symbols"
    BY <1>2, FinishBlockIs DEF FinishBlock
  <2>2. \A c \in Calls : cpc'[c] \in Ended
    BY <1>2 DEF FinishBlock
  <2> QED BY <2>1, <2>2 DEF Phases
<1>3. CASE NextSymbol
  BY <1>0, <1>3 DEF Phases, NextSymbol, serVars
<1>4. CASE EndSymbols
  BY <1>0, <1>4 DEF Phases, EndSymbols, symVars, serVars, AllRead
<1>5. CASE NextSeries
  BY <1>0, <1>5 DEF Phases, NextSeries, symVars
<1>6. CASE SeriesFails
  BY <1>0, <1>6 DEF Phases, SeriesFails, symVars, serVars
<1>7. CASE WriteMeta
  BY <1>0, <1>7 DEF Phases, WriteMeta, symVars, serVars, AllRead
<1>8. CASE UNCHANGED vars
  BY <1>0, <1>8 DEF Phases, vars, symVars, serVars, outVars
<1> QED BY <1>1, <1>2, <1>3, <1>4, <1>5, <1>6, <1>7, <1>8 DEF Next, FinishStep

(* What is held stays held: in the buffer, a file, or the index.            *)
LEMMA HeldStep ==
    ASSUME TypeInv, [Next]_vars, NEW x, Held(x)
    PROVE  Held(x)'
<1>0. index.symbols \in Seq(Nat) /\ SymBatcher \in SymBatch
      /\ SymBatcher.buffer = symBuffer /\ SymBatcher.files = symFiles
  BY DEF TypeInv, TypeParts, IndexOK, SymbolsOK, SymBatcher
<1>1. ASSUME NEW c \in Calls, AddSymbols(c) PROVE Held(x)'
  <2> DEFINE b == Adding(SymBatcher, Symbols[c])[Len(Symbols[c])]
  <2>1. b \in SymBatch /\ (HoldsSym(SymBatcher, x) => HoldsSym(b, x))
    BY <1>0, AddingKeeps, BlockBuilderAssumption
  <2>2. symBuffer' = b.buffer /\ symFiles' = b.files /\ index' = index
    BY <1>1 DEF AddSymbols, outVars
  <2> HIDE DEF b
  <2>3. SymBatcher' = b
    BY <2>1, <2>2 DEF SymBatcher, SymBatch
  <2> QED BY <2>1, <2>2, <2>3 DEF Held, HoldsSym
<1>2. CASE FinishBlock
  BY <1>2, FinishBlockIs DEF Held
<1>3. CASE NextSymbol
  <2>1. PICK i \in Lowest(symFiles) :
            /\ symFiles' = [symFiles EXCEPT ![i] = Tail(@)]
            /\ index' = IF index.symbols # <<>> /\ LastOf(index.symbols) = Head(symFiles[i])
                        THEN index
                        ELSE [index EXCEPT !.symbols = Append(@, Head(symFiles[i]))]
    BY <1>3 DEF NextSymbol
  <2> DEFINE sym == Head(symFiles[i])
             f == symFiles[i]
  <2>2. symFiles \in Seq(Seq(Nat)) /\ i \in DOMAIN symFiles /\ f # <<>>
    BY <1>0, <2>1 DEF SymBatch, Lowest
  <2>3. /\ DOMAIN symFiles' = DOMAIN symFiles /\ f \in Seq(Nat) /\ sym \in Nat
        /\ symFiles'[i] = Tail(f) /\ \A k \in DOMAIN symFiles : k # i => symFiles'[k] = symFiles[k]
    BY <2>1, <2>2, TakeHead
  <2>4. /\ Head(f) = f[1]
        /\ \A j \in DOMAIN f : j = 1 \/ (j - 1 \in DOMAIN Tail(f) /\ Tail(f)[j - 1] = f[j])
    BY <2>2, <2>3, TailAt
  <2>5. SymBatcher'.buffer = symBuffer /\ SymBatcher'.files = symFiles'
    BY <1>3 DEF NextSymbol, SymBatcher
  <2>6. \A y : y \in ToSet(index.symbols) \/ y = sym => y \in ToSet(index'.symbols)
    <3>1. CASE index.symbols # <<>> /\ LastOf(index.symbols) = sym
      <4>1. Len(index.symbols) \in DOMAIN index.symbols
        BY <1>0, <3>1
      <4>2. sym \in ToSet(index.symbols) /\ index' = index
        BY <2>1, <3>1, <4>1 DEF ToSet, LastOf
      <4> QED BY <4>2
    <3>2. CASE ~(index.symbols # <<>> /\ LastOf(index.symbols) = sym)
      <4>1. index' = [index EXCEPT !.symbols = Append(@, sym)]
        BY <2>1, <3>2
      <4>2. index'.symbols = Append(index.symbols, sym)
        BY <4>1 DEF TypeInv, TypeParts, IndexOK
      <4> HIDE DEF sym
      <4>3. /\ Append(index.symbols, sym) \in Seq(Nat)
            /\ \A j \in DOMAIN index.symbols : j \in DOMAIN index'.symbols
                                               /\ index'.symbols[j] = index.symbols[j]
            /\ Len(index.symbols) + 1 \in DOMAIN index'.symbols
            /\ index'.symbols[Len(index.symbols) + 1] = sym
        BY <1>0, <2>3, <4>2, AppendAt
      <4>4. \A y : y \in ToSet(index.symbols) <=> \E j \in DOMAIN index.symbols : index.symbols[j] = y
        BY <1>0, ToSetFinite
      <4>5. \A y : y \in ToSet(index'.symbols) <=> \E j \in DOMAIN index'.symbols : index'.symbols[j] = y
        BY DEF ToSet
      <4> QED BY <4>3, <4>4, <4>5
    <3> QED BY <3>1, <3>2
  <2>7. CASE x \in ToSet(index.symbols) \/ x = sym
    BY <2>6, <2>7 DEF Held
  <2>8. CASE x # sym /\ x \in symBuffer
    BY <2>5, <2>8 DEF Held, HoldsSym
  <2>9. CASE x # sym /\ \E k \in DOMAIN symFiles : \E j \in DOMAIN symFiles[k] : symFiles[k][j] = x
    <3>1. PICK k \in DOMAIN symFiles : \E j \in DOMAIN symFiles[k] : symFiles[k][j] = x
      BY <2>9
    <3>2. PICK j \in DOMAIN symFiles[k] : symFiles[k][j] = x
      BY <3>1
    <3>3. CASE k # i
      BY <2>3, <2>5, <3>2, <3>3 DEF Held, HoldsSym
    <3>4. CASE k = i
      <4>1. j # 1
        BY <2>4, <2>9, <3>2, <3>4
      <4>2. j - 1 \in DOMAIN Tail(f) /\ Tail(f)[j - 1] = x
        BY <2>4, <3>2, <3>4, <4>1
      <4>3. i \in DOMAIN symFiles' /\ j - 1 \in DOMAIN symFiles'[i] /\ symFiles'[i][j - 1] = x
        BY <2>2, <2>3, <4>2
      <4> QED BY <2>5, <4>3 DEF Held, HoldsSym
    <3> QED BY <3>3, <3>4
  <2> QED BY <1>0, <2>7, <2>8, <2>9 DEF Held, HoldsSym
<1>4. CASE ~FinishBlock /\ ~NextSymbol /\ \A c \in Calls : ~AddSymbols(c)
  <2>1. symBuffer' = symBuffer /\ symFiles' = symFiles /\ index'.symbols = index.symbols
    <3>1. CASE NextSeries
      BY <3>1, NextSeriesPlaces DEF NextSeries, symVars
    <3>2. CASE ~NextSeries
      BY <1>4, <3>2 DEF Next, vars, CallStep, FinishStep, Convert, WriteChunks, AddSeries,
             RejectLabels, EndSymbols, SeriesFails, WriteMeta, symVars, outVars
    <3> QED BY <3>1, <3>2
  <2> QED BY <2>1 DEF Held, HoldsSym, SymBatcher
<1> QED BY <1>1, <1>2, <1>3, <1>4

LEMMA SymbolsHeldStep == TypeInv /\ BlockInv /\ [Next]_vars => SymbolsHeld'
<1> SUFFICES ASSUME TypeInv, BlockInv, [Next]_vars,
                    NEW c \in Calls, cpc'[c] \in {"chunks", "series", "added"},
                    NEW k \in DOMAIN Symbols[c]
             PROVE  Held(Symbols[c][k])'
  BY DEF SymbolsHeld
<1>1. CASE AddSymbols(c)
  <2> DEFINE b == Adding(SymBatcher, Symbols[c])[Len(Symbols[c])]
  <2>1. b \in SymBatch /\ HoldsSym(b, Symbols[c][k])
    BY AddingKeeps, BlockBuilderAssumption DEF TypeInv, TypeParts, SymbolsOK
  <2>2. symBuffer' = b.buffer /\ symFiles' = b.files
    BY <1>1 DEF AddSymbols
  <2> HIDE DEF b
  <2>3. SymBatcher' = b
    BY <2>1, <2>2 DEF SymBatcher, SymBatch
  <2> QED BY <2>1, <2>3 DEF Held, HoldsSym
<1>2. CASE ~AddSymbols(c)
  <2>1. cpc[c] \in {"chunks", "series", "added"}
    <3>1. ASSUME NEW d \in Calls, CallStep(d), d # c PROVE cpc'[c] = cpc[c]
      BY <3>1, CallsMove DEF Moved
    <3>2. CASE CallStep(c)
      <4>1. \/ Goto(c, "failed") \/ Goto(c, "nothing") \/ Goto(c, "symbols")
            \/ cpc[c] \in {"chunks", "series"}
        BY <1>2, <3>2 DEF CallStep, Convert, WriteChunks, AddSeries, RejectLabels
      <4>2. cpc'[c] \in {"failed", "nothing", "symbols"} \/ cpc[c] \in {"chunks", "series"}
        BY <4>1 DEF Goto, TypeInv, TypeParts, CallsOK
      <4> QED BY <4>2
    <3>3. UNCHANGED cpc \/ \E d \in Calls : CallStep(d)
      BY DEF Next, vars, FinishStep, FinishBlock, NextSymbol, EndSymbols, NextSeries,
             SeriesFails, WriteMeta
    <3> QED BY <3>1, <3>2, <3>3
  <2>2. Held(Symbols[c][k])
    BY <2>1 DEF BlockInv, SymbolsHeld
  <2> QED BY <2>2, HeldStep
<1> QED BY <1>1, <1>2

LEMMA BlockAlways == Spec => [](TypeInv /\ BlockInv)
<1>1. TypeInv /\ BlockInv /\ [Next]_vars => BlockInv'
  BY OnePlaceStep, IndexSortedStep, PhasesStep, SymbolsHeldStep DEF BlockInv
<1> QED BY <1>1, TypeInit, TypeStep, BlockInit, PTL DEF Spec

(* Once the files are read, all series that were added are in the index.    *)
LEMMA AllIndexed ==
    ASSUME TypeInv, Phases, bpc # "adding", AllRead(serFiles)
    PROVE  \A c \in Calls : c \in Added <=> InIndex(c)
<1>1. DOMAIN serBuffer = {} /\ \A i \in DOMAIN serFiles : DOMAIN serFiles[i] = {}
  BY DEF Phases, AllRead
<1>2. \A c : ~BufHas(SerBatcher, c) /\ ~FileHas(SerBatcher, c)
  BY <1>1 DEF BufHas, FileHas, SerBatcher
<1> QED BY <1>2 DEF TypeInv, PlacedAdded, Placed, Added

------------------------------------------------------------------------------
(* The stats and meta.json                                                  *)

(* A call that gets past its conversion was given samples in order.         *)
Converts == \A c \in Calls :
    cpc[c] \in {"symbols", "chunks", "series", "added"} => ~Converted(c).failed

(* What the stats and the block's n chunks tell of the calls of S, where a  *)
(* call has the samples f[c]: how many series, samples and chunks there are, *)
(* and the least and the greatest time.                                     *)
TimesOf(f, S)  == UNION {ToSet(f[c]) : c \in S}
PointsOf(f, S) == UNION {{c} \X DOMAIN f[c] : c \in S}
Counts(st, f, S, n) ==
    /\ IsFiniteSet(S) /\ st["numSeries"] = Cardinality(S)
    /\ IsFiniteSet(PointsOf(f, S)) /\ st["numSamples"] = Cardinality(PointsOf(f, S))
    /\ st["numChunks"] = n
Spans(st, f, S) ==
    /\ st["minT"] \in TimesOf(f, S) \cup {MaxInt64}
    /\ \A x \in TimesOf(f, S) \cup {MaxInt64} : st["minT"] <= x
    /\ st["maxT"] \in TimesOf(f, S) \cup {0}
    /\ \A x \in TimesOf(f, S) \cup {0} : x <= st["maxT"]

Kept    == [c \in Calls |-> InTime(c)]
Indexed == {c \in Calls : InIndex(c)}
StatsTrue == Counts(stats, Kept, Indexed, Len(chunkFile)) /\ Spans(stats, Kept, Indexed)
MetaTrue  == bpc = "finished" => meta = <<MetaFile(stats)>>
MetaInv   == Converts /\ StatsTrue /\ MetaTrue

LEMMA KeptType ==
    ASSUME given \in Inputs
    PROVE  Kept \in [Calls -> Seq(Int)]
<1> SUFFICES ASSUME NEW c \in Calls PROVE InTime(c) \in Seq(Int)
  BY DEF Kept
<1> DEFINE all == given[c].samples
<1>1. all \in Seq(Int)
  BY BlockBuilderAssumption
<1> HIDE DEF all
<1>2. Inside(all, MinBlockTime, MaxBlockTime) \in [0..Len(all) -> Seq(Int)]
  BY <1>1, InsideIs
<1>3. Len(all) \in 0..Len(all)
  BY <1>1
<1>4. Inside(all, MinBlockTime, MaxBlockTime)[Len(all)] \in Seq(Int)
  BY <1>2, <1>3
<1> QED BY <1>4 DEF InTime, all

(* The chunks of a call that got through have its samples within the        *)
(* block's time, and tell the truth of them.                                *)
LEMMA ChunksTell ==
    ASSUME CallsOK, NEW c \in Calls, ~Converted(c).failed
    PROVE  /\ GoodChunks(ChunksOf(c))
           /\ FlattenSeq(SamplesOf(ChunksOf(c))) = Kept[c]
           /\ Kept[c] \in Seq(Nat) /\ SamplesToChunks(Kept[c], 0, 0) = Converted(c)
<1> DEFINE all == given[c].samples
           k == Inside(all, MinBlockTime, MaxBlockTime)[Len(all)]
<1>1. all \in Seq(Int)
  BY BlockBuilderAssumption DEF CallsOK
<1>2. ~SamplesToChunks(all, MinBlockTime, MaxBlockTime).failed
  BY DEF Converted
<1>3. /\ Kept[c] = k /\ Converted(c) = SamplesToChunks(all, MinBlockTime, MaxBlockTime)
      /\ ChunksOf(c) = Converted(c).chunks
  BY DEF Kept, InTime, ChunksOf, Converted
<1> HIDE DEF all
<1>4. /\ IsRising(k)
      /\ SamplesToChunks(all, MinBlockTime, MaxBlockTime) = SamplesToChunks(k, 0, 0)
  BY <1>1, <1>2, OnlyInside
<1> HIDE DEF k
<1>5. k \in Seq(Nat) /\ IsAscending(k) /\ \A x \in ToSet(k) : x > 0
  BY <1>4 DEF IsRising
<1>6. /\ GoodChunks(SamplesToChunks(k, 0, 0).chunks)
      /\ FlattenSeq(SamplesOf(SamplesToChunks(k, 0, 0).chunks)) = k
  BY <1>5, BlockChunksAre
<1> QED BY <1>3, <1>4, <1>5, <1>6

(* One more series in the stats. *)
LEMMA CountsGrow ==
    ASSUME NEW f \in [Calls -> Seq(Int)], NEW S \in SUBSET Calls, NEW n \in Nat,
           NEW st \in StatSet, Counts(st, f, S, n), NEW c \in Calls, c \notin S,
           NEW r, NEW m \in Nat, Tells(st, r, m, f[c])
    PROVE  Counts(r, f, S \cup {c}, n + m)
<1> DEFINE own == {c} \X DOMAIN f[c]
           P == PointsOf(f, S)
           Q == PointsOf(f, S \cup {c})
           len == Len(f[c])
<1>1. /\ IsFiniteSet(S) /\ st["numSeries"] = Cardinality(S) /\ st["numChunks"] = n
      /\ IsFiniteSet(P) /\ st["numSamples"] = Cardinality(P)
  BY DEF Counts
<1>2. /\ r["numSeries"] = st["numSeries"] + 1 /\ r["numChunks"] = st["numChunks"] + m
      /\ r["numSamples"] = st["numSamples"] + len
  BY DEF Tells
<1>3. IsFiniteSet(S \cup {c}) /\ Cardinality(S \cup {c}) = Cardinality(S) + 1
  BY <1>1, FS_AddElement
<1>4. len \in Nat /\ DOMAIN f[c] = 1..len
  OBVIOUS
<1>5. IsFiniteSet(own) /\ Cardinality(own) = len
  <2>1. IsFiniteSet(1..len) /\ Cardinality(1..len) = len
    <3> HIDE DEF len
    <3> QED BY <1>4, FS_Interval
  <2>2. IsFiniteSet({c}) /\ Cardinality({c}) = 1
    BY FS_Singleton
  <2>3. IsFiniteSet({c} \X (1..len)) /\ Cardinality({c} \X (1..len)) = 1 * len
    <3> HIDE DEF len
    <3> QED BY <2>1, <2>2, FS_Product
  <2>4. 1 * len = len
    <3>1. \A x \in Nat : 1 * x = x
      OBVIOUS
    <3> HIDE DEF len
    <3> QED BY <1>4, <3>1
  <2>5. own = {c} \X (1..len)
    BY <1>4
  <2> QED BY <2>3, <2>4, <2>5
<1>6. Q = P \cup own /\ P \cap own = {}
  BY DEF PointsOf
<1>7. Cardinality(P) \in Nat
  BY <1>1, FS_CardinalityType
<1> HIDE DEF own, P, Q, len
<1>8. IsFiniteSet(Q) /\ Cardinality(Q) = Cardinality(P) + len
  <2>1. IsFiniteSet(P \cup own)
        /\ Cardinality(P \cup own) = Cardinality(P) + Cardinality(own) - Cardinality(P \cap own)
    BY <1>1, <1>5, FS_Union
  <2>2. Cardinality(P \cap own) = 0
    BY <1>6, FS_EmptySet
  <2>3. Cardinality(Q) = Cardinality(P) + len - 0
    BY <1>5, <1>6, <2>1, <2>2
  <2>4. \A x, y \in Nat : x + y - 0 = x + y
    OBVIOUS
  <2> QED BY <1>4, <1>6, <1>7, <2>1, <2>3, <2>4
<1> QED BY <1>1, <1>2, <1>3, <1>8 DEF Counts, Q, P

LEMMA SpansGrow ==
    ASSUME NEW f \in [Calls -> Seq(Int)], NEW S \in SUBSET Calls,
           NEW st \in StatSet, Spans(st, f, S), NEW c \in Calls,
           NEW r \in StatSet, NEW m, Tells(st, r, m, f[c])
    PROVE  Spans(r, f, S \cup {c})
<1> DEFINE own == ToSet(f[c])
           T == TimesOf(f, S)
           A == TimesOf(f, S \cup {c})
<1>1. /\ st["minT"] \in T \cup {MaxInt64} /\ \A x \in T \cup {MaxInt64} : st["minT"] <= x
      /\ st["maxT"] \in T \cup {0} /\ \A x \in T \cup {0} : x <= st["maxT"]
  BY DEF Spans
<1>2. /\ r["minT"] \in own \cup {st["minT"]} /\ \A x \in own \cup {st["minT"]} : r["minT"] <= x
      /\ r["maxT"] \in own \cup {st["maxT"]} /\ \A x \in own \cup {st["maxT"]} : x <= r["maxT"]
  BY DEF Tells
<1>3. A = T \cup own
  BY DEF TimesOf
<1>4. T \subseteq Int /\ MaxInt64 \in Int
  <2>1. \A d \in S : ToSet(f[d]) \subseteq Int
    BY DEF ToSet
  <2> QED BY <2>1, ChunksAssumption DEF TimesOf
<1>5. /\ r["minT"] \in Int /\ r["maxT"] \in Int /\ st["minT"] \in Int /\ st["maxT"] \in Int
  BY DEF StatSet
<1> HIDE DEF own, T, A
<1>6. r["minT"] \in A \cup {MaxInt64} /\ \A x \in A \cup {MaxInt64} : r["minT"] <= x
  <2>1. r["minT"] \in A \cup {MaxInt64}
    BY <1>1, <1>2, <1>3
  <2>2. r["minT"] <= st["minT"] /\ \A x \in own : r["minT"] <= x
    BY <1>2
  <2>3. ASSUME NEW x \in T \cup {MaxInt64} PROVE r["minT"] <= x
    <3>1. x \in Int /\ st["minT"] <= x
      BY <1>1, <1>4
    <3> QED BY <1>5, <2>2, <3>1
  <2> QED BY <1>3, <2>1, <2>2, <2>3
<1>7. r["maxT"] \in A \cup {0} /\ \A x \in A \cup {0} : x <= r["maxT"]
  <2>1. r["maxT"] \in A \cup {0}
    BY <1>1, <1>2, <1>3
  <2>2. st["maxT"] <= r["maxT"] /\ \A x \in own : x <= r["maxT"]
    BY <1>2
  <2>3. ASSUME NEW x \in T \cup {0} PROVE x <= r["maxT"]
    <3>1. x \in Int /\ x <= st["maxT"]
      BY <1>1, <1>4
    <3> QED BY <1>5, <2>2, <3>1
  <2> QED BY <1>3, <2>1, <2>2, <2>3
<1> QED BY <1>6, <1>7 DEF Spans, A

LEMMA MetaInit == Init => MetaInv
<1> SUFFICES ASSUME Init PROVE MetaInv
  OBVIOUS
<1>1. Converts /\ MetaTrue
  BY DEF Init, Converts, MetaTrue
<1>2. Indexed = {} /\ Len(chunkFile) = 0
  <2>1. DOMAIN index.series = {} /\ chunkFile = <<>>
    BY DEF Init
  <2> QED BY <2>1 DEF Indexed, InIndex, IndexHas
<1>3. PointsOf(Kept, {}) = {} /\ TimesOf(Kept, {}) = {}
  BY DEF PointsOf, TimesOf
<1>4. /\ stats["numSeries"] = 0 /\ stats["numChunks"] = 0 /\ stats["numSamples"] = 0
      /\ stats["minT"] = MaxInt64 /\ stats["maxT"] = 0
  BY DEF Init, NoStats
<1>5. IsFiniteSet({}) /\ Cardinality({}) = 0
  BY FS_EmptySet
<1>6. Counts(stats, Kept, {}, 0)
  BY <1>3, <1>4, <1>5 DEF Counts
<1>7. Spans(stats, Kept, {})
  <2>1. MaxInt64 <= MaxInt64 /\ 0 <= 0
    BY ChunksAssumption
  <2> QED BY <1>3, <1>4, <2>1 DEF Spans
<1> QED BY <1>1, <1>2, <1>6, <1>7 DEF MetaInv, StatsTrue

LEMMA ConvertsStep == TypeInv /\ MetaInv /\ [Next]_vars => Converts'
<1> SUFFICES ASSUME TypeInv, MetaInv, [Next]_vars, NEW d \in Calls,
                    cpc'[d] \in {"symbols", "chunks", "series", "added"}
             PROVE  ~Converted(d)'.failed
  BY DEF Converts
<1>1. Converted(d)' = Converted(d)
  BY GivenKept DEF Converted
<1>2. cpc[d] \in {"symbols", "chunks", "series", "added"} => ~Converted(d).failed
  BY DEF MetaInv, Converts
<1>3. CASE UNCHANGED cpc
  BY <1>1, <1>2, <1>3
<1>4. ASSUME NEW c \in Calls, CallStep(c) PROVE ~Converted(d).failed
  <2>1. PICK p \in Step : Moved(c, p) /\ Goto(c, p)
    BY <1>4, CallsMove
  <2>2. CASE d # c
    BY <1>2, <2>1, <2>2 DEF Moved
  <2>3. CASE d = c
    <3>1. cpc'[c] = p
      BY <2>1 DEF Moved
    <3>2. CASE Convert(c)
      <4>1. Goto(c, IF Converted(c).failed THEN "failed"
                    ELSE IF ChunksOf(c) = <<>> THEN "nothing" ELSE "symbols")
        BY <3>2 DEF Convert
      <4>2. Converted(c).failed => cpc'[c] = "failed"
        BY <4>1 DEF Goto, TypeInv, TypeParts, CallsOK
      <4> QED BY <2>3, <4>2
    <3>3. CASE ~Convert(c)
      <4>1. cpc[c] \in {"symbols", "chunks", "series"}
        BY <1>4, <3>3 DEF CallStep, AddSymbols, WriteChunks, AddSeries, RejectLabels
      <4> QED BY <1>2, <2>3, <4>1
    <3> QED BY <3>2, <3>3
  <2> QED BY <2>2, <2>3
<1>5. UNCHANGED cpc \/ \E c \in Calls : CallStep(c)
  BY DEF Next, vars, FinishStep, FinishBlock, NextSymbol, EndSymbols, NextSeries,
         SeriesFails, WriteMeta
<1> QED BY <1>1, <1>3, <1>4, <1>5

LEMMA StatsTrueStep == TypeInv /\ BlockInv /\ MetaInv /\ [Next]_vars => StatsTrue'
<1> SUFFICES ASSUME TypeInv, BlockInv, MetaInv, [Next]_vars PROVE StatsTrue'
  OBVIOUS
<1>1. Kept' = Kept
  BY GivenKept DEF Kept, InTime
<1>2. Counts(stats, Kept, Indexed, Len(chunkFile)) /\ Spans(stats, Kept, Indexed)
  BY DEF MetaInv, StatsTrue
<1>3. CASE ~NextSeries
  <2>1. chunkFile' = chunkFile /\ index'.series = index.series
    BY <1>3, SeriesKept
  <2>2. stats' = stats
    BY <1>3 DEF Next, vars, CallStep, FinishStep, Convert, AddSymbols, WriteChunks, AddSeries,
           RejectLabels, FinishBlock, NextSymbol, EndSymbols, SeriesFails, WriteMeta, outVars
  <2>3. Indexed' = Indexed
    BY <2>1 DEF Indexed, InIndex, IndexHas
  <2> QED BY <1>1, <1>2, <2>1, <2>2, <2>3 DEF StatsTrue
<1>4. CASE NextSeries
  <2>1. PICK c \in Calls :
            /\ cpc[c] = "added" /\ chunkFile' = chunkFile \o Own(c)
            /\ stats' = AddStats(stats, ChunksOf(c)) /\ FileHas(SerBatcher, c)
            /\ \A x : InIndex(x)' <=> InIndex(x) \/ x = c
    BY <1>4, NextSeriesPlaces
  <2>2. ~InIndex(c)
    BY <2>1 DEF BlockInv, OnePlace
  <2>3. Indexed' = Indexed \cup {c} /\ c \notin Indexed /\ Indexed \in SUBSET Calls
    BY <2>1, <2>2 DEF Indexed
  <2>4. CallsOK /\ stats \in StatSet /\ chunkFile \in Seq(Calls \X Nat)
    BY DEF TypeInv, TypeParts, StatsOK, ChunksOK
  <2> DEFINE cs == ChunksOf(c)
             r == AddStats(stats, cs)
  <2>5. ~Converted(c).failed
    BY <2>1 DEF MetaInv, Converts
  <2>6. GoodChunks(cs) /\ FlattenSeq(SamplesOf(cs)) = Kept[c]
    BY <2>4, <2>5, ChunksTell
  <2>7. cs \in Seq(ChunkSet) /\ DOMAIN cs = 1..Len(cs) /\ Len(cs) \in Nat
    BY <2>4, InputsTyped DEF CallsOK
  <2>8. Len(chunkFile') = Len(chunkFile) + Len(cs) /\ Len(chunkFile) \in Nat
    <3>1. Own(c) \in Seq(Calls \X Nat) /\ DOMAIN Own(c) = DOMAIN cs
      BY <2>4, OwnType
    <3> DEFINE own == Own(c)
               len == Len(cs)
    <3>2. own \in Seq(Calls \X Nat) /\ DOMAIN own = 1..len /\ len \in Nat
      BY <2>7, <3>1
    <3>3. chunkFile' = chunkFile \o own
      BY <2>1
    <3> HIDE DEF own, len
    <3>4. Len(own) = len
      BY <3>2
    <3>5. Len(chunkFile \o own) = Len(chunkFile) + Len(own) /\ Len(chunkFile) \in Nat
      BY <2>4, <3>2
    <3> QED BY <3>3, <3>4, <3>5 DEF len
  <2> HIDE DEF cs
  <2>9. r \in StatSet /\ Tells(stats, r, Len(cs), Kept[c])
    <3>1. Tells(stats, r, Len(cs), FlattenSeq(SamplesOf(cs)))
      BY <2>4, <2>6, AddStatsTells
    <3>2. r \in StatSet
      BY <2>4, <2>7, AddStatsType
    <3> QED BY <2>6, <3>1, <3>2
  <2>10. Kept \in [Calls -> Seq(Int)]
    BY <2>4, KeptType DEF CallsOK
  <2> HIDE DEF r
  <2>11. Counts(r, Kept, Indexed \cup {c}, Len(chunkFile) + Len(cs))
    BY <1>2, <2>3, <2>4, <2>7, <2>8, <2>9, <2>10, CountsGrow
  <2>12. Spans(r, Kept, Indexed \cup {c})
    BY <1>2, <2>3, <2>4, <2>9, <2>10, SpansGrow
  <2>13. stats' = r
    BY <2>1 DEF r, cs
  <2> QED BY <1>1, <2>3, <2>8, <2>11, <2>12, <2>13 DEF StatsTrue
<1> QED BY <1>3, <1>4

LEMMA MetaTrueStep == TypeInv /\ MetaInv /\ [Next]_vars => MetaTrue'
<1> SUFFICES ASSUME TypeInv, MetaInv, [Next]_vars PROVE MetaTrue'
  OBVIOUS
<1>1. CASE WriteMeta
  BY <1>1 DEF WriteMeta, MetaTrue
<1>2. CASE NextSeries
  BY <1>2 DEF NextSeries, MetaTrue
<1>3. CASE ~WriteMeta /\ ~NextSeries
  <2>1. stats' = stats /\ meta' = meta /\ (bpc' = "finished" => bpc = "finished")
    BY <1>3 DEF Next, vars, CallStep, FinishStep, Convert, AddSymbols, WriteChunks, AddSeries,
           RejectLabels, FinishBlock, NextSymbol, EndSymbols, SeriesFails, outVars
  <2> QED BY <2>1 DEF MetaInv, MetaTrue
<1> QED BY <1>1, <1>2, <1>3

LEMMA MetaExact == TypeInv /\ BlockInv /\ MetaInv => MetaIsExact
<1> SUFFICES ASSUME TypeInv, BlockInv, MetaInv, bpc = "finished" PROVE MetaIsExact
  BY DEF MetaIsExact
<1> DEFINE times == TimesOf(Kept, Added)
           m == meta[1]
<1>1. Added = Indexed
  <2>1. \A c \in Calls : c \in Added <=> InIndex(c)
    BY AllIndexed DEF BlockInv, Phases
  <2> QED BY <2>1 DEF Added, Indexed
<1>2. Counts(stats, Kept, Added, Len(chunkFile)) /\ Spans(stats, Kept, Added)
  BY <1>1 DEF MetaInv, StatsTrue
<1>3. m = MetaFile(stats)
  BY DEF MetaInv, MetaTrue
<1>4. /\ m.minTime = stats["minT"] /\ m.maxTime = stats["maxT"] + 1
      /\ m.numSeries = stats["numSeries"] /\ m.numChunks = stats["numChunks"]
      /\ m.numSamples = stats["numSamples"]
  BY <1>3 DEF MetaFile, TypeInv, TypeParts, StatsOK, StatSet
<1>5. times \subseteq Int /\ MaxInt64 \in Int
  <2>1. Kept \in [Calls -> Seq(Int)]
    BY KeptType DEF TypeInv, TypeParts, CallsOK
  <2>2. \A c \in Added : ToSet(Kept[c]) \subseteq Int
    BY <2>1 DEF Added, ToSet
  <2> QED BY <2>2, ChunksAssumption DEF TimesOf
<1> HIDE DEF times, m
<1>6. m.minTime = Min(times \cup {MaxInt64})
  <2>1. /\ stats["minT"] \in times \cup {MaxInt64}
        /\ \A x \in times \cup {MaxInt64} : stats["minT"] <= x
    BY <1>2 DEF Spans, times
  <2>2. times \cup {MaxInt64} \subseteq Int
    BY <1>5
  <2>3. Min(times \cup {MaxInt64}) = stats["minT"]
    BY <2>1, <2>2, MinUnique
  <2> QED BY <1>4, <2>3
<1>7. m.maxTime = Max(times \cup {0}) + 1
  <2>1. /\ stats["maxT"] \in times \cup {0}
        /\ \A x \in times \cup {0} : x <= stats["maxT"]
    BY <1>2 DEF Spans, times
  <2>2. times \cup {0} \subseteq Int
    BY <1>5
  <2>3. Max(times \cup {0}) = stats["maxT"]
    BY <2>1, <2>2, MaxUnique
  <2> QED BY <1>4, <2>3
<1>8. /\ m.numSeries = Cardinality(Added) /\ m.numChunks = Len(chunkFile)
      /\ m.numSamples = Cardinality(PointsOf(Kept, Added))
  BY <1>2, <1>4 DEF Counts
<1>9. /\ times = UNION {ToSet(InTime(c)) : c \in Added}
      /\ PointsOf(Kept, Added) = UNION {{c} \X DOMAIN InTime(c) : c \in Added}
  <2>1. \A c \in Added : Kept[c] = InTime(c)
    BY DEF Added, Kept
  <2> QED BY <2>1 DEF times, TimesOf, PointsOf
<1> QED BY <1>6, <1>7, <1>8, <1>9 DEF MetaIsExact, m

(* meta.json tells the block's times tightly, and counts its series, its    *)
(* chunks and its samples, which are those of the added series that are in  *)
(* the block's time, wherever the buffers were flushed: MetaIsExact.        *)
THEOREM MetaIsExactAlways == Spec => []MetaIsExact
<1>1. TypeInv /\ BlockInv /\ MetaInv /\ [Next]_vars => MetaInv'
  BY ConvertsStep, StatsTrueStep, MetaTrueStep DEF MetaInv
<1> QED BY <1>1, MetaInit, MetaExact, BlockAlways, PTL DEF Spec

------------------------------------------------------------------------------
(* The symbols of the index                                                 *)

(* All symbols held come from calls that added theirs, or are "". The files *)
(* are in order, the index is too and before all that is in the files.      *)
Gave == {c \in Calls : cpc[c] \in {"chunks", "series", "added", "failed"}}
SymbolsFrom == \A x : Held(x) => x = 0 \/ \E c \in Gave : \E k \in DOMAIN Symbols[c] : Symbols[c][k] = x
Before(syms, fs) ==
    \A j \in DOMAIN syms : \A i \in DOMAIN fs : \A k \in DOMAIN fs[i] : syms[j] <= fs[i][k]
SymbolsInOrder == /\ FilesRise(symFiles) /\ IsAscending(index.symbols)
                  /\ Before(index.symbols, symFiles)
                  /\ bpc = "adding" => index.symbols = <<>>
SymInv == Held(0) /\ SymbolsFrom /\ SymbolsInOrder

LEMMA SymInit == Init => SymInv
<1> SUFFICES ASSUME Init PROVE SymInv
  OBVIOUS
<1>1. symBuffer = {0} /\ symFiles = <<>> /\ index.symbols = <<>> /\ ToSet(<<>>) = {}
  BY DEF Init, ToSet
<1>2. \A x : Held(x) <=> x = 0
  BY <1>1 DEF Held, HoldsSym, SymBatcher
<1>3. SymbolsInOrder
  BY <1>1 DEF SymbolsInOrder, FilesRise, IsAscending, Before
<1> QED BY <1>2, <1>3 DEF SymInv, SymbolsFrom

(* The head of a lowest file is least among all in the files. *)
LEMMA LowestLeast ==
    ASSUME NEW fs \in Seq(Seq(Nat)), FilesRise(fs), NEW i \in Lowest(fs),
           NEW k \in DOMAIN fs, NEW j \in DOMAIN fs[k]
    PROVE  Head(fs[i]) <= fs[k][j]
<1>1. fs[i] \in Seq(Nat) /\ fs[i] # <<>> /\ fs[k] \in Seq(Nat)
  BY DEF Lowest
<1>2. fs[k] # <<>> /\ j \in Nat /\ 1 <= j /\ fs[k][j] \in Nat
  BY <1>1
<1>3. Head(fs[i]) <= Head(fs[k])
  BY <1>2 DEF Lowest
<1>4. Head(fs[k]) = fs[k][1] /\ 1 \in DOMAIN fs[k] /\ Head(fs[k]) \in Nat /\ Head(fs[i]) \in Nat
  BY <1>1, <1>2, TailAt
<1>5. Head(fs[k]) <= fs[k][j]
  <2>1. CASE j = 1
    BY <1>2, <1>4, <2>1
  <2>2. CASE 1 < j
    BY <1>4, <2>2 DEF FilesRise
  <2> QED BY <1>2, <2>1, <2>2
<1> QED BY <1>2, <1>3, <1>4, <1>5

(* Without the head of one file, the files are still in order. *)
Within(gs, fs) ==
    \A k \in DOMAIN gs : \A j \in DOMAIN gs[k] : \E l \in DOMAIN fs[k] : fs[k][l] = gs[k][j]

LEMMA TailRises ==
    ASSUME NEW fs \in Seq(Seq(Nat)), FilesRise(fs), NEW i \in DOMAIN fs, fs[i] # <<>>,
           NEW gs, gs = [fs EXCEPT ![i] = Tail(@)]
    PROVE  FilesRise(gs) /\ DOMAIN gs = DOMAIN fs /\ Within(gs, fs)
<1>1. /\ gs \in Seq(Seq(Nat)) /\ DOMAIN gs = DOMAIN fs /\ fs[i] \in Seq(Nat)
      /\ gs[i] = Tail(fs[i]) /\ \A j \in DOMAIN fs : j # i => gs[j] = fs[j]
  BY TakeHead
<1>2. \A j \in DOMAIN Tail(fs[i]) : /\ j \in Nat /\ j + 1 \in DOMAIN fs[i]
                                    /\ Tail(fs[i])[j] = fs[i][j + 1]
  BY <1>1, TailAt
<1>3. ASSUME NEW k \in DOMAIN gs, NEW j \in DOMAIN gs[k], NEW l \in DOMAIN gs[k], j < l
      PROVE  gs[k][j] <= gs[k][l]
  <2>1. CASE k = i
    <3>1. /\ j + 1 \in DOMAIN fs[i] /\ l + 1 \in DOMAIN fs[i] /\ j + 1 < l + 1
          /\ gs[k][j] = fs[i][j + 1] /\ gs[k][l] = fs[i][l + 1]
      BY <1>1, <1>2, <1>3, <2>1
    <3> QED BY <3>1 DEF FilesRise
  <2>2. CASE k # i
    BY <1>1, <1>3, <2>2 DEF FilesRise
  <2> QED BY <2>1, <2>2
<1>4. FilesRise(gs)
  BY <1>3 DEF FilesRise
<1>5. ASSUME NEW k \in DOMAIN gs, NEW j \in DOMAIN gs[k]
      PROVE  \E l \in DOMAIN fs[k] : fs[k][l] = gs[k][j]
  BY <1>1, <1>2
<1> QED BY <1>1, <1>4, <1>5 DEF Within

(* All other steps leave the symbols held where they are. *)
LEMMA SymbolsKept ==
    TypeInv /\ [Next]_vars /\ ~FinishBlock /\ ~NextSymbol /\ (\A c \in Calls : ~AddSymbols(c))
        => symBuffer' = symBuffer /\ symFiles' = symFiles /\ index'.symbols = index.symbols
<1> SUFFICES ASSUME TypeInv, [Next]_vars, ~FinishBlock, ~NextSymbol, \A c \in Calls : ~AddSymbols(c)
             PROVE  symBuffer' = symBuffer /\ symFiles' = symFiles /\ index'.symbols = index.symbols
  OBVIOUS
<1>1. CASE NextSeries
  BY <1>1, NextSeriesPlaces DEF NextSeries, symVars
<1>2. CASE ~NextSeries
  BY <1>2 DEF Next, vars, CallStep, FinishStep, Convert, WriteChunks, AddSeries,
         RejectLabels, EndSymbols, SeriesFails, WriteMeta, symVars, outVars
<1> QED BY <1>1, <1>2

(* NextSymbol adds the symbol to the end of the index, or it is there.      *)
LEMMA NextSymbolOrder ==
    ASSUME TypeInv, SymbolsInOrder, NextSymbol
    PROVE  /\ SymbolsInOrder'
           /\ \A x : Held(x)' => Held(x)
<1>1. PICK i \in Lowest(symFiles) :
          /\ symFiles' = [symFiles EXCEPT ![i] = Tail(@)]
          /\ index' = IF index.symbols # <<>> /\ LastOf(index.symbols) = Head(symFiles[i])
                      THEN index
                      ELSE [index EXCEPT !.symbols = Append(@, Head(symFiles[i]))]
  BY DEF NextSymbol
<1> DEFINE sym == Head(symFiles[i])
           syms == index.symbols
           fs == symFiles
           gs == symFiles'
<1>2. /\ fs \in Seq(Seq(Nat)) /\ i \in DOMAIN fs /\ fs[i] # <<>>
      /\ syms \in Seq(Nat) /\ fs[i] \in Seq(Nat)
  BY DEF TypeInv, TypeParts, SymbolsOK, SymBatcher, SymBatch, Lowest, IndexOK
<1>3. /\ sym \in Nat /\ 1 \in DOMAIN fs[i] /\ fs[i][1] = sym
  BY <1>2, TailAt
<1>4. /\ FilesRise(fs) /\ IsAscending(syms) /\ Before(syms, fs)
  BY DEF SymbolsInOrder
<1>5. /\ gs = [fs EXCEPT ![i] = Tail(@)] /\ i \in Lowest(fs)
      /\ bpc = "symbols" /\ bpc' = "symbols" /\ symBuffer' = symBuffer
  BY <1>1 DEF NextSymbol
<1>6. index'.symbols = syms \/ (index'.symbols = Append(syms, sym) /\ (syms = <<>> \/ LastOf(syms) # sym))
  BY <1>1 DEF TypeInv, TypeParts, IndexOK
<1> DEFINE new == index'.symbols
<1> HIDE DEF fs, gs, sym, syms, new
<1>7. FilesRise(gs) /\ DOMAIN gs = DOMAIN fs /\ Within(gs, fs)
  BY <1>2, <1>4, <1>5, TailRises
<1>8. \A k \in DOMAIN fs : \A j \in DOMAIN fs[k] : sym <= fs[k][j]
  <2> SUFFICES ASSUME NEW k \in DOMAIN fs, NEW j \in DOMAIN fs[k] PROVE Head(fs[i]) <= fs[k][j]
    BY DEF sym, fs
  <2> QED BY <1>2, <1>4, <1>5, LowestLeast
<1>9. \A j \in DOMAIN syms : syms[j] <= sym
  BY <1>2, <1>3, <1>4 DEF Before
<1>10. /\ IsAscending(new) /\ new \in Seq(Nat) /\ \A j \in DOMAIN new : new[j] <= sym
       /\ ToSet(new) \subseteq ToSet(syms) \cup {sym}
  <2>1. CASE new = syms
    BY <1>2, <1>4, <1>9, <2>1
  <2>2. CASE new = Append(syms, sym) /\ (syms = <<>> \/ LastOf(syms) # sym)
    <3>1. \A y \in ToSet(syms) : y < sym
      <4> SUFFICES ASSUME NEW y \in ToSet(syms) PROVE y < sym
        OBVIOUS
      <4>1. PICK j \in DOMAIN syms : syms[j] = y
        BY DEF ToSet
      <4> DEFINE n == Len(syms)
      <4>2. n \in Nat /\ DOMAIN syms = 1..n /\ j \in Nat /\ n \in DOMAIN syms /\ j <= n /\ syms # <<>>
        BY <1>2, <4>1
      <4>3. syms[n] # sym
        BY <2>2, <4>2 DEF LastOf
      <4>4. syms[n] \in Nat /\ syms[j] \in Nat
        BY <1>2, <4>1, <4>2
      <4> HIDE DEF n
      <4>5. syms[n] < sym
        BY <1>3, <1>9, <4>2, <4>3, <4>4
      <4>6. j < n => syms[j] < syms[n]
        BY <1>4, <4>1, <4>2 DEF IsAscending
      <4>7. syms[j] < sym
        <5>1. CASE j = n
          BY <4>5, <5>1
        <5>2. CASE j < n
          BY <1>3, <4>4, <4>5, <4>6, <5>2
        <5> QED BY <4>2, <5>1, <5>2
      <4> QED BY <4>1, <4>7
    <3>2. syms \in Seq(Int) /\ sym \in Int
      BY <1>2, <1>3, SeqWider
    <3>3. IsAscending(new)
      BY <1>4, <2>2, <3>1, <3>2, AppendAscending
    <3>4. /\ new \in Seq(Nat) /\ new[Len(syms) + 1] = sym
          /\ \A j \in DOMAIN syms : new[j] = syms[j]
          /\ \A j \in DOMAIN new : j \in DOMAIN syms \/ j = Len(syms) + 1
      BY <1>2, <1>3, <2>2, AppendAt
    <3>5. ToSet(new) = ToSet(syms) \cup {sym}
      BY <1>2, <2>2, AppendHas
    <3>6. ASSUME NEW j \in DOMAIN new PROVE new[j] <= sym
      <4>1. CASE j \in DOMAIN syms
        BY <1>9, <3>4, <4>1
      <4>2. CASE j = Len(syms) + 1
        BY <1>3, <3>4, <4>2
      <4> QED BY <3>4, <4>1, <4>2
    <3> QED BY <3>3, <3>4, <3>5, <3>6
  <2> QED BY <1>6, <2>1, <2>2 DEF new
<1>11. Before(new, gs)
  <2> SUFFICES ASSUME NEW j \in DOMAIN new, NEW k \in DOMAIN gs, NEW l \in DOMAIN gs[k]
               PROVE  new[j] <= gs[k][l]
    BY DEF Before
  <2>1. PICK m \in DOMAIN fs[k] : fs[k][m] = gs[k][l]
    BY <1>7 DEF Within
  <2>2. fs[k] \in Seq(Nat) /\ fs[k][m] \in Nat
    BY <1>2, <1>7
  <2>3. new[j] <= sym /\ sym <= fs[k][m] /\ new[j] \in Nat
    BY <1>7, <1>8, <1>10
  <2> QED BY <1>3, <2>1, <2>2, <2>3
<1>12. SymbolsInOrder'
  BY <1>5, <1>7, <1>10, <1>11 DEF SymbolsInOrder, gs, new
<1>13. ASSUME NEW x, Held(x)' PROVE Held(x)
  <2>1. \/ x \in symBuffer \/ x \in ToSet(new)
        \/ \E k \in DOMAIN gs : \E j \in DOMAIN gs[k] : gs[k][j] = x
    BY <1>5, <1>13 DEF Held, HoldsSym, SymBatcher, gs, new
  <2>2. \/ x \in symBuffer \/ x \in ToSet(syms)
        \/ \E k \in DOMAIN fs : \E j \in DOMAIN fs[k] : fs[k][j] = x
    <3>1. CASE x \in symBuffer
      BY <3>1
    <3>2. CASE x \in ToSet(new)
      BY <1>2, <1>3, <1>10, <3>2
    <3>3. CASE \E k \in DOMAIN gs : \E j \in DOMAIN gs[k] : gs[k][j] = x
      BY <1>7, <3>3 DEF Within
    <3> QED BY <2>1, <3>1, <3>2, <3>3
  <2> QED BY <2>2 DEF Held, HoldsSym, SymBatcher, fs, syms
<1> QED BY <1>12, <1>13

LEMMA SymbolsInOrderStep == TypeInv /\ BlockInv /\ SymInv /\ [Next]_vars => SymbolsInOrder'
<1> SUFFICES ASSUME TypeInv, BlockInv, SymInv, [Next]_vars PROVE SymbolsInOrder'
  OBVIOUS
<1>0. /\ FilesRise(symFiles) /\ IsAscending(index.symbols) /\ Before(index.symbols, symFiles)
      /\ bpc = "adding" => index.symbols = <<>>
  BY DEF SymInv, SymbolsInOrder
<1>1. ASSUME NEW c \in Calls, AddSymbols(c) PROVE SymbolsInOrder'
  <2> DEFINE b == Adding(SymBatcher, Symbols[c])[Len(Symbols[c])]
  <2>1. SymBatcher \in SymBatch /\ SymBatcher.files = symFiles
    BY DEF TypeInv, TypeParts, SymbolsOK, SymBatcher
  <2>2. FilesRise(b.files)
    BY <1>0, <2>1, AddingKeeps, BlockBuilderAssumption
  <2>3. symFiles' = b.files
    BY <1>1 DEF AddSymbols
  <2>4. index'.symbols = <<>>
    BY <1>0, <1>1, CallsEnd DEF CallStep, BlockInv
  <2> HIDE DEF b
  <2> QED BY <2>2, <2>3, <2>4 DEF SymbolsInOrder, IsAscending, Before
<1>2. CASE FinishBlock
  <2>1. index'.symbols = <<>>
    BY <1>0, <1>2, FinishBlockIs DEF FinishBlock
  <2>2. FilesRise(symFiles')
    BY <1>0, <1>2, FinishBlockIs
  <2> QED BY <2>1, <2>2 DEF SymbolsInOrder, IsAscending, Before
<1>3. CASE NextSymbol
  BY <1>3, NextSymbolOrder DEF SymInv
<1>4. CASE ~FinishBlock /\ ~NextSymbol /\ \A c \in Calls : ~AddSymbols(c)
  <2>1. symBuffer' = symBuffer /\ symFiles' = symFiles /\ index'.symbols = index.symbols
    BY <1>4, SymbolsKept
  <2>2. bpc' = "adding" => bpc = "adding"
    BY <1>4 DEF Next, vars, CallStep, FinishStep, Convert, WriteChunks, AddSeries,
           RejectLabels, EndSymbols, NextSeries, SeriesFails, WriteMeta
  <2> QED BY <1>0, <2>1, <2>2 DEF SymbolsInOrder
<1> QED BY <1>1, <1>2, <1>3, <1>4

LEMMA SymbolsFromStep == TypeInv /\ BlockInv /\ SymInv /\ [Next]_vars => SymbolsFrom'
<1> SUFFICES ASSUME TypeInv, BlockInv, SymInv, [Next]_vars, NEW x, Held(x)', x # 0
             PROVE  \E c \in Gave' : \E k \in DOMAIN Symbols[c] : Symbols[c][k] = x
  BY DEF SymbolsFrom
<1>0. Held(x) => \E c \in Gave : \E k \in DOMAIN Symbols[c] : Symbols[c][k] = x
  BY DEF SymInv, SymbolsFrom
<1>1. Gave \subseteq Gave'
  <2>1. CASE UNCHANGED cpc
    BY <2>1 DEF Gave
  <2>2. ASSUME NEW c \in Calls, CallStep(c) PROVE Gave \subseteq Gave'
    <3>1. PICK p \in Step : Goto(c, p) /\ Moved(c, p)
      BY <2>2, CallsMove
    <3>2. c \in Gave => p \in {"series", "added", "failed"}
      <4>1. \/ cpc[c] \in {"new", "symbols"} \/ Goto(c, "series") \/ Goto(c, "added") \/ Goto(c, "failed")
        BY <2>2 DEF CallStep, Convert, AddSymbols, WriteChunks, AddSeries, RejectLabels
      <4>2. cpc'[c] = p /\ (cpc[c] \in {"new", "symbols"} \/ cpc'[c] \in {"series", "added", "failed"})
        BY <3>1, <4>1 DEF Moved, Goto, TypeInv, TypeParts, CallsOK
      <4> QED BY <4>2 DEF Gave
    <3> QED BY <3>1, <3>2 DEF Moved, Gave
  <2>3. UNCHANGED cpc \/ \E c \in Calls : CallStep(c)
    BY DEF Next, vars, FinishStep, FinishBlock, NextSymbol, EndSymbols, NextSeries,
           SeriesFails, WriteMeta
  <2> QED BY <2>1, <2>2, <2>3
<1>2. ASSUME NEW c \in Calls, AddSymbols(c)
      PROVE  Held(x) \/ \E d \in Gave' : \E k \in DOMAIN Symbols[d] : Symbols[d][k] = x
  <2> DEFINE b == Adding(SymBatcher, Symbols[c])[Len(Symbols[c])]
  <2>1. /\ b \in SymBatch
        /\ HoldsSym(b, x) => HoldsSym(SymBatcher, x) \/ \E k \in DOMAIN Symbols[c] : Symbols[c][k] = x
    BY AddingKeeps, BlockBuilderAssumption DEF TypeInv, TypeParts, SymbolsOK
  <2>2. symBuffer' = b.buffer /\ symFiles' = b.files /\ index' = index
    BY <1>2 DEF AddSymbols, outVars
  <2> HIDE DEF b
  <2>3. SymBatcher' = b
    BY <2>1, <2>2 DEF SymBatcher, SymBatch
  <2>4. HoldsSym(b, x) \/ x \in ToSet(index.symbols)
    BY <2>2, <2>3 DEF Held, HoldsSym
  <2>5. c \in Gave'
    BY <1>2 DEF AddSymbols, Goto, Gave, TypeInv, TypeParts, CallsOK
  <2> QED BY <2>1, <2>4, <2>5 DEF Held
<1>3. CASE FinishBlock
  <2>1. Held(x)
    BY <1>3, FinishBlockIs DEF Held
  <2> QED BY <1>0, <1>1, <2>1
<1>4. CASE NextSymbol
  BY <1>0, <1>1, <1>4, NextSymbolOrder DEF SymInv
<1>5. CASE ~FinishBlock /\ ~NextSymbol /\ \A c \in Calls : ~AddSymbols(c)
  <2>1. symBuffer' = symBuffer /\ symFiles' = symFiles /\ index'.symbols = index.symbols
    BY <1>5, SymbolsKept
  <2>2. Held(x)
    BY <2>1 DEF Held, HoldsSym, SymBatcher
  <2> QED BY <1>0, <1>1, <2>2
<1> QED BY <1>0, <1>1, <1>2, <1>3, <1>4, <1>5

LEMMA SymInvStep == TypeInv /\ BlockInv /\ SymInv /\ [Next]_vars => SymInv'
<1> SUFFICES ASSUME TypeInv, BlockInv, SymInv, [Next]_vars PROVE SymInv'
  OBVIOUS
<1>1. Held(0)'
  BY HeldStep DEF SymInv
<1> QED BY <1>1, SymbolsInOrderStep, SymbolsFromStep DEF SymInv

------------------------------------------------------------------------------
(* CreateBlock                                                              *)

BlockSet == [failed : BOOLEAN, series : Seq(Entry), chunkFile : Seq(ChunkSet), stats : StatSet]
SeriesIn == [call : Calls, samples : Seq(Int)]

(* One series more of CreateBlock, when it does not fail.                   *)
Placing(b, c, chunks) ==
    [b EXCEPT !.series = Append(@, [call |-> c, chunks |->
                             [k \in DOMAIN chunks |-> Len(b.chunkFile) + k]]),
              !.chunkFile = @ \o chunks,
              !.stats = AddStats(@, chunks)]

LEMMA PlacingType ==
    ASSUME NEW b \in BlockSet, NEW c \in Calls, NEW chunks \in Seq(ChunkSet)
    PROVE  Placing(b, c, chunks) \in BlockSet
<1> DEFINE n == Len(chunks)
           m == Len(b.chunkFile)
           at == [k \in DOMAIN chunks |-> Len(b.chunkFile) + k]
           e == [call |-> c, chunks |-> at]
<1>1. b.series \in Seq(Entry) /\ b.chunkFile \in Seq(ChunkSet) /\ b.stats \in StatSet
  BY DEF BlockSet
<1>2. n \in Nat /\ m \in Nat /\ DOMAIN chunks = 1..n
  BY <1>1
<1>3. at = [k \in 1..n |-> m + k]
  BY <1>2
<1> HIDE DEF n, m, at
<1>4. at \in Seq(Nat)
  BY <1>2, <1>3, Shifted
<1>5. e \in Entry
  BY <1>4 DEF Entry
<1> HIDE DEF e
<1>6. Append(b.series, e) \in Seq(Entry) /\ b.chunkFile \o chunks \in Seq(ChunkSet)
  BY <1>1, <1>5
<1>7. AddStats(b.stats, chunks) \in StatSet
  BY <1>1, AddStatsType
<1>8. Placing(b, c, chunks) = [b EXCEPT !.series = Append(b.series, e),
                                        !.chunkFile = b.chunkFile \o chunks,
                                        !.stats = AddStats(b.stats, chunks)]
  BY DEF Placing, e, at
<1> QED BY <1>6, <1>7, <1>8 DEF BlockSet

LEMMA AddSortedIs ==
    ASSUME NEW b, NEW s, NEW made, made = SamplesToChunks(s.samples, 0, 0)
    PROVE  AddSorted(b, s) =
               IF b.failed \/ made.failed
                  \/ (b.series # <<>> /\ Rank[LastOf(b.series).call] >= Rank[s.call])
               THEN [b EXCEPT !.failed = TRUE] ELSE Placing(b, s.call, made.chunks)
BY DEF AddSorted, Placing

LEMMA AddSortedType ==
    ASSUME NEW b \in BlockSet, NEW s \in SeriesIn
    PROVE  AddSorted(b, s) \in BlockSet
<1> DEFINE made == SamplesToChunks(s.samples, 0, 0)
<1>1. s.samples \in Seq(Int) /\ s.call \in Calls
  BY DEF SeriesIn
<1>2. made.chunks \in Seq(ChunkSet)
  BY <1>1, ChunksType
<1> HIDE DEF made
<1>3. Placing(b, s.call, made.chunks) \in BlockSet
  BY <1>1, <1>2, PlacingType
<1>4. [b EXCEPT !.failed = TRUE] \in BlockSet
  BY DEF BlockSet
<1>5. AddSorted(b, s) \in {[b EXCEPT !.failed = TRUE], Placing(b, s.call, made.chunks)}
  <2>1. made = SamplesToChunks(s.samples, 0, 0)
    BY DEF made
  <2> QED BY <2>1, AddSortedIs
<1> QED BY <1>3, <1>4, <1>5

LEMMA CreatingIs ==
    ASSUME NEW series \in Seq(SeriesIn)
    PROVE  /\ Creating(series) \in [0..Len(series) -> BlockSet]
           /\ Creating(series)[0] = NothingCreated
           /\ \A k \in 1..Len(series) :
                 Creating(series)[k] = AddSorted(Creating(series)[k - 1], series[k])
<1> DEFINE F == [b \in BlockSet |-> [s \in SeriesIn |-> AddSorted(b, s)]]
           n == Len(series)
           Body(g) == [k \in 0..n |-> IF k = 0 THEN NothingCreated
                                      ELSE AddSorted(g[k - 1], series[k])]
<1>1. F \in [BlockSet -> [SeriesIn -> BlockSet]]
  BY AddSortedType
<1>2. NothingCreated \in BlockSet
  <2> DEFINE K == {"numSeries", "numChunks", "numSamples", "minT", "maxT"}
  <2>1. NoStats = [k \in K |-> IF k = "minT" THEN MaxInt64 ELSE 0]
    BY DEF NoStats
  <2>2. NoStats \in StatSet
    BY <2>1, ChunksAssumption DEF StatSet
  <2>3. <<>> \in Seq(Entry) /\ <<>> \in Seq(ChunkSet)
    OBVIOUS
  <2> QED BY <2>2, <2>3 DEF NothingCreated, BlockSet
<1>3. n \in Nat /\ \A k \in 1..n : series[k] \in SeriesIn
  OBVIOUS
<1> HIDE DEF F
<1>4. PICK g : FoldIs(g, BlockSet, F, NothingCreated, series)
  BY <1>1, <1>2, FoldExists
<1>5. \A k \in 1..n : g[k] = AddSorted(g[k - 1], series[k])
  <2> SUFFICES ASSUME NEW k \in 1..n PROVE g[k] = AddSorted(g[k - 1], series[k])
    OBVIOUS
  <2>1. g[k - 1] \in BlockSet /\ series[k] \in SeriesIn
    BY <1>3, <1>4 DEF FoldIs
  <2>2. F[g[k - 1]][series[k]] = AddSorted(g[k - 1], series[k])
    BY <2>1 DEF F
  <2> QED BY <1>4, <2>2 DEF FoldIs
<1>6. g = Body(g)
  BY <1>3, <1>4, <1>5 DEF FoldIs
<1> DEFINE t == CHOOSE h : h = Body(h)
<1>7. t = Body(t)
  BY <1>6
<1>8. Creating(series) = t
  BY DEF Creating
<1> HIDE DEF t
<1>9. t[0] = NothingCreated
  BY <1>3, <1>7
<1>10. \A k \in 1..n : t[k] = AddSorted(t[k - 1], series[k])
  BY <1>3, <1>7
<1> DEFINE G == {k \in 0..n : t[k] \in BlockSet}
<1>11. 0 \in G
  BY <1>2, <1>3, <1>9
<1>12. \A k \in 1..n : k - 1 \in G => k \in G
  BY <1>3, <1>10, AddSortedType
<1> HIDE DEF G
<1>13. 0..n \subseteq G
  BY <1>3, <1>11, <1>12, IntervalInduct
<1>14. t \in [0..n -> BlockSet]
  <2>1. t = [k \in 0..n |-> t[k]]
    BY <1>7
  <2>2. \A k \in 0..n : t[k] \in BlockSet
    BY <1>13 DEF G
  <2> QED BY <2>1, <2>2
<1> QED BY <1>8, <1>9, <1>10, <1>14

LEMMA CreatingAppend ==
    ASSUME NEW k \in Seq(SeriesIn), NEW x \in SeriesIn
    PROVE  Creating(Append(k, x))[Len(Append(k, x))] = AddSorted(Creating(k)[Len(k)], x)
<1> DEFINE l == Append(k, x)
           n == Len(k)
           t == Creating(k)
           u == Creating(l)
<1>1. l \in Seq(SeriesIn) /\ n \in Nat /\ Len(l) = n + 1 /\ l[n + 1] = x /\ \A i \in 1..n : l[i] = k[i]
  OBVIOUS
<1> HIDE DEF l
<1>2. t[0] = NothingCreated /\ \A i \in 1..n : t[i] = AddSorted(t[i - 1], k[i])
  BY CreatingIs
<1>3. u[0] = NothingCreated /\ \A i \in 1..Len(l) : u[i] = AddSorted(u[i - 1], l[i])
  BY <1>1, CreatingIs
<1> HIDE DEF t, u
<1> DEFINE G == {i \in 0..n : t[i] = u[i]}
<1>4. 0 \in G
  BY <1>1, <1>2, <1>3
<1>5. \A i \in 1..n : i - 1 \in G => i \in G
  <2> SUFFICES ASSUME NEW i \in 1..n, t[i - 1] = u[i - 1] PROVE t[i] = u[i]
    BY <1>1
  <2>1. i \in 1..Len(l) /\ l[i] = k[i]
    BY <1>1
  <2> QED BY <1>2, <1>3, <2>1
<1> HIDE DEF G
<1>6. 0..n \subseteq G
  BY <1>1, <1>4, <1>5, IntervalInduct
<1>7. t[n] = u[n]
  BY <1>1, <1>6 DEF G
<1>8. u[n + 1] = AddSorted(u[n], x)
  <2>1. n + 1 \in 1..Len(l) /\ (n + 1) - 1 = n
    BY <1>1
  <2> QED BY <1>1, <1>3, <2>1
<1> QED BY <1>1, <1>7, <1>8 DEF l, t, u

(* The series of s, with the samples that f has for their calls.            *)
SeriesOf(s, f) == [i \in DOMAIN s |-> [call |-> s[i].call, samples |-> f[s[i].call]]]

(* The chunks that a file of chunks refers to.                              *)
AllChunks == [c \in Calls |-> ChunksOf(c)]
Deref(g, file) == [i \in DOMAIN file |-> g[file[i][1]][file[i][2]]]

(* What CreateBlock has made of the series that are in the index.           *)
BlockSoFar == [failed |-> FALSE, series |-> index.series,
               chunkFile |-> Deref(AllChunks, chunkFile), stats |-> stats]
CreatedSoFar == Creating(SeriesOf(index.series, Kept))[Len(index.series)] = BlockSoFar

LEMMA SeriesOfType ==
    ASSUME NEW s \in Seq(Entry), NEW f \in [Calls -> Seq(Int)]
    PROVE  SeriesOf(s, f) \in Seq(SeriesIn) /\ Len(SeriesOf(s, f)) = Len(s)
<1> DEFINE n == Len(s)
<1>1. n \in Nat /\ DOMAIN s = 1..n /\ \A i \in 1..n : s[i] \in Entry
  OBVIOUS
<1>2. \A i \in 1..n : s[i].call \in Calls
  BY <1>1 DEF Entry
<1>3. \A i \in 1..n : [call |-> s[i].call, samples |-> f[s[i].call]] \in SeriesIn
  BY <1>2 DEF SeriesIn
<1> DEFINE t == [i \in 1..n |-> [call |-> s[i].call, samples |-> f[s[i].call]]]
<1>4. SeriesOf(s, f) = t
  BY <1>1 DEF SeriesOf
<1> HIDE DEF n
<1>5. t \in Seq(SeriesIn) /\ Len(t) = n
  BY <1>1, <1>3
<1> QED BY <1>4, <1>5 DEF n

LEMMA SeriesOfAppend ==
    ASSUME NEW s \in Seq(Entry), NEW f \in [Calls -> Seq(Int)], NEW e \in Entry
    PROVE  SeriesOf(Append(s, e), f) =
               Append(SeriesOf(s, f), [call |-> e.call, samples |-> f[e.call]])
<1> DEFINE n == Len(s)
           l == Append(s, e)
           x == [call |-> e.call, samples |-> f[e.call]]
           k == SeriesOf(s, f)
           m == Append(k, x)
<1>1. x \in SeriesIn
  BY DEF Entry, SeriesIn
<1>2. k \in Seq(SeriesIn) /\ Len(k) = n
  BY SeriesOfType
<1>3. /\ n \in Nat /\ DOMAIN s = 1..n /\ DOMAIN l = 1..(n + 1) /\ l[n + 1] = e
      /\ \A i \in 1..n : l[i] = s[i]
  BY AppendAt
<1> HIDE DEF l
<1>4. \A i \in 1..n : k[i] = [call |-> s[i].call, samples |-> f[s[i].call]]
  BY <1>3 DEF SeriesOf
<1> HIDE DEF n, k
<1>5. /\ DOMAIN m = 1..(n + 1) /\ m[n + 1] = x /\ \A i \in 1..n : m[i] = k[i]
      /\ m \in Seq(SeriesIn)
  BY <1>1, <1>2, AppendAt
<1> HIDE DEF m
<1>6. SeriesOf(l, f) = [i \in 1..(n + 1) |-> [call |-> l[i].call, samples |-> f[l[i].call]]]
  BY <1>3 DEF SeriesOf
<1>7. \A i \in 1..(n + 1) : m[i] = [call |-> l[i].call, samples |-> f[l[i].call]]
  <2> SUFFICES ASSUME NEW i \in 1..(n + 1)
               PROVE  m[i] = [call |-> l[i].call, samples |-> f[l[i].call]]
    OBVIOUS
  <2>1. CASE i = n + 1
    BY <1>3, <1>5, <2>1
  <2>2. CASE i \in 1..n
    BY <1>3, <1>4, <1>5, <2>2
  <2> QED BY <1>3, <2>1, <2>2
<1>8. m = [i \in 1..(n + 1) |-> m[i]]
  BY <1>5
<1> QED BY <1>6, <1>7, <1>8 DEF l, m, k

LEMMA ConcatIs ==
    ASSUME NEW T, NEW s \in Seq(T), NEW t \in Seq(T), NEW n, n = Len(s), NEW m, m = Len(t)
    PROVE  /\ s \o t \in Seq(T) /\ Len(s \o t) = n + m /\ DOMAIN (s \o t) = 1..(n + m)
           /\ \A i \in 1..n : (s \o t)[i] = s[i]
           /\ \A k \in 1..m : (s \o t)[n + k] = t[k]
<1>1. /\ s \o t \in Seq(T) /\ Len(s \o t) = n + m /\ n \in Nat /\ m \in Nat
      /\ DOMAIN s = 1..n /\ DOMAIN t = 1..m
  OBVIOUS
<1>2. DOMAIN (s \o t) = 1..(n + m)
  BY <1>1
<1>3. \A i \in 1..n : (s \o t)[i] = s[i]
  OBVIOUS
<1>4. \A k \in 1..m : (s \o t)[n + k] = t[k]
  OBVIOUS
<1> QED BY <1>1, <1>2, <1>3, <1>4

LEMMA DerefConcat ==
    ASSUME NEW g, NEW file \in Seq(Calls \X Nat), NEW own \in Seq(Calls \X Nat),
           Deref(g, file) \in Seq(ChunkSet), NEW cs \in Seq(ChunkSet),
           DOMAIN own = DOMAIN cs, \A k \in DOMAIN own : g[own[k][1]][own[k][2]] = cs[k]
    PROVE  Deref(g, file \o own) = Deref(g, file) \o cs /\ Len(Deref(g, file)) = Len(file)
<1> DEFINE n == Len(file)
           m == Len(cs)
           d == Deref(g, file)
           all == file \o own
           r == d \o cs
           t == Deref(g, all)
<1>1. n \in Nat /\ m \in Nat /\ DOMAIN file = 1..n /\ DOMAIN own = 1..m /\ DOMAIN cs = 1..m
  OBVIOUS
<1>2. DOMAIN d = 1..n /\ \A i \in 1..n : d[i] = g[file[i][1]][file[i][2]]
  BY <1>1 DEF Deref
<1>3. d \in Seq(ChunkSet)
  OBVIOUS
<1> HIDE DEF d, n, m
<1>4. Len(d) = n /\ Len(file) = n /\ Len(own) = m /\ Len(cs) = m
  BY <1>1, <1>2, <1>3 DEF n
<1>5. /\ DOMAIN all = 1..(n + m) /\ \A i \in 1..n : all[i] = file[i]
      /\ \A k \in 1..m : all[n + k] = own[k]
  BY <1>4, ConcatIs
<1>6. /\ r \in Seq(ChunkSet) /\ Len(r) = n + m /\ \A i \in 1..n : r[i] = d[i]
      /\ \A k \in 1..m : r[n + k] = cs[k]
  <2>1. d \in Seq(ChunkSet) /\ cs \in Seq(ChunkSet) /\ n = Len(d) /\ m = Len(cs)
    BY <1>3, <1>4
  <2>2. r \in Seq(ChunkSet) /\ Len(r) = n + m
    BY <2>1, ConcatIs
  <2>3. \A i \in 1..n : r[i] = d[i]
    BY <2>1, ConcatIs
  <2>4. \A k \in 1..m : r[n + k] = cs[k]
    BY <2>1, ConcatIs
  <2> QED BY <2>2, <2>3, <2>4
<1> HIDE DEF all, r
<1>10. r = [i \in 1..(n + m) |-> r[i]]
  BY <1>6
<1>7. t = [i \in 1..(n + m) |-> g[all[i][1]][all[i][2]]]
  BY <1>5 DEF Deref
<1> HIDE DEF t
<1>8. ASSUME NEW i \in 1..(n + m) PROVE g[all[i][1]][all[i][2]] = r[i]
  <2>1. CASE i \in 1..n
    <3>1. all[i] = file[i] /\ r[i] = d[i] /\ d[i] = g[file[i][1]][file[i][2]]
      BY <1>2, <1>5, <1>6, <2>1
    <3> QED BY <3>1
  <2>2. CASE i \notin 1..n
    <3> DEFINE k == i - n
    <3>1. k \in 1..m /\ n + k = i
      BY <1>1, <2>2
    <3> HIDE DEF k
    <3>2. all[i] = own[k] /\ r[i] = cs[k]
      BY <1>5, <1>6, <3>1
    <3>3. g[own[k][1]][own[k][2]] = cs[k]
      BY <1>1, <3>1
    <3> QED BY <3>2, <3>3
  <2> QED BY <2>1, <2>2
<1>9. t = r
  BY <1>7, <1>8, <1>10
<1> QED BY <1>4, <1>9 DEF t, r, d, all

LEMMA CreatedInit == Init => CreatedSoFar
<1> SUFFICES ASSUME Init PROVE CreatedSoFar
  OBVIOUS
<1>1. index.series = <<>> /\ chunkFile = <<>> /\ stats = NoStats /\ Len(index.series) = 0
  BY DEF Init
<1>2. SeriesOf(index.series, Kept) = <<>> /\ Deref(AllChunks, chunkFile) = <<>>
  BY <1>1 DEF SeriesOf, Deref
<1>3. Creating(<<>>)[0] = NothingCreated
  <2>1. <<>> \in Seq(SeriesIn)
    OBVIOUS
  <2> QED BY <2>1, CreatingIs
<1> QED BY <1>1, <1>2, <1>3 DEF CreatedSoFar, BlockSoFar, NothingCreated

(* One more series: CreateBlock does the same with it.                      *)
LEMMA CreatedStep == TypeInv /\ MetaInv /\ CreatedSoFar /\ [Next]_vars => CreatedSoFar'
<1> SUFFICES ASSUME TypeInv, MetaInv, CreatedSoFar, [Next]_vars PROVE CreatedSoFar'
  OBVIOUS
<1>1. Kept' = Kept /\ AllChunks' = AllChunks
  BY GivenKept DEF Kept, InTime, AllChunks, ChunksOf, Converted
<1>2. CASE ~NextSeries
  <2>1. chunkFile' = chunkFile /\ index'.series = index.series
    BY <1>2, SeriesKept
  <2>2. stats' = stats
    BY <1>2 DEF Next, vars, CallStep, FinishStep, Convert, AddSymbols, WriteChunks, AddSeries,
           RejectLabels, FinishBlock, NextSymbol, EndSymbols, SeriesFails, WriteMeta, outVars
  <2> QED BY <1>1, <2>1, <2>2 DEF CreatedSoFar, BlockSoFar
<1>3. CASE NextSeries
  <2>1. PICK c \in Calls, e \in Entry :
            /\ cpc[c] = "added" /\ ~Duplicate(c) /\ chunkFile' = chunkFile \o Own(c)
            /\ stats' = AddStats(stats, ChunksOf(c))
            /\ e.call = c /\ index'.series = Append(index.series, e)
            /\ DOMAIN e.chunks = DOMAIN ChunksOf(c)
            /\ \A k \in DOMAIN e.chunks : e.chunks[k] = Len(chunkFile) + k
    BY <1>3, NextSeriesPlaces
  <2> DEFINE s == index.series
             f == Kept
             k == SeriesOf(s, f)
             x == [call |-> c, samples |-> f[c]]
             cs == ChunksOf(c)
             d == Deref(AllChunks, chunkFile)
             made == SamplesToChunks(f[c], 0, 0)
  <2>2. /\ CallsOK /\ s \in Seq(Entry) /\ chunkFile \in Seq(Calls \X Nat)
    BY DEF TypeInv, TypeParts, IndexOK, ChunksOK
  <2>3. f \in [Calls -> Seq(Int)]
    BY <2>2, KeptType DEF CallsOK
  <2>4. ~Converted(c).failed /\ made = Converted(c) /\ cs = Converted(c).chunks
    <3>1. ~Converted(c).failed
      BY <2>1 DEF MetaInv, Converts
    <3> QED BY <2>2, <3>1, ChunksTell DEF ChunksOf
  <2>5. cs \in Seq(ChunkSet)
    BY <2>2, InputsTyped DEF CallsOK
  <2>6. BlockSoFar = Creating(k)[Len(k)] /\ k \in Seq(SeriesIn) /\ Len(k) = Len(s)
    <3>1. k \in Seq(SeriesIn) /\ Len(k) = Len(s)
      BY <2>2, <2>3, SeriesOfType
    <3> QED BY <3>1 DEF CreatedSoFar
  <2>7. BlockSoFar \in BlockSet
    <3>1. Len(k) \in 0..Len(k)
      BY <2>6
    <3> HIDE DEF k
    <3> QED BY <2>6, <3>1, CreatingIs
  <2>8. d \in Seq(ChunkSet)
    BY <2>7 DEF BlockSet, BlockSoFar
  <2>9. Deref(AllChunks, chunkFile') = d \o cs /\ Len(d) = Len(chunkFile)
    <3> DEFINE own == Own(c)
    <3>1. own \in Seq(Calls \X Nat) /\ DOMAIN own = DOMAIN cs /\ \A j \in DOMAIN own : own[j] = <<c, j>>
      BY <2>2, OwnType
    <3>2. AllChunks[c] = cs
      BY DEF AllChunks
    <3> HIDE DEF own, cs
    <3>3. \A j \in DOMAIN own : AllChunks[own[j][1]][own[j][2]] = cs[j]
      BY <3>1, <3>2
    <3>4. Deref(AllChunks, chunkFile \o own) = Deref(AllChunks, chunkFile) \o cs
          /\ Len(Deref(AllChunks, chunkFile)) = Len(chunkFile)
      BY <2>2, <2>5, <2>8, <3>1, <3>3, DerefConcat
    <3> QED BY <2>1, <3>4 DEF own
  <2>10. Creating(Append(k, x))[Len(Append(k, x))] = AddSorted(BlockSoFar, x)
    <3>1. x \in SeriesIn
      BY <2>3 DEF SeriesIn
    <3> HIDE DEF k, x
    <3> QED BY <2>6, <3>1, CreatingAppend
  <2>11. AddSorted(BlockSoFar, x) = Placing(BlockSoFar, c, cs)
    <3>1. x.call = c /\ x.samples = f[c]
      OBVIOUS
    <3> HIDE DEF x, cs, s
    <3>2. /\ BlockSoFar.failed = FALSE /\ BlockSoFar.series = s
      BY DEF BlockSoFar, s
    <3>3. ~(s # <<>> /\ Rank[LastOf(s).call] >= Rank[c])
      BY <2>1 DEF Duplicate, s
    <3>4. made = SamplesToChunks(x.samples, 0, 0) /\ ~made.failed /\ made.chunks = cs
      BY <2>4, <3>1
    <3> HIDE DEF made
    <3> QED BY <3>1, <3>2, <3>3, <3>4, AddSortedIs
  <2>12. SeriesOf(index'.series, f) = Append(k, x)
    BY <2>1, <2>2, <2>3, SeriesOfAppend
  <2>13. e = [call |-> c, chunks |-> [j \in DOMAIN cs |-> Len(d) + j]]
    <3>1. e.chunks = [j \in DOMAIN cs |-> Len(d) + j]
      <4>1. e.chunks \in Seq(Nat)
        BY DEF Entry
      <4>2. e.chunks = [j \in DOMAIN e.chunks |-> e.chunks[j]]
        BY <4>1
      <4> HIDE DEF d, cs
      <4> QED BY <2>1, <2>9, <4>2 DEF cs
    <3>2. e = [call |-> e.call, chunks |-> e.chunks]
      BY DEF Entry
    <3> QED BY <2>1, <3>1, <3>2
  <2>14. Placing(BlockSoFar, c, cs) = BlockSoFar'
    <3> DEFINE at == [call |-> c, chunks |-> [j \in DOMAIN cs |-> Len(d) + j]]
    <3>1. Placing(BlockSoFar, c, cs) =
              [failed |-> FALSE, series |-> Append(s, at), chunkFile |-> d \o cs,
               stats |-> AddStats(stats, cs)]
      <4>1. BlockSoFar = [failed |-> FALSE, series |-> s, chunkFile |-> d, stats |-> stats]
        BY DEF BlockSoFar
      <4> DEFINE x1 == Append(s, at)
                 y1 == d \o cs
                 z1 == AddStats(stats, cs)
      <4>2. Placing(BlockSoFar, c, cs) =
                [BlockSoFar EXCEPT !.series = x1, !.chunkFile = y1, !.stats = z1]
        BY DEF Placing, BlockSoFar
      <4> DEFINE R == [failed : {FALSE}, series : {x1}, chunkFile : {y1}, stats : {z1}]
                 r == [BlockSoFar EXCEPT !.series = x1, !.chunkFile = y1, !.stats = z1]
      <4> HIDE DEF at, cs, d, s, x1, y1, z1
      <4>3. r \in R
        BY <4>1
      <4> HIDE DEF r
      <4>4. r = [failed |-> r.failed, series |-> r.series, chunkFile |-> r.chunkFile,
                 stats |-> r.stats]
        BY <4>3
      <4>5. r.failed = FALSE /\ r.series = x1 /\ r.chunkFile = y1 /\ r.stats = z1
        BY <4>3
      <4>6. r = [failed |-> FALSE, series |-> x1, chunkFile |-> y1, stats |-> z1]
        BY <4>4, <4>5
      <4> QED BY <4>2, <4>6 DEF r, x1, y1, z1
    <3>2. BlockSoFar' = [failed |-> FALSE, series |-> index'.series,
                         chunkFile |-> Deref(AllChunks, chunkFile'), stats |-> stats']
      <4>1. Deref(AllChunks, chunkFile)' = Deref(AllChunks, chunkFile')
        BY <1>1 DEF Deref
      <4> QED BY <4>1 DEF BlockSoFar
    <3> HIDE DEF at, d, cs, s
    <3>3. Append(s, at) = index'.series
      BY <2>1, <2>13 DEF at, s
    <3> QED BY <2>1, <2>9, <3>1, <3>2, <3>3 DEF cs
  <2>15. Len(Append(k, x)) = Len(index'.series)
    <3>1. index'.series \in Seq(Entry)
      BY <2>1, <2>2, AppendAt
    <3>2. Len(SeriesOf(index'.series, f)) = Len(index'.series)
      BY <2>3, <3>1, SeriesOfType
    <3> QED BY <2>12, <3>2
  <2>16. CreatedSoFar' <=> Creating(SeriesOf(index'.series, f))[Len(index'.series)] = BlockSoFar'
    <3>1. SeriesOf(index.series, Kept)' = SeriesOf(index'.series, Kept)
      BY <1>1 DEF SeriesOf
    <3> QED BY <3>1 DEF CreatedSoFar, Creating
  <2> HIDE DEF k, x, d, cs, made, s, f
  <2> QED BY <2>10, <2>11, <2>12, <2>14, <2>15, <2>16
<1> QED BY <1>2, <1>3

(* The symbols of the index, when all are there: those of the added series. *)
LEMMA AllSymbols ==
    ASSUME TypeInv, BlockInv, SymInv, bpc = "finished"
    PROVE  /\ ToSet(index.symbols) = {0} \cup UNION {ToSet(Symbols[c]) : c \in Added}
           /\ IsFiniteSet(ToSet(index.symbols))
           /\ Rises(index.symbols, ToSet(index.symbols), [n \in ToSet(index.symbols) |-> n])
           /\ ToSet(index.symbols) \subseteq Nat
<1> DEFINE syms == index.symbols
           S == ToSet(syms)
<1>1. syms \in Seq(Nat) /\ IsAscending(syms)
  BY DEF TypeInv, TypeParts, IndexOK, SymInv, SymbolsInOrder
<1>2. \A x : Held(x) <=> x \in S
  <2>1. symBuffer = {} /\ \A k \in DOMAIN symFiles : DOMAIN symFiles[k] = {}
    BY DEF BlockInv, Phases, AllRead
  <2> QED BY <2>1 DEF Held, HoldsSym, SymBatcher
<1>3. \A c \in Calls : cpc[c] \in Ended
  BY DEF BlockInv, Phases
<1>4. Gave = Added
  BY <1>3 DEF Gave, Added, Ended
<1>5. Symbols \in [Calls -> Seq(Nat)]
  BY BlockBuilderAssumption
<1>6. \A x : x \in S => x = 0 \/ \E c \in Added : \E k \in DOMAIN Symbols[c] : Symbols[c][k] = x
  BY <1>2, <1>4 DEF SymInv, SymbolsFrom
<1>7. 0 \in S
  BY <1>2 DEF SymInv
<1>8. \A c \in Added : \A k \in DOMAIN Symbols[c] : Symbols[c][k] \in S
  BY <1>2 DEF BlockInv, SymbolsHeld, Added
<1>9. IsFiniteSet(S) /\ S \in SUBSET Nat /\ \A x : x \in S <=> \E i \in DOMAIN syms : syms[i] = x
  BY <1>1, ToSetFinite
<1> HIDE DEF S, syms
<1>10. S = {0} \cup UNION {ToSet(Symbols[c]) : c \in Added}
  <2> DEFINE of(c) == {Symbols[c][k] : k \in DOMAIN Symbols[c]}
             R == UNION {of(c) : c \in Added}
  <2>1. \A x : x \in R <=> \E c \in Added : x \in of(c)
    OBVIOUS
  <2>2. \A c : \A x : x \in of(c) <=> \E k \in DOMAIN Symbols[c] : Symbols[c][k] = x
    OBVIOUS
  <2>3. UNION {ToSet(Symbols[c]) : c \in Added} = R
    BY DEF ToSet
  <2> HIDE DEF of, R
  <2>4. ASSUME NEW x PROVE x \in S <=> x = 0 \/ x \in R
    <3>1. x \in S => x = 0 \/ x \in R
      BY <1>6, <2>1, <2>2
    <3>2. x = 0 \/ x \in R => x \in S
      BY <1>7, <1>8, <2>1, <2>2
    <3> QED BY <3>1, <3>2
  <2>5. S = {0} \cup R
    BY <2>4
  <2> QED BY <2>3, <2>5
<1>11. Rises(syms, S, [n \in S |-> n])
  <2>1. syms \in Seq(S)
    <3>1. Len(syms) \in Nat /\ DOMAIN syms = 1..Len(syms) /\ syms = [i \in 1..Len(syms) |-> syms[i]]
      BY <1>1
    <3>2. \A i \in 1..Len(syms) : syms[i] \in S
      BY <1>9, <3>1
    <3> DEFINE n == Len(syms)
    <3>3. n \in Nat /\ syms \in [1..n -> S]
      BY <3>1, <3>2
    <3> HIDE DEF n
    <3> QED BY <3>3
  <2>2. {syms[i] : i \in DOMAIN syms} = S
    BY <1>9
  <2>3. \A i, j \in DOMAIN syms : i < j => [n \in S |-> n][syms[i]] < [n \in S |-> n][syms[j]]
    BY <1>1, <1>9 DEF IsAscending
  <2> QED BY <2>1, <2>2, <2>3 DEF Rises
<1> QED BY <1>9, <1>10, <1>11 DEF S, syms

(* The series of the index are the added ones, in the order of their labels. *)
LEMMA AllSeries ==
    ASSUME TypeInv, BlockInv, MetaInv, bpc = "finished"
    PROVE  /\ SortedSeries = SeriesOf(index.series, Kept)
           /\ {index.series[i].call : i \in DOMAIN index.series} = Added
<1> DEFINE s == [i \in DOMAIN index.series |-> index.series[i].call]
<1>1. /\ index.series \in Seq(Entry) /\ \A c \in Calls : c \in Added <=> InIndex(c)
  BY AllIndexed DEF TypeInv, TypeParts, IndexOK, BlockInv, Phases
<1>2. \A i \in DOMAIN index.series : index.series[i].call \in Calls
  <2>1. \A i \in DOMAIN index.series : index.series[i] \in Entry
    BY <1>1
  <2> QED BY <2>1 DEF Entry
<1>3. {index.series[i].call : i \in DOMAIN index.series} = Added
  BY <1>1, <1>2 DEF InIndex, IndexHas, Added
<1>4. s \in Seq(Added) /\ DOMAIN s = DOMAIN index.series
  <2> DEFINE n == Len(index.series)
  <2>1. n \in Nat /\ DOMAIN index.series = 1..n
    BY <1>1
  <2> HIDE DEF n
  <2>2. s \in [1..n -> Added]
    BY <1>3, <2>1
  <2> HIDE DEF s
  <2> QED BY <2>1, <2>2
<1>5. {s[i] : i \in DOMAIN s} = Added
  BY <1>3
<1>6. \A i, j \in DOMAIN s : i < j => Rank[s[i]] < Rank[s[j]]
  BY DEF BlockInv, IndexSorted
<1>7. IsFiniteSet(Added)
  <2>1. Added = Indexed
    BY <1>1 DEF Added, Indexed
  <2> QED BY <2>1 DEF MetaInv, StatsTrue, Counts
<1>8. \A c \in Added : Rank[c] \in Nat
  BY BlockBuilderAssumption DEF Added
<1>9. \A i \in DOMAIN s : s[i] = index.series[i].call /\ s[i] \in Calls
  BY <1>2
<1> HIDE DEF s
<1>10. Sorted(Added, Rank) = s
  <2>1. Rises(s, Added, Rank)
    BY <1>4, <1>5, <1>6 DEF Rises
  <2> QED BY <1>7, <1>8, <2>1, SortedIsRising
<1>11. SortedSeries = [i \in DOMAIN s |-> [call |-> s[i], samples |-> InTime(s[i])]]
  BY <1>10 DEF SortedSeries
<1>12. \A i \in DOMAIN s : [call |-> s[i], samples |-> InTime(s[i])] =
            [call |-> index.series[i].call, samples |-> Kept[index.series[i].call]]
  BY <1>9 DEF Kept
<1>13. SeriesOf(index.series, Kept) =
          [i \in DOMAIN s |-> [call |-> index.series[i].call, samples |-> Kept[index.series[i].call]]]
  BY <1>4 DEF SeriesOf
<1> QED BY <1>3, <1>11, <1>12, <1>13

LEMMA SameBlock == TypeInv /\ BlockInv /\ MetaInv /\ SymInv /\ CreatedSoFar => SameAsCreateBlock
<1> SUFFICES ASSUME TypeInv, BlockInv, MetaInv, SymInv, CreatedSoFar, bpc = "finished"
             PROVE  SameAsCreateBlock
  BY DEF SameAsCreateBlock
<1> DEFINE series == SortedSeries
           S == {0} \cup UNION {ToSet(Symbols[x.call]) : x \in ToSet(series)}
           made == Creating(series)[Len(series)]
<1>1. /\ series = SeriesOf(index.series, Kept)
      /\ {index.series[i].call : i \in DOMAIN index.series} = Added
  BY AllSeries
<1>2. /\ Len(series) = Len(index.series) /\ DOMAIN series = DOMAIN index.series
      /\ \A i \in DOMAIN series : series[i].call = index.series[i].call
  <2>1. index.series \in Seq(Entry) /\ Kept \in [Calls -> Seq(Int)]
    BY KeptType DEF TypeInv, TypeParts, IndexOK, CallsOK
  <2>2. Len(SeriesOf(index.series, Kept)) = Len(index.series)
    BY <2>1, SeriesOfType
  <2> QED BY <1>1, <2>2 DEF SeriesOf
<1>3. made = BlockSoFar
  BY <1>1, <1>2 DEF CreatedSoFar
<1>4. S = ToSet(index.symbols)
  <2>1. ToSet(index.symbols) = {0} \cup UNION {ToSet(Symbols[c]) : c \in Added}
    BY AllSymbols
  <2>2. {x.call : x \in ToSet(series)} = Added
    BY <1>1, <1>2 DEF ToSet
  <2> HIDE DEF series
  <2> QED BY <2>1, <2>2
<1>5. Sorted(S, [n \in S |-> n]) = index.symbols
  <2> DEFINE T == ToSet(index.symbols)
             key == [n \in T |-> n]
             syms == index.symbols
  <2>1. IsFiniteSet(T) /\ T \subseteq Nat /\ Rises(syms, T, key)
    BY AllSymbols
  <2>2. \A x \in T : key[x] \in Nat
    BY <2>1
  <2> HIDE DEF T, key, syms
  <2>3. Sorted(T, key) = syms
    BY <2>1, <2>2, SortedIsRising
  <2> HIDE DEF S
  <2>4. Sorted(S, [n \in S |-> n]) = Sorted(T, key)
    BY <1>4 DEF T, key
  <2> QED BY <2>3, <2>4 DEF syms
<1>6. CreateBlock(series) =
          [failed |-> made.failed, symbols |-> Sorted(S, [n \in S |-> n]),
           series |-> made.series, chunkFile |-> made.chunkFile, stats |-> made.stats]
  BY DEF CreateBlock
<1>7. /\ BlockSoFar.failed = FALSE /\ BlockSoFar.series = index.series
      /\ BlockSoFar.chunkFile = Deref(AllChunks, chunkFile) /\ BlockSoFar.stats = stats
  BY DEF BlockSoFar
<1> HIDE DEF made, S
<1>8. CreateBlock(series) =
          [failed |-> FALSE, symbols |-> index.symbols, series |-> index.series,
           chunkFile |-> Deref(AllChunks, chunkFile), stats |-> stats]
  BY <1>3, <1>5, <1>6, <1>7
<1>9. Deref(AllChunks, chunkFile) =
          [i \in DOMAIN chunkFile |-> ChunksOf(chunkFile[i][1])[chunkFile[i][2]]]
  <2>1. \A i \in DOMAIN chunkFile : chunkFile[i][1] \in Calls
    <3>1. chunkFile \in Seq(Calls \X Nat)
      BY DEF TypeInv, TypeParts, ChunksOK
    <3>2. \A i \in DOMAIN chunkFile : chunkFile[i] \in Calls \X Nat
      BY <3>1
    <3> QED BY <3>2
  <2>2. \A c \in Calls : AllChunks[c] = ChunksOf(c)
    BY DEF AllChunks
  <2> QED BY <2>1, <2>2 DEF Deref
<1> QED BY <1>8, <1>9 DEF SameAsCreateBlock

(* Whatever the calls did at the same time and wherever the buffers were     *)
(* flushed, the block is the one CreateBlock makes of the added series, with *)
(* the same symbols, series, chunks and stats: SameAsCreateBlock.            *)
THEOREM SameAsCreateBlockAlways == Spec => []SameAsCreateBlock
<1>1. TypeInv /\ BlockInv /\ MetaInv /\ [Next]_vars => MetaInv'
  BY ConvertsStep, StatsTrueStep, MetaTrueStep DEF MetaInv
<1> QED BY <1>1, MetaInit, SymInit, SymInvStep, CreatedInit, CreatedStep, SameBlock, BlockAlways,
           PTL DEF Spec

------------------------------------------------------------------------------
(* The builder implements BlockSpec                                         *)

Failed  == \E c \in Calls : cpc[c] = "failed"
Outcome == CASE bpc = "finished" -> "block"
             [] bpc = "error"    -> "error"
             [] OTHER            -> "none"
Order   == IF bpc = "finished" THEN [i \in DOMAIN index.series |-> index.series[i].call]
           ELSE <<>>

LEMMA SpecInit == Init => Promise!Init
<1> SUFFICES ASSUME Init PROVE Promise!Init
  OBVIOUS
<1>1. Added = {} /\ ~Failed /\ Outcome = "none" /\ Order = <<>>
  BY DEF Init, Added, Failed, Outcome, Order
<1> QED BY <1>1 DEF Promise!Init, Failed, Outcome, Order

(* A call's step adds its series, or fails, or cannot be seen.              *)
LEMMA SpecCall ==
    ASSUME TypeInv, BlockInv, NEW c \in Calls, CallStep(c)
    PROVE  Promise!Next \/ UNCHANGED Promise!specVars
<1>1. bpc = "adding" /\ bpc' = "adding"
  BY CallsEnd DEF BlockInv
<1>2. Outcome = "none" /\ Outcome' = "none" /\ Order = <<>> /\ Order' = <<>>
  BY <1>1 DEF Outcome, Order
<1>3. PICK p \in Step : /\ Goto(c, p) /\ Moved(c, p) /\ cpc[c] # "added"
                        /\ p = "added" <=> AddSeries(c)
  BY CallsMove
<1>4. cpc[c] # "failed"
  BY DEF CallStep, Convert, AddSymbols, WriteChunks, AddSeries, RejectLabels
<1>5. CASE p = "added"
  <2>1. Added' = Added \cup {c} /\ c \notin Added
    BY <1>3, <1>5 DEF Moved, Added
  <2>2. Failed' <=> Failed
    BY <1>3, <1>4, <1>5 DEF Moved, Failed
  <2>3. Promise!Accept(c)
    BY <1>2, <2>1, <2>2 DEF Promise!Accept, Failed, Outcome, Order
  <2> QED BY <2>3 DEF Promise!Next
<1>6. CASE p = "failed"
  <2>1. Added' = Added
    BY <1>3, <1>6 DEF Moved, Added
  <2>2. Failed'
    BY <1>3, <1>6 DEF Moved, Failed
  <2>3. Promise!Fail
    BY <1>2, <2>1, <2>2 DEF Promise!Fail, Failed, Outcome, Order
  <2> QED BY <2>3 DEF Promise!Next
<1>7. CASE p \notin {"added", "failed"}
  <2>1. Added' = Added
    BY <1>3, <1>7 DEF Moved, Added
  <2>2. Failed' <=> Failed
    BY <1>3, <1>4, <1>7 DEF Moved, Failed
  <2> QED BY <1>2, <2>1, <2>2 DEF Promise!specVars, Failed, Outcome, Order
<1> QED BY <1>5, <1>6, <1>7

(* The block has the added series, each once and in label order.            *)
LEMMA SpecFinish ==
    ASSUME TypeInv, BlockInv, WriteMeta
    PROVE  Promise!Finish
<1>1. bpc = "series" /\ bpc' = "finished" /\ AllRead(serFiles) /\ cpc' = cpc /\ index' = index
  BY DEF WriteMeta, AllRead
<1>2. Outcome = "none" /\ Outcome' = "block" /\ Added' = Added /\ (Failed' <=> Failed)
  BY <1>1 DEF Outcome, Added, Failed
<1>3. ~Failed
  BY <1>1 DEF Failed, BlockInv, Phases, Ended
<1>4. Order' = [i \in DOMAIN index.series |-> index.series[i].call]
  BY <1>1 DEF Order
<1>5. \A c \in Calls : c \in Added <=> InIndex(c)
  BY <1>1, AllIndexed DEF BlockInv
<1>6. \A i \in DOMAIN index.series : index.series[i].call \in Calls
  <2>1. index.series \in Seq(Entry)
    BY DEF TypeInv, TypeParts, IndexOK
  <2>2. \A i \in DOMAIN index.series : index.series[i] \in Entry
    BY <2>1
  <2> QED BY <2>2 DEF Entry
<1> DEFINE s == [i \in DOMAIN index.series |-> index.series[i].call]
<1>7. {s[i] : i \in DOMAIN s} = Added
  BY <1>5, <1>6 DEF InIndex, IndexHas, Added
<1>8. \A i, j \in DOMAIN s : i < j => Rank[s[i]] < Rank[s[j]]
  BY DEF BlockInv, IndexSorted
<1> HIDE DEF s
<1>9. Promise!IsBlockOf(s, Added)
  BY <1>7, <1>8 DEF Promise!IsBlockOf
<1>10. Order' = s
  BY <1>4 DEF s
<1> QED BY <1>2, <1>3, <1>9, <1>10 DEF Promise!Finish, Failed, Outcome, Order

(* A series fails for another one with its labels, never for its symbols.   *)
LEMMA SpecReject ==
    ASSUME TypeInv, BlockInv, SeriesFails
    PROVE  Promise!Reject
<1>1. bpc = "series" /\ bpc' = "error" /\ cpc' = cpc
  BY DEF SeriesFails
<1>2. /\ Outcome = "none" /\ Outcome' = "error" /\ Order = <<>> /\ Order' = <<>>
      /\ Added' = Added /\ (Failed' <=> Failed)
  BY <1>1 DEF Outcome, Order, Added, Failed
<1>3. ~Failed
  BY <1>1 DEF Failed, BlockInv, Phases, Ended
<1>4. PICK i \in Lowest(Labels(serFiles)) :
          Duplicate(Head(serFiles[i])) \/ ~Known(Head(serFiles[i]))
  BY DEF SeriesFails
<1> DEFINE c == Head(serFiles[i])
<1>5. /\ i \in DOMAIN serFiles /\ serFiles[i] # <<>> /\ serFiles \in Seq(Seq(Calls))
      /\ c \in Calls /\ cpc[c] = "added"
  BY HeadAdded
<1>6. FileHas(SerBatcher, c)
  <2>1. serFiles[i] \in Seq(Calls)
    BY <1>5
  <2>2. 1 \in DOMAIN serFiles[i] /\ serFiles[i][1] = c
    BY <1>5, <2>1, TailAt
  <2> HIDE DEF c
  <2> QED BY <1>5, <2>2 DEF FileHas, SerBatcher
<1> HIDE DEF c
<1>7. Known(c)
  <2>1. \A k \in DOMAIN Symbols[c] : Held(Symbols[c][k])
    BY <1>5 DEF BlockInv, SymbolsHeld
  <2>2. \A x : ~HoldsSym(SymBatcher, x)
    <3>1. symBuffer = {} /\ \A k \in DOMAIN symFiles : DOMAIN symFiles[k] = {}
      BY <1>1 DEF BlockInv, Phases, AllRead
    <3> QED BY <3>1 DEF HoldsSym, SymBatcher
  <2>3. \A k \in DOMAIN Symbols[c] : Symbols[c][k] \in ToSet(index.symbols)
    BY <2>1, <2>2 DEF Held
  <2> QED BY <2>3 DEF Known, ToSet
<1>8. index.series # <<>> /\ Rank[LastOf(index.series).call] >= Rank[c]
  BY <1>4, <1>7 DEF c, Duplicate
<1> DEFINE l == LastOf(index.series).call
<1>9. l \in Calls /\ InIndex(l)
  <2>1. index.series \in Seq(Entry)
    BY DEF TypeInv, TypeParts, IndexOK
  <2>2. Len(index.series) \in DOMAIN index.series
    BY <1>8, <2>1
  <2>3. LastOf(index.series) \in Entry /\ LastOf(index.series) = index.series[Len(index.series)]
    BY <2>1, <2>2 DEF LastOf
  <2>4. LastOf(index.series).call \in Calls
    BY <2>3 DEF Entry
  <2> QED BY <2>2, <2>3, <2>4 DEF InIndex, IndexHas
<1>10. Rank[l] >= Rank[c]
  BY <1>8
<1> HIDE DEF l
<1>11. Rank[l] <= Rank[c]
  BY <1>5, <1>6, <1>9 DEF BlockInv, IndexSorted
<1>12. Rank[l] = Rank[c]
  BY <1>5, <1>9, <1>10, <1>11, BlockBuilderAssumption
<1>13. l # c
  BY <1>5, <1>6, <1>9 DEF BlockInv, OnePlace
<1>14. l \in Added /\ c \in Added
  BY <1>5, <1>9 DEF Added, TypeInv, PlacedAdded, Placed
<1>15. \E x, y \in Added : x # y /\ Rank[x] = Rank[y]
  BY <1>12, <1>13, <1>14
<1> QED BY <1>2, <1>3, <1>15 DEF Promise!Reject, Failed, Outcome, Order

LEMMA SpecStep ==
    TypeInv /\ BlockInv /\ [Next]_vars => [Promise!Next]_(Promise!specVars)
<1> SUFFICES ASSUME TypeInv, BlockInv, [Next]_vars
             PROVE  Promise!Next \/ UNCHANGED Promise!specVars
  OBVIOUS
<1>1. CASE FinishBlock \/ NextSymbol \/ EndSymbols \/ NextSeries
  <2>1. cpc' = cpc /\ bpc \notin {"finished", "error"} /\ bpc' \notin {"finished", "error"}
    BY <1>1 DEF FinishBlock, NextSymbol, EndSymbols, NextSeries
  <2>2. Added' = Added /\ (Failed' <=> Failed) /\ Outcome' = Outcome /\ Order' = Order
    BY <2>1 DEF Added, Failed, Outcome, Order
  <2> QED BY <2>2 DEF Promise!specVars, Failed, Outcome, Order
<1>2. CASE UNCHANGED vars
  <2>1. Added' = Added /\ (Failed' <=> Failed) /\ Outcome' = Outcome /\ Order' = Order
    BY <1>2 DEF vars, outVars, Added, Failed, Outcome, Order
  <2> QED BY <2>1 DEF Promise!specVars, Failed, Outcome, Order
<1>3. CASE WriteMeta
  BY <1>3, SpecFinish DEF Promise!Next
<1>4. CASE SeriesFails
  BY <1>4, SpecReject DEF Promise!Next
<1>5. ASSUME NEW c \in Calls, CallStep(c) PROVE Promise!Next \/ UNCHANGED Promise!specVars
  BY <1>5, SpecCall
<1> QED BY <1>1, <1>2, <1>3, <1>4, <1>5 DEF Next, FinishStep

(* The builder implements BlockSpec.tla: IsBlockSpec.                       *)
THEOREM ImplementsBlockSpec == Spec => IsBlockSpec
<1> QED BY BlockAlways, SpecInit, SpecStep, PTL DEF Spec, IsBlockSpec, Promise!Spec
==============================================================================
