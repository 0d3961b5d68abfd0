---------------------------- MODULE USTable_proofs ----------------------------
(****************************************************************************)
(* Proofs about USTable.tla, for files, keys and values of any lengths: the *)
(* records that are acknowledged survive, a closed file reads back, and the *)
(* file implements AppendLog.                                               *)
(*                                                                          *)
(* The invariant says what lies in the file: records one after the other    *)
(* (Layout), and behind them cells that can make no record (Leftover): the  *)
(* last cell of a value is never among them, as a torn record lacks it and  *)
(* a whole one is no leftover, and a zero length only right behind the      *)
(* records.  In a progress file, whose reader looks at no values, no length *)
(* at all is further behind.                                                *)
(****************************************************************************)
EXTENDS USTable, FiniteSetTheorems, WellFoundedInduction, TLAPS

------------------------------------------------------------------------------
(* Induction *)

LEMMA NatInduct ==
    ASSUME NEW G, 0 \in G, \A n \in Nat : n \in G => n + 1 \in G
    PROVE  Nat \subseteq G
<1> DEFINE Bad == {n \in Nat : n \notin G}
<1>1. SUFFICES ASSUME Bad # {} PROVE FALSE
  OBVIOUS
<1>2. PICK m \in Bad : \A k \in Bad : ~(<<k, m>> \in OpToRel(<, Nat))
  <2>1. Bad \subseteq Nat
    OBVIOUS
  <2> HIDE DEF Bad
  <2> QED BY <1>1, <2>1, WFMin, NatLessThanWellFounded
<1>3. \A k \in Nat : k < m => k \in G
  BY <1>2 DEF OpToRel
<1>4. m \in Nat /\ m \notin G
  BY <1>2
<1>5. m # 0 /\ m - 1 \in Nat /\ m - 1 < m /\ (m - 1) + 1 = m
  BY <1>4
<1> QED BY <1>3, <1>4, <1>5

------------------------------------------------------------------------------
(* What lies in a file: its records, and what is behind them                *)

(* The record of k, cell by cell.                                           *)
Size(o, k) == KeyCells[k] + ValCells[o][k] + 2
Cell(o, k, j) ==
    IF j = 1 THEN LenCell(KeyCells[k])
    ELSE IF j <= KeyCells[k] + 1 THEN KeyCell(k, j - 1)
    ELSE IF j = KeyCells[k] + 2 THEN LenCell(ValCells[o][k])
    ELSE ValCell(k, j - (KeyCells[k] + 2))

(* The first m cells of the record of k are at p.                           *)
Written(o, f, p, k, m) ==
    p + m <= Len(f) /\ \A j \in 1..m : f[p + j] = Cell(o, k, j)

(* The file begins with the records of ks, one after the other; at[i] is    *)
(* where the i-th is, and the last of at is the end of them.                *)
End(ks, at) == at[Len(ks) + 1]
Layout(o, f, ks, at) ==
    /\ ks \in Seq(Keys) /\ at \in [1..(Len(ks) + 1) -> Nat] /\ at[1] = 0
    /\ \A i \in 1..Len(ks) :
         /\ at[i + 1] = at[i] + Size(o, ks[i]) /\ at[i + 1] <= End(ks, at)
         /\ Written(o, f, at[i], ks[i], Size(o, ks[i]))
    /\ End(ks, at) <= Len(f)

(* What is behind the records makes none: no value ends there, and the only *)
(* zero, in a progress file the only length, is the cell after the records. *)
Leftover(o, f, e) ==
    \A i \in 1..Len(f) : i > e =>
        /\ \A k \in Keys : f[i] # ValCell(k, ValCells[o][k])
        /\ i > e + 1 => f[i] # LenCell(0) /\ (o = "index" => ~IsLength(f[i]))

(* What the theorems suppose: only whole values unmarshal, or the files are *)
(* files of progress, which have none.                                      *)
WholeValues == TornValueReads => Openers \subseteq {"index"}

Contents(o, f, ks, at) ==
    /\ o \in Openers /\ f \in Seq(Cells)
    /\ Layout(o, f, ks, at) /\ Leftover(o, f, End(ks, at))

LEMMA CellsDiffer ==
    /\ \A n, m : LenCell(n) = LenCell(m) => n = m
    /\ \A n : LenCell(n).kind = "len" /\ LenCell(n).n = n
    /\ \A k, i : KeyCell(k, i).kind = "key" /\ ValCell(k, i).kind = "val"
    /\ \A k, i, l, j : ValCell(k, i) = ValCell(l, j) => k = l /\ i = j
    /\ TextCell.kind = "text"
<1>1. \A n : LenCell(n).kind = "len" /\ LenCell(n).n = n
  BY DEF LenCell
<1>2. \A k, i : ValCell(k, i).of = k /\ ValCell(k, i).at = i
  BY DEF ValCell
<1> QED BY <1>1, <1>2 DEF KeyCell, ValCell, TextCell

LEMMA CellTypes ==
    /\ \A n \in Nat : LenCell(n) \in Cells
    /\ \A k \in Keys, i \in Nat : KeyCell(k, i) \in Cells /\ ValCell(k, i) \in Cells
    /\ TextCell \in Cells
    /\ \A c \in Cells : IsLength(c) => c.n \in Nat /\ c = LenCell(c.n)
<1>1. \A n \in Nat : LenCell(n) \in Cells
  BY DEF LenCell, Cells
<1>2. \A k \in Keys, i \in Nat : KeyCell(k, i) \in Cells /\ ValCell(k, i) \in Cells
  BY DEF KeyCell, ValCell, Cells
<1>3. TextCell \in Cells
  BY DEF Cells
<1>4. ASSUME NEW c \in Cells, IsLength(c) PROVE c.n \in Nat /\ c = LenCell(c.n)
  <2>1. c.kind = "len"
    BY <1>4 DEF IsLength
  <2>2. c \in [kind : {"len"}, n : Nat]
    BY <2>1 DEF Cells, TextCell
  <2> QED BY <2>2 DEF LenCell
<1> QED BY <1>1, <1>2, <1>3, <1>4

LEMMA Lengths ==
    ASSUME NEW o \in Openers, NEW k \in Keys
    PROVE  /\ KeyCells[k] \in Nat \ {0} /\ ValCells[o][k] \in Nat
           /\ o = "index" => ValCells[o][k] = 0
           /\ Size(o, k) \in Nat /\ Size(o, k) >= 3
<1>1. KeyCells[k] \in Nat \ {0} /\ ValCells[o][k] \in Nat
  BY USTableAssumption
<1>2. o = "index" => ValCells[o][k] = 0
  BY USTableAssumption
<1> QED BY <1>1, <1>2 DEF Size

LEMMA CellIs ==
    ASSUME NEW o \in Openers, NEW k \in Keys
    PROVE  /\ Cell(o, k, 1) = LenCell(KeyCells[k])
           /\ \A i \in 1..KeyCells[k] : Cell(o, k, 1 + i) = KeyCell(k, i)
           /\ Cell(o, k, KeyCells[k] + 2) = LenCell(ValCells[o][k])
           /\ \A i \in 1..ValCells[o][k] : Cell(o, k, KeyCells[k] + 2 + i) = ValCell(k, i)
           /\ \A j \in 1..Size(o, k) : Cell(o, k, j) \in Cells
<1>0. KeyCells[k] \in Nat \ {0} /\ ValCells[o][k] \in Nat
  BY Lengths
<1> DEFINE K == KeyCells[k]
           V == ValCells[o][k]
<1>1. Cell(o, k, 1) = LenCell(K)
  BY DEF Cell
<1>2. ASSUME NEW i \in 1..K PROVE Cell(o, k, 1 + i) = KeyCell(k, i)
  <2>1. 1 + i # 1 /\ 1 + i <= K + 1 /\ 1 + i # K + 2 /\ (1 + i) - 1 = i
    BY <1>0
  <2> HIDE DEF K
  <2> QED BY <2>1 DEF Cell, K
<1>3. Cell(o, k, K + 2) = LenCell(V)
  <2>1. K + 2 # 1 /\ ~(K + 2 <= K + 1)
    BY <1>0
  <2> QED BY <2>1 DEF Cell
<1>4. ASSUME NEW i \in 1..V PROVE Cell(o, k, K + 2 + i) = ValCell(k, i)
  <2> DEFINE j == K + 2 + i
  <2>1. j # 1 /\ ~(j <= K + 1) /\ j # K + 2 /\ j - (K + 2) = i
    BY <1>0
  <2> HIDE DEF j
  <2>2. Cell(o, k, j) = ValCell(k, i)
    BY <2>1 DEF Cell
  <2> QED BY <2>2 DEF j
<1>5. ASSUME NEW j \in 1..Size(o, k) PROVE Cell(o, k, j) \in Cells
  <2>1. CASE j = 1
    BY <1>0, <1>1, <2>1, CellTypes
  <2>2. CASE j - 1 \in 1..K
    <3>1. Cell(o, k, 1 + (j - 1)) = KeyCell(k, j - 1) /\ 1 + (j - 1) = j /\ j - 1 \in Nat
      BY <1>2, <2>2
    <3> QED BY <3>1, CellTypes
  <2>3. CASE j = K + 2
    BY <1>0, <1>3, <2>3, CellTypes
  <2>4. CASE j - (K + 2) \in 1..V
    <3>1. Cell(o, k, K + 2 + (j - (K + 2))) = ValCell(k, j - (K + 2))
      BY <1>4, <2>4
    <3>2. K + 2 + (j - (K + 2)) = j /\ j - (K + 2) \in Nat
      BY <1>0, <2>4
    <3> QED BY <3>1, <3>2, CellTypes
  <2>5. j = 1 \/ j - 1 \in 1..K \/ j = K + 2 \/ j - (K + 2) \in 1..V
    BY <1>0 DEF Size
  <2> QED BY <2>1, <2>2, <2>3, <2>4, <2>5
<1> QED BY <1>1, <1>2, <1>3, <1>4, <1>5

(* Of a record that is not whole, no cell after the first is a zero, none is *)
(* the last of a value, and in a progress file none is a length.             *)
LEMMA PartHasNoEnd ==
    ASSUME NEW o \in Openers, NEW k \in Keys, NEW j \in Nat \ {0}, j < Size(o, k)
    PROVE  /\ \A l \in Keys : Cell(o, k, j) # ValCell(l, ValCells[o][l])
           /\ j > 1 => Cell(o, k, j) # LenCell(0) /\ (o = "index" => ~IsLength(Cell(o, k, j)))
<1>0. /\ KeyCells[k] \in Nat \ {0} /\ ValCells[o][k] \in Nat
      /\ o = "index" => ValCells[o][k] = 0
  BY Lengths
<1> DEFINE K == KeyCells[k]
           V == ValCells[o][k]
<1>1. CASE j = 1
  BY <1>1, CellIs, CellsDiffer
<1>2. CASE j - 1 \in 1..K
  <2>1. Cell(o, k, 1 + (j - 1)) = KeyCell(k, j - 1) /\ 1 + (j - 1) = j
    BY <1>2, CellIs
  <2> QED BY <2>1, CellsDiffer DEF IsLength
<1>3. CASE j = K + 2
  <2>1. V # 0 /\ o # "index"
    BY <1>0, <1>3 DEF Size
  <2> QED BY <1>3, <2>1, CellIs, CellsDiffer
<1>4. CASE j - (K + 2) \in 1..V
  <2>1. Cell(o, k, K + 2 + (j - (K + 2))) = ValCell(k, j - (K + 2))
    BY <1>4, CellIs
  <2>2. K + 2 + (j - (K + 2)) = j /\ j - (K + 2) # V
    BY <1>0, <1>4 DEF Size
  <2> QED BY <2>1, <2>2, CellsDiffer DEF IsLength
<1>5. j = 1 \/ j - 1 \in 1..K \/ j = K + 2 \/ j - (K + 2) \in 1..V
  BY <1>0 DEF Size
<1> QED BY <1>1, <1>2, <1>3, <1>4, <1>5

------------------------------------------------------------------------------
(* Writing                                                                  *)

LEMMA OverwriteIs ==
    ASSUME NEW f \in Seq(Cells), NEW p \in Nat, p <= Len(f), NEW cells \in Seq(Cells)
    PROVE  LET g == Overwrite(f, p, cells)
           IN  /\ g \in Seq(Cells) /\ Len(f) <= Len(g) /\ p + Len(cells) <= Len(g)
               /\ \A i \in 1..p : g[i] = f[i]
               /\ \A j \in 1..Len(cells) : g[p + j] = cells[j]
               /\ \A i \in 1..Len(g) : i > p + Len(cells) => i <= Len(f) /\ g[i] = f[i]
<1> DEFINE end == p + Len(cells)
           n == IF end > Len(f) THEN end ELSE Len(f)
           at(i) == IF i \in (p + 1)..end THEN cells[i - p]
                    ELSE IF i <= Len(f) THEN f[i] ELSE LenCell(0)
           g == [i \in 1..n |-> at(i)]
<1>1. Len(f) \in Nat /\ Len(cells) \in Nat /\ n \in Nat /\ Len(f) <= n /\ end <= n
  OBVIOUS
<1>2. Overwrite(f, p, cells) = g
  BY DEF Overwrite
<1>3. ASSUME NEW i \in 1..n PROVE at(i) \in Cells
  <2>1. CASE i \in (p + 1)..end
    <3>1. i - p \in 1..Len(cells)
      BY <1>1, <2>1
    <3>2. cells[i - p] \in Cells
      BY <3>1
    <3> QED BY <2>1, <3>2
  <2>2. CASE i \notin (p + 1)..end
    <3>1. i <= Len(f)
      BY <1>1, <2>2
    <3>2. f[i] \in Cells
      BY <3>1
    <3> QED BY <2>2, <3>1, <3>2
  <2> QED BY <2>1, <2>2
<1>4. \A i \in 1..p : i \in 1..n /\ at(i) = f[i]
  BY <1>1
<1>5. \A j \in 1..Len(cells) : p + j \in 1..n /\ at(p + j) = cells[j]
  <2> SUFFICES ASSUME NEW j \in 1..Len(cells) PROVE p + j \in 1..n /\ at(p + j) = cells[j]
    OBVIOUS
  <2>1. p + j \in (p + 1)..end /\ (p + j) - p = j
    BY <1>1
  <2> QED BY <1>1, <2>1
<1>6. \A i \in 1..n : i > end => i <= Len(f) /\ at(i) = f[i]
  BY <1>1
<1> HIDE DEF at, n
<1>7. g \in Seq(Cells) /\ Len(g) = n
  BY <1>1, <1>3
<1>8. \A i \in 1..n : g[i] = at(i)
  OBVIOUS
<1> HIDE DEF g
<1> QED BY <1>1, <1>2, <1>4, <1>5, <1>6, <1>7, <1>8

LEMMA OverwriteNothing ==
    ASSUME NEW f \in Seq(Cells), NEW p \in Nat, p <= Len(f)
    PROVE  Overwrite(f, p, <<>>) = f
<1>1. Len(f) \in Nat /\ p + Len(<<>>) = p
  OBVIOUS
<1>2. \A i \in 1..Len(f) : i \notin (p + 1)..p
  OBVIOUS
<1>3. Overwrite(f, p, <<>>) = [i \in 1..Len(f) |-> f[i]]
  BY <1>1, <1>2 DEF Overwrite
<1> QED BY <1>3

(* The end of each record, and that of all, is within the file.             *)
LEMMA LayoutEnds ==
    ASSUME NEW o \in Openers, NEW f \in Seq(Cells), NEW ks, NEW at, Layout(o, f, ks, at)
    PROVE  /\ Len(ks) \in Nat /\ End(ks, at) \in Nat /\ End(ks, at) <= Len(f) /\ Len(f) \in Nat
           /\ \A i \in 1..Len(ks) : /\ ks[i] \in Keys /\ at[i] \in Nat
                                    /\ at[i] + Size(o, ks[i]) <= End(ks, at)
<1>1. /\ ks \in Seq(Keys) /\ at \in [1..(Len(ks) + 1) -> Nat] /\ End(ks, at) <= Len(f)
      /\ \A i \in 1..Len(ks) : at[i + 1] = at[i] + Size(o, ks[i]) /\ at[i + 1] <= End(ks, at)
  BY DEF Layout
<1>2. Len(ks) \in Nat /\ Len(ks) + 1 \in 1..(Len(ks) + 1) /\ \A i \in 1..Len(ks) : ks[i] \in Keys
  BY <1>1
<1>3. End(ks, at) \in Nat
  BY <1>1, <1>2 DEF End
<1>4. \A i \in 1..Len(ks) : at[i] \in Nat
  BY <1>1, <1>2
<1> QED BY <1>1, <1>2, <1>3, <1>4

(* What is written behind the records leaves them as they are.              *)
LEMMA LayoutKept ==
    ASSUME NEW o \in Openers, NEW f \in Seq(Cells), NEW ks, NEW at, Layout(o, f, ks, at),
           NEW g \in Seq(Cells), Len(f) <= Len(g), \A i \in 1..End(ks, at) : g[i] = f[i]
    PROVE  Layout(o, g, ks, at)
<1>1. /\ Len(ks) \in Nat /\ End(ks, at) \in Nat /\ End(ks, at) <= Len(g)
      /\ Len(f) \in Nat /\ Len(g) \in Nat
      /\ \A i \in 1..Len(ks) : /\ ks[i] \in Keys /\ at[i] \in Nat
                               /\ at[i] + Size(o, ks[i]) <= End(ks, at)
  BY LayoutEnds
<1>2. ASSUME NEW i \in 1..Len(ks) PROVE Written(o, g, at[i], ks[i], Size(o, ks[i]))
  <2> DEFINE n == Size(o, ks[i])
             p == at[i]
  <2>1. n \in Nat /\ p \in Nat /\ p + n <= End(ks, at)
    BY <1>1, Lengths
  <2>2. \A j \in 1..n : f[p + j] = Cell(o, ks[i], j)
    BY DEF Layout, Written
  <2> HIDE DEF n, p
  <2>3. \A j \in 1..n : p + j \in 1..End(ks, at)
    BY <1>1, <2>1
  <2>4. p + n <= Len(g)
    BY <1>1, <2>1
  <2>5. \A j \in 1..n : g[p + j] = Cell(o, ks[i], j)
    BY <2>2, <2>3
  <2>6. Written(o, g, p, ks[i], n)
    BY <2>4, <2>5 DEF Written
  <2> QED BY <2>6 DEF n, p
<1> QED BY <1>1, <1>2 DEF Layout

(* One record more.                                                         *)
OneMore(ks, at, n) == [i \in 1..(Len(ks) + 2) |-> IF i = Len(ks) + 2 THEN End(ks, at) + n ELSE at[i]]

LEMMA LayoutGrows ==
    ASSUME NEW o \in Openers, NEW f \in Seq(Cells), NEW ks, NEW at, Layout(o, f, ks, at),
           NEW k \in Keys, Written(o, f, End(ks, at), k, Size(o, k))
    PROVE  LET at1 == OneMore(ks, at, Size(o, k))
           IN  /\ Layout(o, f, Append(ks, k), at1)
               /\ End(Append(ks, k), at1) = End(ks, at) + Size(o, k)
<1> DEFINE n == Len(ks)
           e == End(ks, at)
           z == Size(o, k)
           l == Append(ks, k)
           at1 == OneMore(ks, at, z)
<1>1. /\ n \in Nat /\ e \in Nat /\ z \in Nat /\ Len(f) \in Nat
      /\ \A i \in 1..n : at[i] \in Nat
  BY LayoutEnds, Lengths
<1>2. /\ ks \in Seq(Keys) /\ at \in [1..(n + 1) -> Nat] /\ at[1] = 0 /\ at[n + 1] = e
  BY DEF Layout, End
<1>3. /\ l \in Seq(Keys) /\ Len(l) = n + 1 /\ l[n + 1] = k
      /\ \A i \in 1..n : l[i] = ks[i]
  BY <1>2
<1>4. at1 = [i \in 1..(n + 2) |-> IF i = n + 2 THEN e + z ELSE at[i]]
  BY DEF OneMore
<1>5. \A i \in 1..n : /\ at[i + 1] = at[i] + Size(o, ks[i]) /\ at[i + 1] <= e
                      /\ Written(o, f, at[i], ks[i], Size(o, ks[i]))
  BY DEF Layout
<1>6. e + z <= Len(f) /\ Written(o, f, e, k, z)
  BY DEF Written
<1> HIDE DEF n, e, z, l, at1
<1>7. /\ at1 \in [1..((n + 1) + 1) -> Nat] /\ at1[1] = 0 /\ at1[(n + 1) + 1] = e + z
      /\ \A i \in 1..(n + 1) : at1[i] = at[i]
  <2>1. (n + 1) + 1 = n + 2
    BY <1>1
  <2>2. \A i \in 1..(n + 1) : i # n + 2 /\ i \in 1..(n + 2)
    BY <1>1
  <2>3. \A i \in 1..(n + 2) : at1[i] \in Nat
    BY <1>1, <1>2, <1>4
  <2>4. 1 \in 1..(n + 1) /\ n + 2 \in 1..(n + 2)
    BY <1>1
  <2> QED BY <1>2, <1>4, <2>1, <2>2, <2>3, <2>4
<1>8. End(l, at1) = e + z
  BY <1>3, <1>7 DEF End
<1>9. ASSUME NEW i \in 1..(n + 1)
      PROVE  /\ at1[i + 1] = at1[i] + Size(o, l[i]) /\ at1[i + 1] <= e + z
             /\ Written(o, f, at1[i], l[i], Size(o, l[i]))
  <2>1. CASE i = n + 1
    <3>1. at1[i] = e /\ l[i] = k /\ at1[i + 1] = e + z
      BY <1>1, <1>2, <1>3, <1>7, <2>1
    <3> QED BY <1>1, <1>6, <3>1 DEF z
  <2>2. CASE i \in 1..n
    <3>1. i + 1 \in 1..(n + 1)
      BY <1>1, <2>2
    <3>2. at1[i] = at[i] /\ at1[i + 1] = at[i + 1] /\ l[i] = ks[i]
      BY <1>3, <1>7, <2>2, <3>1
    <3>3. at[i + 1] = at[i] + Size(o, ks[i]) /\ at[i + 1] <= e
          /\ Written(o, f, at[i], ks[i], Size(o, ks[i]))
      BY <1>5, <2>2
    <3>4. at[i + 1] \in Nat
      BY <1>2, <3>1
    <3> QED BY <1>1, <3>2, <3>3, <3>4
  <2>3. i = n + 1 \/ i \in 1..n
    BY <1>1
  <2> QED BY <2>1, <2>2, <2>3
<1>10. Layout(o, f, l, at1)
  BY <1>3, <1>6, <1>7, <1>8, <1>9 DEF Layout
<1> QED BY <1>8, <1>10 DEF l, at1, z, e

(* Some more cells of the record of k, behind the records.                  *)
Put(o, f, ks, at, k, m, cells) ==
    /\ Contents(o, f, ks, at) /\ k \in Keys /\ m \in Nat /\ cells \in Seq(Cells)
    /\ m + Len(cells) <= Size(o, k) /\ Written(o, f, End(ks, at), k, m)
    /\ \A j \in 1..Len(cells) : cells[j] = Cell(o, k, m + j)

LEMMA PutWrites ==
    ASSUME NEW o, NEW f, NEW ks, NEW at, NEW k, NEW m, NEW cells, Put(o, f, ks, at, k, m, cells)
    PROVE  LET e == End(ks, at)
               n == m + Len(cells)
               g == Overwrite(f, e + m, cells)
           IN  /\ g \in Seq(Cells) /\ Layout(o, g, ks, at) /\ Written(o, g, e, k, n)
               /\ \A i \in 1..Len(g) : i > e + n => i <= Len(f) /\ g[i] = f[i]
<1> DEFINE e == End(ks, at)
           n == m + Len(cells)
           g == Overwrite(f, e + m, cells)
<1>1. /\ o \in Openers /\ f \in Seq(Cells) /\ Layout(o, f, ks, at)
      /\ k \in Keys /\ m \in Nat /\ cells \in Seq(Cells)
      /\ Written(o, f, e, k, m) /\ \A j \in 1..Len(cells) : cells[j] = Cell(o, k, m + j)
  BY DEF Put, Contents
<1>2. Len(f) \in Nat /\ Len(cells) \in Nat /\ e \in Nat
  BY <1>1, LayoutEnds
<1>3. e + m <= Len(f) /\ \A j \in 1..m : f[e + j] = Cell(o, k, j)
  BY <1>1 DEF Written
<1> DEFINE p == e + m
<1>4. p \in Nat /\ p <= Len(f)
  BY <1>1, <1>2, <1>3
<1>5. /\ g \in Seq(Cells) /\ Len(f) <= Len(g) /\ p + Len(cells) <= Len(g)
      /\ \A i \in 1..p : g[i] = f[i]
      /\ \A j \in 1..Len(cells) : g[p + j] = cells[j]
      /\ \A i \in 1..Len(g) : i > p + Len(cells) => i <= Len(f) /\ g[i] = f[i]
  BY <1>1, <1>4, OverwriteIs
<1> HIDE DEF g, e
<1>6. \A i \in 1..e : g[i] = f[i]
  BY <1>1, <1>2, <1>5
<1>7. Layout(o, g, ks, at)
  BY <1>1, <1>5, <1>6, LayoutKept DEF e
<1>8. p + Len(cells) = e + n
  BY <1>1, <1>2
<1>9. ASSUME NEW j \in 1..n PROVE g[e + j] = Cell(o, k, j)
  <2>1. CASE j \in 1..m
    <3>1. e + j \in 1..p
      BY <1>1, <1>2, <2>1
    <3> HIDE DEF p
    <3> QED BY <1>3, <1>5, <2>1, <3>1
  <2>2. CASE j - m \in 1..Len(cells)
    <3>1. p + (j - m) = e + j /\ m + (j - m) = j
      BY <1>1, <1>2
    <3>2. g[p + (j - m)] = cells[j - m] /\ cells[j - m] = Cell(o, k, m + (j - m))
      BY <1>1, <1>5, <2>2
    <3> QED BY <3>1, <3>2
  <2>3. j \in 1..m \/ j - m \in 1..Len(cells)
    BY <1>1, <1>2
  <2> QED BY <2>1, <2>2, <2>3
<1>10. Written(o, g, e, k, n)
  BY <1>5, <1>8, <1>9 DEF Written
<1> QED BY <1>5, <1>7, <1>8, <1>10 DEF e, g

(* A record that is not whole yet is a leftover.                            *)
LEMMA PutPart ==
    ASSUME NEW o, NEW f, NEW ks, NEW at, NEW k, NEW m, NEW cells, Put(o, f, ks, at, k, m, cells),
           m + Len(cells) < Size(o, k)
    PROVE  LET g == Overwrite(f, End(ks, at) + m, cells)
           IN  Contents(o, g, ks, at) /\ Written(o, g, End(ks, at), k, m + Len(cells))
<1> DEFINE e == End(ks, at)
           n == m + Len(cells)
           g == Overwrite(f, e + m, cells)
<1>1. /\ g \in Seq(Cells) /\ Layout(o, g, ks, at) /\ Written(o, g, e, k, n)
      /\ \A i \in 1..Len(g) : i > e + n => i <= Len(f) /\ g[i] = f[i]
  BY PutWrites
<1>2. /\ o \in Openers /\ f \in Seq(Cells) /\ Leftover(o, f, e) /\ k \in Keys /\ m \in Nat
      /\ cells \in Seq(Cells) /\ Layout(o, f, ks, at)
  BY DEF Put, Contents
<1>3. e \in Nat /\ n \in Nat /\ Len(f) \in Nat /\ Len(g) \in Nat /\ Size(o, k) \in Nat
  BY <1>1, <1>2, LayoutEnds, Lengths
<1>4. n < Size(o, k)
  OBVIOUS
<1> HIDE DEF g, e, n
<1>5. ASSUME NEW i \in 1..Len(g), i > e
      PROVE  /\ \A l \in Keys : g[i] # ValCell(l, ValCells[o][l])
             /\ i > e + 1 => g[i] # LenCell(0) /\ (o = "index" => ~IsLength(g[i]))
  <2>1. CASE i > e + n
    <3>1. i \in 1..Len(f) /\ g[i] = f[i]
      BY <1>1, <1>3, <2>1
    <3> QED BY <1>2, <1>5, <3>1 DEF Leftover
  <2>2. CASE i <= e + n
    <3> DEFINE j == i - e
    <3>1. j \in 1..n /\ j \in Nat \ {0} /\ j < Size(o, k) /\ e + j = i /\ (i > e + 1 => j > 1)
      BY <1>3, <1>4, <1>5, <2>2
    <3> HIDE DEF j
    <3>2. g[i] = Cell(o, k, j)
      BY <1>1, <3>1 DEF Written
    <3> QED BY <1>2, <3>1, <3>2, PartHasNoEnd
  <2> QED BY <1>3, <2>1, <2>2
<1>6. Leftover(o, g, e)
  BY <1>5 DEF Leftover
<1> QED BY <1>1, <1>2, <1>6 DEF Contents, g, e, n

(* The last cells make it a record of the file.                             *)
LEMMA PutWhole ==
    ASSUME NEW o, NEW f, NEW ks, NEW at, NEW k, NEW m, NEW cells, Put(o, f, ks, at, k, m, cells),
           m + Len(cells) = Size(o, k)
    PROVE  LET at1 == OneMore(ks, at, Size(o, k))
           IN  /\ Contents(o, Overwrite(f, End(ks, at) + m, cells), Append(ks, k), at1)
               /\ End(Append(ks, k), at1) = End(ks, at) + Size(o, k)
<1> DEFINE e == End(ks, at)
           n == Size(o, k)
           g == Overwrite(f, e + m, cells)
           l == Append(ks, k)
           at1 == OneMore(ks, at, n)
<1>1. /\ g \in Seq(Cells) /\ Layout(o, g, ks, at) /\ Written(o, g, e, k, n)
      /\ \A i \in 1..Len(g) : i > e + n => i <= Len(f) /\ g[i] = f[i]
  <2> DEFINE x == m + Len(cells)
  <2>1. /\ g \in Seq(Cells) /\ Layout(o, g, ks, at) /\ Written(o, g, e, k, x)
        /\ \A i \in 1..Len(g) : i > e + x => i <= Len(f) /\ g[i] = f[i]
    BY PutWrites
  <2>2. x = n
    OBVIOUS
  <2> HIDE DEF x, g, e, n
  <2> QED BY <2>1, <2>2
<1>2. /\ o \in Openers /\ f \in Seq(Cells) /\ Leftover(o, f, e) /\ k \in Keys
      /\ Layout(o, f, ks, at)
  BY DEF Put, Contents
<1>3. e \in Nat /\ n \in Nat /\ n >= 3 /\ Len(f) \in Nat /\ Len(g) \in Nat
  BY <1>1, <1>2, LayoutEnds, Lengths
<1>4. Layout(o, g, l, at1) /\ End(l, at1) = e + n
  BY <1>1, <1>2, LayoutGrows
<1> HIDE DEF g, e, n, l, at1
<1>5. ASSUME NEW i \in 1..Len(g), i > e + n
      PROVE  /\ \A c \in Keys : g[i] # ValCell(c, ValCells[o][c])
             /\ g[i] # LenCell(0) /\ (o = "index" => ~IsLength(g[i]))
  <2>1. i \in 1..Len(f) /\ g[i] = f[i] /\ i > e /\ i > e + 1
    BY <1>1, <1>3, <1>5
  <2> QED BY <1>2, <2>1 DEF Leftover
<1>6. Leftover(o, g, e + n)
  BY <1>5 DEF Leftover
<1> QED BY <1>1, <1>2, <1>4, <1>6 DEF Contents, g, e, n, l, at1

(* A sentinel, or a part of one, behind the records.                        *)
LEMMA PutSentinel ==
    ASSUME NEW o, NEW f, NEW ks, NEW at, Contents(o, f, ks, at),
           NEW cells \in {<<>>, <<Sentinel[1]>>, Sentinel}
    PROVE  LET g == Overwrite(f, End(ks, at), cells)
           IN  /\ Contents(o, g, ks, at)
               /\ cells = Sentinel => /\ End(ks, at) + 1 <= Len(g)
                                      /\ g[End(ks, at) + 1] = LenCell(0)
<1> DEFINE e == End(ks, at)
           g == Overwrite(f, e, cells)
<1>1. o \in Openers /\ f \in Seq(Cells) /\ Leftover(o, f, e) /\ Layout(o, f, ks, at)
  BY DEF Contents
<1>2. e \in Nat /\ e <= Len(f) /\ Len(f) \in Nat
  BY <1>1, LayoutEnds
<1>3. /\ cells \in Seq(Cells) /\ Len(cells) \in 0..2
      /\ cells # <<>> => cells[1] = LenCell(0)
      /\ Len(cells) = 2 => cells[2] = TextCell
      /\ cells = Sentinel => Len(cells) = 2 /\ cells # <<>>
  <2> DEFINE z == LenCell(0)
             t == TextCell
  <2>1. z \in Cells /\ t \in Cells
    BY CellTypes
  <2>2. Sentinel = <<z, t>> /\ Sentinel[1] = z
    BY DEF Sentinel
  <2> HIDE DEF z, t
  <2>3. CASE cells = <<>>
    BY <2>2, <2>3
  <2>4. CASE cells = <<z>>
    <3>1. <<z>> \in Seq(Cells) /\ Len(<<z>>) = 1 /\ <<z>>[1] = z /\ <<z>> # <<>> /\ <<z>> # <<z, t>>
      BY <2>1
    <3> QED BY <2>2, <2>4, <3>1 DEF z
  <2>5. CASE cells = <<z, t>>
    <3>1. /\ <<z, t>> \in Seq(Cells) /\ Len(<<z, t>>) = 2 /\ <<z, t>>[1] = z /\ <<z, t>>[2] = t
          /\ <<z, t>> # <<>>
      BY <2>1
    <3> QED BY <2>2, <2>5, <3>1 DEF z, t
  <2> QED BY <2>2, <2>3, <2>4, <2>5
<1>4. /\ g \in Seq(Cells) /\ Len(f) <= Len(g) /\ e + Len(cells) <= Len(g)
      /\ \A i \in 1..e : g[i] = f[i]
      /\ \A j \in 1..Len(cells) : g[e + j] = cells[j]
      /\ \A i \in 1..Len(g) : i > e + Len(cells) => i <= Len(f) /\ g[i] = f[i]
  BY <1>1, <1>2, <1>3, OverwriteIs
<1> HIDE DEF g, e
<1>5. Layout(o, g, ks, at)
  BY <1>1, <1>4, LayoutKept DEF e
<1>6. Len(g) \in Nat
  BY <1>4
<1>7. ASSUME NEW i \in 1..Len(g), i > e
      PROVE  /\ \A l \in Keys : g[i] # ValCell(l, ValCells[o][l])
             /\ i > e + 1 => g[i] # LenCell(0) /\ (o = "index" => ~IsLength(g[i]))
  <2>1. CASE i > e + Len(cells)
    <3>1. i \in 1..Len(f) /\ g[i] = f[i]
      BY <1>2, <1>4, <1>7, <2>1
    <3> QED BY <1>1, <1>7, <3>1 DEF Leftover
  <2>2. CASE i <= e + Len(cells)
    <3>1. i = e + 1 \/ (i = e + 2 /\ Len(cells) = 2)
      <4> DEFINE c == Len(cells)
      <4>1. c \in 0..2 /\ i <= e + c
        BY <1>3, <2>2
      <4> HIDE DEF c
      <4>2. i = e + 1 \/ (i = e + 2 /\ c = 2)
        BY <1>2, <1>6, <1>7, <4>1
      <4> QED BY <4>2 DEF c
    <3>2. CASE i = e + 1
      <4>1. 1 \in 1..Len(cells) /\ cells # <<>>
        BY <1>2, <1>3, <2>2, <3>2
      <4>2. g[i] = LenCell(0) /\ ~(i > e + 1)
        <5>1. g[e + 1] = cells[1] /\ cells[1] = LenCell(0)
          BY <1>3, <1>4, <4>1
        <5> QED BY <1>2, <3>2, <5>1
      <4> QED BY <4>2, CellsDiffer
    <3>3. CASE i = e + 2 /\ Len(cells) = 2
      <4>1. g[i] = TextCell
        BY <1>3, <1>4, <3>3
      <4> QED BY <4>1, CellsDiffer DEF IsLength
    <3> QED BY <3>1, <3>2, <3>3
  <2> QED BY <1>2, <1>3, <1>6, <2>1, <2>2
<1>8. Leftover(o, g, e)
  BY <1>7 DEF Leftover
<1>9. cells = Sentinel => e + 1 <= Len(g) /\ g[e + 1] = LenCell(0)
  <2> SUFFICES ASSUME cells = Sentinel PROVE e + 1 <= Len(g) /\ g[e + 1] = LenCell(0)
    OBVIOUS
  <2>1. Len(cells) = 2 /\ cells[1] = LenCell(0) /\ 1 \in 1..Len(cells)
    BY <1>3
  <2> QED BY <1>2, <1>4, <1>6, <2>1
<1> QED BY <1>1, <1>4, <1>5, <1>8, <1>9 DEF Contents, g, e

------------------------------------------------------------------------------
(* Reading                                                                  *)

LEMMA ReadCellsType ==
    ASSUME NEW f \in Seq(Cells), NEW p \in Nat, NEW n \in Nat
    PROVE  ReadCells(f, p, n) \in Seq(Cells) /\ Len(ReadCells(f, p, n)) = n
<1> DEFINE at(i) == IF p + i <= Len(f) THEN f[p + i] ELSE LenCell(0)
<1>1. ASSUME NEW i \in 1..n PROVE at(i) \in Cells
  <2>1. CASE p + i <= Len(f)
    <3>1. p + i \in 1..Len(f)
      BY <2>1
    <3>2. f[p + i] \in Cells
      BY <3>1
    <3> QED BY <2>1, <3>2
  <2>2. CASE ~(p + i <= Len(f))
    BY <2>2, CellTypes
  <2> QED BY <2>1, <2>2
<1>2. ReadCells(f, p, n) = [i \in 1..n |-> at(i)]
  BY DEF ReadCells
<1> HIDE DEF at
<1> QED BY <1>1, <1>2

(* What a reader returns, and that it moves on.                             *)
Ends == {"eof", "panic", "badseek", "baddata", "sentinel"}

LEMMA StopIs ==
    \A why \in Ends : Stop(why).res = why /\ why # "ok" /\ Stop(why).key = <<>> /\ Stop(why).next = 0
BY DEF Stop, Ends

Returned(r, f, p) ==
    /\ r.res \in Ends \cup {"ok"} /\ r.next \in Nat
    /\ r.res = "ok" => p + 1 <= Len(f) /\ p < r.next

LEMMA ValueReturned ==
    ASSUME NEW f \in Seq(Cells), NEW p \in Nat, NEW name
    PROVE  /\ Returned(DeepValue(f, p, name), f, p) /\ DeepValue(f, p, name).key \in {name, <<>>}
           /\ Returned(SkipValue(f, p, name), f, p) /\ SkipValue(f, p, name).key \in {name, <<>>}
<1>1. Len(f) \in Nat
  OBVIOUS
<1>2. \A why \in Ends : Returned(Stop(why), f, p) /\ Stop(why).key = <<>>
  BY StopIs DEF Returned
<1>3. CASE p + 1 > Len(f)
  BY <1>2, <1>3 DEF DeepValue, SkipValue, Ends
<1>4. CASE p + 1 <= Len(f) /\ ~IsLength(f[p + 1])
  <2>1. ~(p + 1 > Len(f))
    BY <1>1, <1>4
  <2> QED BY <1>2, <1>4, <2>1 DEF DeepValue, SkipValue, Ends
<1>5. CASE p + 1 <= Len(f) /\ IsLength(f[p + 1])
  <2> DEFINE n == f[p + 1].n
             end == IF p + 1 + n <= Len(f) THEN p + 1 + n ELSE Len(f)
             deep == [res |-> "ok", next |-> end, key |-> name]
             skip == [res |-> "ok", next |-> p + 1 + n, key |-> name]
  <2>1. n \in Nat
    <3>1. f[p + 1] \in Cells
      BY <1>1, <1>5
    <3> QED BY <1>5, <3>1, CellTypes
  <2>2. end \in Nat /\ p < end /\ p + 1 + n \in Nat /\ p < p + 1 + n
    BY <1>1, <1>5, <2>1
  <2>3. DeepValue(f, p, name) \in {deep, Stop("baddata")} /\ SkipValue(f, p, name) = skip
    BY <1>1, <1>5 DEF DeepValue, SkipValue
  <2> HIDE DEF end, n
  <2>4. Returned(deep, f, p) /\ deep.key = name /\ Returned(skip, f, p) /\ skip.key = name
    BY <1>5, <2>2 DEF Returned
  <2> HIDE DEF deep, skip
  <2>5. "baddata" \in Ends
    BY DEF Ends
  <2> QED BY <1>2, <2>3, <2>4, <2>5
<1> QED BY <1>1, <1>3, <1>4, <1>5

LEMMA RecordReturned ==
    ASSUME NEW f \in Seq(Cells), NEW p \in Nat, NEW readValue \in BOOLEAN
    PROVE  LET r == ReadRecord(f, p, readValue)
           IN  Returned(r, f, p) /\ r.key \in Seq(Cells)
<1>1. Len(f) \in Nat /\ <<>> \in Seq(Cells)
  OBVIOUS
<1>2. \A why \in Ends : Returned(Stop(why), f, p) /\ Stop(why).key = <<>>
  BY StopIs DEF Returned
<1>3. "eof" \in Ends /\ "panic" \in Ends /\ "sentinel" \in Ends
  BY DEF Ends
<1>4. CASE p + 1 > Len(f)
  BY <1>1, <1>2, <1>3, <1>4 DEF ReadRecord
<1>5. CASE p + 1 <= Len(f) /\ ~IsLength(f[p + 1])
  <2>1. ~(p + 1 > Len(f))
    BY <1>1, <1>5
  <2> QED BY <1>1, <1>2, <1>3, <1>5, <2>1 DEF ReadRecord
<1>6. CASE p + 1 <= Len(f) /\ IsLength(f[p + 1])
  <2> DEFINE n == f[p + 1].n
             name == ReadCells(f, p + 1, n)
             q == p + 1 + n
  <2>1. n \in Nat
    <3>1. f[p + 1] \in Cells
      BY <1>1, <1>6
    <3> QED BY <1>6, <3>1, CellTypes
  <2>2. name \in Seq(Cells) /\ q \in Nat
    <3>1. p + 1 \in Nat /\ q \in Nat
      BY <2>1
    <3> HIDE DEF n
    <3> QED BY <2>1, <3>1, ReadCellsType
  <2>3. ReadRecord(f, p, readValue) \in {Stop("sentinel"), Stop("eof"), DeepValue(f, q, name),
                                         SkipValue(f, q, name)}
    BY <1>1, <1>6 DEF ReadRecord
  <2>4. \A r : Returned(r, f, q) => Returned(r, f, p)
    <3>1. p <= q /\ p + 1 <= q + 1 /\ q \in Nat
      BY <2>1
    <3> HIDE DEF q
    <3> QED BY <1>1, <3>1 DEF Returned
  <2> HIDE DEF n, name, q
  <2>5. /\ Returned(DeepValue(f, q, name), f, q) /\ DeepValue(f, q, name).key \in {name, <<>>}
        /\ Returned(SkipValue(f, q, name), f, q) /\ SkipValue(f, q, name).key \in {name, <<>>}
    BY <2>2, ValueReturned
  <2> QED BY <1>1, <1>2, <1>3, <2>2, <2>3, <2>4, <2>5
<1> QED BY <1>1, <1>4, <1>5, <1>6

(* A whole record is read, its value or not.                                *)
LEMMA ReadsRecord ==
    ASSUME opener \in Openers, NEW f \in Seq(Cells), NEW p \in Nat, NEW k \in Keys,
           Written(opener, f, p, k, Size(opener, k)), NEW readValue \in BOOLEAN
    PROVE  ReadRecord(f, p, readValue) =
               [res |-> "ok", next |-> p + Size(opener, k), key |-> KeyOf(k)]
<1> DEFINE K == KeyCells[k]
           V == ValCells[opener][k]
           q == p + 1 + K
<1>1. K \in Nat \ {0} /\ V \in Nat /\ Len(f) \in Nat
  BY Lengths
<1>2. p + (K + V + 2) <= Len(f) /\ \A j \in 1..(K + V + 2) : f[p + j] = Cell(opener, k, j)
  BY DEF Written, Size
<1>3. f[p + 1] = LenCell(K)
  <2>1. 1 \in 1..(K + V + 2)
    BY <1>1
  <2> QED BY <1>2, <2>1, CellIs
<1>4. \A i \in 1..K : f[(p + 1) + i] = KeyCell(k, i)
  <2> SUFFICES ASSUME NEW i \in 1..K PROVE f[(p + 1) + i] = KeyCell(k, i)
    OBVIOUS
  <2>1. 1 + i \in 1..(K + V + 2) /\ p + (1 + i) = (p + 1) + i
    BY <1>1
  <2>2. f[p + (1 + i)] = Cell(opener, k, 1 + i) /\ Cell(opener, k, 1 + i) = KeyCell(k, i)
    BY <1>2, <2>1, CellIs
  <2> QED BY <2>1, <2>2
<1>5. f[q + 1] = LenCell(V)
  <2>1. K + 2 \in 1..(K + V + 2) /\ p + (K + 2) = q + 1
    BY <1>1
  <2>2. f[p + (K + 2)] = Cell(opener, k, K + 2) /\ Cell(opener, k, K + 2) = LenCell(V)
    BY <1>2, <2>1, CellIs
  <2> QED BY <2>1, <2>2
<1>6. \A i \in 1..V : f[(q + 1) + i] = ValCell(k, i)
  <2> SUFFICES ASSUME NEW i \in 1..V PROVE f[(q + 1) + i] = ValCell(k, i)
    OBVIOUS
  <2>1. K + 2 + i \in 1..(K + V + 2) /\ p + (K + 2 + i) = (q + 1) + i
    BY <1>1
  <2>2. f[p + (K + 2 + i)] = Cell(opener, k, K + 2 + i) /\ Cell(opener, k, K + 2 + i) = ValCell(k, i)
    BY <1>2, <2>1, CellIs
  <2> QED BY <2>1, <2>2
<1>7. /\ q \in Nat /\ q + 1 + V = p + (K + V + 2) /\ q + 1 + V <= Len(f) /\ q + 1 <= Len(f)
      /\ p + 1 <= Len(f) /\ p + 2 <= Len(f)
  BY <1>1, <1>2
<1>8. ReadCells(f, p + 1, K) = KeyOf(k)
  <2>1. \A i \in 1..K : (p + 1) + i <= Len(f)
    BY <1>1, <1>2
  <2> QED BY <1>4, <2>1 DEF ReadCells, KeyOf
<1>9. ReadCells(f, q + 1, V) = ValueOf(k) /\ Len(ValueOf(k)) = V
  <2>1. \A i \in 1..V : (q + 1) + i <= Len(f)
    BY <1>1, <1>7
  <2>2. ReadCells(f, q + 1, V) = ValueOf(k)
    BY <1>6, <2>1 DEF ReadCells, ValueOf
  <2>3. Len(ValueOf(k)) = V
    BY <1>1 DEF ValueOf
  <2> QED BY <2>2, <2>3
<1>10. /\ IsLength(f[p + 1]) /\ f[p + 1].n = K /\ K # 0
       /\ IsLength(f[q + 1]) /\ f[q + 1].n = V
  BY <1>1, <1>3, <1>5, CellsDiffer DEF IsLength
<1>11. Unmarshals(ReadCells(f, q + 1, V))
  BY <1>9 DEF Unmarshals
<1> DEFINE z == q + 1 + V
           name == KeyOf(k)
           ok == [res |-> "ok", next |-> z, key |-> name]
<1>12. DeepValue(f, q, name) = ok /\ SkipValue(f, q, name) = ok
  <2>1. ~(q + 1 > Len(f))
    BY <1>1, <1>7
  <2> HIDE DEF q, V
  <2> QED BY <1>7, <1>10, <1>11, <2>1 DEF DeepValue, SkipValue
<1>13. ReadRecord(f, p, readValue) =
           IF readValue THEN DeepValue(f, q, name) ELSE SkipValue(f, q, name)
  <2>1. ~(p + 1 > Len(f)) /\ ~(p + 2 > Len(f))
    BY <1>1, <1>7
  <2> QED BY <1>8, <1>10, <2>1 DEF ReadRecord
<1>14. z = p + Size(opener, k)
  BY <1>7 DEF Size
<1> HIDE DEF z
<1> QED BY <1>12, <1>13, <1>14

(* Behind the records a reader finds none, if it looks at the values or the *)
(* file is one of progress, and if no value unmarshals that is not whole.   *)
LEMMA ReadsLeftover ==
    ASSUME WholeValues, NEW f, NEW ks, NEW at, Contents(opener, f, ks, at),
           NEW readValue \in BOOLEAN, readValue \/ opener = "index"
    PROVE  ReadRecord(f, End(ks, at), readValue).res # "ok"
<1> DEFINE e == End(ks, at)
           r == ReadRecord(f, e, readValue)
<1> SUFFICES ASSUME r.res = "ok" PROVE FALSE
  OBVIOUS
<1>1. opener \in Openers /\ f \in Seq(Cells) /\ Leftover(opener, f, e) /\ Layout(opener, f, ks, at)
  BY DEF Contents
<1>2. e \in Nat /\ e <= Len(f) /\ Len(f) \in Nat
  BY <1>1, LayoutEnds
<1>3. /\ Stop("eof").res # "ok" /\ Stop("panic").res # "ok" /\ Stop("sentinel").res # "ok"
      /\ Stop("badseek").res # "ok" /\ Stop("baddata").res # "ok"
  BY DEF Stop
<1> DEFINE n == f[e + 1].n
           name == ReadCells(f, e + 1, n)
           q == e + 1 + n
<1> HIDE DEF e
<1>4. e + 1 \in 1..Len(f) /\ IsLength(f[e + 1]) /\ n # 0
  <2>1. ~(e + 1 > Len(f)) /\ IsLength(f[e + 1]) /\ n # 0
    BY <1>3 DEF ReadRecord
  <2> QED BY <1>2, <2>1
<1>5. n \in Nat \ {0}
  <2>1. f[e + 1] \in Cells
    BY <1>1, <1>4
  <2> QED BY <1>4, <2>1, CellTypes
<1>6. r = IF readValue THEN DeepValue(f, q, name) ELSE SkipValue(f, q, name)
  <2>1. ~(e + 1 > Len(f))
    BY <1>2, <1>4
  <2>2. ~(e + 2 > Len(f))
    BY <1>3, <1>4, <2>1 DEF ReadRecord
  <2> QED BY <1>4, <2>1, <2>2 DEF ReadRecord
<1>7. q \in Nat /\ q > e
  BY <1>2, <1>5
<1> HIDE DEF n, q, name, r
<1>8. q + 1 \in 1..Len(f) /\ IsLength(f[q + 1])
  <2>1. ~(q + 1 > Len(f)) /\ IsLength(f[q + 1])
    BY <1>3, <1>6 DEF DeepValue, SkipValue
  <2> QED BY <1>2, <1>7, <2>1
<1>9. f[q + 1] # LenCell(0) /\ opener # "index"
  <2>1. q + 1 > e /\ q + 1 > e + 1
    BY <1>2, <1>7
  <2> QED BY <1>1, <1>8, <2>1 DEF Leftover
<1> DEFINE m == f[q + 1].n
           val == ReadCells(f, q + 1, m)
<1>10. m \in Nat \ {0}
  <2>1. f[q + 1] \in Cells
    BY <1>1, <1>8
  <2> QED BY <1>8, <1>9, <2>1, CellTypes
<1>11. Unmarshals(val)
  <2>1. ~(q + 1 > Len(f))
    BY <1>2, <1>8
  <2>2. r = DeepValue(f, q, name)
    BY <1>6, <1>9
  <2> QED BY <1>3, <1>8, <1>10, <2>1, <2>2 DEF DeepValue
<1>12. PICK k \in Keys : ValCells[opener][k] = Len(val) /\ val = ValueOf(k)
  BY <1>1, <1>9, <1>11 DEF Unmarshals, WholeValues
<1>13. Len(val) = m
  <2>1. q + 1 \in Nat
    BY <1>7
  <2> HIDE DEF m
  <2> QED BY <1>1, <1>10, <2>1, ReadCellsType
<1>14. val[m] = ValCell(k, m) /\ ValCells[opener][k] = m
  BY <1>10, <1>12, <1>13 DEF ValueOf
<1>15. val[m] = IF (q + 1) + m <= Len(f) THEN f[(q + 1) + m] ELSE LenCell(0)
  <2> HIDE DEF m
  <2> QED BY <1>10 DEF ReadCells
<1>16. CASE (q + 1) + m <= Len(f)
  <2> DEFINE i == (q + 1) + m
  <2>1. i \in 1..Len(f) /\ i > e
    BY <1>2, <1>7, <1>10, <1>16
  <2>2. f[i] = ValCell(k, ValCells[opener][k])
    BY <1>14, <1>15, <1>16
  <2> HIDE DEF i
  <2> QED BY <1>1, <2>1, <2>2 DEF Leftover
<1>17. CASE ~((q + 1) + m <= Len(f))
  <2>1. ValCell(k, m) = LenCell(0)
    BY <1>14, <1>15, <1>17
  <2> QED BY <2>1, CellsDiffer
<1> QED BY <1>16, <1>17

(* A sentinel is found, whatever lies behind it.                            *)
LEMMA ReadsSentinel ==
    ASSUME NEW f \in Seq(Cells), NEW p \in Nat, p + 1 <= Len(f), f[p + 1] = LenCell(0),
           NEW readValue \in BOOLEAN
    PROVE  ReadRecord(f, p, readValue).res = "sentinel"
<1>1. ~(p + 1 > Len(f)) /\ IsLength(f[p + 1]) /\ f[p + 1].n = 0
  BY CellsDiffer DEF IsLength
<1> QED BY <1>1 DEF ReadRecord, Stop

------------------------------------------------------------------------------
(* The loop of the readers                                                  *)

WalkSet == [keys : Seq(Seq(Cells)), end : Nat, why : Ends]

(* What is found from p on, when g is what is found from later offsets on.  *)
WalkStep(f, readValue, g, p) ==
    LET r == ReadRecord(f, p, readValue)
    IN  IF r.res = "ok"
        THEN [g[r.next] EXCEPT !.keys = <<r.key>> \o @]
        ELSE [keys |-> <<>>, end |-> p, why |-> r.res]

Walks(f, readValue, g, m) ==
    /\ g \in [Nat -> WalkSet]
    /\ \A p \in Nat : p + m >= Len(f) => g[p] = WalkStep(f, readValue, g, p)

LEMMA WalkStepType ==
    ASSUME NEW f \in Seq(Cells), NEW readValue \in BOOLEAN, NEW g \in [Nat -> WalkSet], NEW p \in Nat
    PROVE  WalkStep(f, readValue, g, p) \in WalkSet
<1> DEFINE r == ReadRecord(f, p, readValue)
<1>1. Returned(r, f, p) /\ r.key \in Seq(Cells)
  BY RecordReturned
<1> HIDE DEF r
<1>2. CASE r.res = "ok"
  <2> DEFINE x == g[r.next]
             name == r.key
  <2>1. r.next \in Nat
    BY <1>1 DEF Returned
  <2>2. x \in WalkSet /\ name \in Seq(Cells)
    BY <1>1, <2>1
  <2> HIDE DEF x, name
  <2>3. x.keys \in Seq(Seq(Cells)) /\ <<name>> \in Seq(Seq(Cells))
    BY <2>2 DEF WalkSet
  <2>4. <<name>> \o x.keys \in Seq(Seq(Cells))
    BY <2>3
  <2>5. [x EXCEPT !.keys = <<name>> \o @] \in WalkSet
    BY <2>2, <2>4 DEF WalkSet
  <2> QED BY <1>2, <2>5 DEF WalkStep, r, x, name
<1>3. CASE r.res # "ok"
  <2>1. r.res \in Ends
    BY <1>1, <1>3 DEF Returned
  <2>2. [keys |-> <<>>, end |-> p, why |-> r.res] \in WalkSet
    <3>1. <<>> \in Seq(Seq(Cells))
      OBVIOUS
    <3> QED BY <2>1, <3>1 DEF WalkSet
  <2> QED BY <1>3, <2>2 DEF WalkStep, r
<1> QED BY <1>2, <1>3

(* Only what is found from later offsets on matters.                        *)
LEMMA WalkStepSame ==
    ASSUME NEW f \in Seq(Cells), NEW readValue \in BOOLEAN, NEW p \in Nat, NEW g, NEW h,
           \A q \in Nat : q > p => g[q] = h[q]
    PROVE  WalkStep(f, readValue, g, p) = WalkStep(f, readValue, h, p)
<1> DEFINE r == ReadRecord(f, p, readValue)
<1>1. Returned(r, f, p)
  BY RecordReturned
<1> HIDE DEF r
<1>2. r.res = "ok" => g[r.next] = h[r.next]
  BY <1>1 DEF Returned
<1> QED BY <1>2 DEF WalkStep, r

LEMMA WalkExists ==
    ASSUME NEW f \in Seq(Cells), NEW readValue \in BOOLEAN
    PROVE  \E g : Walks(f, readValue, g, Len(f))
<1> DEFINE G == {m \in Nat : \E g : Walks(f, readValue, g, m)}
<1>0. Len(f) \in Nat
  OBVIOUS
<1>1. 0 \in G
  <2> DEFINE why(p) == IF ReadRecord(f, p, readValue).res \in Ends
                       THEN ReadRecord(f, p, readValue).res ELSE "eof"
             g == [p \in Nat |-> [keys |-> <<>>, end |-> p, why |-> why(p)]]
  <2>1. \A p \in Nat : why(p) \in Ends
    BY DEF Ends
  <2>2. ASSUME NEW p \in Nat, p >= Len(f) PROVE why(p) = ReadRecord(f, p, readValue).res /\ why(p) # "ok"
    <3>1. Returned(ReadRecord(f, p, readValue), f, p)
      BY RecordReturned
    <3>2. ~(p + 1 <= Len(f))
      BY <1>0, <2>2
    <3>3. ReadRecord(f, p, readValue).res \in Ends
      BY <3>1, <3>2 DEF Returned
    <3> QED BY <3>3, StopIs
  <2> HIDE DEF why
  <2>3. <<>> \in Seq(Seq(Cells))
    OBVIOUS
  <2>4. g \in [Nat -> WalkSet]
    BY <2>1, <2>3 DEF WalkSet
  <2>5. ASSUME NEW p \in Nat, p + 0 >= Len(f) PROVE g[p] = WalkStep(f, readValue, g, p)
    <3>1. p >= Len(f)
      BY <1>0, <2>5
    <3>2. why(p) = ReadRecord(f, p, readValue).res /\ ReadRecord(f, p, readValue).res # "ok"
      BY <2>2, <3>1
    <3>3. WalkStep(f, readValue, g, p) = [keys |-> <<>>, end |-> p, why |-> why(p)]
      BY <3>2 DEF WalkStep
    <3> QED BY <3>3
  <2>6. Walks(f, readValue, g, 0)
    BY <2>4, <2>5 DEF Walks
  <2> QED BY <2>6
<1>2. ASSUME NEW m \in Nat, m \in G PROVE m + 1 \in G
  <2>1. PICK g : Walks(f, readValue, g, m)
    BY <1>2
  <2> DEFINE h == [p \in Nat |-> IF p + (m + 1) = Len(f) THEN WalkStep(f, readValue, g, p) ELSE g[p]]
  <2>2. g \in [Nat -> WalkSet] /\ \A p \in Nat : p + m >= Len(f) => g[p] = WalkStep(f, readValue, g, p)
    BY <2>1 DEF Walks
  <2>3. h \in [Nat -> WalkSet]
    BY <2>2, WalkStepType
  <2>4. ASSUME NEW p \in Nat, p + (m + 1) >= Len(f) PROVE h[p] = WalkStep(f, readValue, h, p)
    <3>1. \A q \in Nat : q > p => g[q] = h[q]
      BY <1>0, <2>4
    <3> HIDE DEF h
    <3>2. WalkStep(f, readValue, g, p) = WalkStep(f, readValue, h, p)
      BY <3>1, WalkStepSame
    <3>3. h[p] = WalkStep(f, readValue, g, p)
      <4>1. CASE p + (m + 1) = Len(f)
        BY <4>1 DEF h
      <4>2. CASE p + (m + 1) # Len(f)
        <5>1. p + m >= Len(f)
          BY <1>0, <2>4, <4>2
        <5>2. h[p] = g[p]
          BY <4>2 DEF h
        <5> QED BY <2>2, <5>1, <5>2
      <4> QED BY <4>1, <4>2
    <3> QED BY <3>2, <3>3
  <2> HIDE DEF h
  <2>5. Walks(f, readValue, h, m + 1)
    BY <2>3, <2>4 DEF Walks
  <2> QED BY <2>5
<1> HIDE DEF G
<1>3. Nat \subseteq G
  BY <1>1, <1>2, NatInduct
<1> QED BY <1>0, <1>3 DEF G

LEMMA WalkingIs ==
    ASSUME NEW f \in Seq(Cells), NEW readValue \in BOOLEAN
    PROVE  \A p \in Nat : Walking(f, readValue)[p] = WalkStep(f, readValue, Walking(f, readValue), p)
<1> DEFINE Body(g) == [p \in Nat |-> LET r == ReadRecord(f, p, readValue)
                                     IN  IF r.res = "ok"
                                         THEN [g[r.next] EXCEPT !.keys = <<r.key>> \o @]
                                         ELSE [keys |-> <<>>, end |-> p, why |-> r.res]]
           t == CHOOSE g : g = Body(g)
<1>1. PICK g : Walks(f, readValue, g, Len(f))
  BY WalkExists
<1>2. g \in [Nat -> WalkSet] /\ \A p \in Nat : g[p] = WalkStep(f, readValue, g, p)
  <2>1. \A p \in Nat : p + Len(f) >= Len(f)
    OBVIOUS
  <2> QED BY <1>1, <2>1 DEF Walks
<1>3. \A h : Body(h) = [p \in Nat |-> WalkStep(f, readValue, h, p)]
  BY DEF WalkStep
<1>4. Walking(f, readValue) = t
  BY DEF Walking
<1> HIDE DEF Body
<1>5. g = Body(g)
  <2>1. g = [p \in Nat |-> g[p]]
    BY <1>2
  <2>2. g = [p \in Nat |-> WalkStep(f, readValue, g, p)]
    BY <1>2, <2>1
  <2> QED BY <1>3, <2>2
<1>6. t = Body(t)
  BY <1>5
<1> HIDE DEF t
<1>7. t = [p \in Nat |-> WalkStep(f, readValue, t, p)]
  BY <1>3, <1>6
<1>8. \A p \in Nat : t[p] = WalkStep(f, readValue, t, p)
  BY <1>7
<1> QED BY <1>4, <1>8

------------------------------------------------------------------------------
(* What a reader finds                                                      *)

Names(ks) == [i \in 1..Len(ks) |-> KeyOf(ks[i])]

(* The keys of the last m records.                                          *)
LastNames(ks, m) == [j \in 1..m |-> KeyOf(ks[(Len(ks) - m) + j])]

LEMMA KeyOfType == \A k \in Keys : KeyOf(k) \in Seq(Cells) /\ Len(KeyOf(k)) = KeyCells[k]
<1> SUFFICES ASSUME NEW k \in Keys PROVE KeyOf(k) \in Seq(Cells) /\ Len(KeyOf(k)) = KeyCells[k]
  OBVIOUS
<1>1. KeyCells[k] \in Nat
  BY USTableAssumption
<1>2. \A i \in 1..KeyCells[k] : KeyCell(k, i) \in Cells
  BY <1>1, CellTypes
<1> QED BY <1>1, <1>2 DEF KeyOf

LEMMA LastNamesType ==
    ASSUME NEW ks \in Seq(Keys), NEW m \in Nat, m <= Len(ks)
    PROVE  LastNames(ks, m) \in Seq(Seq(Cells)) /\ Len(LastNames(ks, m)) = m
<1>1. \A j \in 1..m : (Len(ks) - m) + j \in 1..Len(ks)
  OBVIOUS
<1>2. \A j \in 1..m : KeyOf(ks[(Len(ks) - m) + j]) \in Seq(Cells)
  BY <1>1, KeyOfType
<1> QED BY <1>2 DEF LastNames

LEMMA OneNameMore ==
    ASSUME NEW ks \in Seq(Keys), NEW m \in Nat, m + 1 <= Len(ks)
    PROVE  LastNames(ks, m + 1) = <<KeyOf(ks[Len(ks) - m])>> \o LastNames(ks, m)
<1> DEFINE n == m + 1
           s == LastNames(ks, m)
           t == LastNames(ks, n)
           name == KeyOf(ks[Len(ks) - m])
<1>1. s \in Seq(Seq(Cells)) /\ Len(s) = m /\ t \in Seq(Seq(Cells)) /\ Len(t) = n /\ n \in Nat
  <2>1. n \in Nat /\ n <= Len(ks) /\ m <= Len(ks)
    OBVIOUS
  <2> HIDE DEF n
  <2> QED BY <2>1, LastNamesType
<1>2. name \in Seq(Cells)
  <2>1. Len(ks) - m \in 1..Len(ks)
    OBVIOUS
  <2> QED BY <2>1, KeyOfType
<1>3. t[1] = name
  <2>1. (Len(ks) - n) + 1 = Len(ks) - m /\ 1 \in 1..n
    OBVIOUS
  <2> QED BY <2>1 DEF LastNames
<1>4. \A j \in 2..n : t[j] = s[j - 1]
  <2> SUFFICES ASSUME NEW j \in 2..n PROVE t[j] = s[j - 1]
    OBVIOUS
  <2>1. j \in 1..n /\ j - 1 \in 1..m /\ (Len(ks) - n) + j = (Len(ks) - m) + (j - 1)
    OBVIOUS
  <2>2. t[j] = KeyOf(ks[(Len(ks) - n) + j])
    BY <2>1 DEF LastNames
  <2>3. s[j - 1] = KeyOf(ks[(Len(ks) - m) + (j - 1)])
    BY <2>1 DEF LastNames
  <2> QED BY <2>1, <2>2, <2>3
<1>5. n = m + 1
  OBVIOUS
<1> HIDE DEF n, s, t, name
<1>6. t = <<name>> \o s
  BY <1>1, <1>2, <1>3, <1>4, <1>5
<1> QED BY <1>6 DEF n, s, t, name

LEMMA AllNames ==
    ASSUME NEW ks \in Seq(Keys)
    PROVE  LastNames(ks, Len(ks)) = Names(ks) /\ LastNames(ks, 0) = <<>>
<1>1. \A j \in 1..Len(ks) : (Len(ks) - Len(ks)) + j = j
  OBVIOUS
<1>2. LastNames(ks, 0) = <<>>
  BY DEF LastNames
<1> QED BY <1>1, <1>2 DEF LastNames, Names

LEMMA NamesType ==
    ASSUME NEW ks \in Seq(Keys)
    PROVE  /\ Names(ks) \in Seq(Seq(Cells)) /\ Len(Names(ks)) = Len(ks)
           /\ Names(ks) \in Seq({KeyOf(k) : k \in Keys})
<1>1. \A i \in 1..Len(ks) : KeyOf(ks[i]) \in {KeyOf(k) : k \in Keys} /\ KeyOf(ks[i]) \in Seq(Cells)
  BY KeyOfType
<1> QED BY <1>1 DEF Names

LEMMA NamesAppend ==
    ASSUME NEW ks \in Seq(Keys), NEW k \in Keys
    PROVE  Names(Append(ks, k)) = Append(Names(ks), KeyOf(k))
<1> DEFINE l == Append(ks, k)
           s == Names(ks)
           t == Names(l)
           name == KeyOf(k)
<1>1. l \in Seq(Keys) /\ Len(l) = Len(ks) + 1 /\ l[Len(ks) + 1] = k
      /\ \A i \in 1..Len(ks) : l[i] = ks[i]
  OBVIOUS
<1> HIDE DEF l
<1>2. /\ s \in Seq(Seq(Cells)) /\ Len(s) = Len(ks)
      /\ t \in Seq(Seq(Cells)) /\ Len(t) = Len(ks) + 1 /\ name \in Seq(Cells)
  BY <1>1, NamesType, KeyOfType
<1>3. \A i \in 1..Len(ks) : t[i] = s[i]
  BY <1>1 DEF Names
<1>4. t[Len(ks) + 1] = name
  BY <1>1 DEF Names
<1> HIDE DEF s, t, name
<1>5. t = Append(s, name)
  BY <1>2, <1>3, <1>4
<1> QED BY <1>5 DEF s, t, name, l

LEMMA WalksFrom ==
    ASSUME opener \in Openers, NEW f, NEW ks, NEW at, Contents(opener, f, ks, at),
           NEW readValue \in BOOLEAN, ReadRecord(f, End(ks, at), readValue).res # "ok",
           NEW m \in Nat, m <= Len(ks)
    PROVE  Walking(f, readValue)[at[(Len(ks) - m) + 1]] =
               [keys |-> LastNames(ks, m), end |-> End(ks, at),
                why |-> ReadRecord(f, End(ks, at), readValue).res]
<1> DEFINE w == ReadRecord(f, End(ks, at), readValue).res
           e == End(ks, at)
           g == Walking(f, readValue)
           G == {n \in Nat : n <= Len(ks) => g[at[(Len(ks) - n) + 1]] =
                                  [keys |-> LastNames(ks, n), end |-> e, why |-> w]}
<1>1. f \in Seq(Cells) /\ Layout(opener, f, ks, at) /\ ks \in Seq(Keys) /\ Len(ks) \in Nat
  BY DEF Contents, Layout
<1>2. at \in [1..(Len(ks) + 1) -> Nat]
  BY <1>1 DEF Layout
<1>3. \A p \in Nat : g[p] = WalkStep(f, readValue, g, p)
  BY <1>1, WalkingIs
<1>4. 0 \in G
  <2>1. at[(Len(ks) - 0) + 1] = e /\ e \in Nat
    <3>1. (Len(ks) - 0) + 1 = Len(ks) + 1 /\ Len(ks) + 1 \in 1..(Len(ks) + 1)
      BY <1>1
    <3> QED BY <1>2, <3>1 DEF End
  <2>2. g[e] = WalkStep(f, readValue, g, e)
    BY <1>3, <2>1
  <2>3. WalkStep(f, readValue, g, e) = [keys |-> <<>>, end |-> e, why |-> w]
    BY DEF WalkStep
  <2>4. LastNames(ks, 0) = <<>>
    BY <1>1, AllNames
  <2> HIDE DEF g, e, w
  <2> QED BY <2>1, <2>2, <2>3, <2>4
<1>5. ASSUME NEW n \in Nat, n \in G PROVE n + 1 \in G
  <2> SUFFICES ASSUME n + 1 <= Len(ks)
      PROVE g[at[(Len(ks) - (n + 1)) + 1]] = [keys |-> LastNames(ks, n + 1), end |-> e, why |-> w]
    OBVIOUS
  <2> DEFINE i == Len(ks) - n
             p == at[i]
             q == at[i + 1]
             name == KeyOf(ks[i])
             s == LastNames(ks, n)
  <2>1. i \in 1..Len(ks) /\ i + 1 \in 1..(Len(ks) + 1) /\ i \in 1..(Len(ks) + 1)
        /\ (Len(ks) - (n + 1)) + 1 = i /\ n <= Len(ks)
    BY <1>1
  <2>2. g[q] = [keys |-> s, end |-> e, why |-> w]
    BY <1>5, <2>1
  <2>3. LastNames(ks, n + 1) = <<name>> \o s
    BY <1>1, OneNameMore
  <2> HIDE DEF i
  <2>4. q = p + Size(opener, ks[i]) /\ Written(opener, f, p, ks[i], Size(opener, ks[i]))
    BY <1>1, <2>1 DEF Layout
  <2>5. p \in Nat /\ q \in Nat /\ ks[i] \in Keys
    BY <1>1, <1>2, <2>1
  <2>6. ReadRecord(f, p, readValue) = [res |-> "ok", next |-> q, key |-> name]
    <3> HIDE DEF p, q
    <3> QED BY <1>1, <2>4, <2>5, ReadsRecord
  <2>7. g[p] = WalkStep(f, readValue, g, p)
    BY <1>3, <2>5
  <2> HIDE DEF g, p, q, name, s, e, w
  <2>8. WalkStep(f, readValue, g, p) = [g[q] EXCEPT !.keys = <<name>> \o @]
    BY <2>6 DEF WalkStep
  <2>9. g[p] = [keys |-> <<name>> \o s, end |-> e, why |-> w]
    <3> DEFINE x == [keys |-> s, end |-> e, why |-> w]
               t == <<name>> \o s
    <3>1. x.keys = s
      OBVIOUS
    <3>2. [x EXCEPT !.keys = <<name>> \o @] = [x EXCEPT !.keys = t]
      BY <3>1
    <3> HIDE DEF t
    <3>3. [x EXCEPT !.keys = t] = [keys |-> t, end |-> e, why |-> w]
      OBVIOUS
    <3> QED BY <2>2, <2>7, <2>8, <3>2, <3>3 DEF t
  <2>10. at[(Len(ks) - (n + 1)) + 1] = p
    BY <2>1 DEF p
  <2> QED BY <2>3, <2>9, <2>10
<1> HIDE DEF G
<1>6. Nat \subseteq G
  BY <1>4, <1>5, NatInduct
<1>7. m \in G
  BY <1>6
<1> QED BY <1>7 DEF G

(* Where no record can be read behind the records, a reader finds them all, *)
(* and stops there.                                                         *)
LEMMA WalkIs ==
    ASSUME opener \in Openers, NEW f, NEW ks, NEW at, Contents(opener, f, ks, at),
           NEW readValue \in BOOLEAN, ReadRecord(f, End(ks, at), readValue).res # "ok"
    PROVE  /\ KeysFound(f, readValue) = Names(ks)
           /\ LastValid(f, readValue) = End(ks, at)
           /\ ReadEnds(f, readValue) = ReadRecord(f, End(ks, at), readValue).res
<1> DEFINE w == ReadRecord(f, End(ks, at), readValue).res
           m == Len(ks)
<1>1. ks \in Seq(Keys) /\ m \in Nat /\ at[1] = 0
  BY DEF Contents, Layout
<1>2. Walking(f, readValue)[at[(m - m) + 1]] = [keys |-> LastNames(ks, m), end |-> End(ks, at), why |-> w]
  <2>1. m \in Nat /\ m <= Len(ks)
    BY <1>1
  <2> QED BY <2>1, WalksFrom
<1>3. (m - m) + 1 = 1 /\ LastNames(ks, m) = Names(ks)
  BY <1>1, AllNames
<1> HIDE DEF w, m
<1>4. Walk(f, readValue) = [keys |-> Names(ks), end |-> End(ks, at), why |-> w]
  BY <1>1, <1>2, <1>3 DEF Walk
<1> QED BY <1>4 DEF KeysFound, LastValid, ReadEnds, w

------------------------------------------------------------------------------
(* The inductive invariant                                                  *)

(* The writes of a record, and how many of its cells are there before the   *)
(* w-th of them.                                                            *)
Parts(o, k) == << <<LenCell(KeyCells[k])>>, KeyOf(k),
                  <<LenCell(ValCells[o][k])>>, [i \in 1..ValCells[o][k] |-> ValCell(k, i)] >>
Before(o, k, w) ==
    IF w = 1 THEN 0
    ELSE IF w = 2 THEN 1
    ELSE IF w = 3 THEN KeyCells[k] + 1
    ELSE IF w = 4 THEN KeyCells[k] + 2
    ELSE Size(o, k)

(* No Append is under way: the head is behind the records, all of them known. *)
Idle(ks, at) ==
    /\ mode = "append" /\ key = NoKey /\ pending = <<>>
    /\ pos = End(ks, at) /\ known = Names(ks)

(* The next is write w of a record that is not whole; or it is that of an    *)
(* empty value, and the record is whole before Append acknowledges it.       *)
Appending(ks, at, w) ==
    /\ mode = "append" /\ key \in Keys /\ pending = SubSeq(Parts(opener, key), w, 4)
    /\ \/ /\ Before(opener, key, w) < Size(opener, key)
          /\ Written(opener, file, End(ks, at), key, Before(opener, key, w))
          /\ pos = End(ks, at) + Before(opener, key, w) /\ known = Names(ks)
       \/ /\ w = 4 /\ ValCells[opener][key] = 0
          /\ pos = End(ks, at) /\ Names(ks) = Append(known, KeyOf(key))

(* Nobody writes: the last Append may have been cut off after its last byte, *)
(* but not if the file was closed, which left the sentinel behind it.        *)
Left(ks, at) ==
    /\ mode # "append" /\ key = NoKey /\ pending = <<>>
    /\ known = Names(ks) \/ \E k \in Keys : Names(ks) = Append(known, KeyOf(k))
    /\ mode = "closed" /\ sealed =>
           /\ known = Names(ks)
           /\ End(ks, at) + 1 <= Len(file) /\ file[End(ks, at) + 1] = LenCell(0)

IsAt(ks, at) ==
    /\ Contents(opener, file, ks, at)
    /\ Idle(ks, at) \/ (\E w \in 1..4 : Appending(ks, at, w)) \/ Left(ks, at)

Simple ==
    /\ mode \in {"closed", "append", "panicked"} /\ pos \in Nat /\ sealed \in BOOLEAN
    /\ opens \in 0..MaxOpens /\ known \in Seq({KeyOf(k) : k \in Keys})

UInv == Simple /\ \E ks, at : IsAt(ks, at)

LEMMA PartsAre == \A k \in Keys : Writes(k) = Parts(opener, k)
BY DEF Writes, ValueOf, Parts

(* What each of the four writes puts where.                                 *)
LEMMA PartIs ==
    ASSUME NEW o \in Openers, NEW k \in Keys, NEW w \in 1..4
    PROVE  LET cells == Parts(o, k)[w]
           IN  /\ cells \in Seq(Cells) /\ Before(o, k, w) \in Nat
               /\ Before(o, k, w) + Len(cells) = Before(o, k, w + 1)
               /\ \A j \in 1..Len(cells) : cells[j] = Cell(o, k, Before(o, k, w) + j)
<1> DEFINE K == KeyCells[k]
           V == ValCells[o][k]
           val == [i \in 1..V |-> ValCell(k, i)]
<1>0. K \in Nat \ {0} /\ V \in Nat
  BY Lengths
<1>1. CASE w = 1
  <2>1. LenCell(K) \in Cells
    BY <1>0, CellTypes
  <2>2. Parts(o, k)[w] = <<LenCell(K)>> /\ Before(o, k, w) = 0 /\ Before(o, k, w + 1) = 1
    BY <1>1 DEF Parts, Before
  <2>3. <<LenCell(K)>> \in Seq(Cells) /\ Len(<<LenCell(K)>>) = 1
        /\ <<LenCell(K)>>[1] = Cell(o, k, 1)
    BY <2>1, CellIs
  <2> QED BY <2>2, <2>3
<1>2. CASE w = 2
  <2>1. Parts(o, k)[w] = KeyOf(k) /\ Before(o, k, w) = 1 /\ Before(o, k, w + 1) = K + 1
    BY <1>2 DEF Parts, Before
  <2>2. KeyOf(k) \in Seq(Cells) /\ Len(KeyOf(k)) = K
    BY KeyOfType
  <2>3. \A j \in 1..K : KeyOf(k)[j] = Cell(o, k, 1 + j)
    BY CellIs DEF KeyOf
  <2> QED BY <1>0, <2>1, <2>2, <2>3
<1>3. CASE w = 3
  <2>1. LenCell(V) \in Cells
    BY <1>0, CellTypes
  <2>2. Parts(o, k)[w] = <<LenCell(V)>> /\ Before(o, k, w) = K + 1 /\ Before(o, k, w + 1) = K + 2
    BY <1>3 DEF Parts, Before
  <2>3. <<LenCell(V)>> \in Seq(Cells) /\ Len(<<LenCell(V)>>) = 1
    BY <2>1
  <2>4. <<LenCell(V)>>[1] = Cell(o, k, (K + 1) + 1)
    <3>1. (K + 1) + 1 = K + 2
      BY <1>0
    <3> QED BY <3>1, CellIs
  <2> QED BY <1>0, <2>2, <2>3, <2>4
<1>4. CASE w = 4
  <2>1. Parts(o, k)[w] = val /\ Before(o, k, w) = K + 2 /\ Before(o, k, w + 1) = K + 2 + V
    BY <1>0, <1>4 DEF Parts, Before, Size
  <2>2. val \in Seq(Cells) /\ Len(val) = V
    <3>1. \A i \in 1..V : ValCell(k, i) \in Cells
      BY <1>0, CellTypes
    <3> QED BY <1>0, <3>1
  <2>3. \A j \in 1..V : val[j] = Cell(o, k, (K + 2) + j)
    BY CellIs
  <2> HIDE DEF val
  <2> QED BY <1>0, <2>1, <2>2, <2>3
<1> QED BY <1>1, <1>2, <1>3, <1>4

LEMMA BeforeIs ==
    ASSUME NEW o \in Openers, NEW k \in Keys
    PROVE  /\ Before(o, k, 1) = 0 /\ Before(o, k, 5) = Size(o, k)
           /\ \A w \in 1..5 : Before(o, k, w) \in Nat /\ Before(o, k, w) <= Size(o, k)
           /\ \A w \in 1..3 : Before(o, k, w) < Size(o, k)
           /\ Before(o, k, 4) = Size(o, k) => ValCells[o][k] = 0
<1>1. KeyCells[k] \in Nat \ {0} /\ ValCells[o][k] \in Nat
  BY Lengths
<1>2. Size(o, k) = KeyCells[k] + ValCells[o][k] + 2
  BY DEF Size
<1> QED BY <1>1, <1>2 DEF Before

(* What is still to be written: its first, the rest, and how much that is.  *)
LEMMA PartsLeft ==
    ASSUME NEW o \in Openers, NEW k \in Keys, NEW w \in 1..4
    PROVE  LET p == SubSeq(Parts(o, k), w, 4)
           IN  /\ p \in Seq(Seq(Cells)) /\ Len(p) = 5 - w
               /\ Head(p) = Parts(o, k)[w]
               /\ w < 4 => Tail(p) = SubSeq(Parts(o, k), w + 1, 4)
               /\ w = 4 => Tail(p) = <<>>
<1> DEFINE s == Parts(o, k)
<1>1. s \in Seq(Seq(Cells)) /\ Len(s) = 4
  <2>1. Len(s) = 4 /\ s = << s[1], s[2], s[3], s[4] >>
    BY DEF Parts
  <2>2. s[1] \in Seq(Cells) /\ s[2] \in Seq(Cells) /\ s[3] \in Seq(Cells) /\ s[4] \in Seq(Cells)
    BY PartIs
  <2> DEFINE S == Seq(Cells)
  <2> HIDE DEF s, S
  <2>3. s[1] \in S /\ s[2] \in S /\ s[3] \in S /\ s[4] \in S
    BY <2>2 DEF S
  <2>4. << s[1], s[2], s[3], s[4] >> \in Seq(S)
    BY <2>3
  <2> QED BY <2>1, <2>4 DEF S
<1> HIDE DEF s
<1> DEFINE S == Seq(Cells)
           t == SubSeq(s, w, 4)
<1>5. s \in Seq(S)
  BY <1>1
<1> HIDE DEF S
<1>6. t \in Seq(S) /\ Len(t) = 5 - w
  <2>1. Len(t) = 5 - w
    BY <1>1
  <2>2. \A i \in 1..(5 - w) : t[i] = s[(w + i) - 1] /\ (w + i) - 1 \in 1..4
    BY <1>1
  <2>3. \A i \in 1..4 : s[i] \in S
    BY <1>1, <1>5
  <2>4. t = [i \in 1..(5 - w) |-> s[(w + i) - 1]]
    BY <1>1
  <2> QED BY <2>1, <2>2, <2>3, <2>4
<1>7. t[1] = s[w]
  BY <1>1
<1>8. Head(t) = t[1]
  BY <1>6
<1>2. t \in Seq(Seq(Cells)) /\ Len(t) = 5 - w /\ Head(t) = s[w]
  BY <1>6, <1>7, <1>8 DEF S
<1>3. w < 4 => Tail(SubSeq(s, w, 4)) = SubSeq(s, w + 1, 4)
  BY <1>1
<1>4. w = 4 => Tail(SubSeq(s, w, 4)) = <<>>
  BY <1>1
<1> QED BY <1>2, <1>3, <1>4 DEF s

LEMMA AllParts == \A o \in Openers, k \in Keys : SubSeq(Parts(o, k), 1, 4) = Parts(o, k)
<1> SUFFICES ASSUME NEW o \in Openers, NEW k \in Keys
    PROVE SubSeq(Parts(o, k), 1, 4) = Parts(o, k)
  OBVIOUS
<1> DEFINE s == Parts(o, k)
<1>1. Len(s) = 4 /\ s = << s[1], s[2], s[3], s[4] >>
  BY DEF Parts
<1> HIDE DEF s
<1>2. SubSeq(s, 1, 4) = s
  BY <1>1
<1> QED BY <1>2 DEF s

------------------------------------------------------------------------------
(* The invariant is inductive                                               *)

NoneAt == [i \in 1..1 |-> 0]

LEMMA EmptyFile ==
    /\ \A o \in Openers : Contents(o, <<>>, <<>>, NoneAt)
    /\ End(<<>>, NoneAt) = 0 /\ Names(<<>>) = <<>>
<1>1. Len(<<>>) = 0 /\ <<>> \in Seq(Keys) /\ <<>> \in Seq(Cells)
  OBVIOUS
<1>2. NoneAt \in [1..(Len(<<>>) + 1) -> Nat] /\ NoneAt[1] = 0 /\ End(<<>>, NoneAt) = 0
  BY <1>1 DEF NoneAt, End
<1>3. Names(<<>>) = <<>>
  BY DEF Names
<1>4. \A o \in Openers : Layout(o, <<>>, <<>>, NoneAt) /\ Leftover(o, <<>>, End(<<>>, NoneAt))
  BY <1>1, <1>2 DEF Layout, Leftover
<1> QED BY <1>1, <1>2, <1>3, <1>4 DEF Contents

LEMMA UInvInit == Init => UInv
<1> SUFFICES ASSUME Init PROVE UInv
  OBVIOUS
<1>1. IsAt(<<>>, NoneAt)
  BY EmptyFile DEF Init, IsAt, Left
<1>2. Simple
  <2>1. 0 \in 0..MaxOpens
    BY USTableAssumption
  <2>2. <<>> \in Seq({KeyOf(k) : k \in Keys})
    OBVIOUS
  <2> QED BY <2>1, <2>2 DEF Init, Simple
<1> QED BY <1>1, <1>2 DEF UInv

(* What readers find in the file, wherever its users are.                   *)
LEMMA FoundIs ==
    ASSUME WholeValues, NEW ks, NEW at, IsAt(ks, at),
           NEW readValue \in BOOLEAN, readValue \/ opener = "index"
    PROVE  /\ KeysFound(file, readValue) = Names(ks)
           /\ LastValid(file, readValue) = End(ks, at)
<1>1. Contents(opener, file, ks, at) /\ opener \in Openers
  BY DEF IsAt, Contents
<1>2. ReadRecord(file, End(ks, at), readValue).res # "ok"
  BY <1>1, ReadsLeftover
<1> QED BY <1>1, <1>2, WalkIs

LEMMA ContentsAre ==
    ASSUME NEW ks, NEW at, IsAt(ks, at)
    PROVE  /\ opener \in Openers /\ file \in Seq(Cells) /\ ks \in Seq(Keys)
           /\ Contents(opener, file, ks, at)
           /\ End(ks, at) \in Nat /\ End(ks, at) <= Len(file)
           /\ Names(ks) \in Seq({KeyOf(k) : k \in Keys})
<1>1. /\ opener \in Openers /\ file \in Seq(Cells) /\ ks \in Seq(Keys)
      /\ Contents(opener, file, ks, at) /\ Layout(opener, file, ks, at)
  BY DEF IsAt, Contents, Layout
<1> QED BY <1>1, LayoutEnds, NamesType

LEMMA IdleAt ==
    ASSUME NEW ks, NEW at, IsAt(ks, at), mode = "append", key = NoKey
    PROVE  Idle(ks, at)
BY USTableAssumption DEF IsAt, Appending, Left

LEMMA AppendingAt ==
    ASSUME NEW ks, NEW at, IsAt(ks, at), mode = "append", key # NoKey
    PROVE  \E w \in 1..4 : Appending(ks, at, w)
BY DEF IsAt, Idle, Left

LEMMA LeftAt ==
    ASSUME NEW ks, NEW at, IsAt(ks, at), mode # "append"
    PROVE  Left(ks, at)
BY DEF IsAt, Idle, Appending

LEMMA OpenOverwriteStep ==
    ASSUME UInv, OpenOverwrite
    PROVE  IsAt(<<>>, NoneAt)' /\ Simple'
<1>1. PICK ks, at : IsAt(ks, at)
  BY DEF UInv
<1>2. opener \in Openers /\ Left(ks, at) /\ Simple
  BY <1>1, ContentsAre, LeftAt DEF OpenOverwrite, Opening, UInv
<1>3. IsAt(<<>>, NoneAt)'
  BY <1>2, EmptyFile DEF OpenOverwrite, Opening, IsAt, Idle, Left
<1>4. Simple'
  <2>1. opens < MaxOpens /\ opens' = opens + 1 /\ opens \in 0..MaxOpens
    BY <1>2 DEF OpenOverwrite, Opening, Simple
  <2>2. opens' \in 0..MaxOpens
    BY <2>1, USTableAssumption
  <2>3. <<>> \in Seq({KeyOf(k) : k \in Keys})
    OBVIOUS
  <2>4. mode' = "append" /\ pos' = 0 /\ sealed' = FALSE /\ known' = <<>>
    BY DEF OpenOverwrite
  <2> QED BY <2>2, <2>3, <2>4 DEF Simple
<1> QED BY <1>3, <1>4

(* Either open finds the records, and puts the head behind them.            *)
LEMMA OpenStep ==
    ASSUME WholeValues, UInv, OpenScan \/ OpenIndex
    PROVE  \E ks, at : IsAt(ks, at) /\ IsAt(ks, at)' /\ Simple'
<1>1. PICK ks, at : IsAt(ks, at)
  BY DEF UInv
<1>2. mode = "closed" /\ opens < MaxOpens /\ opens' = opens + 1 /\ mode' = "append"
      /\ opener' = opener /\ pending' = pending /\ key' = key /\ file' = file /\ sealed' = sealed
  BY DEF OpenScan, OpenIndex, Opening
<1>3. Left(ks, at) /\ Simple
  BY <1>1, <1>2, LeftAt DEF UInv
<1>4. pos' = End(ks, at) /\ known' = Names(ks)
  <2>1. CASE OpenScan
    <3>1. SeekLastValid(file) = LastValid(file, TRUE)
      BY DEF SeekLastValid, SeekSentinel
    <3>2. KeysFound(file, TRUE) = Names(ks) /\ LastValid(file, TRUE) = End(ks, at)
      BY <1>1, FoundIs
    <3> QED BY <2>1, <3>1, <3>2 DEF OpenScan
  <2>2. CASE OpenIndex
    <3>1. opener = "index"
      BY <2>2 DEF OpenIndex
    <3>2. KeysFound(file, FALSE) = Names(ks) /\ LastValid(file, FALSE) = End(ks, at)
      BY <1>1, <3>1, FoundIs
    <3> QED BY <2>2, <3>2 DEF OpenIndex
  <2> QED BY <2>1, <2>2
<1>5. Idle(ks, at)'
  BY <1>2, <1>3, <1>4 DEF Idle, Left
<1>6. IsAt(ks, at)'
  BY <1>1, <1>2, <1>5 DEF IsAt
<1>7. Simple'
  <2>1. End(ks, at) \in Nat /\ Names(ks) \in Seq({KeyOf(k) : k \in Keys})
    BY <1>1, ContentsAre
  <2>2. known' \in Seq({KeyOf(k) : k \in Keys})
    BY <1>4, <2>1
  <2>3. opens' \in 0..MaxOpens
    BY <1>2, <1>3, USTableAssumption DEF Simple
  <2> QED BY <1>2, <1>3, <1>4, <2>1, <2>2, <2>3 DEF Simple
<1> QED BY <1>1, <1>6, <1>7

LEMMA OpenPanicsStep ==
    ASSUME UInv, OpenPanics
    PROVE  \E ks, at : IsAt(ks, at) /\ IsAt(ks, at)' /\ Simple'
<1>1. PICK ks, at : IsAt(ks, at)
  BY DEF UInv
<1>2. mode = "closed" /\ opens < MaxOpens /\ opens' = opens + 1 /\ mode' = "panicked"
      /\ UNCHANGED <<opener, pending, key, file, pos, sealed, known>>
  BY DEF OpenPanics, Opening
<1>3. Left(ks, at) /\ Simple
  BY <1>1, <1>2, LeftAt DEF UInv
<1>4. Left(ks, at)'
  BY <1>2, <1>3 DEF Left
<1>5. IsAt(ks, at)'
  BY <1>1, <1>2, <1>4 DEF IsAt
<1>6. Simple'
  <2>1. opens' \in 0..MaxOpens
    BY <1>2, <1>3, USTableAssumption DEF Simple
  <2> QED BY <1>2, <1>3, <2>1 DEF Simple
<1> QED BY <1>1, <1>5, <1>6

LEMMA StartAppendStep ==
    ASSUME UInv, NEW k \in Keys, StartAppend(k)
    PROVE  \E ks, at : IsAt(ks, at) /\ IsAt(ks, at)' /\ Simple'
<1>1. PICK ks, at : IsAt(ks, at)
  BY DEF UInv
<1>2. mode = "append" /\ key = NoKey /\ key' = k /\ pending' = Writes(k)
      /\ UNCHANGED <<opener, file, pos, mode, sealed, known, opens>>
  BY DEF StartAppend
<1>3. Idle(ks, at) /\ Simple /\ opener \in Openers /\ End(ks, at) \in Nat
      /\ End(ks, at) <= Len(file) /\ Contents(opener, file, ks, at)
  BY <1>1, <1>2, IdleAt, ContentsAre DEF UInv
<1>4. pending' = SubSeq(Parts(opener, k), 1, 4)
  BY <1>2, <1>3, PartsAre, AllParts
<1>5. Before(opener, k, 1) = 0 /\ Before(opener, k, 1) < Size(opener, k)
  BY <1>3, BeforeIs
<1>6. Written(opener, file, End(ks, at), k, Before(opener, k, 1))
  <2>1. Written(opener, file, End(ks, at), k, 0)
    BY <1>3 DEF Written
  <2> QED BY <1>5, <2>1
<1>7. pos = End(ks, at) + Before(opener, k, 1)
  BY <1>3, <1>5 DEF Idle
<1>8. Appending(ks, at, 1)'
  BY <1>2, <1>3, <1>4, <1>5, <1>6, <1>7 DEF Appending, Idle
<1>9. IsAt(ks, at)'
  BY <1>2, <1>3, <1>8 DEF IsAt
<1>10. Simple'
  BY <1>2, <1>3 DEF Simple
<1> QED BY <1>1, <1>9, <1>10


(* A write call: a record is begun, goes on, or is whole; or the empty value *)
(* of a record that already is.                                             *)
WriteEffect(ks, at, ks1, at1) ==
    \/ ks1 = ks /\ at1 = at
    \/ ks1 = Append(ks, key) /\ at1 = OneMore(ks, at, Size(opener, key))

LEMMA WriteStep ==
    ASSUME UInv, Write
    PROVE  \E ks, at, ks1, at1 : /\ IsAt(ks, at) /\ IsAt(ks1, at1)' /\ Simple'
                                 /\ key \in Keys /\ WriteEffect(ks, at, ks1, at1)
<1>1. PICK ks, at : IsAt(ks, at)
  BY DEF UInv
<1>2. mode = "append" /\ key # NoKey /\ mode' = "append" /\ UNCHANGED <<opener, sealed, opens>>
  BY DEF Write
<1>3. PICK w \in 1..4 : Appending(ks, at, w)
  BY <1>1, <1>2, AppendingAt
<1> DEFINE e == End(ks, at)
           k == key
           o == opener
           cells == Parts(o, k)[w]
           m == Before(o, k, w)
           z == Size(o, k)
<1>4. /\ o \in Openers /\ file \in Seq(Cells) /\ ks \in Seq(Keys) /\ Contents(o, file, ks, at)
      /\ e \in Nat /\ e <= Len(file) /\ Names(ks) \in Seq({KeyOf(l) : l \in Keys})
  BY <1>1, ContentsAre
<1>5. k \in Keys /\ pending = SubSeq(Parts(o, k), w, 4) /\ Simple
  BY <1>3 DEF Appending, UInv
<1>6. Len(pending) = 5 - w /\ Head(pending) = cells
      /\ (w < 4 => Tail(pending) = SubSeq(Parts(o, k), w + 1, 4)) /\ (w = 4 => Tail(pending) = <<>>)
  BY <1>4, <1>5, PartsLeft
<1>7. /\ cells \in Seq(Cells) /\ m \in Nat /\ m + Len(cells) = Before(o, k, w + 1)
      /\ \A j \in 1..Len(cells) : cells[j] = Cell(o, k, m + j)
  BY <1>4, <1>5, PartIs
<1>8. file' = Overwrite(file, pos, cells) /\ pos' = pos + Len(cells) /\ pending' = Tail(pending)
  BY <1>6 DEF Write
<1>9. CASE w = 4
  <2>1. key' = NoKey /\ known' = Append(known, KeyOf(k)) /\ pending' = <<>>
    <3>1. Len(pending) = 1
      BY <1>6, <1>9
    <3> QED BY <1>6, <1>8, <1>9, <3>1 DEF Write
  <2>2. CASE pos = e + m /\ m < z /\ Written(o, file, e, k, m) /\ known = Names(ks)
    <3>0. PICK ks1, at1 : ks1 = Append(ks, k) /\ at1 = OneMore(ks, at, z)
      OBVIOUS
    <3>1. m + Len(cells) = z
      BY <1>4, <1>5, <1>7, <1>9, BeforeIs
    <3>2. Put(o, file, ks, at, k, m, cells)
      <4>1. m + Len(cells) <= z
        BY <1>4, <1>5, <3>1, Lengths
      <4> QED BY <1>4, <1>5, <1>7, <2>2, <4>1 DEF Put
    <3>3. Contents(o, Overwrite(file, e + m, cells), ks1, at1) /\ End(ks1, at1) = e + z
      BY <3>0, <3>1, <3>2, PutWhole
    <3>4. Contents(o, file', ks1, at1)
      BY <1>8, <2>2, <3>3
    <3>5. pos' = End(ks1, at1)
      BY <1>4, <1>7, <1>8, <2>2, <3>1, <3>3
    <3>6. known' = Names(ks1)
      BY <1>4, <1>5, <2>1, <2>2, <3>0, NamesAppend
    <3> HIDE DEF e, m, z, cells
    <3>7. IsAt(ks1, at1)'
      BY <1>2, <2>1, <3>4, <3>5, <3>6 DEF IsAt, Idle
    <3>8. ks1 \in Seq(Keys)
      BY <1>4, <1>5, <3>0
    <3>9. Simple'
      <4>1. Names(ks1) \in Seq({KeyOf(l) : l \in Keys})
        BY <3>8, NamesType
      <4>2. known' \in Seq({KeyOf(l) : l \in Keys})
        BY <3>6, <4>1
      <4>3. pos' \in Nat
        BY <1>4, <1>5, <3>3, <3>5, Lengths DEF z
      <4> QED BY <1>2, <1>5, <4>2, <4>3 DEF Simple
    <3>10. WriteEffect(ks, at, ks1, at1)
      BY <3>0 DEF WriteEffect, z
    <3> QED BY <1>1, <1>5, <3>7, <3>9, <3>10
  <2>3. CASE ValCells[o][k] = 0 /\ pos = e /\ Names(ks) = Append(known, KeyOf(k))
    <3>1. cells = <<>>
      <4>1. cells = [i \in 1..0 |-> ValCell(k, i)]
        BY <1>9, <2>3 DEF Parts
      <4> QED BY <4>1
    <3>2. file' = file /\ pos' = e
      <4>1. file' = file
        BY <1>4, <1>8, <2>3, <3>1, OverwriteNothing
      <4>2. Len(cells) = 0
        BY <3>1
      <4> QED BY <1>4, <1>8, <2>3, <4>1, <4>2
    <3>3. known' = Names(ks)
      BY <2>1, <2>3
    <3>4. IsAt(ks, at)'
      BY <1>2, <1>4, <2>1, <3>2, <3>3 DEF IsAt, Idle
    <3>5. Simple'
      <4>1. known' \in Seq({KeyOf(l) : l \in Keys})
        BY <1>4, <3>3
      <4> QED BY <1>2, <1>4, <1>5, <3>2, <4>1 DEF Simple
    <3>6. WriteEffect(ks, at, ks, at)
      BY DEF WriteEffect
    <3> QED BY <1>1, <1>5, <3>4, <3>5, <3>6
  <2> QED BY <1>3, <2>2, <2>3 DEF Appending
<1>10. CASE w < 4
  <2>1. /\ UNCHANGED <<key, known>> /\ pending' = SubSeq(Parts(o, k), w + 1, 4)
        /\ w + 1 \in 1..4 /\ w # 4
    <3>1. Len(pending) # 1
      BY <1>6, <1>10
    <3> QED BY <1>6, <1>8, <1>10, <3>1 DEF Write
  <2>2. pos = e + m /\ m < z /\ Written(o, file, e, k, m) /\ known = Names(ks)
    BY <1>3, <2>1 DEF Appending
  <2> DEFINE n == Before(o, k, w + 1)
  <2>3. n \in Nat /\ n <= z /\ z \in Nat /\ m + Len(cells) = n
    <3>1. w + 1 \in 1..5
      BY <2>1
    <3> QED BY <1>4, <1>5, <1>7, <3>1, BeforeIs, Lengths
  <2>4. Put(o, file, ks, at, k, m, cells)
    BY <1>4, <1>5, <1>7, <2>2, <2>3 DEF Put
  <2>5. pos' = e + n /\ file' = Overwrite(file, e + m, cells)
    BY <1>4, <1>7, <1>8, <2>2, <2>3
  <2>6. CASE n < z
    <3>1. Contents(o, file', ks, at) /\ Written(o, file', e, k, n)
      BY <2>3, <2>4, <2>5, <2>6, PutPart
    <3>2. Appending(ks, at, w + 1)'
      BY <1>2, <1>5, <2>1, <2>2, <2>5, <2>6, <3>1 DEF Appending
    <3>3. IsAt(ks, at)'
      BY <1>2, <2>1, <3>1, <3>2 DEF IsAt
    <3>4. Simple'
      <4>1. pos' \in Nat
        BY <1>4, <2>3, <2>5
      <4> QED BY <1>2, <1>5, <2>1, <4>1 DEF Simple
    <3>5. WriteEffect(ks, at, ks, at)
      BY DEF WriteEffect
    <3> QED BY <1>1, <1>5, <3>3, <3>4, <3>5
  <2>7. CASE n = z
    <3>0. PICK ks1, at1 : ks1 = Append(ks, k) /\ at1 = OneMore(ks, at, z)
      OBVIOUS
    <3>1. w + 1 = 4 /\ ValCells[o][k] = 0
      <4>1. ~(w + 1 \in 1..3)
        BY <1>4, <1>5, <2>3, <2>7, BeforeIs
      <4>2. w + 1 = 4
        BY <2>1, <4>1
      <4> QED BY <1>4, <1>5, <2>7, <4>2, BeforeIs
    <3>2. Contents(o, Overwrite(file, e + m, cells), ks1, at1) /\ End(ks1, at1) = e + z
      BY <2>3, <2>4, <2>7, <3>0, PutWhole
    <3>3. Contents(o, file', ks1, at1) /\ pos' = End(ks1, at1)
      BY <2>5, <2>7, <3>2
    <3>4. Names(ks1) = Append(known, KeyOf(k))
      BY <1>4, <1>5, <2>2, <3>0, NamesAppend
    <3> HIDE DEF e, m, z, n, cells
    <3>5. Appending(ks1, at1, 4)'
      BY <1>2, <1>5, <2>1, <3>1, <3>3, <3>4 DEF Appending
    <3>6. IsAt(ks1, at1)'
      BY <1>2, <3>3, <3>5 DEF IsAt
    <3>7. Simple'
      <4>1. pos' \in Nat
        BY <1>4, <2>3, <2>5
      <4> QED BY <1>2, <1>5, <2>1, <4>1 DEF Simple
    <3>8. WriteEffect(ks, at, ks1, at1)
      BY <3>0 DEF WriteEffect, z
    <3> QED BY <1>1, <1>5, <3>6, <3>7, <3>8
  <2> QED BY <2>3, <2>6, <2>7
<1> QED BY <1>9, <1>10


LEMMA CloseStep ==
    ASSUME UInv, Close
    PROVE  \E ks, at : IsAt(ks, at) /\ IsAt(ks, at)' /\ Simple'
<1>1. PICK ks, at : IsAt(ks, at)
  BY DEF UInv
<1>2. mode = "append" /\ key = NoKey /\ mode' = "closed" /\ pos' = 0 /\ sealed' = TRUE
      /\ UNCHANGED <<opener, pending, key, known, opens>>
  BY DEF Close
<1>3. Idle(ks, at) /\ Simple /\ Contents(opener, file, ks, at)
  BY <1>1, <1>2, IdleAt, ContentsAre DEF UInv
<1>4. file' = Overwrite(file, End(ks, at), Sentinel)
  BY <1>3 DEF Close, Idle
<1>5. /\ Contents(opener, file', ks, at)
      /\ End(ks, at) + 1 <= Len(file') /\ file'[End(ks, at) + 1] = LenCell(0)
  <2>1. Sentinel \in {<<>>, <<Sentinel[1]>>, Sentinel}
    OBVIOUS
  <2> QED BY <1>3, <1>4, <2>1, PutSentinel
<1>6. Left(ks, at)'
  BY <1>2, <1>3, <1>5 DEF Left, Idle
<1>7. IsAt(ks, at)'
  BY <1>2, <1>5, <1>6 DEF IsAt
<1>8. Simple'
  BY <1>2, <1>3 DEF Simple
<1> QED BY <1>1, <1>7, <1>8

(* Some first cells of the next write: never a whole record.                *)
LEMMA CrashStep ==
    ASSUME UInv, Crash
    PROVE  \E ks, at : IsAt(ks, at) /\ IsAt(ks, at)' /\ Simple'
<1>1. PICK ks, at : IsAt(ks, at)
  BY DEF UInv
<1>2. mode = "append" /\ mode' = "closed" /\ pos' = 0 /\ sealed' = FALSE /\ pending' = <<>>
      /\ key' = NoKey /\ UNCHANGED <<opener, known, opens>>
  BY DEF Crash
<1>3. /\ opener \in Openers /\ file \in Seq(Cells) /\ Contents(opener, file, ks, at)
      /\ End(ks, at) \in Nat /\ End(ks, at) <= Len(file) /\ Simple
  BY <1>1, ContentsAre DEF UInv
<1>4. Contents(opener, file', ks, at)
      /\ (known = Names(ks) \/ \E k \in Keys : Names(ks) = Append(known, KeyOf(k)))
  <2>1. CASE key = NoKey
    <3>1. Idle(ks, at)
      BY <1>1, <1>2, <2>1, IdleAt
    <3>2. PICK cells \in {<<>>, <<Sentinel[1]>>} : file' = Overwrite(file, pos, cells)
      BY <2>1 DEF Crash
    <3>3. cells \in {<<>>, <<Sentinel[1]>>, Sentinel} /\ pos = End(ks, at) /\ known = Names(ks)
      BY <3>1, <3>2 DEF Idle
    <3>4. Contents(opener, Overwrite(file, End(ks, at), cells), ks, at)
      BY <1>3, <3>3, PutSentinel
    <3> QED BY <3>2, <3>3, <3>4
  <2>2. CASE key # NoKey
    <3>1. PICK w \in 1..4 : Appending(ks, at, w)
      BY <1>1, <1>2, <2>2, AppendingAt
    <3> DEFINE e == End(ks, at)
               k == key
               o == opener
               part == Parts(o, k)[w]
               m == Before(o, k, w)
               z == Size(o, k)
    <3>2. k \in Keys /\ Head(pending) = part
      BY <1>3, <3>1, PartsLeft DEF Appending
    <3>3. PICK cells : /\ cells = <<>> \/ \E n \in 0..(Len(part) - 1) : cells = SubSeq(part, 1, n)
                       /\ file' = Overwrite(file, pos, cells)
      BY <2>2, <3>2 DEF Crash
    <3>4. /\ part \in Seq(Cells) /\ m \in Nat /\ m + Len(part) = Before(o, k, w + 1)
          /\ \A j \in 1..Len(part) : part[j] = Cell(o, k, m + j)
      BY <1>3, <3>2, PartIs
    <3>5. m + Len(part) <= z /\ z \in Nat
      <4>1. w + 1 \in 1..5
        OBVIOUS
      <4> QED BY <1>3, <3>2, <3>4, <4>1, BeforeIs, Lengths
    <3> HIDE DEF e, k, o, part, m, z
    <3>6. CASE pos = e + m /\ m < z /\ Written(o, file, e, k, m) /\ known = Names(ks)
      <4>1. /\ cells \in Seq(Cells) /\ m + Len(cells) < z
            /\ \A j \in 1..Len(cells) : cells[j] = Cell(o, k, m + j)
        <5>1. CASE cells = <<>>
          BY <3>4, <3>5, <3>6, <5>1
        <5>2. ASSUME NEW n \in 0..(Len(part) - 1), cells = SubSeq(part, 1, n)
              PROVE /\ cells \in Seq(Cells) /\ m + Len(cells) < z
                    /\ \A j \in 1..Len(cells) : cells[j] = Cell(o, k, m + j)
          <6>1. cells \in Seq(Cells) /\ Len(cells) = n /\ \A j \in 1..n : cells[j] = part[j]
            BY <3>4, <5>2
          <6>2. n < Len(part) /\ \A j \in 1..n : j \in 1..Len(part)
            BY <3>4
          <6> QED BY <3>4, <3>5, <6>1, <6>2
        <5> QED BY <3>3, <5>1, <5>2
      <4>2. Put(o, file, ks, at, k, m, cells)
        BY <1>3, <3>2, <3>4, <3>5, <3>6, <4>1 DEF Put, o, e, k, z
      <4>3. Contents(o, Overwrite(file, e + m, cells), ks, at)
        BY <4>1, <4>2, PutPart DEF e, z
      <4> QED BY <3>3, <3>6, <4>3 DEF o
    <3>7. CASE w = 4 /\ ValCells[o][k] = 0 /\ pos = e /\ Names(ks) = Append(known, KeyOf(k))
      <4>1. Len(part) = 0
        <5>1. part = [i \in 1..0 |-> ValCell(k, i)]
          BY <3>7 DEF Parts, part
        <5> QED BY <5>1
      <4>2. cells = <<>>
        BY <3>3, <4>1
      <4>3. file' = file
        BY <1>3, <3>3, <3>7, <4>2, OverwriteNothing DEF e
      <4> QED BY <1>3, <3>2, <3>7, <4>3
    <3> QED BY <3>1, <3>6, <3>7 DEF Appending, e, k, o, m, z
  <2> QED BY <2>1, <2>2
<1>5. Left(ks, at)'
  BY <1>2, <1>4 DEF Left
<1>6. IsAt(ks, at)'
  BY <1>2, <1>4, <1>5 DEF IsAt
<1>7. Simple'
  BY <1>2, <1>3 DEF Simple
<1> QED BY <1>1, <1>6, <1>7

LEMMA UInvStep == WholeValues /\ UInv /\ [Next]_vars => UInv'
<1> SUFFICES ASSUME WholeValues, UInv, [Next]_vars PROVE UInv'
  OBVIOUS
<1>1. CASE OpenOverwrite
  BY <1>1, OpenOverwriteStep DEF UInv
<1>2. CASE OpenScan
  BY <1>2, OpenStep DEF UInv
<1>3. CASE OpenIndex
  BY <1>3, OpenStep DEF UInv
<1>4. CASE OpenPanics
  BY <1>4, OpenPanicsStep DEF UInv
<1>5. ASSUME NEW k \in Keys, StartAppend(k) PROVE UInv'
  BY <1>5, StartAppendStep DEF UInv
<1>6. CASE Write
  BY <1>6, WriteStep DEF UInv
<1>7. CASE Close
  BY <1>7, CloseStep DEF UInv
<1>8. CASE Crash
  BY <1>8, CrashStep DEF UInv
<1>9. CASE UNCHANGED vars
  <2>1. PICK ks, at : IsAt(ks, at)
    BY DEF UInv
  <2>2. IsAt(ks, at)'
    BY <1>9, <2>1 DEF vars, IsAt, Idle, Appending, Left
  <2>3. Simple'
    BY <1>9 DEF vars, UInv, Simple
  <2> QED BY <2>2, <2>3 DEF UInv
<1> QED BY <1>1, <1>2, <1>3, <1>4, <1>5, <1>6, <1>7, <1>8, <1>9 DEF Next

LEMMA UInvAlways == ASSUME WholeValues PROVE Spec => []UInv
<1>1. UInv /\ [Next]_vars => UInv'
  BY UInvStep
<1> QED BY <1>1, UInvInit, PTL DEF Spec

------------------------------------------------------------------------------
(* What the runs check                                                      *)

LEMMA TypeInv == UInv => TypeOK
<1> SUFFICES ASSUME UInv PROVE TypeOK
  OBVIOUS
<1>1. PICK ks, at : IsAt(ks, at)
  BY DEF UInv
<1>2. opener \in Openers /\ file \in Seq(Cells) /\ Simple
  BY <1>1, ContentsAre DEF UInv
<1>3. CASE mode = "append" /\ key # NoKey
  <2>1. PICK w \in 1..4 : Appending(ks, at, w)
    BY <1>1, <1>3, AppendingAt
  <2>2. key \in Keys /\ pending = SubSeq(Parts(opener, key), w, 4)
    BY <2>1 DEF Appending
  <2>3. pending \in Seq(Seq(Cells)) /\ Len(pending) = 5 - w
    BY <1>2, <2>2, PartsLeft
  <2>4. pending # <<>>
    BY <2>3
  <2> QED BY <1>2, <1>3, <2>2, <2>3, <2>4 DEF TypeOK, Simple
<1>4. CASE ~(mode = "append" /\ key # NoKey)
  <2>1. key = NoKey /\ pending = <<>>
    BY <1>1, <1>4, IdleAt, LeftAt DEF Idle, Left
  <2>2. <<>> \in Seq(Seq(Cells))
    OBVIOUS
  <2> QED BY <1>2, <2>1, <2>2 DEF TypeOK, Simple
<1> QED BY <1>3, <1>4


LEMMA KnownInv == WholeValues /\ UInv => KnownSurvive
<1> SUFFICES ASSUME WholeValues, UInv PROVE KnownSurvive
  OBVIOUS
<1> DEFINE found == KeysFound(file, opener = "scan")
           S == {KeyOf(k) : k \in Keys}
<1>1. PICK ks, at : IsAt(ks, at)
  BY DEF UInv
<1>2. found = Names(ks)
  <2> DEFINE readValue == opener = "scan"
  <2>1. opener \in {"scan", "index"}
    BY <1>1, ContentsAre, USTableAssumption
  <2>2. readValue \in BOOLEAN /\ (readValue \/ opener = "index")
    BY <2>1
  <2> HIDE DEF readValue
  <2>3. KeysFound(file, readValue) = Names(ks)
    BY <1>1, <2>2, FoundIs
  <2> QED BY <2>3 DEF readValue
<1>3. known \in Seq(S) /\ Names(ks) \in Seq(S)
  BY <1>1, ContentsAre DEF UInv, Simple
<1>4. known = Names(ks) \/ \E k \in Keys : Names(ks) = Append(known, KeyOf(k))
  BY <1>1 DEF IsAt, Idle, Appending, Left
<1> HIDE DEF found
<1>5. CASE known = Names(ks)
  BY <1>2, <1>3, <1>5 DEF KnownSurvive, IsPrefix, found
<1>6. ASSUME NEW k \in Keys, Names(ks) = Append(known, KeyOf(k)) PROVE KnownSurvive
  <2> DEFINE name == KeyOf(k)
  <2>1. name \in S
    OBVIOUS
  <2> HIDE DEF name, S
  <2>2. found = Append(known, name)
    BY <1>2, <1>6 DEF name
  <2>3. Len(found) = Len(known) + 1 /\ Len(known) \in Nat
    BY <1>3, <2>1, <2>2
  <2>4. SubSeq(known, 1, Len(known)) = SubSeq(found, 1, Len(known))
    BY <1>3, <2>1, <2>2
  <2> QED BY <2>3, <2>4 DEF KnownSurvive, IsPrefix, found
<1> QED BY <1>4, <1>5, <1>6

LEMMA SealedInv == UInv => SealedReadsBack
<1> SUFFICES ASSUME UInv, mode = "closed", sealed, NEW readValue \in BOOLEAN
             PROVE  KeysFound(file, readValue) = known /\ ReadEnds(file, readValue) = "sentinel"
  BY DEF SealedReadsBack
<1>1. PICK ks, at : IsAt(ks, at)
  BY DEF UInv
<1> DEFINE e == End(ks, at)
<1>2. known = Names(ks) /\ e + 1 <= Len(file) /\ file[e + 1] = LenCell(0)
  BY <1>1, LeftAt DEF Left
<1>3. opener \in Openers /\ file \in Seq(Cells) /\ e \in Nat /\ Contents(opener, file, ks, at)
  BY <1>1, ContentsAre
<1> HIDE DEF e
<1>4. ReadRecord(file, e, readValue).res = "sentinel"
  BY <1>2, <1>3, ReadsSentinel
<1>5. ReadRecord(file, e, readValue).res # "ok"
  BY <1>4
<1> QED BY <1>2, <1>3, <1>4, <1>5, WalkIs DEF e

------------------------------------------------------------------------------
(* The file is a log                                                        *)

RecordsOf(ks, k) == {i \in 1..Len(ks) : Names(ks)[i] = KeyOf(k)}

LEMMA NamesDiffer == \A k, l \in Keys : KeyOf(k) = KeyOf(l) => k = l
<1> SUFFICES ASSUME NEW k \in Keys, NEW l \in Keys, KeyOf(k) = KeyOf(l) PROVE k = l
  OBVIOUS
<1>1. 1 \in 1..KeyCells[k] /\ 1 \in 1..KeyCells[l]
  BY USTableAssumption
<1>2. KeyOf(k)[1] = KeyCell(k, 1) /\ KeyOf(l)[1] = KeyCell(l, 1)
  BY <1>1 DEF KeyOf
<1> QED BY <1>2 DEF KeyCell

LEMMA OneRecordMore ==
    ASSUME NEW ks \in Seq(Keys), NEW k \in Keys, NEW l \in Keys
    PROVE  /\ Cardinality(RecordsOf(Append(ks, k), l)) =
                  Cardinality(RecordsOf(ks, l)) + (IF l = k THEN 1 ELSE 0)
           /\ Cardinality(RecordsOf(ks, l)) \in Nat
<1> DEFINE n == Len(ks)
           s == Names(ks)
           t == Names(Append(ks, k))
           old == RecordsOf(ks, l)
           new == RecordsOf(Append(ks, k), l)
<1>1. n \in Nat /\ Len(Append(ks, k)) = n + 1
  OBVIOUS
<1>2. IsFiniteSet(old) /\ old \subseteq 1..n /\ Cardinality(old) \in Nat
  <2>1. old \subseteq 1..n
    BY DEF RecordsOf
  <2>2. IsFiniteSet(1..n)
    BY <1>1, FS_Interval
  <2>3. IsFiniteSet(old)
    BY <2>1, <2>2, FS_Subset
  <2> QED BY <2>1, <2>3, FS_CardinalityType
<1>3. s \in Seq(Seq(Cells)) /\ Len(s) = n /\ t = Append(s, KeyOf(k))
  BY NamesType, NamesAppend
<1>4. t[n + 1] = KeyOf(k) /\ \A i \in 1..n : t[i] = s[i]
  BY <1>1, <1>3
<1>5. new = IF l = k THEN old \cup {n + 1} ELSE old
  <2>1. \A i \in 1..(n + 1) : i \in new <=> t[i] = KeyOf(l)
    BY <1>1 DEF RecordsOf
  <2>2. new \subseteq 1..(n + 1)
    BY <1>1 DEF RecordsOf
  <2>3. \A i \in 1..n : i \in old <=> s[i] = KeyOf(l)
    BY DEF RecordsOf
  <2>4. t[n + 1] = KeyOf(l) <=> l = k
    BY <1>4, NamesDiffer
  <2> HIDE DEF n, s, t, old, new
  <2>5. \A i \in 1..n : i \in new <=> i \in old
    BY <1>1, <1>4, <2>1, <2>3
  <2>6. n + 1 \in new <=> l = k
    BY <1>1, <2>1, <2>4
  <2>7. \A i \in 1..(n + 1) : i \in 1..n \/ i = n + 1
    BY <1>1
  <2>8. CASE l = k
    <3>1. new = old \cup {n + 1}
      BY <1>2, <2>2, <2>5, <2>6, <2>7, <2>8
    <3> QED BY <2>8, <3>1
  <2>9. CASE l # k
    <3>1. new = old
      BY <1>2, <2>2, <2>5, <2>6, <2>7, <2>9
    <3> QED BY <2>9, <3>1
  <2> QED BY <2>8, <2>9
<1>6. n + 1 \notin old
  BY <1>1, <1>2
<1> HIDE DEF n, s, t, old, new
<1>7. CASE l = k
  <2>1. Cardinality(old \cup {n + 1}) = Cardinality(old) + 1
    BY <1>2, <1>6, FS_AddElement
  <2> QED BY <1>2, <1>5, <1>7, <2>1 DEF old, new
<1>8. CASE l # k
  BY <1>2, <1>5, <1>8 DEF old, new
<1> QED BY <1>7, <1>8

CopiesOf(ks) == [k \in Keys |-> Cardinality(RecordsOf(ks, k))]

CopiesAre ==
    WholeValues => \A ks, at : IsAt(ks, at) => [k \in Keys |-> Copies(k)] = CopiesOf(ks)

LEMMA CopiesInv == CopiesAre
<1> SUFFICES ASSUME WholeValues, NEW ks, NEW at, IsAt(ks, at), NEW k \in Keys
             PROVE  Copies(k) = Cardinality(RecordsOf(ks, k))
  BY DEF CopiesAre, CopiesOf
<1>1. KeysFound(file, TRUE) = Names(ks)
  BY FoundIs
<1>2. DOMAIN Names(ks) = 1..Len(ks)
  BY DEF Names
<1> QED BY <1>1, <1>2 DEF Copies, RecordsOf

LEMMA CopiesNext == CopiesAre'
BY CopiesInv, PTL

LEMMA LogInit == WholeValues /\ Init => Log!Init
<1> SUFFICES ASSUME WholeValues, Init PROVE Log!Init
  OBVIOUS
<1>1. IsAt(<<>>, NoneAt)
  BY EmptyFile DEF Init, IsAt, Left
<1>2. [k \in Keys |-> Copies(k)] = CopiesOf(<<>>)
  BY <1>1, CopiesInv DEF CopiesAre
<1>3. \A k \in Keys : RecordsOf(<<>>, k) = {}
  BY DEF RecordsOf
<1>4. CopiesOf(<<>>) = [k \in Keys |-> 0]
  BY <1>3, FS_EmptySet DEF CopiesOf
<1>5. mode # "append"
  BY DEF Init
<1> QED BY <1>2, <1>4, <1>5 DEF Log!Init, Log!NoRecords

(* Where the records stay the same, whatever else happens.                  *)
LEMMA LogSame ==
    ASSUME WholeValues, \E ks, at : IsAt(ks, at) /\ IsAt(ks, at)'
    PROVE  [k \in Keys |-> Copies(k)]' = [k \in Keys |-> Copies(k)]
<1>1. PICK ks, at : IsAt(ks, at) /\ IsAt(ks, at)'
  OBVIOUS
<1>2. [k \in Keys |-> Copies(k)] = CopiesOf(ks)
  BY <1>1, CopiesInv DEF CopiesAre
<1>3. [k \in Keys |-> Copies(k)]' = CopiesOf(ks)
  BY <1>1, CopiesNext DEF CopiesAre
<1> QED BY <1>2, <1>3

LEMMA LogStep ==
    WholeValues /\ UInv /\ [Next]_vars =>
        [Log!Next]_<<[k \in Keys |-> Copies(k)], mode = "append">>
<1> SUFFICES ASSUME WholeValues, UInv, [Next]_vars
             PROVE  [Log!Next]_<<[k \in Keys |-> Copies(k)], mode = "append">>
  OBVIOUS
<1> DEFINE recs == [k \in Keys |-> Copies(k)]
<1>1. CASE OpenOverwrite
  <2>1. IsAt(<<>>, NoneAt)'
    BY <1>1, OpenOverwriteStep
  <2>2. recs' = CopiesOf(<<>>)
    BY <2>1, CopiesNext DEF CopiesAre
  <2>3. \A k \in Keys : RecordsOf(<<>>, k) = {}
    BY DEF RecordsOf
  <2>4. CopiesOf(<<>>) = [k \in Keys |-> 0]
    BY <2>3, FS_EmptySet DEF CopiesOf
  <2>5. mode = "closed" /\ mode' = "append" /\ MayOverwrite
    BY <1>1 DEF OpenOverwrite, Opening
  <2> HIDE DEF recs
  <2>6. Log!Open
    BY <2>2, <2>4, <2>5 DEF Log!Open, Log!NoRecords, recs
  <2> QED BY <2>6 DEF Log!Next
<1>2. CASE OpenScan \/ OpenIndex
  <2>1. recs' = recs
    BY <1>2, OpenStep, LogSame
  <2>2. mode = "closed" /\ mode' = "append"
    BY <1>2 DEF OpenScan, OpenIndex, Opening
  <2>3. Log!Open
    BY <2>1, <2>2 DEF Log!Open
  <2> QED BY <2>3 DEF Log!Next
<1>3. CASE OpenPanics
  <2>1. recs' = recs
    BY <1>3, OpenPanicsStep, LogSame
  <2>2. mode = "closed" /\ mode' = "panicked"
    BY <1>3 DEF OpenPanics, Opening
  <2> QED BY <2>1, <2>2
<1>4. ASSUME NEW k \in Keys, StartAppend(k)
      PROVE  UNCHANGED <<recs, mode = "append">>
  <2>1. recs' = recs
    BY <1>4, StartAppendStep, LogSame
  <2>2. mode' = mode
    BY <1>4 DEF StartAppend
  <2> QED BY <2>1, <2>2
<1>5. CASE Write
  <2>1. PICK ks, at, ks1, at1 : /\ IsAt(ks, at) /\ IsAt(ks1, at1)'
                                /\ key \in Keys /\ WriteEffect(ks, at, ks1, at1)
    BY <1>5, WriteStep
  <2>2. mode = "append" /\ mode' = "append"
    BY <1>5 DEF Write
  <2>3. recs = CopiesOf(ks)
    BY <2>1, CopiesInv DEF CopiesAre
  <2>4. recs' = CopiesOf(ks1)
    BY <2>1, CopiesNext DEF CopiesAre
  <2>5. CASE ks1 = ks
    BY <2>2, <2>3, <2>4, <2>5
  <2>6. CASE ks1 = Append(ks, key)
    <3>1. ks \in Seq(Keys)
      BY <2>1, ContentsAre
    <3>2. \A l \in Keys : CopiesOf(ks1)[l] = CopiesOf(ks)[l] + (IF l = key THEN 1 ELSE 0)
                          /\ CopiesOf(ks)[l] \in Nat
      BY <2>1, <2>6, <3>1, OneRecordMore DEF CopiesOf
    <3>3. CopiesOf(ks1) = [CopiesOf(ks) EXCEPT ![key] = @ + 1]
      <4>1. \A l \in Keys : CopiesOf(ks1)[l] = IF l = key THEN CopiesOf(ks)[key] + 1 ELSE CopiesOf(ks)[l]
        BY <2>1, <3>2
      <4>2. CopiesOf(ks) = [l \in Keys |-> CopiesOf(ks)[l]] /\ CopiesOf(ks1) = [l \in Keys |-> CopiesOf(ks1)[l]]
        BY DEF CopiesOf
      <4> QED BY <2>1, <4>1, <4>2
    <3> HIDE DEF recs
    <3>4. recs' = [recs EXCEPT ![key] = @ + 1]
      BY <2>3, <2>4, <3>3
    <3>5. Log!Append(key)
      BY <2>2, <3>4 DEF Log!Append, recs
    <3> QED BY <2>1, <3>5 DEF Log!Next
  <2> QED BY <2>1, <2>5, <2>6 DEF WriteEffect
<1>6. CASE Close \/ Crash
  <2>1. recs' = recs
    BY <1>6, CloseStep, CrashStep, LogSame
  <2>2. mode = "append" /\ mode' = "closed"
    BY <1>6 DEF Close, Crash
  <2>3. Log!Leave
    BY <2>1, <2>2 DEF Log!Leave
  <2> QED BY <2>3 DEF Log!Next
<1>7. CASE UNCHANGED vars
  <2>1. \E ks, at : IsAt(ks, at) /\ IsAt(ks, at)'
    <3>1. PICK ks, at : IsAt(ks, at)
      BY DEF UInv
    <3>2. IsAt(ks, at)'
      BY <1>7, <3>1 DEF vars, IsAt, Idle, Appending, Left
    <3> QED BY <3>1, <3>2
  <2>2. recs' = recs
    BY <2>1, LogSame
  <2>3. mode' = mode
    BY <1>7 DEF vars
  <2> QED BY <2>2, <2>3
<1> QED BY <1>1, <1>2, <1>3, <1>4, <1>5, <1>6, <1>7 DEF Next

------------------------------------------------------------------------------
(* The theorems, for all progress files and for date files whose values     *)
(* unmarshal only when whole: run ustable_torn shows that without this a    *)
(* record that Append acknowledged is lost.                                 *)

(* Every variable of the file and of its user has its type, of files of any *)
(* length and of keys and values of any lengths.                            *)
THEOREM TypeCorrect == ASSUME WholeValues PROVE Spec => []TypeOK
<1> QED BY UInvAlways, TypeInv, PTL

(* Whatever crashes tore, and however often the file was opened again       *)
(* (SeekLastValid, Index), a reader finds the records that Append            *)
(* acknowledged or an open found, in order, and at most the one more whose  *)
(* Append was cut off after its last byte.                                  *)
THEOREM KnownSurviveAlways == ASSUME WholeValues PROVE Spec => []KnownSurvive
<1>1. UInv => KnownSurvive
  BY KnownInv
<1> QED BY <1>1, UInvAlways, PTL

(* A file that Close left has exactly the known records, for readers of the *)
(* values and for Index, and both stop at the sentinel, whatever an earlier *)
(* crash left behind it.                                                    *)
THEOREM SealedReadsBackAlways == ASSUME WholeValues PROVE Spec => []SealedReadsBack
<1> QED BY UInvAlways, SealedInv, PTL

(* The file implements AppendLog: an Append adds one record of its key, at  *)
(* its last write of a cell, and of all the other steps, crashes and opens   *)
(* too, only an overwriting open takes any away.                            *)
THEOREM ImplementsAppendLog == ASSUME WholeValues PROVE Spec => IsAppendLog
<1>1. Init => Log!Init
  BY LogInit
<1>2. UInv /\ [Next]_vars => [Log!Next]_<<[k \in Keys |-> Copies(k)], mode = "append">>
  BY LogStep
<1> QED BY <1>1, <1>2, UInvAlways, PTL DEF Spec, IsAppendLog, Log!Spec, Log!logVars

==============================================================================
