----------------------------- MODULE Pass2_proofs -----------------------------
(****************************************************************************)
(* Proofs about Pass2.tla, for any numbers of workers, threads, dates, runs *)
(* and failures.                                                            *)
(****************************************************************************)
EXTENDS Pass2, FiniteSetTheorems, WellFoundedInduction, TLAPS

------------------------------------------------------------------------------
(* Sequences of dates in order, and what PathsForWorker takes of one        *)

InOrderOf(s, S) == s \in [1..Cardinality(S) -> S] /\ Increasing(s)

LEMMA DatesFinite == \A S \in SUBSET Dates : IsFiniteSet(S) /\ Cardinality(S) \in Nat
<1>1. IsFiniteSet(Dates)
  BY Pass2Assumption, FS_Interval DEF Dates
<1> QED BY <1>1, FS_Subset, FS_CardinalityType

(* The set that has one more, later date. *)
LEMMA OneMoreDate ==
    ASSUME NEW S \in SUBSET Dates, NEW d \in Dates, \A e \in S : e < d,
           NEW s, InOrderOf(s, S)
    PROVE  \E t : InOrderOf(t, S \cup {d})
<1> DEFINE n == Cardinality(S)
           t == [i \in 1..(n + 1) |-> IF i <= n THEN s[i] ELSE d]
<1>1. n \in Nat /\ d \notin S
  BY DatesFinite DEF Dates
<1>2. Cardinality(S \cup {d}) = n + 1
  BY <1>1, DatesFinite, FS_AddElement
<1>3. s \in [1..n -> S] /\ \A i, j \in 1..n : i < j => s[i] < s[j]
  BY DEF InOrderOf, Increasing
<1> HIDE DEF n
<1>4. t \in [1..(n + 1) -> S \cup {d}]
  BY <1>1, <1>3
<1>5. \A i, j \in 1..(n + 1) : i < j => t[i] < t[j]
  BY <1>1, <1>3
<1>6. Increasing(t)
  BY <1>5 DEF Increasing
<1> QED BY <1>2, <1>4, <1>6 DEF InOrderOf

(* Any set of dates can be put in order: by induction on the last date      *)
(* looked at.                                                               *)
LEMMA OrderExists == \A S \in SUBSET Dates : \E s : InOrderOf(s, S)
<1> SUFFICES ASSUME NEW S \in SUBSET Dates PROVE \E s : InOrderOf(s, S)
  OBVIOUS
<1> DEFINE Upto(n) == {d \in S : d <= n}
           Bad == {n \in Nat : ~ \E s : InOrderOf(s, Upto(n))}
<1>0. DateCount \in Nat /\ \A d \in S : d \in Nat /\ d >= 1 /\ d <= DateCount
  BY Pass2Assumption DEF Dates
<1>1. Bad = {}
  <2>1. SUFFICES ASSUME Bad # {} PROVE FALSE
    OBVIOUS
  <2>2. PICK m \in Bad : \A k \in Bad : ~(<<k, m>> \in OpToRel(<, Nat))
    BY <2>1, WFMin, NatLessThanWellFounded
  <2>3. \A k \in Nat : k < m => \E s : InOrderOf(s, Upto(k))
    BY <2>2 DEF OpToRel
  <2>4. CASE m = 0
    <3>1. Upto(0) = {}
      BY <1>0
    <3>2. InOrderOf(<<>>, {})
      BY FS_EmptySet DEF InOrderOf, Increasing
    <3> QED BY <2>2, <2>4, <3>1, <3>2
  <2>5. CASE m # 0
    <3>0. m \in Nat
      BY <2>2
    <3>1. m - 1 \in Nat /\ m - 1 < m /\ m \in Nat
      BY <3>0, <2>5
    <3>2. PICK s : InOrderOf(s, Upto(m - 1))
      BY <2>3, <3>1
    <3>3. CASE m \in S
      <4>1. Upto(m) = Upto(m - 1) \cup {m}
        <5>1. \A d \in S : d <= m <=> d <= m - 1 \/ d = m
          BY <1>0, <3>1
        <5> QED BY <5>1, <3>3
      <4>2. \A e \in Upto(m - 1) : e < m
        BY <1>0, <3>1
      <4>3. Upto(m - 1) \in SUBSET Dates /\ m \in Dates
        BY <3>3
      <4> HIDE DEF Upto
      <4>4. \E t : InOrderOf(t, Upto(m - 1) \cup {m})
        BY <3>2, <4>2, <4>3, OneMoreDate
      <4> QED BY <2>2, <4>1, <4>4
    <3>4. CASE m \notin S
      <4>1. Upto(m) = Upto(m - 1)
        BY <1>0, <3>1, <3>4
      <4> QED BY <2>2, <3>2, <4>1
    <3> QED BY <3>3, <3>4
  <2> QED BY <2>4, <2>5
<1>2. DateCount \in Nat /\ Upto(DateCount) = S
  BY <1>0
<1> QED BY <1>1, <1>2

LEMMA InDateOrderIs ==
    ASSUME NEW S \in SUBSET Dates
    PROVE  /\ InDateOrder(S) \in Seq(Dates)
           /\ \A i \in 1..Len(InDateOrder(S)) : InDateOrder(S)[i] \in S
           /\ \A i, j \in 1..Len(InDateOrder(S)) :
                  i < j => InDateOrder(S)[i] < InDateOrder(S)[j]
<1> DEFINE s == InDateOrder(S)
<1>1. InOrderOf(s, S)
  BY OrderExists DEF InOrderOf, InDateOrder
<1>2. Cardinality(S) \in Nat
  BY DatesFinite
<1>3. s \in Seq(Dates) /\ Len(s) = Cardinality(S) /\ DOMAIN s = 1..Len(s)
  BY <1>1, <1>2 DEF InOrderOf
<1> QED BY <1>1, <1>3 DEF InOrderOf, Increasing

(* A worker takes every WorkerCount-th path from its own on.                *)
TakenAt(w, k) == w + (k - 1) * WorkerCount + 1

LEMMA TakenWithin ==
    ASSUME NEW w \in Workers, NEW n \in Nat, NEW k \in 1..((n - w - 1) \div WorkerCount + 1),
           w < n
    PROVE  TakenAt(w, k) \in 1..n
<1> DEFINE q == (n - w - 1) \div WorkerCount
<1>1. WorkerCount \in Nat \ {0} /\ w \in Nat /\ n - w - 1 \in Nat
  BY Pass2Assumption DEF Workers
<1>2. q \in Int /\ WorkerCount * q <= n - w - 1
  BY <1>1
<1>3. k \in Int /\ 0 <= k - 1 /\ k - 1 <= q
  BY <1>2
<1> HIDE DEF q
<1>4. 0 <= (k - 1) * WorkerCount /\ (k - 1) * WorkerCount <= q * WorkerCount
  BY <1>1, <1>2, <1>3
<1>5. (k - 1) * WorkerCount \in Int /\ q * WorkerCount = WorkerCount * q
  BY <1>1, <1>2, <1>3
<1> QED BY <1>1, <1>2, <1>4, <1>5 DEF TakenAt

LEMMA TakenInOrder ==
    ASSUME NEW w \in Workers, NEW k \in Nat, NEW l \in Nat, k < l
    PROVE  TakenAt(w, k) < TakenAt(w, l)
<1>1. WorkerCount \in Nat \ {0} /\ w \in Nat
  BY Pass2Assumption DEF Workers
<1>2. (k - 1) * WorkerCount < (l - 1) * WorkerCount
  BY <1>1
<1>3. (k - 1) * WorkerCount \in Int /\ (l - 1) * WorkerCount \in Int
  BY <1>1
<1> QED BY <1>1, <1>2, <1>3 DEF TakenAt

(* No path is taken by two workers.                                         *)
LEMMA TakenOnce ==
    ASSUME NEW w \in Workers, NEW u \in Workers, NEW k \in Nat, NEW l \in Nat,
           TakenAt(w, k) = TakenAt(u, l)
    PROVE  w = u
<1>1. WorkerCount \in Nat \ {0} /\ w \in 0..(WorkerCount - 1) /\ u \in 0..(WorkerCount - 1)
  BY Pass2Assumption DEF Workers
<1>2. w - u = (l - k) * WorkerCount
  BY <1>1 DEF TakenAt
<1>3. -WorkerCount < w - u /\ w - u < WorkerCount
  BY <1>1
<1>4. l - k \in Int /\ WorkerCount \in Int /\ WorkerCount > 0
  BY <1>1
<1>5. l - k >= 1 => (l - k) * WorkerCount >= WorkerCount
  BY <1>4
<1>6. l - k <= -1 => (l - k) * WorkerCount <= -WorkerCount
  BY <1>4
<1>7. l - k = 0
  BY <1>2, <1>3, <1>4, <1>5, <1>6
<1> QED BY <1>1, <1>2, <1>7

LEMMA PathsForWorkerIs ==
    ASSUME NEW paths \in Seq(Dates), NEW w \in Workers
    PROVE  /\ PathsForWorker(paths, WorkerCount, w) \in Seq(Dates)
           /\ \A k \in DOMAIN PathsForWorker(paths, WorkerCount, w) :
                 /\ k \in Nat /\ TakenAt(w, k) \in 1..Len(paths)
                 /\ PathsForWorker(paths, WorkerCount, w)[k] = paths[TakenAt(w, k)]
<1> DEFINE n == (Len(paths) - w - 1) \div WorkerCount + 1
           p == [k \in 1..n |-> paths[w + (k - 1) * WorkerCount + 1]]
<1>1. CASE WorkerCount > Len(paths) \/ w >= Len(paths)
  BY <1>1 DEF PathsForWorker
<1>2. CASE ~(WorkerCount > Len(paths) \/ w >= Len(paths))
  <2>1. WorkerCount \in Nat \ {0} /\ w \in Nat /\ Len(paths) \in Nat /\ w < Len(paths)
    BY <1>2, Pass2Assumption DEF Workers
  <2>2. PathsForWorker(paths, WorkerCount, w) = p
    BY <1>2 DEF PathsForWorker
  <2>3. \A k \in 1..n : TakenAt(w, k) \in 1..Len(paths)
    BY <2>1, TakenWithin
  <2>4. n \in Nat
    BY <2>1
  <2> HIDE DEF n
  <2>5. \A k \in 1..n : k \in Nat /\ p[k] = paths[TakenAt(w, k)] /\ p[k] \in Dates
    BY <2>3, <2>4 DEF TakenAt
  <2>6. p \in [1..n -> Dates]
    BY <2>5
  <2>7. p \in Seq(Dates) /\ DOMAIN p = 1..n
    BY <2>4, <2>6
  <2> QED BY <2>2, <2>3, <2>5, <2>7
<1> QED BY <1>1, <1>2

------------------------------------------------------------------------------
(* The inductive invariant *)

(* A worker that does not feed its threads has nothing to send, and they    *)
(* nothing to do; a thread has a date from the moment it received one to    *)
(* the moment it takes the next.                                            *)
Fed(w) == wpc[w] \in {"feeding", "waiting"}
AtRest ==
    /\ \A w \in Workers : wpc[w] # "feeding" => queue[w] = <<>>
    /\ \A w \in Workers : ~Fed(w) => \A t \in Threads : tdate[w][t] = NoDate
    /\ \A w \in Workers : ~Running(w) => \A t \in Threads : tpc[w][t] = "off"
    /\ \A w \in Workers, t \in Threads :
          tdate[w][t] \in Dates <=> tpc[w][t] \in {"have", "build", "meta"}

TypeInv == TypeOK /\ AtRest

(* A step of thread t of worker w, and one that stops all threads of w.     *)
Moved(w, t, p, d) ==
    /\ tpc'[w][t] = p /\ tdate'[w][t] = d
    /\ \A u \in Workers, x \in Threads :
          u # w \/ x # t => tpc'[u][x] = tpc[u][x] /\ tdate'[u][x] = tdate[u][x]
Halted(w) ==
    /\ \A x \in Threads : tpc'[w][x] = "off" /\ tdate'[w][x] = NoDate
    /\ \A u \in Workers, x \in Threads :
          u # w => tpc'[u][x] = tpc[u][x] /\ tdate'[u][x] = tdate[u][x]

(* One more block directory of date d in v, whole block or meta.json.       *)
OneMore(new, old, v, d) ==
    \A y \in Dirs, e \in Dates :
        new[y][e] = IF y = v /\ e = d THEN old[y][e] + 1 ELSE old[y][e]

PCs == {"off", "recv", "have", "build", "meta", "done"}

LEMMA DirsOfWorkers == \A w \in Workers : DirOf(w) \in Dirs
BY DEF DirOf, Dirs

LEMMA ThreadMoves ==
    ASSUME TypeOK, NEW w \in Workers, NEW t \in Threads,
           NEW p \in PCs, NEW d \in Dates \cup {NoDate},
           tpc' = [tpc EXCEPT ![w][t] = p], tdate' = [tdate EXCEPT ![w][t] = d]
    PROVE  /\ Moved(w, t, p, d)
           /\ tpc' \in [Workers -> [Threads -> PCs]]
           /\ tdate' \in [Workers -> [Threads -> Dates \cup {NoDate}]]
<1>1. tpc \in [Workers -> [Threads -> PCs]]
  BY DEF TypeOK, PCs
<1>2. tdate \in [Workers -> [Threads -> Dates \cup {NoDate}]]
  BY DEF TypeOK
<1>3. tpc' \in [Workers -> [Threads -> PCs]]
  BY <1>1
<1>4. tdate' \in [Workers -> [Threads -> Dates \cup {NoDate}]]
  BY <1>2
<1>5. Moved(w, t, p, d)
  BY <1>1, <1>2 DEF Moved
<1> QED BY <1>3, <1>4, <1>5

(* The same when the date of the thread stays.                              *)
LEMMA ThreadSteps ==
    ASSUME TypeOK, NEW w \in Workers, NEW t \in Threads, NEW p \in PCs,
           tpc' = [tpc EXCEPT ![w][t] = p], tdate' = tdate
    PROVE  /\ Moved(w, t, p, tdate[w][t])
           /\ tpc' \in [Workers -> [Threads -> PCs]]
<1>1. tpc \in [Workers -> [Threads -> PCs]]
  BY DEF TypeOK, PCs
<1>2. tpc' \in [Workers -> [Threads -> PCs]]
  BY <1>1
<1>3. Moved(w, t, p, tdate[w][t])
  BY <1>1 DEF Moved
<1> QED BY <1>2, <1>3

LEMMA ThreadsHalt ==
    ASSUME TypeOK, NEW w \in Workers, StopThreads(w)
    PROVE  /\ Halted(w)
           /\ tpc' \in [Workers -> [Threads -> PCs]]
           /\ tdate' \in [Workers -> [Threads -> Dates \cup {NoDate}]]
<1>1. tpc \in [Workers -> [Threads -> PCs]]
  BY DEF TypeOK, PCs
<1>2. tdate \in [Workers -> [Threads -> Dates \cup {NoDate}]]
  BY DEF TypeOK
<1>3. tpc' \in [Workers -> [Threads -> PCs]]
  BY <1>1 DEF StopThreads, PCs
<1>4. tdate' \in [Workers -> [Threads -> Dates \cup {NoDate}]]
  BY <1>2 DEF StopThreads
<1>5. Halted(w)
  BY <1>1, <1>2 DEF StopThreads, Halted
<1> QED BY <1>3, <1>4, <1>5

LEMMA Counts ==
    ASSUME NEW old \in [Dirs -> [Dates -> Nat]], NEW new, NEW v \in Dirs, NEW d \in Dates,
           new = [old EXCEPT ![v][d] = @ + 1]
    PROVE  new \in [Dirs -> [Dates -> Nat]] /\ OneMore(new, old, v, d)
<1>1. new \in [Dirs -> [Dates -> Nat]]
  OBVIOUS
<1>2. OneMore(new, old, v, d)
  BY DEF OneMore
<1> QED BY <1>1, <1>2

LEMMA AsksDateOf ==
    ASSUME TypeInv, NEW w \in Workers, NEW t \in Threads,
           tpc[w][t] \in {"have", "build", "meta"}
    PROVE  tdate[w][t] \in Dates
BY DEF TypeInv, AtRest

LEMMA TypeOKStep == TypeInv /\ [Next]_vars => TypeOK'
<1> SUFFICES ASSUME TypeInv, [Next]_vars PROVE TypeOK'
  OBVIOUS
<1>0. TypeOK
  BY DEF TypeInv
<1>1. CASE UNCHANGED vars
  BY <1>0, <1>1 DEF vars, input, blocks, thread, bounds, TypeOK
<1>2. ASSUME NEW w \in Workers, Die(w) PROVE TypeOK'
  <2>1. /\ tpc' \in [Workers -> [Threads -> PCs]]
        /\ tdate' \in [Workers -> [Threads -> Dates \cup {NoDate}]]
    BY <1>0, <1>2, ThreadsHalt DEF Die
  <2>2. failures' \in Nat
    BY <1>0, <1>2 DEF Die, TypeOK
  <2>3. queue' \in [Workers -> Seq(Dates)]
    BY <1>0, <1>2 DEF Die, TypeOK
  <2>4. wpc' \in [Workers -> {"idle", "stopped", "listing", "feeding", "waiting", "done"}]
    BY <1>0, <1>2 DEF Die, TypeOK
  <2> QED BY <1>0, <1>2, <2>1, <2>2, <2>3, <2>4 DEF Die, TypeOK, PCs, input, blocks
<1>3. ASSUME NEW w \in Workers, NEW r \in ResumeFlags, Start(w, r) PROVE TypeOK'
  <2>1. runs' \in [Workers -> 0..MaxRuns]
    <3>1. runs \in [Workers -> 0..MaxRuns] /\ runs[w] + 1 \in 0..MaxRuns
      BY <1>0, <1>3, Pass2Assumption DEF Start, TypeOK
    <3> QED BY <1>3, <3>1 DEF Start
  <2>2. resume' \in [Workers -> ResumeFlags]
    BY <1>0, <1>3 DEF Start, TypeOK
  <2>3. wpc' \in [Workers -> {"idle", "stopped", "listing", "feeding", "waiting", "done"}]
    BY <1>0, <1>3 DEF Start, TypeOK
  <2>4. tpc' \in [Workers -> [Threads -> PCs]]
    BY <1>0, <1>3 DEF Start, TypeOK, PCs
  <2> QED BY <1>0, <1>3, <2>1, <2>2, <2>3, <2>4 DEF Start, TypeOK, PCs, input, blocks
<1>4. ASSUME NEW w \in Workers, List(w) PROVE TypeOK'
  <2>1. Dates \ SkippableDates(w) \in SUBSET Dates
    OBVIOUS
  <2>2. PathsForWorker(Remaining(w), WorkerCount, w) \in Seq(Dates)
    BY <2>1, InDateOrderIs, PathsForWorkerIs DEF Remaining
  <2>3. queue' \in [Workers -> Seq(Dates)]
    BY <1>0, <1>4, <2>2 DEF List, TypeOK
  <2>4. listed' \in [Workers -> SUBSET Dates]
    BY <1>0, <1>4, <2>1 DEF List, TypeOK
  <2>5. wpc' \in [Workers -> {"idle", "stopped", "listing", "feeding", "waiting", "done"}]
    BY <1>0, <1>4 DEF List, TypeOK
  <2> QED BY <1>0, <1>4, <2>3, <2>4, <2>5 DEF List, TypeOK, input, blocks, thread, bounds
<1>5. ASSUME NEW w \in Workers, CloseChan(w) PROVE TypeOK'
  <2>1. wpc' \in [Workers -> {"idle", "stopped", "listing", "feeding", "waiting", "done"}]
    BY <1>0, <1>5 DEF CloseChan, TypeOK
  <2> QED BY <1>0, <1>5, <2>1 DEF CloseChan, TypeOK, input, blocks, thread, bounds
<1>6. ASSUME NEW w \in Workers, Finish(w) PROVE TypeOK'
  <2>1. /\ tpc' \in [Workers -> [Threads -> PCs]]
        /\ tdate' \in [Workers -> [Threads -> Dates \cup {NoDate}]]
    BY <1>0, <1>6, ThreadsHalt DEF Finish
  <2>2. wpc' \in [Workers -> {"idle", "stopped", "listing", "feeding", "waiting", "done"}]
    BY <1>0, <1>6 DEF Finish, TypeOK
  <2> QED BY <1>0, <1>6, <2>1, <2>2 DEF Finish, TypeOK, PCs, input, blocks, bounds
<1>7. ASSUME NEW w \in Workers, NEW t \in Threads, Feed(w, t) PROVE TypeOK'
  <2>1. queue[w] \in Seq(Dates) /\ queue[w] # <<>>
    BY <1>0, <1>7 DEF Feed, TypeOK
  <2>2. Head(queue[w]) \in Dates /\ Tail(queue[w]) \in Seq(Dates)
    BY <2>1
  <2>3. queue' \in [Workers -> Seq(Dates)]
    BY <1>0, <1>7, <2>2 DEF Feed, TypeOK
  <2>4. /\ tpc' \in [Workers -> [Threads -> PCs]]
        /\ tdate' \in [Workers -> [Threads -> Dates \cup {NoDate}]]
    BY <1>0, <1>7, <2>2, ThreadMoves DEF Feed, PCs
  <2> QED BY <1>0, <1>7, <2>3, <2>4 DEF Feed, TypeOK, PCs, input, blocks, bounds
<1>8. ASSUME NEW w \in Workers, NEW t \in Threads, NoSeries(w, t) PROVE TypeOK'
  <2>1. /\ tpc' \in [Workers -> [Threads -> PCs]]
        /\ tdate' \in [Workers -> [Threads -> Dates \cup {NoDate}]]
    BY <1>0, <1>8, ThreadMoves DEF NoSeries, PCs
  <2> QED BY <1>0, <1>8, <2>1 DEF NoSeries, TypeOK, PCs, input, blocks, bounds
<1>9. ASSUME NEW w \in Workers, NEW t \in Threads, NewBlock(w, t) PROVE TypeOK'
  <2>1. tpc' \in [Workers -> [Threads -> PCs]]
    BY <1>0, <1>9, ThreadSteps DEF NewBlock, PCs
  <2>2. dirs' \in [Dirs -> [Dates -> Nat]]
    BY <1>0, <1>9, DirsOfWorkers, AsksDateOf, Counts DEF NewBlock, TypeOK
  <2> QED BY <1>0, <1>9, <2>1, <2>2 DEF NewBlock, TypeOK, PCs, input, bounds
<1>10. ASSUME NEW w \in Workers, NEW t \in Threads, WriteBlock(w, t) PROVE TypeOK'
  <2>1. tpc' \in [Workers -> [Threads -> PCs]]
    BY <1>0, <1>10, ThreadSteps DEF WriteBlock, PCs
  <2>2. whole' \in [Dirs -> [Dates -> Nat]]
    BY <1>0, <1>10, DirsOfWorkers, AsksDateOf, Counts DEF WriteBlock, TypeOK
  <2> QED BY <1>0, <1>10, <2>1, <2>2 DEF WriteBlock, TypeOK, PCs, input, bounds
<1>11. ASSUME NEW w \in Workers, NEW t \in Threads, WriteMeta(w, t) PROVE TypeOK'
  <2>1. /\ tpc' \in [Workers -> [Threads -> PCs]]
        /\ tdate' \in [Workers -> [Threads -> Dates \cup {NoDate}]]
    BY <1>0, <1>11, ThreadMoves DEF WriteMeta, PCs
  <2>2. finished' \in [Dirs -> [Dates -> Nat]]
    BY <1>0, <1>11, DirsOfWorkers, AsksDateOf, Counts DEF WriteMeta, TypeOK
  <2> QED BY <1>0, <1>11, <2>1, <2>2 DEF WriteMeta, TypeOK, PCs, input, bounds
<1>12. ASSUME NEW w \in Workers, NEW t \in Threads, EndThread(w, t) PROVE TypeOK'
  <2>1. tpc' \in [Workers -> [Threads -> PCs]]
    BY <1>0, <1>12, ThreadSteps DEF EndThread, PCs
  <2> QED BY <1>0, <1>12, <2>1 DEF EndThread, TypeOK, PCs, input, blocks, bounds
<1> QED
  BY <1>1, <1>2, <1>3, <1>4, <1>5, <1>6, <1>7, <1>8, <1>9, <1>10, <1>11, <1>12
     DEF Next, MainStep, ThreadStep, ListFails, BlockFails, Crash

LEMMA AtRestStep == TypeInv /\ [Next]_vars => AtRest'
<1> SUFFICES ASSUME TypeInv, [Next]_vars PROVE AtRest'
  OBVIOUS
<1>0. TypeOK /\ AtRest /\ NoDate \notin Dates
  BY Pass2Assumption DEF TypeInv
<1>1. CASE UNCHANGED vars
  BY <1>0, <1>1 DEF vars, thread, AtRest, Fed, Running
<1>2. ASSUME NEW w \in Workers, Die(w) PROVE AtRest'
  <2>1. Halted(w)
    BY <1>0, <1>2, ThreadsHalt DEF Die
  <2>2. \A u \in Workers : /\ u # w => queue'[u] = queue[u] /\ wpc'[u] = wpc[u]
                           /\ u = w => queue'[u] = <<>> /\ wpc'[u] = "stopped"
    BY <1>0, <1>2 DEF Die, TypeOK
  <2> QED BY <1>0, <2>1, <2>2 DEF Halted, AtRest, Fed, Running
<1>3. ASSUME NEW w \in Workers, NEW r \in ResumeFlags, Start(w, r) PROVE AtRest'
  <2>1. \A u \in Workers : /\ u # w => wpc'[u] = wpc[u]
                           /\ u = w => wpc'[u] = "listing"
    BY <1>0, <1>3 DEF Start, TypeOK
  <2>2. \A u \in Workers, x \in Threads : /\ u # w => tpc'[u][x] = tpc[u][x]
                                          /\ u = w => tpc'[u][x] = "recv"
    BY <1>0, <1>3 DEF Start, TypeOK
  <2>3. UNCHANGED <<queue, tdate>> /\ ~Running(w)
    BY <1>3 DEF Start
  <2> QED BY <1>0, <2>1, <2>2, <2>3 DEF AtRest, Fed, Running
<1>4. ASSUME NEW w \in Workers, List(w) PROVE AtRest'
  <2>1. \A u \in Workers : /\ u # w => queue'[u] = queue[u] /\ wpc'[u] = wpc[u]
                           /\ u = w => wpc'[u] = "feeding" /\ wpc[u] = "listing"
    BY <1>0, <1>4 DEF List, TypeOK
  <2>2. UNCHANGED thread
    BY <1>4 DEF List
  <2> QED BY <1>0, <2>1, <2>2 DEF thread, AtRest, Fed, Running
<1>5. ASSUME NEW w \in Workers, CloseChan(w) PROVE AtRest'
  <2>1. \A u \in Workers : /\ u # w => wpc'[u] = wpc[u]
                           /\ u = w => wpc'[u] = "waiting" /\ wpc[u] = "feeding"
    BY <1>0, <1>5 DEF CloseChan, TypeOK
  <2>2. UNCHANGED <<thread, queue>> /\ queue[w] = <<>>
    BY <1>5 DEF CloseChan
  <2> QED BY <1>0, <2>1, <2>2 DEF thread, AtRest, Fed, Running
<1>6. ASSUME NEW w \in Workers, Finish(w) PROVE AtRest'
  <2>1. Halted(w)
    BY <1>0, <1>6, ThreadsHalt DEF Finish
  <2>2. \A u \in Workers : /\ u # w => wpc'[u] = wpc[u]
                           /\ u = w => wpc'[u] = "done" /\ wpc[u] = "waiting"
    BY <1>0, <1>6 DEF Finish, TypeOK
  <2>3. UNCHANGED queue /\ wpc[w] = "waiting"
    BY <1>6 DEF Finish
  <2> QED BY <1>0, <2>1, <2>2, <2>3 DEF Halted, AtRest, Fed, Running
<1>7. ASSUME NEW w \in Workers, NEW t \in Threads, Feed(w, t) PROVE AtRest'
  <2>1. queue[w] \in Seq(Dates) /\ queue[w] # <<>>
    BY <1>0, <1>7 DEF Feed, TypeOK
  <2>2. Head(queue[w]) \in Dates
    BY <2>1
  <2>3. Moved(w, t, "have", Head(queue[w]))
    BY <1>0, <1>7, <2>2, ThreadMoves DEF Feed, PCs
  <2>4. \A u \in Workers : u # w => queue'[u] = queue[u]
    BY <1>0, <1>7 DEF Feed, TypeOK
  <2>5. UNCHANGED wpc /\ wpc[w] = "feeding"
    BY <1>7 DEF Feed
  <2> QED BY <1>0, <2>2, <2>3, <2>4, <2>5 DEF Moved, AtRest, Fed, Running
<1>8. ASSUME NEW w \in Workers, NEW t \in Threads, UNCHANGED <<wpc, queue>>,
             NEW p \in {"build", "meta"}, Moved(w, t, p, tdate[w][t]),
             tpc[w][t] \in {"have", "build"}
      PROVE  AtRest'
  BY <1>0, <1>8 DEF Moved, AtRest, Fed, Running
<1>9. ASSUME NEW w \in Workers, NEW t \in Threads, UNCHANGED <<wpc, queue>>,
             Moved(w, t, "recv", NoDate), tpc[w][t] \in {"have", "meta"}
      PROVE  AtRest'
  BY <1>0, <1>9 DEF Moved, AtRest, Fed, Running
<1>10. ASSUME NEW w \in Workers, NEW t \in Threads, NoSeries(w, t) PROVE AtRest'
  <2>1. Moved(w, t, "recv", NoDate)
    BY <1>0, <1>10, ThreadMoves DEF NoSeries, PCs
  <2> QED BY <1>9, <1>10, <2>1 DEF NoSeries
<1>11. ASSUME NEW w \in Workers, NEW t \in Threads, NewBlock(w, t) PROVE AtRest'
  <2>1. Moved(w, t, "build", tdate[w][t])
    BY <1>0, <1>11, ThreadSteps DEF NewBlock, PCs
  <2> QED BY <1>8, <1>11, <2>1 DEF NewBlock
<1>12. ASSUME NEW w \in Workers, NEW t \in Threads, WriteBlock(w, t) PROVE AtRest'
  <2>1. Moved(w, t, "meta", tdate[w][t])
    BY <1>0, <1>12, ThreadSteps DEF WriteBlock, PCs
  <2> QED BY <1>8, <1>12, <2>1 DEF WriteBlock
<1>13. ASSUME NEW w \in Workers, NEW t \in Threads, WriteMeta(w, t) PROVE AtRest'
  <2>1. Moved(w, t, "recv", NoDate)
    BY <1>0, <1>13, ThreadMoves DEF WriteMeta, PCs
  <2> QED BY <1>9, <1>13, <2>1 DEF WriteMeta
<1>14. ASSUME NEW w \in Workers, NEW t \in Threads, EndThread(w, t) PROVE AtRest'
  <2>1. Moved(w, t, "done", tdate[w][t])
    BY <1>0, <1>14, ThreadSteps DEF EndThread, PCs
  <2>2. UNCHANGED <<wpc, queue>> /\ tpc[w][t] = "recv" /\ wpc[w] = "waiting"
    BY <1>14 DEF EndThread
  <2> QED BY <1>0, <2>1, <2>2 DEF Moved, AtRest, Fed, Running
<1> QED
  BY <1>1, <1>2, <1>3, <1>4, <1>5, <1>6, <1>7, <1>10, <1>11, <1>12, <1>13, <1>14
     DEF Next, MainStep, ThreadStep, ListFails, BlockFails, Crash

LEMMA TypeInvInit == Init => TypeInv
<1> SUFFICES ASSUME Init PROVE TypeInv
  OBVIOUS
<1>1. <<>> \in Seq(Dates) /\ 0 \in 0..MaxRuns /\ 0 \in Nat /\ NoDate \notin Dates
  BY Pass2Assumption
<1>2. TypeOK
  BY <1>1 DEF Init, TypeOK
<1>3. AtRest
  BY <1>1 DEF Init, AtRest, Fed, Running
<1> QED BY <1>2, <1>3 DEF TypeInv

LEMMA TypeInvStep == TypeInv /\ [Next]_vars => TypeInv'
BY TypeOKStep, AtRestStep DEF TypeInv

(* Every variable keeps its type.                                           *)
THEOREM TypeCorrect == Spec => []TypeOK
<1>1. TypeInv => TypeOK
  BY DEF TypeInv
<1> QED BY <1>1, TypeInvInit, TypeInvStep, PTL DEF Spec

------------------------------------------------------------------------------
(* Blocks: what is counted in the directories against the threads at work   *)

(* The threads that are at date d, with block directory v, at a step of S;  *)
(* a thread that moves to p and date e becomes one of them.                 *)
Here(w, t, S, v, d) == DirOf(w) = v /\ tpc[w][t] \in S /\ tdate[w][t] = d
Arrives(w, p, e, S, v, d) == DirOf(w) = v /\ p \in S /\ e = d
At(S, v, d) == {x \in Workers \X Threads : Here(x[1], x[2], S, v, d)}

InBlock == {"build", "meta"}
InMeta  == {"meta"}

(* A thread that makes a block of a date has data of it, and has read all   *)
(* of it when the meta.json is left to write.                               *)
HasData ==
    \A w \in Workers, t \in Threads :
        /\ tpc[w][t] \in InBlock => tdate[w][t] \notin Empty
        /\ tpc[w][t] \in InMeta => tdate[w][t] \notin torn

(* Each meta.json, written or about to be, is of a whole block.             *)
WholeFirst ==
    \A v \in Dirs, d \in Dates :
        /\ whole[v][d] >= finished[v][d] + Cardinality(At(InMeta, v, d))
        /\ finished[v][d] > 0 => d \notin Empty \cup torn

(* Each directory without one has its thread, or is of a run that died.     *)
Litter ==
    \A v \in Dirs, d \in Dates :
        dirs[v][d] - finished[v][d]
            <= Cardinality(At(InBlock, v, d)) + failures * Cardinality(Threads)

BlockInv == HasData /\ WholeFirst /\ Litter

LEMMA AtFinite ==
    \A S, v, d : IsFiniteSet(At(S, v, d)) /\ Cardinality(At(S, v, d)) \in Nat
<1>1. IsFiniteSet(Workers) /\ IsFiniteSet(Threads)
  BY Pass2Assumption, FS_Interval DEF Workers
<1>2. IsFiniteSet(Workers \X Threads)
  BY <1>1, FS_Product
<1>3. \A S, v, d : At(S, v, d) \in SUBSET (Workers \X Threads)
  BY DEF At
<1> QED BY <1>2, <1>3, FS_Subset, FS_CardinalityType

LEMMA AtFinitePrimed ==
    \A S, v, d : IsFiniteSet(At(S, v, d)') /\ Cardinality(At(S, v, d)') \in Nat
<1>1. IsFiniteSet(Workers) /\ IsFiniteSet(Threads)
  BY Pass2Assumption, FS_Interval DEF Workers
<1>2. IsFiniteSet(Workers \X Threads)
  BY <1>1, FS_Product
<1>3. \A S, v, d : At(S, v, d)' \in SUBSET (Workers \X Threads)
  BY DEF At
<1> QED BY <1>2, <1>3, FS_Subset, FS_CardinalityType

LEMMA ThreadCount == IsFiniteSet(Threads) /\ Cardinality(Threads) \in Nat
BY Pass2Assumption, FS_CardinalityType

(* Nothing that counts moves.                                               *)
LEMMA AtSame ==
    ASSUME NEW S, NEW v, NEW d,
           \A w \in Workers, t \in Threads : Here(w, t, S, v, d)' <=> Here(w, t, S, v, d)
    PROVE  At(S, v, d)' = At(S, v, d)
BY DEF At, Here

(* One thread moves: the count changes by its own part.                     *)
LEMMA AtMoved ==
    ASSUME NEW S, NEW v, NEW d, NEW w \in Workers, NEW t \in Threads,
           NEW p, NEW e, Moved(w, t, p, e)
    PROVE  /\ Here(w, t, S, v, d) /\ Arrives(w, p, e, S, v, d) =>
                 Cardinality(At(S, v, d)') = Cardinality(At(S, v, d))
           /\ Here(w, t, S, v, d) /\ ~Arrives(w, p, e, S, v, d) =>
                 Cardinality(At(S, v, d)') = Cardinality(At(S, v, d)) - 1
           /\ ~Here(w, t, S, v, d) /\ Arrives(w, p, e, S, v, d) =>
                 Cardinality(At(S, v, d)') = Cardinality(At(S, v, d)) + 1
           /\ ~Here(w, t, S, v, d) /\ ~Arrives(w, p, e, S, v, d) =>
                 Cardinality(At(S, v, d)') = Cardinality(At(S, v, d))
<1> DEFINE After == Arrives(w, p, e, S, v, d)
           A == At(S, v, d)
           B == At(S, v, d)'
           x == <<w, t>>
<1>1. \A u \in Workers, y \in Threads :
         u # w \/ y # t => (Here(u, y, S, v, d)' <=> Here(u, y, S, v, d))
  BY DEF Moved, Here
<1>2. Here(w, t, S, v, d)' <=> After
  BY DEF Moved, Here, Arrives
<1>3. A = {y \in Workers \X Threads : Here(y[1], y[2], S, v, d)}
  BY DEF At
<1>4. B = {y \in Workers \X Threads : Here(y[1], y[2], S, v, d)'}
  BY DEF At
<1>5. IsFiniteSet(A) /\ Cardinality(A) \in Nat /\ IsFiniteSet(B)
  BY AtFinite, AtFinitePrimed
<1>6. x \in A <=> Here(w, t, S, v, d)
  BY <1>3
<1>7. x \in B <=> After
  BY <1>2, <1>4
<1>8. \A y \in Workers \X Threads : y # x => (y \in A <=> y \in B)
  BY <1>1, <1>3, <1>4
<1>9. A \subseteq Workers \X Threads /\ B \subseteq Workers \X Threads
  BY <1>3, <1>4
<1> HIDE DEF A, B, x, After
<1> DEFINE Goal == /\ x \in A /\ After => Cardinality(B) = Cardinality(A)
                   /\ x \in A /\ ~After => Cardinality(B) = Cardinality(A) - 1
                   /\ x \notin A /\ After => Cardinality(B) = Cardinality(A) + 1
                   /\ x \notin A /\ ~After => Cardinality(B) = Cardinality(A)
<1>10. ASSUME (x \in A) = (x \in B) PROVE Goal
  <2>1. A = B
    BY <1>8, <1>9, <1>10
  <2> QED BY <1>7, <1>10, <2>1
<1>11. ASSUME x \in A /\ x \notin B PROVE Goal
  <2>1. B = A \ {x}
    BY <1>8, <1>9, <1>11
  <2>2. Cardinality(B) = Cardinality(A) - 1
    BY <1>5, <1>11, <2>1, FS_RemoveElement
  <2> QED BY <1>7, <1>11, <2>2
<1>12. ASSUME x \notin A, x \in B PROVE Goal
  <2>1. x \in Workers \X Threads
    BY DEF x
  <2>2. B = A \cup {x}
    BY <1>8, <1>9, <1>12, <2>1
  <2>3. Cardinality(B) = Cardinality(A) + 1
    BY <1>5, <1>12, <2>2, FS_AddElement
  <2> QED BY <1>7, <1>12, <2>3
<1>13. Goal
  BY <1>10, <1>11, <1>12
<1> QED BY <1>6, <1>13 DEF A, B, After

(* The threads of one worker stop: as many as it has leave, at most.        *)
LEMMA AtHalted ==
    ASSUME NEW S, "off" \notin S, NEW v, NEW d, NEW w \in Workers, Halted(w)
    PROVE  /\ Cardinality(At(S, v, d)') <= Cardinality(At(S, v, d))
           /\ Cardinality(At(S, v, d))
                  <= Cardinality(At(S, v, d)') + Cardinality(Threads)
<1> DEFINE A == At(S, v, d)
           B == At(S, v, d)'
           C == {w} \X Threads
<1>1. \A u \in Workers, y \in Threads :
         u # w => (Here(u, y, S, v, d)' <=> Here(u, y, S, v, d))
  BY DEF Halted, Here
<1>2. \A y \in Threads : ~Here(w, y, S, v, d)'
  BY DEF Halted, Here
<1>3. B \in SUBSET A
  BY <1>1, <1>2 DEF At
<1>4. A \in SUBSET (B \cup C)
  BY <1>1, <1>2 DEF At
<1>5. IsFiniteSet(A) /\ Cardinality(A) \in Nat /\ IsFiniteSet(B) /\ Cardinality(B) \in Nat
  BY AtFinite, AtFinitePrimed
<1>6. IsFiniteSet({w}) /\ Cardinality({w}) = 1
  BY FS_Singleton
<1>7. IsFiniteSet(C) /\ Cardinality(C) = Cardinality({w}) * Cardinality(Threads)
  BY <1>6, ThreadCount, FS_Product
<1>8. Cardinality(C) = Cardinality(Threads)
  BY <1>6, <1>7, ThreadCount
<1> HIDE DEF A, B, C
<1>9. Cardinality(B) <= Cardinality(A)
  BY <1>3, <1>5, FS_Subset
<1>10. IsFiniteSet(B \cup C) /\ Cardinality(A) <= Cardinality(B \cup C)
  BY <1>4, <1>5, <1>7, FS_Subset, FS_Union
<1>11. Cardinality(B \cup C) = Cardinality(B) + Cardinality(C) - Cardinality(B \cap C)
  BY <1>5, <1>7, FS_Union
<1>12. Cardinality(B \cap C) \in Nat
  <2>1. B \cap C \in SUBSET B
    OBVIOUS
  <2> QED BY <1>5, <2>1, FS_Subset, FS_CardinalityType
<1>13. Cardinality(A) <= Cardinality(B) + Cardinality(Threads)
  BY <1>5, <1>8, <1>10, <1>11, <1>12, ThreadCount
<1> QED BY <1>9, <1>13 DEF A, B

LEMMA CountTypes ==
    TypeOK => \A v \in Dirs, d \in Dates :
                 dirs[v][d] \in Nat /\ whole[v][d] \in Nat /\ finished[v][d] \in Nat
BY DEF TypeOK

LEMMA FailureTypes == TypeOK => failures \in Nat /\ failures * Cardinality(Threads) \in Nat
BY ThreadCount DEF TypeOK

(* No thread begins or ends a part of a block.                              *)
SameWork ==
    \A u \in Workers, x \in Threads :
        /\ tpc'[u][x] \in InBlock <=> tpc[u][x] \in InBlock
        /\ tpc'[u][x] \in InMeta <=> tpc[u][x] \in InMeta
        /\ tpc[u][x] \in InBlock => tdate'[u][x] = tdate[u][x]

LEMMA BlockFrame ==
    BlockInv /\ SameWork /\ UNCHANGED <<input, blocks, failures>> => BlockInv'
<1> SUFFICES ASSUME BlockInv, SameWork, UNCHANGED <<input, blocks, failures>>
             PROVE  BlockInv'
  OBVIOUS
<1>1. \A v, d : At(InBlock, v, d)' = At(InBlock, v, d)
  BY AtSame DEF SameWork, Here
<1>2. \A v, d : At(InMeta, v, d)' = At(InMeta, v, d)
  BY AtSame DEF SameWork, Here, InBlock, InMeta
<1>3. HasData'
  BY DEF BlockInv, HasData, SameWork, input, InBlock, InMeta
<1>4. WholeFirst'
  BY <1>2 DEF BlockInv, WholeFirst, input, blocks
<1>5. Litter'
  BY <1>1 DEF BlockInv, Litter, blocks
<1> QED BY <1>3, <1>4, <1>5 DEF BlockInv

LEMMA DieKeepsBlocks ==
    ASSUME TypeInv, BlockInv, NEW w \in Workers, Die(w)
    PROVE  BlockInv'
<1>1. /\ Halted(w) /\ failures' = failures + 1 /\ failures \in Nat
      /\ UNCHANGED <<input, blocks>>
  BY ThreadsHalt DEF Die, TypeInv, TypeOK
<1>2. \A v, d :
        /\ Cardinality(At(InMeta, v, d)') <= Cardinality(At(InMeta, v, d))
        /\ Cardinality(At(InBlock, v, d))
             <= Cardinality(At(InBlock, v, d)') + Cardinality(Threads)
  BY <1>1, AtHalted DEF InMeta, InBlock
<1>3. HasData'
  BY <1>1 DEF BlockInv, HasData, Halted, input, InBlock, InMeta
<1>4. WholeFirst'
  <2> SUFFICES ASSUME NEW v \in Dirs, NEW d \in Dates
               PROVE  /\ whole'[v][d] >= finished'[v][d] + Cardinality(At(InMeta, v, d)')
                      /\ finished'[v][d] > 0 => d \notin Empty \cup torn'
    BY DEF WholeFirst
  <2>1. /\ whole[v][d] >= finished[v][d] + Cardinality(At(InMeta, v, d))
        /\ finished[v][d] > 0 => d \notin Empty \cup torn
    BY DEF BlockInv, WholeFirst
  <2>2. whole[v][d] \in Nat /\ finished[v][d] \in Nat
    BY CountTypes DEF TypeInv
  <2>3. whole[v][d] >= finished[v][d] + Cardinality(At(InMeta, v, d)')
    BY <1>2, <2>1, <2>2, AtFinite, AtFinitePrimed
  <2> QED BY <1>1, <2>1, <2>3 DEF input, blocks
<1>5. Litter'
  <2> SUFFICES ASSUME NEW v \in Dirs, NEW d \in Dates
               PROVE  dirs'[v][d] - finished'[v][d]
                        <= Cardinality(At(InBlock, v, d)') + failures' * Cardinality(Threads)
    BY DEF Litter
  <2>1. dirs[v][d] - finished[v][d]
          <= Cardinality(At(InBlock, v, d)) + failures * Cardinality(Threads)
    BY DEF BlockInv, Litter
  <2>2. dirs[v][d] \in Nat /\ finished[v][d] \in Nat
    BY CountTypes DEF TypeInv
  <2>3. failures' * Cardinality(Threads)
          = failures * Cardinality(Threads) + Cardinality(Threads)
    BY <1>1, ThreadCount
  <2>4. failures * Cardinality(Threads) \in Nat
    BY <1>1, ThreadCount
  <2>5. dirs[v][d] - finished[v][d]
          <= Cardinality(At(InBlock, v, d)') + failures' * Cardinality(Threads)
    BY <1>2, <2>1, <2>2, <2>3, <2>4, AtFinite, AtFinitePrimed, ThreadCount
  <2> QED BY <1>1, <2>5 DEF blocks
<1> QED BY <1>3, <1>4, <1>5 DEF BlockInv

LEMMA NewBlockKeepsBlocks ==
    ASSUME TypeInv, BlockInv, NEW w \in Workers, NEW t \in Threads, NewBlock(w, t)
    PROVE  BlockInv'
<1> DEFINE v0 == DirOf(w)
           d0 == tdate[w][t]
<1>0. TypeOK /\ v0 \in Dirs /\ d0 \in Dates
  BY DirsOfWorkers, AsksDateOf DEF TypeInv, NewBlock
<1>1. /\ Moved(w, t, "build", d0) /\ tpc[w][t] = "have" /\ d0 \notin Empty
      /\ UNCHANGED <<input, whole, finished, failures>>
  BY <1>0, ThreadSteps DEF NewBlock, PCs, bounds
<1>2. OneMore(dirs', dirs, v0, d0)
  BY <1>0, Counts DEF NewBlock, TypeOK
<1> HIDE DEF v0, d0
<1>3. HasData'
  BY <1>1 DEF BlockInv, HasData, Moved, input, InBlock, InMeta
<1>4. WholeFirst'
  <2>1. \A v, d : At(InMeta, v, d)' = At(InMeta, v, d)
    BY <1>1, AtSame DEF Moved, Here, InMeta
  <2> QED BY <1>1, <2>1 DEF BlockInv, WholeFirst, input
<1>5. Litter'
  <2> SUFFICES ASSUME NEW v \in Dirs, NEW d \in Dates
               PROVE  dirs'[v][d] - finished'[v][d]
                        <= Cardinality(At(InBlock, v, d)') + failures' * Cardinality(Threads)
    BY DEF Litter
  <2>1. dirs[v][d] - finished[v][d]
          <= Cardinality(At(InBlock, v, d)) + failures * Cardinality(Threads)
    BY DEF BlockInv, Litter
  <2>2. /\ dirs[v][d] \in Nat /\ finished[v][d] \in Nat
        /\ failures * Cardinality(Threads) \in Nat
    BY CountTypes, FailureTypes DEF TypeInv
  <2>3. ~Here(w, t, InBlock, v, d)
    BY <1>1 DEF Here, InBlock
  <2>4. CASE v = v0 /\ d = d0
    <3>1. Arrives(w, "build", d0, InBlock, v, d)
      BY <2>4 DEF Arrives, InBlock, v0
    <3>2. Cardinality(At(InBlock, v, d)') = Cardinality(At(InBlock, v, d)) + 1
      BY <1>1, <2>3, <3>1, AtMoved
    <3>3. dirs'[v][d] = dirs[v][d] + 1
      BY <1>2, <2>4 DEF OneMore
    <3> QED BY <1>1, <2>1, <2>2, <3>2, <3>3, AtFinite
  <2>5. CASE ~(v = v0 /\ d = d0)
    <3>1. ~Arrives(w, "build", d0, InBlock, v, d)
      BY <2>5 DEF Arrives, v0
    <3>2. Cardinality(At(InBlock, v, d)') = Cardinality(At(InBlock, v, d))
      BY <1>1, <2>3, <3>1, AtMoved
    <3>3. dirs'[v][d] = dirs[v][d]
      BY <1>2, <2>5 DEF OneMore
    <3> QED BY <1>1, <2>1, <3>2, <3>3
  <2> QED BY <2>4, <2>5
<1> QED BY <1>3, <1>4, <1>5 DEF BlockInv

LEMMA WriteBlockKeepsBlocks ==
    ASSUME TypeInv, BlockInv, NEW w \in Workers, NEW t \in Threads, WriteBlock(w, t)
    PROVE  BlockInv'
<1> DEFINE v0 == DirOf(w)
           d0 == tdate[w][t]
<1>0. TypeOK /\ v0 \in Dirs /\ d0 \in Dates
  BY DirsOfWorkers, AsksDateOf DEF TypeInv, WriteBlock
<1>1. /\ Moved(w, t, "meta", d0) /\ tpc[w][t] = "build" /\ d0 \notin torn
      /\ UNCHANGED <<input, dirs, finished, failures>>
  BY <1>0, ThreadSteps DEF WriteBlock, PCs, bounds
<1>2. OneMore(whole', whole, v0, d0)
  BY <1>0, Counts DEF WriteBlock, TypeOK
<1>3. HasData'
  BY <1>1 DEF BlockInv, HasData, Moved, input, InBlock, InMeta
<1> HIDE DEF v0, d0
<1>4. WholeFirst'
  <2> SUFFICES ASSUME NEW v \in Dirs, NEW d \in Dates
               PROVE  /\ whole'[v][d] >= finished'[v][d] + Cardinality(At(InMeta, v, d)')
                      /\ finished'[v][d] > 0 => d \notin Empty \cup torn'
    BY DEF WholeFirst
  <2>1. /\ whole[v][d] >= finished[v][d] + Cardinality(At(InMeta, v, d))
        /\ finished[v][d] > 0 => d \notin Empty \cup torn
    BY DEF BlockInv, WholeFirst
  <2>2. whole[v][d] \in Nat /\ finished[v][d] \in Nat
    BY CountTypes DEF TypeInv
  <2>3. ~Here(w, t, InMeta, v, d)
    BY <1>1 DEF Here, InMeta
  <2>4. CASE v = v0 /\ d = d0
    <3>1. Arrives(w, "meta", d0, InMeta, v, d)
      BY <2>4 DEF Arrives, InMeta, v0
    <3>2. Cardinality(At(InMeta, v, d)') = Cardinality(At(InMeta, v, d)) + 1
      BY <1>1, <2>3, <3>1, AtMoved
    <3>3. whole'[v][d] = whole[v][d] + 1
      BY <1>2, <2>4 DEF OneMore
    <3> QED BY <1>1, <2>1, <2>2, <3>2, <3>3, AtFinite DEF input
  <2>5. CASE ~(v = v0 /\ d = d0)
    <3>1. ~Arrives(w, "meta", d0, InMeta, v, d)
      BY <2>5 DEF Arrives, v0
    <3>2. Cardinality(At(InMeta, v, d)') = Cardinality(At(InMeta, v, d))
      BY <1>1, <2>3, <3>1, AtMoved
    <3>3. whole'[v][d] = whole[v][d]
      BY <1>2, <2>5 DEF OneMore
    <3> QED BY <1>1, <2>1, <3>2, <3>3 DEF input
  <2> QED BY <2>4, <2>5
<1>5. Litter'
  <2>1. \A v, d : At(InBlock, v, d)' = At(InBlock, v, d)
    BY <1>1, AtSame DEF Moved, Here, InBlock, d0
  <2> QED BY <1>1, <2>1 DEF BlockInv, Litter
<1> QED BY <1>3, <1>4, <1>5 DEF BlockInv

LEMMA WriteMetaKeepsBlocks ==
    ASSUME TypeInv, BlockInv, NEW w \in Workers, NEW t \in Threads, WriteMeta(w, t)
    PROVE  BlockInv'
<1> DEFINE v0 == DirOf(w)
           d0 == tdate[w][t]
<1>0. TypeOK /\ v0 \in Dirs /\ d0 \in Dates /\ NoDate \notin Dates
  BY DirsOfWorkers, AsksDateOf, Pass2Assumption DEF TypeInv, WriteMeta
<1>1. /\ Moved(w, t, "recv", NoDate) /\ tpc[w][t] = "meta"
      /\ UNCHANGED <<input, dirs, whole, failures>>
  BY <1>0, ThreadMoves DEF WriteMeta, PCs, bounds
<1>2. OneMore(finished', finished, v0, d0)
  BY <1>0, Counts DEF WriteMeta, TypeOK
<1>3. HasData'
  BY <1>1 DEF BlockInv, HasData, Moved, input, InBlock, InMeta
<1>4. d0 \notin Empty \cup torn
  BY <1>1 DEF BlockInv, HasData, InBlock, InMeta
<1>5. \A S, v, d : ~Arrives(w, "recv", NoDate, S, v, d) \/ "recv" \in S
  BY DEF Arrives
<1>6. /\ \A v, d : Here(w, t, InMeta, v, d) <=> v = v0 /\ d = d0
      /\ \A v, d : Here(w, t, InBlock, v, d) <=> v = v0 /\ d = d0
  BY <1>1 DEF Here, InMeta, InBlock
<1> HIDE DEF v0, d0
<1>7. WholeFirst'
  <2> SUFFICES ASSUME NEW v \in Dirs, NEW d \in Dates
               PROVE  /\ whole'[v][d] >= finished'[v][d] + Cardinality(At(InMeta, v, d)')
                      /\ finished'[v][d] > 0 => d \notin Empty \cup torn'
    BY DEF WholeFirst
  <2>1. /\ whole[v][d] >= finished[v][d] + Cardinality(At(InMeta, v, d))
        /\ finished[v][d] > 0 => d \notin Empty \cup torn
    BY DEF BlockInv, WholeFirst
  <2>2. whole[v][d] \in Nat /\ finished[v][d] \in Nat
    BY CountTypes DEF TypeInv
  <2>3. ~Arrives(w, "recv", NoDate, InMeta, v, d)
    BY <1>5 DEF InMeta
  <2>4. CASE v = v0 /\ d = d0
    <3>1. Cardinality(At(InMeta, v, d)') = Cardinality(At(InMeta, v, d)) - 1
      BY <1>1, <1>6, <2>3, <2>4, AtMoved
    <3>2. finished'[v][d] = finished[v][d] + 1
      BY <1>2, <2>4 DEF OneMore
    <3> QED BY <1>1, <1>4, <2>1, <2>2, <2>4, <3>1, <3>2, AtFinite DEF input
  <2>5. CASE ~(v = v0 /\ d = d0)
    <3>1. Cardinality(At(InMeta, v, d)') = Cardinality(At(InMeta, v, d))
      BY <1>1, <1>6, <2>3, <2>5, AtMoved
    <3>2. finished'[v][d] = finished[v][d]
      BY <1>2, <2>5 DEF OneMore
    <3> QED BY <1>1, <2>1, <3>1, <3>2 DEF input
  <2> QED BY <2>4, <2>5
<1>8. Litter'
  <2> SUFFICES ASSUME NEW v \in Dirs, NEW d \in Dates
               PROVE  dirs'[v][d] - finished'[v][d]
                        <= Cardinality(At(InBlock, v, d)') + failures' * Cardinality(Threads)
    BY DEF Litter
  <2>1. dirs[v][d] - finished[v][d]
          <= Cardinality(At(InBlock, v, d)) + failures * Cardinality(Threads)
    BY DEF BlockInv, Litter
  <2>2. /\ dirs[v][d] \in Nat /\ finished[v][d] \in Nat
        /\ failures * Cardinality(Threads) \in Nat
    BY CountTypes, FailureTypes DEF TypeInv
  <2>3. ~Arrives(w, "recv", NoDate, InBlock, v, d)
    BY <1>5 DEF InBlock
  <2>4. CASE v = v0 /\ d = d0
    <3>1. Cardinality(At(InBlock, v, d)') = Cardinality(At(InBlock, v, d)) - 1
      BY <1>1, <1>6, <2>3, <2>4, AtMoved
    <3>2. finished'[v][d] = finished[v][d] + 1
      BY <1>2, <2>4 DEF OneMore
    <3> QED BY <1>1, <2>1, <2>2, <3>1, <3>2, AtFinite
  <2>5. CASE ~(v = v0 /\ d = d0)
    <3>1. Cardinality(At(InBlock, v, d)') = Cardinality(At(InBlock, v, d))
      BY <1>1, <1>6, <2>3, <2>5, AtMoved
    <3>2. finished'[v][d] = finished[v][d]
      BY <1>2, <2>5 DEF OneMore
    <3> QED BY <1>1, <2>1, <3>1, <3>2
  <2> QED BY <2>4, <2>5
<1> QED BY <1>3, <1>7, <1>8 DEF BlockInv

LEMMA BlockInvStep == TypeInv /\ BlockInv /\ [Next]_vars => BlockInv'
<1> SUFFICES ASSUME TypeInv, BlockInv, [Next]_vars PROVE BlockInv'
  OBVIOUS
<1>0. TypeOK
  BY DEF TypeInv
<1>1. CASE UNCHANGED vars
  <2>1. SameWork
    BY <1>1 DEF vars, thread, SameWork
  <2> QED BY <1>1, <2>1, BlockFrame DEF vars, bounds
<1>2. ASSUME NEW w \in Workers, NEW r \in ResumeFlags, Start(w, r) PROVE BlockInv'
  <2>1. \A u \in Workers, x \in Threads : /\ u # w => tpc'[u][x] = tpc[u][x]
                                          /\ u = w => tpc'[u][x] = "recv"
    BY <1>0, <1>2 DEF Start, TypeOK
  <2>2. \A x \in Threads : tpc[w][x] = "off"
    BY <1>2 DEF Start, TypeInv, AtRest
  <2>3. SameWork
    BY <1>2, <2>1, <2>2 DEF Start, SameWork, InBlock, InMeta
  <2> QED BY <1>2, <2>3, BlockFrame DEF Start
<1>3. ASSUME NEW w \in Workers, List(w) \/ CloseChan(w) PROVE BlockInv'
  <2>1. SameWork
    BY <1>3 DEF List, CloseChan, thread, SameWork
  <2> QED BY <1>3, <2>1, BlockFrame DEF List, CloseChan, bounds
<1>4. ASSUME NEW w \in Workers, Finish(w) PROVE BlockInv'
  <2>1. Halted(w) /\ \A x \in Threads : tpc[w][x] = "done"
    BY <1>0, <1>4, ThreadsHalt DEF Finish
  <2>2. SameWork
    BY <2>1 DEF Halted, SameWork, InBlock, InMeta
  <2> QED BY <1>4, <2>2, BlockFrame DEF Finish, bounds
<1>5. ASSUME NEW w \in Workers, NEW t \in Threads, Feed(w, t) PROVE BlockInv'
  <2>1. queue[w] \in Seq(Dates) /\ queue[w] # <<>>
    BY <1>0, <1>5 DEF Feed, TypeOK
  <2>2. Head(queue[w]) \in Dates
    BY <2>1
  <2>3. Moved(w, t, "have", Head(queue[w])) /\ tpc[w][t] = "recv"
    BY <1>0, <1>5, <2>2, ThreadMoves DEF Feed, PCs
  <2>4. SameWork
    BY <2>3 DEF Moved, SameWork, InBlock, InMeta
  <2> QED BY <1>5, <2>4, BlockFrame DEF Feed, bounds
<1>6. ASSUME NEW w \in Workers, NEW t \in Threads, NoSeries(w, t) PROVE BlockInv'
  <2>1. Moved(w, t, "recv", NoDate) /\ tpc[w][t] = "have"
    BY <1>0, <1>6, ThreadMoves DEF NoSeries, PCs
  <2>2. SameWork
    BY <2>1 DEF Moved, SameWork, InBlock, InMeta
  <2> QED BY <1>6, <2>2, BlockFrame DEF NoSeries, bounds
<1>7. ASSUME NEW w \in Workers, NEW t \in Threads, EndThread(w, t) PROVE BlockInv'
  <2>1. Moved(w, t, "done", tdate[w][t]) /\ tpc[w][t] = "recv"
    BY <1>0, <1>7, ThreadSteps DEF EndThread, PCs
  <2>2. SameWork
    BY <2>1 DEF Moved, SameWork, InBlock, InMeta
  <2> QED BY <1>7, <2>2, BlockFrame DEF EndThread, bounds
<1> QED
  BY <1>1, <1>2, <1>3, <1>4, <1>5, <1>6, <1>7, DieKeepsBlocks, NewBlockKeepsBlocks,
     WriteBlockKeepsBlocks, WriteMetaKeepsBlocks
     DEF Next, MainStep, ThreadStep, ListFails, BlockFails, Crash

------------------------------------------------------------------------------
(* The division of the dates *)

(* The dates that worker w takes of those in S.                             *)
Part(S, w) ==
    {PathsForWorker(InDateOrder(S), WorkerCount, w)[i] :
        i \in DOMAIN PathsForWorker(InDateOrder(S), WorkerCount, w)}

(* What a worker has still to send is in order and later than what its      *)
(* threads are at, which are different dates; all are of its own part.      *)
InOrder ==
    \A w \in Workers :
        /\ Increasing(queue[w])
        /\ \A i \in DOMAIN queue[w] : queue[w][i] \in Part(listed[w], w)
        /\ \A t \in Threads : tdate[w][t] \in Dates =>
              /\ tdate[w][t] \in Part(listed[w], w)
              /\ \A i \in DOMAIN queue[w] : tdate[w][t] < queue[w][i]
              /\ \A x \in Threads : tdate[w][x] = tdate[w][t] => x = t

(* A run that skips finished dates has none to come, when the directory is  *)
(* its own.                                                                 *)
Unfinished ==
    \A w \in Workers : ~OverwriteBlocks(w) =>
        /\ \A i \in DOMAIN queue[w] : finished[DirOf(w)][queue[w][i]] = 0
        /\ \A t \in Threads : tdate[w][t] \in Dates => finished[DirOf(w)][tdate[w][t]] = 0

LEMMA PartInOrder ==
    ASSUME NEW S \in SUBSET Dates, NEW w \in Workers
    PROVE  /\ PathsForWorker(InDateOrder(S), WorkerCount, w) \in Seq(Dates)
           /\ Increasing(PathsForWorker(InDateOrder(S), WorkerCount, w))
           /\ Part(S, w) \subseteq S
<1> DEFINE s == InDateOrder(S)
           p == PathsForWorker(s, WorkerCount, w)
<1>1. /\ s \in Seq(Dates) /\ \A i \in 1..Len(s) : s[i] \in S
      /\ \A i, j \in 1..Len(s) : i < j => s[i] < s[j]
  BY InDateOrderIs
<1>2. /\ p \in Seq(Dates)
      /\ \A k \in DOMAIN p : /\ k \in Nat /\ TakenAt(w, k) \in 1..Len(s)
                             /\ p[k] = s[TakenAt(w, k)]
  BY <1>1, PathsForWorkerIs
<1>3. Part(S, w) = {p[i] : i \in DOMAIN p}
  BY DEF Part
<1> HIDE DEF s, p
<1>4. Increasing(p)
  <2> SUFFICES ASSUME NEW i \in DOMAIN p, NEW j \in DOMAIN p, i < j PROVE p[i] < p[j]
    BY DEF Increasing
  <2>1. TakenAt(w, i) < TakenAt(w, j)
    BY <1>2, TakenInOrder
  <2> QED BY <1>1, <1>2, <2>1
<1>5. Part(S, w) \subseteq S
  BY <1>1, <1>2, <1>3
<1> QED BY <1>2, <1>4, <1>5 DEF s, p

(* Of one list no two workers take the same date.                           *)
LEMMA PartsApart ==
    ASSUME NEW S \in SUBSET Dates, NEW w \in Workers, NEW u \in Workers,
           NEW d, d \in Part(S, w), d \in Part(S, u)
    PROVE  w = u
<1> DEFINE s == InDateOrder(S)
           a == PathsForWorker(s, WorkerCount, w)
           b == PathsForWorker(s, WorkerCount, u)
<1>1. s \in Seq(Dates) /\ \A i, j \in 1..Len(s) : i < j => s[i] < s[j]
  BY InDateOrderIs
<1>2. \A k \in DOMAIN a : k \in Nat /\ TakenAt(w, k) \in 1..Len(s) /\ a[k] = s[TakenAt(w, k)]
  BY <1>1, PathsForWorkerIs
<1>3. \A k \in DOMAIN b : k \in Nat /\ TakenAt(u, k) \in 1..Len(s) /\ b[k] = s[TakenAt(u, k)]
  BY <1>1, PathsForWorkerIs
<1>4. (\E k \in DOMAIN a : d = a[k]) /\ (\E l \in DOMAIN b : d = b[l])
  BY DEF Part
<1> HIDE DEF s, a, b
<1>5. PICK k, l \in Nat : /\ TakenAt(w, k) \in 1..Len(s) /\ d = s[TakenAt(w, k)]
                          /\ TakenAt(u, l) \in 1..Len(s) /\ d = s[TakenAt(u, l)]
  BY <1>2, <1>3, <1>4
<1>6. Dates \subseteq Int
  BY DEF Dates
<1>7. \A i \in 1..Len(s) : s[i] \in Int
  <2>1. \A i \in 1..Len(s) : s[i] \in Dates
    BY <1>1
  <2> QED BY <1>6, <2>1
<1>8. \A i, j \in 1..Len(s) : s[i] = s[j] => ~(i < j) /\ ~(j < i)
  BY <1>1, <1>7
<1>9. TakenAt(w, k) = TakenAt(u, l)
  <2>1. /\ TakenAt(w, k) \in Int /\ TakenAt(u, l) \in Int
        /\ s[TakenAt(w, k)] = s[TakenAt(u, l)]
    BY <1>5
  <2>2. ~(TakenAt(w, k) < TakenAt(u, l)) /\ ~(TakenAt(u, l) < TakenAt(w, k))
    BY <1>5, <1>8, <2>1
  <2> QED BY <2>1, <2>2
<1> QED BY <1>9, TakenOnce

(* No worker gets anything to do, and none finishes a block.                *)
NothingNew ==
    /\ \A u \in Workers : queue'[u] = queue[u] \/ queue'[u] = <<>>
    /\ \A u \in Workers, x \in Threads : tdate'[u][x] \in {tdate[u][x], NoDate}

LEMMA InOrderFrame ==
    TypeInv /\ InOrder /\ NothingNew /\ listed' = listed => InOrder'
<1> SUFFICES ASSUME TypeInv, InOrder, NothingNew, listed' = listed PROVE InOrder'
  OBVIOUS
<1>0. NoDate \notin Dates
  BY Pass2Assumption
<1> SUFFICES ASSUME NEW w \in Workers
    PROVE  /\ Increasing(queue'[w])
           /\ \A i \in DOMAIN queue'[w] : queue'[w][i] \in Part(listed[w], w)
           /\ \A t \in Threads : tdate'[w][t] \in Dates =>
              /\ tdate'[w][t] \in Part(listed[w], w)
              /\ \A i \in DOMAIN queue'[w] : tdate'[w][t] < queue'[w][i]
              /\ \A x \in Threads : tdate'[w][x] = tdate'[w][t] => x = t
  BY DEF InOrder
<1>1. /\ Increasing(queue[w])
      /\ \A i \in DOMAIN queue[w] : queue[w][i] \in Part(listed[w], w)
      /\ \A t \in Threads : tdate[w][t] \in Dates =>
              /\ tdate[w][t] \in Part(listed[w], w)
              /\ \A i \in DOMAIN queue[w] : tdate[w][t] < queue[w][i]
              /\ \A x \in Threads : tdate[w][x] = tdate[w][t] => x = t
  BY DEF InOrder
<1>2. \A t \in Threads : tdate'[w][t] \in {tdate[w][t], NoDate}
  BY DEF NothingNew
<1>3. CASE queue'[w] = queue[w]
  BY <1>0, <1>1, <1>2, <1>3
<1>4. CASE queue'[w] = <<>>
  <2>1. DOMAIN queue'[w] = {}
    BY <1>4
  <2> QED BY <1>0, <1>1, <1>2, <2>1 DEF Increasing
<1> QED BY <1>3, <1>4 DEF NothingNew

LEMMA UnfinishedFrame ==
    TypeInv /\ Unfinished /\ NothingNew /\ UNCHANGED <<finished, resume>> => Unfinished'
<1> SUFFICES ASSUME TypeInv, Unfinished, NothingNew, UNCHANGED <<finished, resume>>
             PROVE  Unfinished'
  OBVIOUS
<1>0. NoDate \notin Dates
  BY Pass2Assumption
<1> SUFFICES ASSUME NEW w \in Workers, ~resume[w]
    PROVE  /\ \A i \in DOMAIN queue'[w] : finished[DirOf(w)][queue'[w][i]] = 0
           /\ \A t \in Threads : tdate'[w][t] \in Dates => finished[DirOf(w)][tdate'[w][t]] = 0
  BY DEF Unfinished, OverwriteBlocks
<1>1. /\ \A i \in DOMAIN queue[w] : finished[DirOf(w)][queue[w][i]] = 0
      /\ \A t \in Threads : tdate[w][t] \in Dates => finished[DirOf(w)][tdate[w][t]] = 0
  BY DEF Unfinished, OverwriteBlocks
<1>2. queue'[w] = queue[w] \/ DOMAIN queue'[w] = {}
  BY DEF NothingNew
<1>3. \A t \in Threads : tdate'[w][t] \in {tdate[w][t], NoDate}
  BY DEF NothingNew
<1> QED BY <1>0, <1>1, <1>2, <1>3

LEMMA ListDivides ==
    ASSUME TypeInv, InOrder, NEW w \in Workers, List(w)
    PROVE  InOrder' /\ (Unfinished => Unfinished')
<1> DEFINE S == Dates \ SkippableDates(w)
           p == PathsForWorker(InDateOrder(S), WorkerCount, w)
<1>0. NoDate \notin Dates /\ TypeOK /\ AtRest
  BY Pass2Assumption DEF TypeInv
<1>1. p \in Seq(Dates) /\ Increasing(p) /\ Part(S, w) \subseteq S
  BY PartInOrder
<1>2. \A i \in DOMAIN p : p[i] \in Part(S, w)
  BY DEF Part
<1>3. /\ queue'[w] = p /\ listed'[w] = S
      /\ \A u \in Workers : u # w => queue'[u] = queue[u] /\ listed'[u] = listed[u]
      /\ UNCHANGED <<tdate, finished, resume>>
  BY <1>0 DEF List, Remaining, TypeOK, blocks, thread
<1>4. \A t \in Threads : tdate[w][t] = NoDate
  BY <1>0 DEF List, AtRest, Fed
<1>5. ~resume[w] => \A d \in S : finished[DirOf(w)][d] = 0
  BY <1>0, DirsOfWorkers, CountTypes
     DEF SkippableDates, GetFinishedBlockDates, OverwriteBlocks
<1> HIDE DEF S, p
<1>6. InOrder'
  BY <1>0, <1>1, <1>2, <1>3, <1>4 DEF InOrder
<1>7. ASSUME Unfinished PROVE Unfinished'
  BY <1>0, <1>1, <1>2, <1>3, <1>4, <1>5, <1>7 DEF Unfinished, OverwriteBlocks
<1> QED BY <1>6, <1>7

LEMMA FeedKeepsOrder ==
    ASSUME TypeInv, InOrder, NEW w \in Workers, NEW t \in Threads, Feed(w, t)
    PROVE  InOrder' /\ (Unfinished => Unfinished')
<1> DEFINE q == queue[w]
           h == Head(queue[w])
           r == Tail(queue[w])
<1>0. NoDate \notin Dates /\ Dates \subseteq Int /\ TypeOK /\ AtRest
  BY Pass2Assumption DEF TypeInv, Dates
<1>1. q \in Seq(Dates) /\ q # <<>>
  BY <1>0 DEF Feed, TypeOK
<1>2. /\ h \in Dates /\ 1 \in DOMAIN q /\ h = q[1]
      /\ \A i \in DOMAIN r : i + 1 \in DOMAIN q /\ r[i] = q[i + 1] /\ 1 < i + 1
      /\ \A i \in DOMAIN r : i \in Int
  BY <1>1
<1>3. Moved(w, t, "have", h)
  BY <1>0, <1>2, ThreadMoves DEF Feed, PCs
<1>4. /\ queue'[w] = r
      /\ \A u \in Workers : u # w => queue'[u] = queue[u]
      /\ UNCHANGED <<listed, finished, resume>>
  BY <1>0 DEF Feed, TypeOK, blocks
<1>5. tdate[w][t] \notin Dates
  BY <1>0 DEF Feed, AtRest
<1>6. /\ \A i, j \in DOMAIN q : i < j => q[i] < q[j]
      /\ \A i \in DOMAIN q : q[i] \in Part(listed[w], w) /\ q[i] \in Dates
      /\ \A y \in Threads : tdate[w][y] \in Dates =>
              /\ tdate[w][y] \in Part(listed[w], w)
              /\ \A i \in DOMAIN q : tdate[w][y] < q[i]
              /\ \A x \in Threads : tdate[w][x] = tdate[w][y] => x = y
  BY <1>1 DEF InOrder, Increasing
<1> HIDE DEF q, h, r
<1>7. Increasing(r)
  <2> SUFFICES ASSUME NEW i \in DOMAIN r, NEW j \in DOMAIN r, i < j PROVE r[i] < r[j]
    BY DEF Increasing
  <2>1. i + 1 < j + 1
    BY <1>2
  <2> QED BY <1>2, <1>6, <2>1
<1>8. \A i \in DOMAIN r : r[i] \in Part(listed[w], w) /\ h < r[i]
  BY <1>2, <1>6
<1>9. \A y \in Threads : tdate[w][y] \in Dates =>
         tdate[w][y] # h /\ \A i \in DOMAIN r : tdate[w][y] < r[i]
  BY <1>0, <1>2, <1>6
<1>10. h \in Part(listed[w], w)
  BY <1>2, <1>6
<1>11. InOrder'
  <2> SUFFICES ASSUME NEW u \in Workers
      PROVE  /\ Increasing(queue'[u])
             /\ \A i \in DOMAIN queue'[u] : queue'[u][i] \in Part(listed[u], u)
             /\ \A y \in Threads : tdate'[u][y] \in Dates =>
                /\ tdate'[u][y] \in Part(listed[u], u)
                /\ \A i \in DOMAIN queue'[u] : tdate'[u][y] < queue'[u][i]
                /\ \A x \in Threads : tdate'[u][x] = tdate'[u][y] => x = y
    BY <1>4 DEF InOrder
  <2>1. CASE u # w
    BY <1>3, <1>4, <2>1 DEF InOrder, Moved
  <2>2. CASE u = w
    <3>1. tdate'[w][t] = h /\ \A y \in Threads : y # t => tdate'[w][y] = tdate[w][y]
      BY <1>3 DEF Moved
    <3> QED BY <1>2, <1>4, <1>6, <1>7, <1>8, <1>9, <1>10, <2>2, <3>1
  <2> QED BY <2>1, <2>2
<1>12. ASSUME Unfinished PROVE Unfinished'
  <2> SUFFICES ASSUME NEW u \in Workers, ~resume[u]
      PROVE  /\ \A i \in DOMAIN queue'[u] : finished[DirOf(u)][queue'[u][i]] = 0
             /\ \A y \in Threads :
                   tdate'[u][y] \in Dates => finished[DirOf(u)][tdate'[u][y]] = 0
    BY <1>4 DEF Unfinished, OverwriteBlocks
  <2>1. /\ \A i \in DOMAIN queue[u] : finished[DirOf(u)][queue[u][i]] = 0
        /\ \A y \in Threads : tdate[u][y] \in Dates => finished[DirOf(u)][tdate[u][y]] = 0
    BY <1>12 DEF Unfinished, OverwriteBlocks
  <2>2. CASE u # w
    BY <1>3, <1>4, <2>1, <2>2 DEF Moved
  <2>3. CASE u = w
    <3>1. \A i \in DOMAIN q : finished[DirOf(w)][q[i]] = 0
      BY <2>1, <2>3 DEF q
    <3>2. finished[DirOf(w)][h] = 0 /\ \A i \in DOMAIN r : finished[DirOf(w)][r[i]] = 0
      BY <1>2, <3>1
    <3> QED BY <1>3, <1>4, <2>1, <2>3, <3>2 DEF Moved
  <2> QED BY <2>2, <2>3
<1> QED BY <1>11, <1>12

(* The step that adds a meta.json: of this date nothing is left to send.    *)
LEMMA WriteMetaKeepsUnfinished ==
    ASSUME ~SharedBlocks, TypeInv, InOrder, Unfinished,
           NEW w \in Workers, NEW t \in Threads, WriteMeta(w, t)
    PROVE  Unfinished'
<1> DEFINE d0 == tdate[w][t]
<1>0. NoDate \notin Dates /\ Dates \subseteq Int /\ TypeOK /\ d0 \in Dates
  BY AsksDateOf, Pass2Assumption DEF TypeInv, Dates, WriteMeta
<1>1. DirOf(w) \in Dirs /\ OneMore(finished', finished, DirOf(w), d0)
  BY <1>0, DirsOfWorkers, Counts DEF WriteMeta, TypeOK
<1>2. Moved(w, t, "recv", NoDate) /\ UNCHANGED <<queue, resume>>
  BY <1>0, ThreadMoves DEF WriteMeta, PCs
<1> HIDE DEF d0
<1> SUFFICES ASSUME NEW u \in Workers, ~resume[u]
    PROVE  /\ \A i \in DOMAIN queue[u] : finished'[DirOf(u)][queue[u][i]] = 0
           /\ \A y \in Threads : tdate'[u][y] \in Dates => finished'[DirOf(u)][tdate'[u][y]] = 0
  BY <1>2 DEF Unfinished, OverwriteBlocks
<1>3. /\ \A i \in DOMAIN queue[u] : finished[DirOf(u)][queue[u][i]] = 0
      /\ \A y \in Threads : tdate[u][y] \in Dates => finished[DirOf(u)][tdate[u][y]] = 0
  BY DEF Unfinished, OverwriteBlocks
<1>4. \A i \in DOMAIN queue[u] : queue[u][i] \in Dates
  BY <1>0 DEF TypeOK
<1>5. DirOf(u) \in Dirs
  BY DirsOfWorkers
<1>6. CASE u # w
  <2>1. DirOf(u) # DirOf(w)
    BY <1>6 DEF DirOf
  <2>2. \A d \in Dates : finished'[DirOf(u)][d] = finished[DirOf(u)][d]
    BY <1>1, <1>5, <2>1 DEF OneMore
  <2>3. \A y \in Threads : tdate'[u][y] = tdate[u][y]
    BY <1>2, <1>6 DEF Moved
  <2> QED BY <1>3, <1>4, <2>2, <2>3
<1>7. CASE u = w
  <2>1. \A d \in Dates : d # d0 => finished'[DirOf(u)][d] = finished[DirOf(u)][d]
    BY <1>1, <1>5 DEF OneMore
  <2>2. \A i \in DOMAIN queue[u] : queue[u][i] # d0
    <3>1. \A i \in DOMAIN queue[w] : d0 < queue[w][i]
      BY <1>0 DEF InOrder, d0
    <3>2. \A i \in DOMAIN queue[u] : d0 < queue[u][i] /\ queue[u][i] \in Int /\ d0 \in Int
      BY <1>0, <1>4, <1>7, <3>1
    <3> QED BY <3>2
  <2>3. \A y \in Threads : tdate'[u][y] \in Dates =>
           tdate'[u][y] = tdate[u][y] /\ tdate[u][y] # d0
    BY <1>0, <1>2, <1>7 DEF InOrder, Moved, d0
  <2> QED BY <1>3, <1>4, <2>1, <2>2, <2>3
<1> QED BY <1>6, <1>7

(* What a step does to the division: a worker lists its dates or sends one, *)
(* or none gets anything new.                                               *)
LEMMA DividingSteps ==
    ASSUME TypeInv, [Next]_vars
    PROVE  \/ \E w \in Workers : List(w)
           \/ \E w \in Workers, t \in Threads : Feed(w, t)
           \/ NothingNew /\ listed' = listed /\ UNCHANGED <<finished, resume>>
           \/ /\ NothingNew /\ listed' = listed
              /\ \/ \E w \in Workers, t \in Threads : WriteMeta(w, t)
                 \/ \E w \in Workers, r \in ResumeFlags : Start(w, r)
<1> DEFINE Rest == NothingNew /\ listed' = listed /\ UNCHANGED <<finished, resume>>
<1>0. TypeOK
  BY DEF TypeInv
<1>1. CASE UNCHANGED vars
  BY <1>1 DEF vars, blocks, thread, NothingNew
<1>2. ASSUME NEW w \in Workers, Die(w) PROVE Rest
  <2>1. Halted(w)
    BY <1>0, <1>2, ThreadsHalt DEF Die
  <2>2. \A u \in Workers : queue'[u] = queue[u] \/ queue'[u] = <<>>
    BY <1>0, <1>2 DEF Die, TypeOK
  <2> QED BY <1>2, <2>1, <2>2 DEF Halted, NothingNew, Die, blocks
<1>3. ASSUME NEW w \in Workers, NEW r \in ResumeFlags, Start(w, r)
      PROVE  NothingNew /\ listed' = listed
  BY <1>3 DEF Start, NothingNew
<1>4. ASSUME NEW w \in Workers, CloseChan(w) PROVE Rest
  BY <1>4 DEF CloseChan, NothingNew, blocks, thread
<1>5. ASSUME NEW w \in Workers, Finish(w) PROVE Rest
  <2>1. Halted(w)
    BY <1>0, <1>5, ThreadsHalt DEF Finish
  <2> QED BY <1>5, <2>1 DEF Halted, NothingNew, Finish, blocks
<1>6. ASSUME NEW w \in Workers, NEW t \in Threads, NoSeries(w, t) PROVE Rest
  <2>1. Moved(w, t, "recv", NoDate)
    BY <1>0, <1>6, ThreadMoves DEF NoSeries, PCs
  <2> QED BY <1>6, <2>1 DEF Moved, NothingNew, NoSeries, blocks
<1>7. ASSUME NEW w \in Workers, NEW t \in Threads,
             NewBlock(w, t) \/ WriteBlock(w, t) \/ EndThread(w, t)
      PROVE  Rest
  BY <1>7 DEF NothingNew, NewBlock, WriteBlock, EndThread, blocks
<1>8. ASSUME NEW w \in Workers, NEW t \in Threads, WriteMeta(w, t)
      PROVE  NothingNew /\ listed' = listed
  <2>1. Moved(w, t, "recv", NoDate)
    BY <1>0, <1>8, ThreadMoves DEF WriteMeta, PCs
  <2> QED BY <1>8, <2>1 DEF Moved, NothingNew, WriteMeta
<1> QED
  BY <1>1, <1>2, <1>3, <1>4, <1>5, <1>6, <1>7, <1>8
     DEF Next, MainStep, ThreadStep, ListFails, BlockFails, Crash

LEMMA InOrderStep == TypeInv /\ InOrder /\ [Next]_vars => InOrder'
BY DividingSteps, InOrderFrame, ListDivides, FeedKeepsOrder

LEMMA StartKeepsUnfinished ==
    ASSUME TypeInv, Unfinished, NEW w \in Workers, NEW r \in ResumeFlags, Start(w, r)
    PROVE  Unfinished'
<1>0. TypeOK /\ AtRest /\ NoDate \notin Dates
  BY Pass2Assumption DEF TypeInv
<1>1. /\ \A u \in Workers : u # w => resume'[u] = resume[u]
      /\ UNCHANGED <<finished, queue, tdate>>
  BY <1>0 DEF Start, TypeOK, blocks
<1>2. queue[w] = <<>> /\ \A t \in Threads : tdate[w][t] = NoDate
  BY <1>0 DEF Start, AtRest, Fed, Running
<1> QED BY <1>0, <1>1, <1>2 DEF Unfinished, OverwriteBlocks

LEMMA UnfinishedStep ==
    ASSUME ~SharedBlocks
    PROVE  TypeInv /\ InOrder /\ Unfinished /\ [Next]_vars => Unfinished'
BY DividingSteps, UnfinishedFrame, ListDivides, FeedKeepsOrder, WriteMetaKeepsUnfinished,
   StartKeepsUnfinished

------------------------------------------------------------------------------
Pass2Inv == TypeInv /\ BlockInv /\ InOrder

LEMMA Pass2InvInit == Init => Pass2Inv
<1> SUFFICES ASSUME Init PROVE Pass2Inv
  OBVIOUS
<1>1. TypeInv
  BY TypeInvInit
<1>2. /\ \A w \in Workers : queue[w] = <<>> /\ \A t \in Threads : tdate[w][t] = NoDate
      /\ \A w \in Workers, t \in Threads : tpc[w][t] = "off"
      /\ \A v \in Dirs, d \in Dates : dirs[v][d] = 0 /\ whole[v][d] = 0 /\ finished[v][d] = 0
      /\ failures = 0 /\ NoDate \notin Dates
  BY Pass2Assumption DEF Init
<1>3. \A v, d : At(InBlock, v, d) = {} /\ At(InMeta, v, d) = {}
  BY <1>2 DEF At, Here, InBlock, InMeta
<1>4. Cardinality({}) = 0 /\ 0 * Cardinality(Threads) = 0
  BY FS_EmptySet, ThreadCount
<1>5. HasData
  BY <1>2 DEF HasData, InBlock, InMeta
<1>6. WholeFirst /\ Litter
  <2>1. \A v, d : /\ Cardinality(At(InBlock, v, d)) = 0
                  /\ Cardinality(At(InMeta, v, d)) = 0
    BY <1>3, <1>4
  <2> QED BY <1>2, <1>4, <2>1 DEF WholeFirst, Litter
<1>7. InOrder
  BY <1>2 DEF InOrder, Increasing
<1> QED BY <1>1, <1>5, <1>6, <1>7 DEF Pass2Inv, BlockInv

LEMMA Pass2InvStep == Pass2Inv /\ [Next]_vars => Pass2Inv'
BY TypeInvStep, BlockInvStep, InOrderStep DEF Pass2Inv

(* A date that a resuming run would skip has data that can be read, and its *)
(* whole block, wherever workers died.                                      *)
THEOREM FinishedIsWholeAlways == Spec => []FinishedIsWhole
<1>1. Pass2Inv => FinishedIsWhole
  <2> SUFFICES ASSUME Pass2Inv, NEW v \in Dirs, NEW d \in GetFinishedBlockDates(v)
               PROVE  d \notin Empty \cup torn /\ whole[v][d] >= finished[v][d]
    BY DEF FinishedIsWhole
  <2>1. d \in Dates /\ finished[v][d] > 0
    BY DEF GetFinishedBlockDates
  <2>2. /\ whole[v][d] >= finished[v][d] + Cardinality(At(InMeta, v, d))
        /\ d \notin Empty \cup torn
    BY <2>1 DEF Pass2Inv, BlockInv, WholeFirst
  <2>3. whole[v][d] \in Nat /\ finished[v][d] \in Nat
    BY <2>1, CountTypes DEF Pass2Inv, TypeInv
  <2> QED BY <2>2, <2>3, AtFinite
<1> QED BY <1>1, Pass2InvInit, Pass2InvStep, PTL DEF Spec

(* A block directory without meta.json is one that a thread is at, or one   *)
(* that a run that died left, of which there is at most one for each of its *)
(* threads.                                                                 *)
THEOREM LitterBoundedAlways == Spec => []LitterBounded
<1>1. Pass2Inv => LitterBounded
  <2> SUFFICES ASSUME Pass2Inv, NEW v \in Dirs, NEW d \in Dates
               PROVE  dirs[v][d] - finished[v][d]
                        <= BuildersAt(v, d) + failures * Cardinality(Threads)
    BY DEF LitterBounded
  <2> DEFINE B == {x \in Workers \X Threads : DirOf(x[1]) = v /\ tdate[x[1]][x[2]] = d}
  <2>1. IsFiniteSet(Workers \X Threads)
    <3>1. IsFiniteSet(Workers)
      BY Pass2Assumption, FS_Interval DEF Workers
    <3> QED BY <3>1, ThreadCount, FS_Product
  <2>2. B \in SUBSET (Workers \X Threads) /\ At(InBlock, v, d) \in SUBSET B
    BY DEF At, Here
  <2>3. BuildersAt(v, d) = Cardinality(B)
    BY DEF BuildersAt
  <2> HIDE DEF B
  <2>4. IsFiniteSet(B) /\ Cardinality(B) \in Nat
    BY <2>1, <2>2, FS_Subset, FS_CardinalityType
  <2>5. Cardinality(At(InBlock, v, d)) <= Cardinality(B)
    BY <2>2, <2>4, FS_Subset
  <2>6. dirs[v][d] - finished[v][d]
          <= Cardinality(At(InBlock, v, d)) + failures * Cardinality(Threads)
    BY DEF Pass2Inv, BlockInv, Litter
  <2>7. /\ dirs[v][d] \in Nat /\ finished[v][d] \in Nat
        /\ failures * Cardinality(Threads) \in Nat
    BY CountTypes, FailureTypes DEF Pass2Inv, TypeInv
  <2> QED BY <2>3, <2>4, <2>5, <2>6, <2>7, AtFinite
<1> QED BY <1>1, Pass2InvInit, Pass2InvStep, PTL DEF Spec

LEMMA ListsApart == Pass2Inv => NoneTwice
<1> SUFFICES ASSUME Pass2Inv, NEW w \in Workers, NEW u \in Workers, NEW d \in Dates,
                    listed[w] = listed[u], Building(w, d), Building(u, d)
             PROVE  w = u
  BY DEF NoneTwice
<1>1. d \in Part(listed[w], w) /\ d \in Part(listed[u], u)
  BY DEF Pass2Inv, InOrder, Building
<1>2. listed[w] \in SUBSET Dates
  BY DEF Pass2Inv, TypeInv, TypeOK
<1> QED BY <1>1, <1>2, PartsApart

(* Workers that divided the same list of dates never build the same one.    *)
THEOREM NoneTwiceAlways == Spec => []NoneTwice
BY ListsApart, Pass2InvInit, Pass2InvStep, PTL DEF Spec

(* When each worker has a directory of its own, a date gets a second        *)
(* finished block there only from a run that does not skip finished dates,  *)
(* whatever crashes and restarts there were before.                         *)
THEOREM SecondOnlyOverwritingAlways ==
    ASSUME ~SharedBlocks
    PROVE  Spec => SecondOnlyOverwriting
<1> DEFINE Own == \A v \in Dirs, d \in Dates :
                     finished[v][d] > 0 /\ finished'[v][d] > finished[v][d] =>
                        \E w \in Workers : DirOf(w) = v /\ OverwriteBlocks(w) /\ Building(w, d)
<1>1. Init => Pass2Inv /\ Unfinished
  <2> SUFFICES ASSUME Init PROVE Unfinished
    BY Pass2InvInit
  <2>1. \A w \in Workers : queue[w] = <<>> /\ \A t \in Threads : tdate[w][t] = NoDate
    BY DEF Init
  <2> QED BY <2>1, Pass2Assumption DEF Unfinished
<1>2. Pass2Inv /\ Unfinished /\ [Next]_vars => (Pass2Inv /\ Unfinished)'
  BY Pass2InvStep, UnfinishedStep DEF Pass2Inv
<1>3. Pass2Inv /\ Unfinished /\ [Next]_vars => [Own]_vars
  <2> SUFFICES ASSUME Pass2Inv, Unfinished, [Next]_vars,
                      NEW v \in Dirs, NEW d \in Dates,
                      finished[v][d] > 0, finished'[v][d] > finished[v][d]
               PROVE  \E w \in Workers : DirOf(w) = v /\ OverwriteBlocks(w) /\ Building(w, d)
    OBVIOUS
  <2>1. TypeInv /\ finished[v][d] \in Nat
    BY CountTypes DEF Pass2Inv, TypeInv
  <2>2. finished' # finished
    BY <2>1
  <2>3. PICK w \in Workers, t \in Threads : WriteMeta(w, t)
    BY <2>1, <2>2, DividingSteps DEF List, Feed, Start, blocks
  <2>4. OneMore(finished', finished, DirOf(w), tdate[w][t]) /\ tdate[w][t] \in Dates
    BY <2>1, <2>3, AsksDateOf, DirsOfWorkers, Counts DEF WriteMeta, TypeInv, TypeOK
  <2>5. v = DirOf(w) /\ d = tdate[w][t]
    BY <2>1, <2>4 DEF OneMore
  <2>6. OverwriteBlocks(w)
    BY <2>1, <2>4, <2>5 DEF Unfinished
  <2> QED BY <2>5, <2>6 DEF Building
<1> QED BY <1>1, <1>2, <1>3, PTL DEF Spec, SecondOnlyOverwriting
------------------------------------------------------------------------------
(* All dates of a list are taken *)

LEMMA DatesAre == Dates \subseteq Int /\ \A d \in Dates : d >= 1
BY Pass2Assumption DEF Dates

(* A list in order has all its dates, and no date before its place.         *)
LEMMA OrderHasAll ==
    ASSUME NEW S \in SUBSET Dates
    PROVE  /\ Len(InDateOrder(S)) = Cardinality(S)
           /\ \A d \in S : \E i \in 1..Len(InDateOrder(S)) : InDateOrder(S)[i] = d
<1> DEFINE s == InDateOrder(S)
           n == Cardinality(S)
<1>1. InOrderOf(s, S)
  BY OrderExists DEF InOrderOf, InDateOrder
<1>2. n \in Nat /\ IsFiniteSet(S)
  BY DatesFinite
<1>3. s \in [1..n -> S] /\ Len(s) = n /\ DOMAIN s = 1..n
  BY <1>1, <1>2 DEF InOrderOf
<1>4. \A i, j \in 1..n : i < j => s[i] < s[j]
  BY <1>1, <1>3 DEF InOrderOf, Increasing
<1> HIDE DEF s, n
<1>5. \A i \in 1..n : s[i] \in Int
  <2>1. \A i \in 1..n : s[i] \in Dates
    BY <1>3
  <2> QED BY <2>1, DatesAre
<1>6. \A i, j \in 1..n : s[i] = s[j] => i = j
  <2> SUFFICES ASSUME NEW i \in 1..n, NEW j \in 1..n, s[i] = s[j] PROVE i = j
    OBVIOUS
  <2>1. ~(i < j) /\ ~(j < i)
    BY <1>4, <1>5
  <2> QED BY <1>2, <2>1
<1>7. s \in Injection(1..n, S)
  BY <1>3, <1>6 DEF Injection, IsInjective
<1>8. IsFiniteSet(1..n) /\ Cardinality(1..n) = n
  BY <1>2, FS_Interval
<1>9. Cardinality(1..n) = Cardinality(S)
  BY <1>8 DEF n
<1>10. s \in Surjection(1..n, S)
  BY <1>2, <1>7, <1>9, FS_Injection
<1>11. \A d \in S : \E i \in 1..n : s[i] = d
  BY <1>10 DEF Surjection
<1> QED BY <1>3, <1>11 DEF s, n

LEMMA OrderAtLeast ==
    ASSUME NEW S \in SUBSET Dates
    PROVE  \A i \in 1..Len(InDateOrder(S)) : InDateOrder(S)[i] >= i
<1> DEFINE s == InDateOrder(S)
           Bad == {i \in Nat : i \in 1..Len(s) /\ ~(s[i] >= i)}
<1>1. /\ s \in Seq(Dates) /\ \A i, j \in 1..Len(s) : i < j => s[i] < s[j]
  BY InDateOrderIs
<1>2. \A i \in 1..Len(s) : s[i] \in Int /\ s[i] >= 1
  <2>1. \A i \in 1..Len(s) : s[i] \in Dates
    BY <1>1
  <2> QED BY <2>1, DatesAre
<1> SUFFICES ASSUME Bad # {} PROVE FALSE
  OBVIOUS
<1> HIDE DEF s
<1>3. PICK m \in Bad : \A k \in Bad : ~(<<k, m>> \in OpToRel(<, Nat))
  BY WFMin, NatLessThanWellFounded
<1>4. m \in 1..Len(s) /\ ~(s[m] >= m) /\ Len(s) \in Nat
  <2>1. m \in Bad
    BY <1>3
  <2>2. Len(s) \in Nat
    BY <1>1
  <2> QED BY <2>1, <2>2
<1>5. m # 1
  BY <1>2, <1>4
<1>6. m - 1 \in 1..Len(s) /\ m - 1 < m /\ m - 1 \in Nat /\ m \in Nat
  BY <1>4, <1>5
<1>7. s[m - 1] >= m - 1
  <2>1. m - 1 \notin Bad
    BY <1>3, <1>6 DEF OpToRel
  <2> QED BY <1>6, <2>1
<1>8. s[m - 1] < s[m]
  BY <1>1, <1>4, <1>6
<1> QED BY <1>2, <1>4, <1>6, <1>7, <1>8

(* The first date, where it is listed, is the first of the list.            *)
LEMMA OrderStart ==
    ASSUME NEW S \in SUBSET Dates, 1 \in S
    PROVE  1 <= Len(InDateOrder(S)) /\ InDateOrder(S)[1] = 1
<1> DEFINE s == InDateOrder(S)
<1>1. PICK i \in 1..Len(s) : s[i] = 1
  BY OrderHasAll
<1>2. s[i] >= i /\ s \in Seq(Dates)
  BY OrderAtLeast, InDateOrderIs
<1> HIDE DEF s
<1>3. i = 1 /\ Len(s) >= 1
  BY <1>1, <1>2
<1> QED BY <1>1, <1>3 DEF s

(* What a worker takes of a list is there, from its own number on.          *)
LEMMA PartAt ==
    ASSUME NEW S \in SUBSET Dates, NEW w \in Workers, NEW d \in Part(S, w)
    PROVE  \E k \in Nat \ {0} : /\ TakenAt(w, k) \in 1..Len(InDateOrder(S))
                                /\ d = InDateOrder(S)[TakenAt(w, k)]
<1> DEFINE s == InDateOrder(S)
           p == PathsForWorker(s, WorkerCount, w)
<1>1. s \in Seq(Dates)
  BY InDateOrderIs
<1>2. /\ p \in Seq(Dates)
      /\ \A k \in DOMAIN p : /\ k \in Nat /\ TakenAt(w, k) \in 1..Len(s)
                             /\ p[k] = s[TakenAt(w, k)]
  BY <1>1, PathsForWorkerIs
<1>3. \E k \in DOMAIN p : d = p[k]
  BY DEF Part
<1> HIDE DEF s, p
<1>4. \A k \in DOMAIN p : k # 0
  BY <1>2
<1>5. \E k \in Nat \ {0} : TakenAt(w, k) \in 1..Len(s) /\ d = s[TakenAt(w, k)]
  BY <1>2, <1>3, <1>4
<1> QED BY <1>5 DEF s

(* Counted from 0, worker w takes no date before w + 1, and worker 0, while *)
(* date 1 is listed, none of the others up to WorkerCount.                  *)
LEMMA PartLater ==
    ASSUME NEW S \in SUBSET Dates, NEW w \in Workers, NEW d \in Part(S, w)
    PROVE  /\ d \in Dates /\ d > w
           /\ 1 \in S /\ w = 0 => d = 1 \/ d > WorkerCount
<1> DEFINE s == InDateOrder(S)
<1>0. WorkerCount \in Nat \ {0} /\ w \in Nat
  BY Pass2Assumption DEF Workers
<1>1. PICK k \in Nat \ {0} : TakenAt(w, k) \in 1..Len(s) /\ d = s[TakenAt(w, k)]
  BY PartAt
<1>2. s[TakenAt(w, k)] >= TakenAt(w, k) /\ s \in Seq(Dates)
  BY <1>1, OrderAtLeast, InDateOrderIs
<1>3. d \in Dates /\ d \in Int
  <2>1. d \in Dates
    BY <1>1, <1>2
  <2> QED BY <2>1, DatesAre
<1>4. 1 \in S => s[1] = 1
  BY OrderStart
<1> DEFINE m == (k - 1) * WorkerCount
<1>5. TakenAt(w, k) = w + m + 1
  BY DEF TakenAt
<1>6. m \in Nat /\ (k # 1 => m >= WorkerCount) /\ (k = 1 => m = 0)
  <2>1. m \in Int
    BY <1>0
  <2>2. CASE k = 1
    BY <1>0, <2>2
  <2>3. CASE k # 1
    <3>1. k - 1 >= 1
      BY <2>3
    <3>2. (k - 1) * WorkerCount >= WorkerCount
      BY <1>0, <3>1
    <3> QED BY <1>0, <2>1, <2>3, <3>2
  <2> QED BY <2>2, <2>3
<1> HIDE DEF s, m
<1>7. d > w
  BY <1>0, <1>1, <1>2, <1>3, <1>5, <1>6
<1>8. ASSUME 1 \in S, w = 0 PROVE d = 1 \/ d > WorkerCount
  <2>1. CASE k = 1
    BY <1>1, <1>4, <1>5, <1>6, <1>8, <2>1
  <2>2. CASE k # 1
    BY <1>0, <1>1, <1>2, <1>3, <1>5, <1>6, <1>8, <2>2
  <2> QED BY <2>1, <2>2
<1> QED BY <1>3, <1>7, <1>8

(* A list of fewer dates than workers is taken by none; of a longer one     *)
(* each date is by one.                                                     *)
LEMMA ShortIsLeft ==
    ASSUME NEW S \in SUBSET Dates, NEW w \in Workers, Cardinality(S) < WorkerCount
    PROVE  Part(S, w) = {}
<1>1. Len(InDateOrder(S)) = Cardinality(S)
  BY OrderHasAll
<1>2. WorkerCount > Len(InDateOrder(S))
  BY <1>1, DatesFinite, Pass2Assumption
<1>3. PathsForWorker(InDateOrder(S), WorkerCount, w) = <<>>
  BY <1>2 DEF PathsForWorker
<1> QED BY <1>3 DEF Part

LEMMA PartsCover ==
    ASSUME NEW S \in SUBSET Dates, Cardinality(S) >= WorkerCount, NEW d \in S
    PROVE  \E w \in Workers : d \in Part(S, w)
<1> DEFINE s == InDateOrder(S)
           n == Len(s)
<1>0. WorkerCount \in Nat \ {0}
  BY Pass2Assumption
<1>1. n = Cardinality(S) /\ n \in Nat /\ n >= WorkerCount
  BY OrderHasAll, DatesFinite
<1>2. PICK i \in 1..n : s[i] = d
  BY OrderHasAll
<1> DEFINE q == (i - 1) \div WorkerCount
           w == (i - 1) % WorkerCount
           r == (n - w - 1) \div WorkerCount
           p == [k \in 1..(r + 1) |-> s[w + (k - 1) * WorkerCount + 1]]
<1> HIDE DEF s, n
<1>3. /\ q \in Nat /\ w \in 0..(WorkerCount - 1)
      /\ i - 1 = WorkerCount * q + w
  BY <1>0, <1>1, <1>2
<1> HIDE DEF q, w
<1>4. n - w - 1 \in Nat /\ w < n
  BY <1>0, <1>1, <1>3
<1>5. r \in Nat /\ n - w - 1 < WorkerCount * (r + 1)
  BY <1>0, <1>4
<1> HIDE DEF r
<1>6. q <= r
  <2>1. WorkerCount * q < WorkerCount * (r + 1)
    <3>1. WorkerCount * q \in Int /\ WorkerCount * (r + 1) \in Int
      BY <1>0, <1>3, <1>5
    <3> QED BY <1>0, <1>1, <1>2, <1>3, <1>5, <3>1
  <2>2. q >= r + 1 => WorkerCount * q >= WorkerCount * (r + 1)
    BY <1>0, <1>3, <1>5
  <2> QED BY <1>0, <1>3, <1>5, <2>1, <2>2
<1>7. PathsForWorker(s, WorkerCount, w) = p
  <2>1. ~(WorkerCount > Len(s) \/ w >= Len(s))
    BY <1>0, <1>1, <1>3, <1>4 DEF n
  <2> QED BY <2>1 DEF PathsForWorker, r, n
<1>8. q + 1 \in DOMAIN p /\ p[q + 1] = d
  <2>1. q + 1 \in 1..(r + 1)
    BY <1>3, <1>5, <1>6
  <2>2. ((q + 1) - 1) * WorkerCount = WorkerCount * q
    BY <1>0, <1>3
  <2>3. w + ((q + 1) - 1) * WorkerCount + 1 = i
    BY <1>0, <1>2, <1>3, <2>2
  <2>4. p[q + 1] = s[w + ((q + 1) - 1) * WorkerCount + 1]
    BY <2>1
  <2> QED BY <1>2, <2>1, <2>3, <2>4
<1>9. w \in Workers
  BY <1>3 DEF Workers
<1> HIDE DEF p
<1>10. d \in Part(S, w)
  BY <1>7, <1>8 DEF Part, s
<1> QED BY <1>9, <1>10

------------------------------------------------------------------------------
(* When every worker is done no date is left out                            *)

HasListed(w) == wpc[w] \in {"feeding", "waiting", "done"}
ToSend(w, d) == \E i \in DOMAIN queue[w] : queue[w][i] = d

(* Of its part a worker has sent, built or skipped every date, or still has *)
(* it in its hands; what it did not list was finished before; and of a list *)
(* that is too short to be divided nothing is finished.                     *)
AccountedFor(w) ==
    HasListed(w) =>
        /\ \A d \in Part(listed[w], w) \ Empty :
              ToSend(w, d) \/ Building(w, d) \/ finished[DirOf(w)][d] > 0
        /\ \A d \in Dates \ listed[w] : finished[DirOf(w)][d] > 0
        /\ Cardinality(listed[w]) < WorkerCount =>
              \A d \in listed[w] : finished[DirOf(w)][d] = 0

Accounted == \A w \in Workers : AccountedFor(w)

(* In its own directory worker w has no block of the dates up to w, and the *)
(* first worker finishes date 1 before it takes another up to WorkerCount.  *)
OwnFrom ==
    /\ \A w \in Workers, d \in Dates : finished[DirOf(w)][d] > 0 => d > w
    /\ finished[DirOf(0)][1] = 0 =>
          \A d \in Dates : d <= WorkerCount => finished[DirOf(0)][d] = 0

(* A step that leaves a worker's list and blocks as they are, and each date *)
(* in its hands there, or that ends its run.                                *)
KeepsDates(u) ==
    \/ ~HasListed(u)'
    \/ /\ HasListed(u) /\ listed'[u] = listed[u]
       /\ \A d \in Dates : finished'[DirOf(u)][d] = finished[DirOf(u)][d]
       /\ \A d \in Dates \ Empty :
             ToSend(u, d) \/ Building(u, d) => (ToSend(u, d) \/ Building(u, d))'

(* A step of another worker.                                                *)
Untouched(u) ==
    /\ wpc'[u] = wpc[u] /\ listed'[u] = listed[u] /\ queue'[u] = queue[u]
    /\ \A t \in Threads : tdate'[u][t] = tdate[u][t]
    /\ \A d \in Dates : finished'[DirOf(u)][d] = finished[DirOf(u)][d]

LEMMA UntouchedKeeps ==
    ASSUME NEW u \in Workers, Untouched(u)
    PROVE  KeepsDates(u)
BY DEF Untouched, KeepsDates, HasListed, ToSend, Building

LEMMA KeepsAccounted ==
    ASSUME TypeOK, NEW u \in Workers, AccountedFor(u), KeepsDates(u)
    PROVE  AccountedFor(u)'
<1>1. CASE ~HasListed(u)'
  BY <1>1 DEF AccountedFor
<1>2. CASE HasListed(u)'
  <2>1. /\ HasListed(u) /\ listed'[u] = listed[u]
        /\ \A d \in Dates : finished'[DirOf(u)][d] = finished[DirOf(u)][d]
        /\ \A d \in Dates \ Empty :
             ToSend(u, d) \/ Building(u, d) => (ToSend(u, d) \/ Building(u, d))'
    BY <1>2 DEF KeepsDates
  <2>2. listed[u] \in SUBSET Dates
    BY DEF TypeOK
  <2>3. Part(listed[u], u) \subseteq Dates
    BY <2>2, PartInOrder
  <2>4. Part(listed'[u], u) = Part(listed[u], u)
    BY <2>1
  <2> QED BY <2>1, <2>2, <2>3, <2>4 DEF AccountedFor
<1> QED BY <1>1, <1>2

(* A worker's run ends or begins.                                           *)
LEMMA DieKeepsDates ==
    ASSUME TypeInv, NEW w \in Workers, Die(w)
    PROVE  \A u \in Workers : KeepsDates(u)
<1>0. TypeOK
  BY DEF TypeInv
<1>1. Halted(w) /\ UNCHANGED <<listed, finished>>
  BY <1>0, ThreadsHalt DEF Die, blocks
<1>2. wpc'[w] = "stopped" /\ \A u \in Workers :
         u # w => wpc'[u] = wpc[u] /\ queue'[u] = queue[u]
  BY <1>0 DEF Die, TypeOK
<1>3. KeepsDates(w)
  BY <1>2 DEF KeepsDates, HasListed
<1>4. \A u \in Workers : u # w => Untouched(u)
  BY <1>1, <1>2 DEF Untouched, Halted
<1> QED BY <1>3, <1>4, UntouchedKeeps

LEMMA StartKeepsDates ==
    ASSUME TypeInv, NEW w \in Workers, NEW r \in ResumeFlags, Start(w, r)
    PROVE  \A u \in Workers : KeepsDates(u)
<1>0. TypeOK
  BY DEF TypeInv
<1>1. UNCHANGED <<listed, finished, queue, tdate>>
  BY DEF Start, blocks
<1>2. wpc'[w] = "listing" /\ \A u \in Workers : u # w => wpc'[u] = wpc[u]
  BY <1>0 DEF Start, TypeOK
<1>3. KeepsDates(w)
  BY <1>2 DEF KeepsDates, HasListed
<1>4. \A u \in Workers : u # w => Untouched(u)
  BY <1>1, <1>2 DEF Untouched
<1> QED BY <1>3, <1>4, UntouchedKeeps

(* The channel is closed only when all was sent, and the run ends only when *)
(* no thread has a date.                                                    *)
LEMMA CloseKeepsDates ==
    ASSUME TypeInv, NEW w \in Workers, CloseChan(w) \/ Finish(w)
    PROVE  \A u \in Workers : KeepsDates(u)
<1>0. TypeOK /\ AtRest
  BY DEF TypeInv
<1>1. UNCHANGED <<listed, finished, queue>>
  BY DEF CloseChan, Finish, blocks
<1>2. HasListed(w) /\ \A u \in Workers : u # w => wpc'[u] = wpc[u]
  BY <1>0 DEF CloseChan, Finish, TypeOK, HasListed
<1>3. \A u \in Workers, t \in Threads : u # w => tdate'[u][t] = tdate[u][t]
  BY <1>0, ThreadsHalt DEF CloseChan, Finish, Halted, thread
<1>4. \A d \in Dates : Building(w, d) => Building(w, d)'
  <2>1. CASE CloseChan(w)
    BY <2>1 DEF CloseChan, thread, Building
  <2>2. CASE Finish(w)
    <3>1. \A t \in Threads : tdate[w][t] \notin Dates
      BY <1>0, <2>2 DEF Finish, AtRest
    <3> QED BY <3>1 DEF Building
  <2> QED BY <2>1, <2>2
<1>5. KeepsDates(w)
  BY <1>1, <1>2, <1>4 DEF KeepsDates, ToSend
<1>6. \A u \in Workers : u # w => Untouched(u)
  BY <1>1, <1>2, <1>3 DEF Untouched
<1> QED BY <1>5, <1>6, UntouchedKeeps

LEMMA ThreadKeepsDates ==
    ASSUME TypeInv, NEW w \in Workers, NEW t \in Threads,
           \/ NoSeries(w, t) \/ NewBlock(w, t) \/ WriteBlock(w, t) \/ EndThread(w, t)
    PROVE  \A u \in Workers : KeepsDates(u)
<1>0. TypeOK /\ AtRest
  BY DEF TypeInv
<1>1. UNCHANGED <<listed, finished, queue, wpc>>
  BY DEF NoSeries, NewBlock, WriteBlock, EndThread, blocks
<1>2. CASE NoSeries(w, t)
  <2>1. Moved(w, t, "recv", NoDate)
    BY <1>0, <1>2, ThreadMoves DEF NoSeries, PCs
  <2>2. \A d \in Dates \ Empty : Building(w, d) => Building(w, d)'
    BY <1>2, <2>1 DEF NoSeries, Building, Moved
  <2>3. HasListed(w)
    <3>1. tdate[w][t] \in Dates
      BY <1>0, <1>2 DEF NoSeries, AtRest
    <3> QED BY <1>0, <3>1, Pass2Assumption DEF AtRest, Fed, HasListed
  <2>4. KeepsDates(w)
    BY <1>1, <2>2, <2>3 DEF KeepsDates, ToSend
  <2>5. \A u \in Workers : u # w => Untouched(u)
    BY <1>1, <2>1 DEF Untouched, Moved
  <2> QED BY <2>4, <2>5, UntouchedKeeps
<1>3. CASE NewBlock(w, t) \/ WriteBlock(w, t) \/ EndThread(w, t)
  <2>1. tdate' = tdate
    BY <1>3 DEF NewBlock, WriteBlock, EndThread
  <2>2. \A u \in Workers : Untouched(u)
    BY <1>1, <2>1 DEF Untouched
  <2> QED BY <2>2, UntouchedKeeps
<1> QED BY <1>2, <1>3

(* The date that is sent is the one the thread is at.                       *)
LEMMA FeedKeepsDates ==
    ASSUME TypeInv, NEW w \in Workers, NEW t \in Threads, Feed(w, t)
    PROVE  \A u \in Workers : KeepsDates(u)
<1> DEFINE q == queue[w]
           h == Head(queue[w])
           r == Tail(queue[w])
<1>0. NoDate \notin Dates /\ TypeOK /\ AtRest
  BY Pass2Assumption DEF TypeInv
<1>1. q \in Seq(Dates) /\ q # <<>>
  BY <1>0 DEF Feed, TypeOK
<1>2. /\ h \in Dates /\ h = q[1]
      /\ \A i \in DOMAIN q : i # 1 => i - 1 \in DOMAIN r /\ r[i - 1] = q[i]
  BY <1>1
<1>3. Moved(w, t, "have", h)
  BY <1>0, <1>2, ThreadMoves DEF Feed, PCs
<1>4. /\ queue'[w] = r
      /\ \A u \in Workers : u # w => queue'[u] = queue[u]
      /\ UNCHANGED <<listed, finished, wpc>>
  BY <1>0 DEF Feed, TypeOK, blocks
<1>5. tdate[w][t] \notin Dates /\ HasListed(w)
  BY <1>0 DEF Feed, AtRest, HasListed
<1> HIDE DEF h, r
<1>6. \A d \in Dates : ToSend(w, d) => ToSend(w, d)' \/ Building(w, d)'
  <2> SUFFICES ASSUME NEW d \in Dates, NEW i \in DOMAIN q, q[i] = d
               PROVE  ToSend(w, d)' \/ Building(w, d)'
    BY DEF ToSend
  <2>1. CASE i = 1
    BY <1>2, <1>3, <2>1 DEF Moved, Building
  <2>2. CASE i # 1
    BY <1>2, <1>4, <2>2 DEF ToSend
  <2> QED BY <2>1, <2>2
<1>7. \A d \in Dates : Building(w, d) => Building(w, d)'
  BY <1>3, <1>5 DEF Building, Moved
<1>8. KeepsDates(w)
  BY <1>4, <1>5, <1>6, <1>7 DEF KeepsDates, HasListed
<1>9. \A u \in Workers : u # w => Untouched(u)
  BY <1>3, <1>4 DEF Untouched, Moved
<1> QED BY <1>8, <1>9, UntouchedKeeps

(* What a worker lists is what its directory has no finished block of, or,  *)
(* when it overwrites, everything.                                          *)
LEMMA ListKeepsAccounted ==
    ASSUME WorkerCount <= DateCount,
           TypeInv, Accounted, NEW w \in Workers, List(w)
    PROVE  Accounted'
<1> DEFINE S == Dates \ SkippableDates(w)
           p == PathsForWorker(InDateOrder(S), WorkerCount, w)
<1>0. TypeOK
  BY DEF TypeInv
<1>1. /\ queue'[w] = p /\ listed'[w] = S
      /\ UNCHANGED finished
      /\ \A u \in Workers : u # w =>
            wpc'[u] = wpc[u] /\ listed'[u] = listed[u] /\ queue'[u] = queue[u]
      /\ UNCHANGED tdate
  BY <1>0 DEF List, Remaining, TypeOK, blocks, thread
<1>2. \A d \in Part(S, w) : \E i \in DOMAIN p : p[i] = d
  BY DEF Part
<1>3. \A d \in Dates \ S : finished[DirOf(w)][d] > 0
  BY DEF SkippableDates, GetFinishedBlockDates
<1>4. Cardinality(S) < WorkerCount => \A d \in S : finished[DirOf(w)][d] = 0
  <2>1. CASE OverwriteBlocks(w)
    <3>1. S = Dates /\ Cardinality(Dates) = DateCount
      BY <2>1, Pass2Assumption, FS_Interval DEF SkippableDates, Dates
    <3>2. WorkerCount \in Nat /\ DateCount \in Nat
      BY Pass2Assumption
    <3> HIDE DEF S
    <3> QED BY <3>1, <3>2
  <2>2. CASE ~OverwriteBlocks(w)
    <3>1. \A d \in S : d \in Dates /\ ~(finished[DirOf(w)][d] > 0)
      BY <2>2 DEF SkippableDates, GetFinishedBlockDates
    <3>2. \A d \in Dates : finished[DirOf(w)][d] \in Nat
      BY <1>0, DirsOfWorkers, CountTypes
    <3> HIDE DEF S
    <3> QED BY <3>1, <3>2
  <2> QED BY <2>1, <2>2
<1> HIDE DEF S, p
<1>5. AccountedFor(w)'
  BY <1>1, <1>2, <1>3, <1>4 DEF AccountedFor, ToSend
<1>6. \A u \in Workers : u # w => AccountedFor(u)'
  <2> SUFFICES ASSUME NEW u \in Workers, u # w PROVE AccountedFor(u)'
    OBVIOUS
  <2>1. Untouched(u)
    BY <1>1 DEF Untouched
  <2> QED BY <1>0, <2>1, UntouchedKeeps, KeepsAccounted DEF Accounted
<1> QED BY <1>5, <1>6 DEF Accounted

(* The step that adds a meta.json, in a directory of the worker's own: only *)
(* a list that is long enough gives a date to a thread.                     *)
LEMMA WriteMetaKeepsAccounted ==
    ASSUME ~SharedBlocks, TypeInv, InOrder, Accounted,
           NEW w \in Workers, NEW t \in Threads, WriteMeta(w, t)
    PROVE  Accounted'
<1> DEFINE d0 == tdate[w][t]
<1>0. NoDate \notin Dates /\ TypeOK /\ d0 \in Dates
  BY AsksDateOf, Pass2Assumption DEF TypeInv, WriteMeta
<1>1. OneMore(finished', finished, DirOf(w), d0)
  BY <1>0, DirsOfWorkers, Counts DEF WriteMeta, TypeOK
<1>2. Moved(w, t, "recv", NoDate) /\ UNCHANGED <<queue, listed, wpc>>
  BY <1>0, ThreadMoves DEF WriteMeta, PCs
<1>3. d0 \in Part(listed[w], w)
  BY <1>0 DEF InOrder
<1>4. listed[w] \in SUBSET Dates /\ Cardinality(listed[w]) \in Nat /\ WorkerCount \in Nat
  BY <1>0, DatesFinite, Pass2Assumption DEF TypeOK
<1>5. ~(Cardinality(listed[w]) < WorkerCount)
  BY <1>3, <1>4, ShortIsLeft
<1>6. Part(listed[w], w) \subseteq Dates
  BY <1>4, PartInOrder
<1>7. \A d \in Dates : /\ finished[DirOf(w)][d] > 0 => finished'[DirOf(w)][d] > 0
                       /\ d = d0 => finished'[DirOf(w)][d] > 0
  <2>1. \A d \in Dates : finished[DirOf(w)][d] \in Nat
    BY <1>0, DirsOfWorkers, CountTypes
  <2> QED BY <1>1, <2>1, DirsOfWorkers DEF OneMore
<1>8. \A d : Building(w, d) => d = d0 \/ Building(w, d)'
  BY <1>2 DEF Building, Moved
<1> HIDE DEF d0
<1>9. AccountedFor(w)'
  <2> SUFFICES ASSUME HasListed(w)
      PROVE  /\ \A d \in Part(listed[w], w) \ Empty :
                  ToSend(w, d) \/ Building(w, d)' \/ finished'[DirOf(w)][d] > 0
             /\ \A d \in Dates \ listed[w] : finished'[DirOf(w)][d] > 0
    BY <1>2, <1>5 DEF AccountedFor, HasListed, ToSend
  <2>1. /\ \A d \in Part(listed[w], w) \ Empty :
              ToSend(w, d) \/ Building(w, d) \/ finished[DirOf(w)][d] > 0
        /\ \A d \in Dates \ listed[w] : finished[DirOf(w)][d] > 0
    BY DEF Accounted, AccountedFor
  <2> QED BY <1>6, <1>7, <1>8, <2>1
<1>10. \A u \in Workers : u # w => AccountedFor(u)'
  <2> SUFFICES ASSUME NEW u \in Workers, u # w PROVE AccountedFor(u)'
    OBVIOUS
  <2>1. DirOf(u) # DirOf(w)
    BY DEF DirOf
  <2>2. \A d \in Dates : finished'[DirOf(u)][d] = finished[DirOf(u)][d]
    BY <1>1, <2>1, DirsOfWorkers DEF OneMore
  <2>3. Untouched(u)
    BY <1>2, <2>2 DEF Untouched, Moved
  <2> QED BY <1>0, <2>3, UntouchedKeeps, KeepsAccounted DEF Accounted
<1> QED BY <1>9, <1>10 DEF Accounted

LEMMA AccountedStep ==
    ASSUME ~SharedBlocks, WorkerCount <= DateCount
    PROVE  TypeInv /\ InOrder /\ Accounted /\ [Next]_vars => Accounted'
<1> SUFFICES ASSUME TypeInv, InOrder, Accounted, [Next]_vars PROVE Accounted'
  OBVIOUS
<1>1. CASE \A u \in Workers : KeepsDates(u)
  <2>1. TypeOK
    BY DEF TypeInv
  <2> QED BY <1>1, <2>1, KeepsAccounted DEF Accounted
<1>2. CASE \E w \in Workers : List(w)
  BY <1>2, ListKeepsAccounted
<1>3. CASE \E w \in Workers, t \in Threads : WriteMeta(w, t)
  BY <1>3, WriteMetaKeepsAccounted
<1>4. CASE UNCHANGED vars
  <2>1. \A u \in Workers : Untouched(u)
    BY <1>4 DEF vars, blocks, thread, Untouched
  <2> QED BY <1>1, <2>1, UntouchedKeeps
<1> QED
  BY <1>1, <1>2, <1>3, <1>4,
     DieKeepsDates, StartKeepsDates, CloseKeepsDates, ThreadKeepsDates, FeedKeepsDates
     DEF Next, MainStep, ThreadStep, ListFails, BlockFails, Crash

(* Only a date of its own part, after its number, is finished by a worker;  *)
(* while date 1 is not finished it is on the first worker's list, before    *)
(* all others of its part, which are later than WorkerCount.                *)
LEMMA OwnFromStep ==
    ASSUME ~SharedBlocks
    PROVE  TypeInv /\ InOrder /\ Accounted /\ OwnFrom /\ [Next]_vars => OwnFrom'
<1> SUFFICES ASSUME TypeInv, InOrder, Accounted, OwnFrom, [Next]_vars PROVE OwnFrom'
  OBVIOUS
<1>0. NoDate \notin Dates /\ TypeOK /\ AtRest /\ 0 \in Workers /\ 1 \in Dates
  BY Pass2Assumption DEF TypeInv, Workers, Dates
<1>1. CASE finished' = finished
  BY <1>1 DEF OwnFrom
<1>2. ASSUME NEW w \in Workers, NEW t \in Threads, WriteMeta(w, t) PROVE OwnFrom'
  <2> DEFINE d0 == tdate[w][t]
  <2>1. d0 \in Dates /\ OneMore(finished', finished, DirOf(w), d0)
    BY <1>0, <1>2, AsksDateOf, DirsOfWorkers, Counts DEF WriteMeta, TypeOK
  <2>2. d0 \in Part(listed[w], w) /\ HasListed(w) /\ listed[w] \in SUBSET Dates
    <3>1. Fed(w)
      BY <1>0, <2>1 DEF AtRest
    <3>2. HasListed(w)
      BY <3>1 DEF Fed, HasListed
    <3> QED BY <1>0, <2>1, <3>2 DEF InOrder, TypeOK
  <2>3. d0 > w /\ (1 \in listed[w] /\ w = 0 => d0 = 1 \/ d0 > WorkerCount)
    BY <2>2, PartLater
  <2>4. 1 \notin listed[w] => finished[DirOf(w)][1] > 0
    BY <1>0, <2>2 DEF Accounted, AccountedFor
  <2>5. \A u \in Workers, d \in Dates : finished[DirOf(u)][d] \in Nat
    BY <1>0, DirsOfWorkers, CountTypes
  <2>6. \A u \in Workers : DirOf(u) = u /\ DirOf(u) \in Dirs
    BY DirsOfWorkers DEF DirOf
  <2> HIDE DEF d0
  <2>7. ASSUME NEW u \in Workers, NEW d \in Dates, finished'[DirOf(u)][d] > 0 PROVE d > u
    BY <2>1, <2>3, <2>6, <2>7 DEF OwnFrom, OneMore
  <2>8. ASSUME finished'[DirOf(0)][1] = 0, NEW d \in Dates, d <= WorkerCount
        PROVE  finished'[DirOf(0)][d] = 0
    <3>1. CASE w # 0
      BY <1>0, <2>1, <2>6, <2>8, <3>1 DEF OwnFrom, OneMore
    <3>2. CASE w = 0
      <4>1. d0 # 1 /\ finished[DirOf(0)][1] = 0
        BY <1>0, <2>1, <2>5, <2>6, <2>8, <3>2 DEF OneMore
      <4>2. d0 > WorkerCount
        BY <2>3, <2>4, <3>2, <4>1
      <4>3. d # d0
        <5>1. d \in Int /\ WorkerCount \in Int /\ d0 \in Int
          BY <2>1, DatesAre, Pass2Assumption
        <5> QED BY <2>8, <4>2, <5>1
      <4>4. finished'[DirOf(0)][d] = finished[DirOf(0)][d]
        BY <1>0, <2>1, <2>6, <3>2, <4>3 DEF OneMore
      <4> QED BY <2>8, <4>1, <4>4 DEF OwnFrom
    <3> QED BY <3>1, <3>2
  <2> QED BY <2>7, <2>8 DEF OwnFrom
<1> QED BY <1>1, <1>2, DividingSteps DEF List, Feed, Start, blocks

(* The workers of a list that is long enough account for all of it. Of one  *)
(* that is too short, the last worker's directory says that it has the      *)
(* dates before WorkerCount and so no others, but the first would not have  *)
(* finished WorkerCount without date 1: there is no such list but the empty *)
(* one.                                                                     *)
LEMMA NoneLeftOut ==
    ASSUME ~SharedBlocks, WorkerCount <= DateCount, Pass2Inv, Accounted, OwnFrom,
           \A w, u \in Workers : listed[w] = listed[u], AllDone
    PROVE  \A d \in Dates \ Empty : Converted(d)
<1> DEFINE L == listed[0]
<1>0. /\ WorkerCount \in Nat \ {0} /\ DateCount \in Nat
      /\ 0 \in Workers /\ WorkerCount - 1 \in Workers
      /\ TypeOK /\ AtRest /\ NoDate \notin Dates
  BY Pass2Assumption DEF Pass2Inv, TypeInv, Workers
<1>1. L \in SUBSET Dates /\ \A w \in Workers : listed[w] = L
  BY <1>0 DEF TypeOK
<1>2. IsFiniteSet(L) /\ Cardinality(L) \in Nat
  BY <1>1, DatesFinite
<1>3. \A w \in Workers : HasListed(w)
  BY DEF AllDone, HasListed
<1>4. \A w \in Workers : /\ \A d : ~ToSend(w, d)
                         /\ \A d \in Dates : ~Building(w, d)
  <2> SUFFICES ASSUME NEW w \in Workers
               PROVE  (\A d : ~ToSend(w, d)) /\ \A d \in Dates : ~Building(w, d)
    OBVIOUS
  <2>1. wpc[w] = "done"
    BY DEF AllDone
  <2>2. queue[w] = <<>> /\ \A t \in Threads : tdate[w][t] = NoDate
    BY <1>0, <2>1 DEF AtRest, Fed
  <2> QED BY <1>0, <2>2 DEF ToSend, Building
<1> HIDE DEF L
<1>5. \A w \in Workers :
         /\ \A d \in Part(L, w) \ Empty : d \in Dates => finished[DirOf(w)][d] > 0
         /\ \A d \in Dates \ L : finished[DirOf(w)][d] > 0
         /\ Cardinality(L) < WorkerCount => \A d \in L : finished[DirOf(w)][d] = 0
  BY <1>1, <1>3, <1>4 DEF Accounted, AccountedFor
<1>6. \A d \in Dates : (\E w \in Workers : finished[DirOf(w)][d] > 0) => Converted(d)
  <2> SUFFICES ASSUME NEW d \in Dates, NEW w \in Workers, finished[DirOf(w)][d] > 0
               PROVE  Converted(d)
    OBVIOUS
  <2>1. DirOf(w) \in Dirs
    BY DirsOfWorkers
  <2>2. whole[DirOf(w)][d] >= finished[DirOf(w)][d] + Cardinality(At(InMeta, DirOf(w), d))
    BY <2>1 DEF Pass2Inv, BlockInv, WholeFirst
  <2>3. whole[DirOf(w)][d] \in Nat /\ finished[DirOf(w)][d] \in Nat
    BY <1>0, <2>1, CountTypes
  <2>4. whole[DirOf(w)][d] > 0
    BY <2>2, <2>3, AtFinite
  <2> QED BY <2>1, <2>4 DEF Converted
<1>7. CASE Cardinality(L) >= WorkerCount
  <2> SUFFICES ASSUME NEW d \in Dates \ Empty PROVE Converted(d)
    OBVIOUS
  <2>1. CASE d \in L
    <3>1. \E w \in Workers : d \in Part(L, w)
      BY <1>1, <1>7, <2>1, PartsCover
    <3> QED BY <1>5, <1>6, <3>1
  <2>2. CASE d \notin L
    BY <1>0, <1>5, <1>6, <2>2
  <2> QED BY <2>1, <2>2
<1>8. CASE Cardinality(L) < WorkerCount
  <2> DEFINE K == 1..(WorkerCount - 1)
  <2>1. K \subseteq L
    <3> SUFFICES ASSUME NEW d \in K, d \notin L PROVE FALSE
      OBVIOUS
    <3>1. d \in Dates /\ d \in Int /\ d < WorkerCount
      BY <1>0 DEF Dates
    <3>2. finished[DirOf(WorkerCount - 1)][d] > 0
      BY <1>0, <1>5, <3>1
    <3>3. d > WorkerCount - 1
      BY <1>0, <3>1, <3>2 DEF OwnFrom
    <3> QED BY <1>0, <3>1, <3>3
  <2>2. IsFiniteSet(K) /\ Cardinality(K) = WorkerCount - 1
    BY <1>0, FS_Interval
  <2> HIDE DEF K
  <2>3. K = L
    <3>1. Cardinality(K) <= Cardinality(L)
      BY <1>2, <2>1, FS_Subset
    <3>2. Cardinality(K) = Cardinality(L)
      BY <1>0, <1>2, <1>8, <2>2, <3>1
    <3> QED BY <1>2, <2>1, <3>2, FS_Subset
  <2>4. CASE WorkerCount = 1
    <3>1. L = {}
      BY <2>3, <2>4 DEF K
    <3> QED BY <1>0, <1>5, <1>6, <3>1
  <2>5. CASE WorkerCount # 1
    <3>1. 1 \in L /\ WorkerCount \notin L /\ WorkerCount \in Dates
      BY <1>0, <2>3, <2>5 DEF K, Dates
    <3>2. finished[DirOf(0)][1] = 0 /\ finished[DirOf(0)][WorkerCount] > 0
      BY <1>0, <1>5, <1>8, <3>1
    <3>3. finished[DirOf(0)][WorkerCount] = 0
      BY <1>0, <3>1, <3>2 DEF OwnFrom
    <3> QED BY <3>2, <3>3
  <2> QED BY <2>4, <2>5
<1> QED BY <1>0, <1>2, <1>7, <1>8

(* Workers with directories of their own, no more of them than dates, that  *)
(* divided the same list, have converted every date once all have ended     *)
(* well, and at no time two of them build the same one, whatever runs died, *)
(* were repeated or made blocks anew before.                                *)
THEOREM DividedOnceAlways ==
    ASSUME ~SharedBlocks, WorkerCount <= DateCount
    PROVE  Spec => []DividedOnce
<1>1. Init => Pass2Inv /\ Accounted /\ OwnFrom
  <2> SUFFICES ASSUME Init PROVE Accounted /\ OwnFrom
    BY Pass2InvInit
  <2>1. 0 \in Workers /\ 1 \in Dates
    BY Pass2Assumption DEF Workers, Dates
  <2>2. \A w \in Workers : ~HasListed(w) /\ \A d \in Dates : finished[DirOf(w)][d] = 0
    BY DirsOfWorkers DEF Init, HasListed
  <2> QED BY <2>1, <2>2 DEF Accounted, AccountedFor, OwnFrom
<1>2. Pass2Inv /\ Accounted /\ OwnFrom /\ [Next]_vars => (Pass2Inv /\ Accounted /\ OwnFrom)'
  BY Pass2InvStep, AccountedStep, OwnFromStep DEF Pass2Inv
<1>3. Pass2Inv /\ Accounted /\ OwnFrom => DividedOnce
  <2> SUFFICES ASSUME Pass2Inv, Accounted, OwnFrom PROVE DividedOnce
    OBVIOUS
  <2>1. NoneTwice
    BY ListsApart
  <2> QED BY <2>1, NoneLeftOut DEF DividedOnce, AllDatesConverted
<1> QED BY <1>1, <1>2, <1>3, PTL DEF Spec
==============================================================================
