------------------------------- MODULE Samples -------------------------------
(****************************************************************************)
(* How the converter reads a metric's samples: ReadPoints, ToMimirSamples   *)
(* and SplitSamplesByDays (whisperconverter/whisper.go), as operators.      *)
(*                                                                          *)
(* A sample is its timestamp. A whisper file is the sequence of its archives, *)
(* the finest first, each with its retention and its slots in the order of  *)
(* the ring, 0 in a slot never used; <<>> is a file that cannot be read or   *)
(* has no archives.                                                         *)
(****************************************************************************)
EXTENDS Chunks

CONSTANTS
    Uint32,   \* 2^32: the timestamps of whisper are modulo this
    Day       \* the length of a day

ASSUME SamplesAssumption ==
    /\ Uint32 \in Nat \ {0} /\ Day \in Nat \ {0}
    /\ MaxInt64 > Uint32

(* The files the whisper library writes: a coarser archive reaches back      *)
(* further, and no two slots of one archive hold the same time.             *)
WhisperFiles ==
    {w \in Seq([retention : 0..(Uint32 - 1), slots : Seq(0..(Uint32 - 1))]) :
        /\ \A i, j \in DOMAIN w : i < j => w[i].retention < w[j].retention
        /\ \A i \in DOMAIN w : \A m, n \in DOMAIN w[i].slots :
             m # n /\ w[i].slots[m] = w[i].slots[n] => w[i].slots[m] = 0}
Points(a) == ToSet(a.slots) \ {0}

------------------------------------------------------------------------------
(* ReadPoints *)

(* The archive whose newest point is taken for now: the first with a point, *)
(* and the last when there is none.                                         *)
Newest(w) ==
    LET used == {i \in DOMAIN w : Points(w[i]) # {}}
    IN  IF used = {} THEN Len(w) ELSE Min(used)

(* maxTs before the addition on uint32. *)
Now(w) ==
    Max(Points(w[Newest(w)]) \cup {0})
    + (IF Newest(w) > 1 THEN w[Newest(w) - 1].retention ELSE 0)
MaxTs(w) == Now(w) % Uint32

LowerBoundTs(w) ==
    [i \in DOMAIN w |-> IF MaxTs(w) < w[i].retention THEN 0 ELSE MaxTs(w) - w[i].retention]

(* Mutant: a point on the boundary is kept from both archives. *)
IsKeptTwice(ts, lower, i) == ts # 0 /\ ts >= lower[i] /\ (i > 1 => ts <= lower[i - 1])

(* Whether a point is kept from archive i: not an empty slot, within the    *)
(* archive's own retention and out of that of the finer one.                *)
IsKept(ts, lower, i) == ts # 0 /\ ts > lower[i] /\ (i > 1 => ts <= lower[i - 1])

(* What the loop over the sorted points has kept after each of them. *)
Keeping(points, lower, i) ==
    LET kept[n \in 0..Len(points)] ==
            IF n = 0 THEN <<>>
            ELSE IF IsKept(points[n], lower, i) THEN Append(kept[n - 1], points[n])
            ELSE kept[n - 1]
    IN  kept

(* The points of an archive in order of time, and those it is read for. *)
InTimeOrder(slots) ==
    LET order == Sorted(DOMAIN slots, slots) IN [n \in DOMAIN slots |-> slots[order[n]]]
ArchivePoints(w, i) ==
    Keeping(InTimeOrder(w[i].slots), LowerBoundTs(w), i)[Len(w[i].slots)]

(* The coarsest archive, which has the oldest points, first. *)
ReadPoints(w) == FlattenSeq(Reverse([i \in DOMAIN w |-> ArchivePoints(w, i)]))

(* WhisperToMimirSamples: no archives and no points are errors. *)
IsConvertible(w) == ReadPoints(w) # <<>>

------------------------------------------------------------------------------
(* SplitSamplesByDays: a new block whenever a sample's day is not that of   *)
(* the block's first.                                                       *)
DayOf(ts) == ts \div Day

(* Mutant: the day compared with is always the first block's. *)
AddToDaysNotUpdated(blocks, ts) ==
    IF blocks # <<>> /\ DayOf(Head(Head(blocks))) = DayOf(ts)
    THEN [blocks EXCEPT ![Len(blocks)] = Append(@, ts)]
    ELSE Append(blocks, <<ts>>)

AddToDays(blocks, ts) ==
    IF blocks # <<>> /\ DayOf(Head(Last(blocks))) = DayOf(ts)
    THEN [blocks EXCEPT ![Len(blocks)] = Append(@, ts)]
    ELSE Append(blocks, <<ts>>)

(* The blocks there are after each sample. *)
Splitting(samples) ==
    LET split[n \in 0..Len(samples)] ==
            IF n = 0 THEN <<>> ELSE AddToDays(split[n - 1], samples[n])
    IN  split
SplitSamplesByDays(samples) == Splitting(samples)[Len(samples)]
==============================================================================
