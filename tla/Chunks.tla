-------------------------------- MODULE Chunks --------------------------------
(****************************************************************************)
(* samplesToChunks (pkg/tsdb/builder.go) as an operator: the samples of one *)
(* series, each its timestamp, cut into chunks. A chunk is what its         *)
(* chunks.Meta says of it, and its samples.                                 *)
(****************************************************************************)
EXTENDS Integers, Sequences, FiniteSets, SequencesExt, FiniteSetsExt

CONSTANTS
    SamplesPerChunk,  \* 120
    MaxInt64          \* math.MaxInt64, after all times; MinInt64 is its negation

ASSUME ChunksAssumption == SamplesPerChunk \in Nat \ {0} /\ MaxInt64 \in Nat

IsAscending(s) == \A i, j \in DOMAIN s : i < j => s[i] < s[j]

(* sort.Slice and the like: the elements of a set by their keys. *)
Sorted(S, key) ==
    CHOOSE s \in [1..Cardinality(S) -> S] :
        /\ {s[i] : i \in DOMAIN s} = S
        /\ \A i, j \in DOMAIN s : i < j => key[s[i]] <= key[s[j]]

(* samplesToChunks: a sample that is not after the last one taken is an     *)
(* error, one outside of the block's time is left out, a full chunk is      *)
(* finished and the next sample starts another.                             *)
FinishChunk(a, maxTime) ==
    [a EXCEPT !.chunks = Append(@, [min |-> Head(a.open), max |-> maxTime, samples |-> a.open]),
              !.open = <<>>]

Outside(ts, minTime, maxTime) ==
    (minTime # 0 /\ ts < minTime) \/ (maxTime # 0 /\ ts >= maxTime)

TakeSample(a, ts) ==
    LET b == [a EXCEPT !.open = Append(@, ts), !.prev = ts]
    IN  IF Len(b.open) >= SamplesPerChunk THEN FinishChunk(b, ts) ELSE b

AddSample(a, ts, minTime, maxTime) ==
    IF a.failed \/ ts <= a.prev THEN [a EXCEPT !.failed = TRUE]
    ELSE IF Outside(ts, minTime, maxTime) THEN a ELSE TakeSample(a, ts)

NoSamples == [failed |-> FALSE, prev |-> 0, open |-> <<>>, chunks |-> <<>>]

(* What there is after each sample. *)
Taking(samples, minTime, maxTime) ==
    LET taken[i \in 0..Len(samples)] ==
            IF i = 0 THEN NoSamples
            ELSE AddSample(taken[i - 1], samples[i], minTime, maxTime)
    IN  taken

(* failed, and the chunks when it is not. *)
SamplesToChunks(samples, minTime, maxTime) ==
    LET a == Taking(samples, minTime, maxTime)[Len(samples)]
    IN  [failed |-> a.failed,
         chunks |-> IF a.open = <<>> THEN a.chunks ELSE FinishChunk(a, a.prev).chunks]

(* The samples that are within the block's time, after each sample. *)
Inside(samples, minTime, maxTime) ==
    LET inside[n \in 0..Len(samples)] ==
            IF n = 0 THEN <<>>
            ELSE IF Outside(samples[n], minTime, maxTime) THEN inside[n - 1]
            ELSE Append(inside[n - 1], samples[n])
    IN  inside
==============================================================================
