----------------------------- MODULE BlockBuilder -----------------------------
(****************************************************************************)
(* The builder of a TSDB block (pkg/tsdb/builder.go, symbols_batch.go,      *)
(* series_batch.go): concurrent calls of AddSeriesWithSamples put symbols,  *)
(* chunks and series through three buffers, each under a mutex of its own   *)
(* and flushed to a sorted file when it is full; FinishBlock merges the     *)
(* files into the index, copies each series' chunks and writes meta.json.   *)
(*                                                                          *)
(* Symbols and labels are numbers, in the order in which they sort; the     *)
(* symbol 0 is "". A chunk in a file is <<call, number>>, its reference its *)
(* place in the file. What the index and chunk writers of Prometheus require *)
(* is modelled from the errors the code handles.                            *)
(****************************************************************************)
EXTENDS Chunks

CONSTANTS
    Calls,             \* the calls of AddSeriesWithSamples
    Rank,              \* [Calls -> Nat \ {0}]: the labels, by their order
    Symbols,           \* [Calls -> Seq(Nat)]: names and values, in call order
    Inputs,            \* what the calls may be given: a set of functions of
                       \* Calls, their samples and whether the labels are sorted
    MinBlockTime, MaxBlockTime,  \* of the options, 0 when not set
    SymbolsBatchSize   \* SeriesBatchSize is in the options and never read

ASSUME BlockBuilderAssumption ==
    /\ Rank \in [Calls -> Nat \ {0}]
    /\ Symbols \in [Calls -> Seq(Nat)]
    /\ Inputs \subseteq [Calls -> [samples : Seq(Int), sorted : BOOLEAN]]
    /\ MinBlockTime \in Nat /\ MaxBlockTime \in Nat
    /\ SymbolsBatchSize \in Nat \ {0, 1}

VARIABLES
    given,       \* the samples and labels of each call
    cpc,         \* where each call is
    refs,        \* the chunk references each call got
    symBuffer, symFiles,    \* symbolsBatcher: a set, and sorted files
    serBuffer, serFiles,    \* seriesBatcher: calls, and sorted files
    unsorted,    \* the file of unsorted chunks
    bpc,         \* where FinishBlock is
    index,       \* the index: its symbols and its series
    chunkFile,   \* the chunks of the block
    stats,       \* the stats, minT and maxT of addSeriesToIndex
    meta         \* what meta.json says, <<>> before it is written

symVars == <<symBuffer, symFiles>>
serVars == <<serBuffer, serFiles>>
outVars == <<index, chunkFile, stats, meta>>
vars == <<given, cpc, refs, symVars, serVars, unsorted, bpc, outVars>>

------------------------------------------------------------------------------
(* symbolsBatcher.addSymbol and flushSymbols: the buffer is a set, a file   *)
(* its elements in order.                                                   *)
FlushSymbols(b, force) ==
    IF b.buffer = {} \/ (~force /\ Cardinality(b.buffer) < SymbolsBatchSize) THEN b
    ELSE [buffer |-> {}, files |-> Append(b.files, Sorted(b.buffer, [n \in b.buffer |-> n]))]

AddSymbol(b, sym) == FlushSymbols([b EXCEPT !.buffer = @ \cup {sym}], FALSE)

(* addSymbols: what there is after each symbol of a call. *)
Adding(b, symbols) ==
    LET added[i \in 0..Len(symbols)] ==
            IF i = 0 THEN b ELSE AddSymbol(added[i - 1], symbols[i])
    IN  added

SymBatcher == [buffer |-> symBuffer, files |-> symFiles]

(* NewBuilder makes the batcher of series with opts.SymbolsBatchSize. *)
SeriesLimit == SymbolsBatchSize

(* Mutant: the series of a file are not sorted. *)
FlushSeriesUnsorted(b, force) ==
    IF b.buffer = <<>> \/ (~force /\ Len(b.buffer) < SeriesLimit) THEN b
    ELSE [buffer |-> <<>>, files |-> Append(b.files, b.buffer)]

(* seriesBatcher.flushSeries *)
FlushSeries(b, force) ==
    IF b.buffer = <<>> \/ (~force /\ Len(b.buffer) < SeriesLimit) THEN b
    ELSE [buffer |-> <<>>,
          files |-> Append(b.files, Sorted(ToSet(b.buffer), Rank))]

SerBatcher == [buffer |-> serBuffer, files |-> serFiles]

(* The files of a heap whose head is least; the heap gives one of them.     *)
(* A file of series counts by the labels of its series.                     *)
Lowest(fs) ==
    {i \in DOMAIN fs : fs[i] # <<>> /\
        \A j \in DOMAIN fs : fs[j] # <<>> => Head(fs[i]) <= Head(fs[j])}
Labels(fs) == [i \in DOMAIN fs |-> [j \in DOMAIN fs[i] |-> Rank[fs[i][j]]]]

------------------------------------------------------------------------------
NoStats ==
    [numSeries |-> 0, numChunks |-> 0, numSamples |-> 0, minT |-> MaxInt64, maxT |-> 0]

Init ==
    /\ given \in Inputs
    /\ cpc = [c \in Calls |-> "new"]
    /\ refs = [c \in Calls |-> <<>>]
    /\ symBuffer = {0} /\ symFiles = <<>>
    /\ serBuffer = <<>> /\ serFiles = <<>>
    /\ unsorted = <<>>
    /\ bpc = "adding"
    /\ index = [symbols |-> <<>>, series |-> <<>>]
    /\ chunkFile = <<>> /\ meta = <<>>
    /\ stats = NoStats

Goto(c, p) == cpc' = [cpc EXCEPT ![c] = p]

(* AddSeriesWithSamples begins with samplesToChunks; a call whose samples   *)
(* make no chunks is through.                                               *)
Converted(c) == SamplesToChunks(given[c].samples, MinBlockTime, MaxBlockTime)
ChunksOf(c)  == Converted(c).chunks

Convert(c) ==
    /\ cpc[c] = "new" /\ bpc = "adding"
    /\ Goto(c, IF Converted(c).failed THEN "failed"
               ELSE IF ChunksOf(c) = <<>> THEN "nothing" ELSE "symbols")
    /\ UNCHANGED <<given, refs, symVars, serVars, unsorted, bpc, outVars>>

(* addSymbols, under symbolsMtx *)
AddSymbols(c) ==
    /\ cpc[c] = "symbols"
    /\ LET b == Adding(SymBatcher, Symbols[c])[Len(Symbols[c])]
       IN  symBuffer' = b.buffer /\ symFiles' = b.files
    /\ Goto(c, "chunks")
    /\ UNCHANGED <<given, refs, serVars, unsorted, bpc, outVars>>

(* Mutant: the references are read before the lock is taken. *)
WriteChunksUnlocked(c) ==
    /\ cpc[c] = "chunks"
    /\ \/ /\ refs[c] = <<>>
          /\ refs' = [refs EXCEPT ![c] = [k \in DOMAIN ChunksOf(c) |-> Len(unsorted) + k]]
          /\ UNCHANGED <<unsorted, cpc>>
       \/ /\ refs[c] # <<>>
          /\ unsorted' = unsorted \o [k \in DOMAIN ChunksOf(c) |-> <<c, k>>]
          /\ Goto(c, "series")
          /\ UNCHANGED refs
    /\ UNCHANGED <<given, symVars, serVars, bpc, outVars>>

(* Mutant: the references count from zero. *)
WriteChunksFromZero(c) ==
    /\ cpc[c] = "chunks"
    /\ unsorted' = unsorted \o [k \in DOMAIN ChunksOf(c) |-> <<c, k>>]
    /\ refs' = [refs EXCEPT ![c] = [k \in DOMAIN ChunksOf(c) |-> Len(unsorted) + k - 1]]
    /\ Goto(c, "series")
    /\ UNCHANGED <<given, symVars, serVars, bpc, outVars>>

(* writeChunksForUnsortedSeries, under its mutex: the writer sets Ref. *)
WriteChunks(c) ==
    /\ cpc[c] = "chunks"
    /\ unsorted' = unsorted \o [k \in DOMAIN ChunksOf(c) |-> <<c, k>>]
    /\ refs' = [refs EXCEPT ![c] = [k \in DOMAIN ChunksOf(c) |-> Len(unsorted) + k]]
    /\ Goto(c, "series")
    /\ UNCHANGED <<given, symVars, serVars, bpc, outVars>>

(* addSeries: the labels must be sorted; then under seriesMtx. *)
AddSeries(c) ==
    /\ cpc[c] = "series" /\ given[c].sorted
    /\ LET b == FlushSeries([SerBatcher EXCEPT !.buffer = Append(@, c)], FALSE)
       IN  serBuffer' = b.buffer /\ serFiles' = b.files
    /\ Goto(c, "added")
    /\ UNCHANGED <<given, refs, symVars, unsorted, bpc, outVars>>

RejectLabels(c) ==
    /\ cpc[c] = "series" /\ ~given[c].sorted
    /\ Goto(c, "failed")
    /\ UNCHANGED <<given, refs, symVars, serVars, unsorted, bpc, outVars>>

------------------------------------------------------------------------------
(* FinishBlock: called once, when all calls have returned without an error. *)
Ended == {"added", "nothing"}

(* The remaining symbols and series are flushed, the readers opened. *)
FinishBlock ==
    /\ bpc = "adding" /\ \A c \in Calls : cpc[c] \in Ended
    /\ LET b == FlushSymbols(SymBatcher, TRUE)
           s == FlushSeries(SerBatcher, TRUE)
       IN  /\ symBuffer' = b.buffer /\ symFiles' = b.files
           /\ serBuffer' = s.buffer /\ serFiles' = s.files
    /\ bpc' = "symbols"
    /\ UNCHANGED <<given, cpc, refs, unsorted, outVars>>

LastOf(s) == s[Len(s)]

(* Mutant: duplicate symbols are not left out. *)
NextSymbolAll ==
    /\ bpc = "symbols"
    /\ \E i \in Lowest(symFiles) :
         /\ symFiles' = [symFiles EXCEPT ![i] = Tail(@)]
         /\ index' = [index EXCEPT !.symbols = Append(@, Head(symFiles[i]))]
    /\ UNCHANGED <<given, cpc, refs, symBuffer, serVars, unsorted, bpc, chunkFile, stats, meta>>

(* Mutant: a symbol that is a duplicate is not taken from its file. *)
NextSymbolStuck ==
    /\ bpc = "symbols"
    /\ \E i \in Lowest(symFiles) :
         LET sym == Head(symFiles[i])
         IN  IF index.symbols # <<>> /\ LastOf(index.symbols) = sym
             THEN UNCHANGED <<symFiles, index>>
             ELSE /\ symFiles' = [symFiles EXCEPT ![i] = Tail(@)]
                  /\ index' = [index EXCEPT !.symbols = Append(@, sym)]
    /\ UNCHANGED <<given, cpc, refs, symBuffer, serVars, unsorted, bpc, chunkFile, stats, meta>>

(* addSymbolsToIndexWriter, one NextSymbol: the least head of the files,    *)
(* unless it was the last one returned.                                     *)
NextSymbol ==
    /\ bpc = "symbols"
    /\ \E i \in Lowest(symFiles) :
         LET sym == Head(symFiles[i])
         IN  /\ symFiles' = [symFiles EXCEPT ![i] = Tail(@)]
             /\ index' = IF index.symbols # <<>> /\ LastOf(index.symbols) = sym
                         THEN index
                         ELSE [index EXCEPT !.symbols = Append(@, sym)]
    /\ UNCHANGED <<given, cpc, refs, symBuffer, serVars, unsorted, bpc, chunkFile, stats, meta>>

EndSymbols ==
    /\ bpc = "symbols" /\ \A i \in DOMAIN symFiles : symFiles[i] = <<>>
    /\ bpc' = "series"
    /\ UNCHANGED <<given, cpc, refs, symVars, serVars, unsorted, outVars>>

(* addSeriesToIndex, one NextSeries: its chunks are read by reference and   *)
(* written again, and the series is added to the index with its chunks. The *)
(* same labels twice, or a symbol the index lacks, is an error.             *)
Duplicate(c) == index.series # <<>> /\ Rank[LastOf(index.series).call] >= Rank[c]
Known(c) == ToSet(Symbols[c]) \subseteq ToSet(index.symbols)
ChunksAt(c) == [k \in DOMAIN refs[c] |-> unsorted[refs[c][k]]]

(* The stats, and minT and maxT, of one more chunk of a series. *)
AddChunk(st, chunk) ==
    [st EXCEPT !.numChunks = @ + 1,
               !.numSamples = @ + Len(chunk.samples),
               !.minT = IF chunk.min < @ THEN chunk.min ELSE @,
               !.maxT = IF chunk.max > @ THEN chunk.max ELSE @]
Summing(st, chunks) ==
    LET sum[k \in 0..Len(chunks)] ==
            IF k = 0 THEN [st EXCEPT !.numSeries = @ + 1] ELSE AddChunk(sum[k - 1], chunks[k])
    IN  sum
AddStats(st, chunks) == Summing(st, chunks)[Len(chunks)]

NextSeries ==
    /\ bpc = "series"
    /\ \E i \in Lowest(Labels(serFiles)) :
         LET c == Head(serFiles[i])
         IN  /\ ~Duplicate(c) /\ Known(c)
             /\ serFiles' = [serFiles EXCEPT ![i] = Tail(@)]
             /\ stats' = AddStats(stats, ChunksOf(c))
             /\ chunkFile' = chunkFile \o ChunksAt(c)
             /\ index' = [index EXCEPT !.series =
                    Append(@, [call |-> c, chunks |->
                        [k \in DOMAIN refs[c] |-> Len(chunkFile) + k]])]
    /\ UNCHANGED <<given, cpc, refs, symVars, serBuffer, unsorted, bpc, meta>>

SeriesFails ==
    /\ bpc = "series"
    /\ \E i \in Lowest(Labels(serFiles)) :
         LET c == Head(serFiles[i]) IN Duplicate(c) \/ ~Known(c)
    /\ bpc' = "error"
    /\ UNCHANGED <<given, cpc, refs, symVars, serVars, unsorted, outVars>>

(* Mutant: the end of the block's time is its last sample's. *)
MetaFileInclusive(st) ==
    [minTime |-> st.minT, maxTime |-> st.maxT, numSeries |-> st.numSeries,
     numChunks |-> st.numChunks, numSamples |-> st.numSamples]

(* writeMetaFile: MaxTime is exclusive. *)
MetaFile(st) ==
    [minTime |-> st.minT, maxTime |-> st.maxT + 1, numSeries |-> st.numSeries,
     numChunks |-> st.numChunks, numSamples |-> st.numSamples]

(* The writers are closed, the temporary files deleted, meta.json written. *)
WriteMeta ==
    /\ bpc = "series" /\ \A i \in DOMAIN serFiles : serFiles[i] = <<>>
    /\ bpc' = "finished" /\ meta' = <<MetaFile(stats)>>
    /\ UNCHANGED <<given, cpc, refs, symVars, serVars, unsorted, index, chunkFile, stats>>

CallStep(c) ==
    Convert(c) \/ AddSymbols(c) \/ WriteChunks(c) \/ AddSeries(c) \/ RejectLabels(c)
FinishStep ==
    FinishBlock \/ NextSymbol \/ EndSymbols \/ NextSeries \/ SeriesFails \/ WriteMeta

Next == FinishStep \/ \E c \in Calls : CallStep(c)

Spec == Init /\ [][Next]_vars

(* The goroutine of FinishBlock runs. *)
FairSpec == Spec /\ WF_vars(FinishStep)
------------------------------------------------------------------------------
(* CreateBlock, the second way to a block: of series that are in label      *)
(* order already, in memory and in one go. A series is [call, samples].     *)
AddSorted(b, s) ==
    LET made == SamplesToChunks(s.samples, 0, 0)
    IN  IF b.failed \/ made.failed
           \/ (b.series # <<>> /\ Rank[LastOf(b.series).call] >= Rank[s.call])
        THEN [b EXCEPT !.failed = TRUE]
        ELSE [b EXCEPT
                !.series = Append(@, [call |-> s.call, chunks |->
                              [k \in DOMAIN made.chunks |-> Len(b.chunkFile) + k]]),
                !.chunkFile = @ \o made.chunks,
                !.stats = AddStats(@, made.chunks)]

NothingCreated == [failed |-> FALSE, series |-> <<>>, chunkFile |-> <<>>, stats |-> NoStats]

(* What there is after each series. *)
Creating(series) ==
    LET made[n \in 0..Len(series)] ==
            IF n = 0 THEN NothingCreated ELSE AddSorted(made[n - 1], series[n])
    IN  made

CreateBlock(series) ==
    LET symbols == {0} \cup UNION {ToSet(Symbols[s.call]) : s \in ToSet(series)}
        made == Creating(series)[Len(series)]
    IN  [failed |-> made.failed, symbols |-> Sorted(symbols, [n \in symbols |-> n]),
         series |-> made.series, chunkFile |-> made.chunkFile, stats |-> made.stats]

------------------------------------------------------------------------------
TypeOK ==
    /\ cpc \in [Calls -> {"new", "symbols", "chunks", "series"} \cup Ended \cup {"failed"}]
    /\ refs \in [Calls -> Seq(Nat \ {0})]
    /\ symBuffer \subseteq Nat /\ symFiles \in Seq(Seq(Nat))
    /\ serBuffer \in Seq(Calls) /\ serFiles \in Seq(Seq(Calls))
    /\ unsorted \in Seq(Calls \X Nat) /\ chunkFile \in Seq(Calls \X Nat)
    /\ bpc \in {"adding", "symbols", "series", "error", "finished"}
    /\ index.symbols \in Seq(Nat)
    /\ index.series \in Seq([call : Calls, chunks : Seq(Nat)])
    /\ stats \in [{"numSeries", "numChunks", "numSamples", "minT", "maxT"} -> Nat]
    /\ (meta # <<>>) <=> bpc = "finished"

Added == {c \in Calls : cpc[c] = "added"}
Own(c) == [k \in DOMAIN ChunksOf(c) |-> <<c, k>>]

(* The references a call was given lead to its own chunks, whatever calls   *)
(* wrote to the file of unsorted chunks between and after; so do, in the    *)
(* block, the references in the index.                                      *)
OwnChunks ==
    /\ \A c \in Calls : cpc[c] \in {"series", "added"} => ChunksAt(c) = Own(c)
    /\ \A i \in DOMAIN index.series :
         LET e == index.series[i]
         IN  [k \in DOMAIN e.chunks |-> chunkFile[e.chunks[k]]] = Own(e.call)

(* meta.json tells of the samples of the block, which are those of the      *)
(* added series within the block's time, and of no others: its times hold   *)
(* them tightly, the last one is exclusive, and its counts are theirs.      *)
(* Without series it says MinTime = MaxInt64 and MaxTime = 1.               *)
InTime(c) ==
    LET all == given[c].samples IN Inside(all, MinBlockTime, MaxBlockTime)[Len(all)]
MetaIsExact ==
    bpc = "finished" =>
        LET times == UNION {ToSet(InTime(c)) : c \in Added}
            m == meta[1]
        IN  /\ m.minTime = Min(times \cup {MaxInt64})
            /\ m.maxTime = Max(times \cup {0}) + 1
            /\ m.numSeries = Cardinality(Added)
            /\ m.numSamples = Cardinality(UNION {{c} \X DOMAIN InTime(c) : c \in Added})
            /\ m.numChunks = Len(chunkFile)

(* Whatever the calls did at the same time and wherever the buffers were    *)
(* flushed, the block is the one that CreateBlock makes of the samples of   *)
(* the accepted series that are in the block's time: the same symbols,      *)
(* series, chunks and stats.                                                *)
SortedSeries ==
    LET calls == Sorted(Added, Rank)
    IN  [i \in DOMAIN calls |-> [call |-> calls[i], samples |-> InTime(calls[i])]]
SameAsCreateBlock ==
    bpc = "finished" =>
        CreateBlock(SortedSeries) =
            [failed |-> FALSE, symbols |-> index.symbols, series |-> index.series,
             chunkFile |-> [i \in DOMAIN chunkFile |->
                              ChunksOf(chunkFile[i][1])[chunkFile[i][2]]],
             stats |-> stats]

(* The builder implements BlockSpec.tla: the block has exactly the accepted *)
(* series in label order, and the only error is that of duplicate labels.   *)
Promise == INSTANCE BlockSpec WITH
    accepted <- Added,
    failed <- \E c \in Calls : cpc[c] = "failed",
    outcome <- CASE bpc = "finished" -> "block"
                 [] bpc = "error"    -> "error"
                 [] OTHER            -> "none",
    order <- IF bpc = "finished" THEN [i \in DOMAIN index.series |-> index.series[i].call]
             ELSE <<>>
IsBlockSpec == Promise!Spec

(* Once every call has returned without an error, there is a block, or the   *)
(* error of duplicate labels.                                                *)
BlockEnds ==
    (\A c \in Calls : cpc[c] \in Ended) ~> bpc \in {"finished", "error"}
==============================================================================
