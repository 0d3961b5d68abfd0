------------------------------ MODULE DateRange ------------------------------
(****************************************************************************)
(* The first commands of a conversion: file-list writes the names of the    *)
(* whisper files to a list (whisperconverter/filelist.go), date-range finds *)
(* the days to give to the passes (daterange.go, whisperfiles.go). Threads  *)
(* take the files from one unbuffered channel and send two timestamps of    *)
(* each over another; a collector selects between that and readsDoneCh.     *)
(****************************************************************************)
EXTENDS Samples

CONSTANTS
    Threads,      \* the goroutines of getTimestampBounds
    Files,        \* the files under the whisper directory
    Matching,     \* those whose name matches the file filter
    Blank,        \* an empty line of a list
    Inputs,       \* [content: [Files -> whisper files], source: {"walk",
                  \* "file-list", "own"}, list: set of lines]; a list the
                  \* operator did not write himself starts empty
    NoFile        \* neither a file nor Blank

ASSUME DateRangeAssumption ==
    /\ Threads # {} /\ IsFiniteSet(Threads) /\ IsFiniteSet(Files)
    /\ Matching \subseteq Files
    /\ Blank \notin Files /\ NoFile \notin Files \cup {Blank}
    /\ \A i \in Inputs :
         /\ i.content \in [Files -> WhisperFiles]
         /\ i.source \in {"walk", "file-list", "own"}
         /\ i.list \subseteq Files \cup {Blank}
         /\ i.source # "own" => i.list = {}

VARIABLES
    content,    \* [Files -> whisper files]
    source,     \* where the names come from
    list,       \* the lines of the list of files
    pc,         \* where the main goroutine is
    toFeed,     \* the names the walk, or the reader of the list, has to send
    tpc,        \* where each thread is
    tfile,      \* the file it is at
    bounds,     \* the pair of timestamps it has found
    seen,       \* minTS and maxTS of collectTimestamps
    readsDone,  \* readsDoneCh is closed
    printed     \* the terms of the output, or <<>>

input  == <<content, source>>
thread == <<tpc, tfile, bounds>>
vars   == <<input, list, pc, toFeed, thread, seen, readsDone, printed>>

Unset == [min |-> MaxInt64, max |-> -MaxInt64]

Init ==
    /\ \E i \in Inputs :
         /\ content = i.content /\ source = i.source /\ list = i.list
         /\ toFeed = IF i.source = "own" THEN i.list ELSE Files
         /\ pc = IF i.source = "file-list" THEN "listing" ELSE "feeding"
    /\ tpc = [t \in Threads |-> "recv"]
    /\ tfile = [t \in Threads |-> NoFile]
    /\ bounds = [t \in Threads |-> Unset]
    /\ seen = Unset /\ readsDone = FALSE /\ printed = <<>>

------------------------------------------------------------------------------
(* isMatchingFile *)
IsMatchingFile(f) == f \in Matching

(* discoverTargetWhisperFiles: one file of the walk. *)
ListFile(f) ==
    /\ pc = "listing" /\ f \in toFeed
    /\ toFeed' = toFeed \ {f}
    /\ list' = IF IsMatchingFile(f) THEN list \cup {f} ELSE list
    /\ UNCHANGED <<input, pc, thread, seen, readsDone, printed>>

(* The buffer is flushed, and the operator runs date-range with the list. *)
EndList ==
    /\ pc = "listing" /\ toFeed = {}
    /\ pc' = "feeding" /\ toFeed' = list
    /\ UNCHANGED <<input, list, thread, seen, readsDone, printed>>

(* A write fails: the command ends with an error. *)
ListFails ==
    /\ pc = "listing" /\ pc' = "failed"
    /\ UNCHANGED <<input, list, toFeed, thread, seen, readsDone, printed>>

(* getWhisperListIntoChan: the walk filters, the lines of a list are sent   *)
(* as they are.                                                             *)
IsSent(f) == source = "walk" => IsMatchingFile(f)

PassOver(f) ==
    /\ pc = "feeding" /\ f \in toFeed /\ ~IsSent(f)
    /\ toFeed' = toFeed \ {f}
    /\ UNCHANGED <<input, list, pc, thread, seen, readsDone, printed>>

Feed(t, f) ==
    /\ pc = "feeding" /\ f \in toFeed /\ IsSent(f) /\ tpc[t] = "recv"
    /\ toFeed' = toFeed \ {f}
    /\ tpc' = [tpc EXCEPT ![t] = "have"]
    /\ tfile' = [tfile EXCEPT ![t] = f]
    /\ UNCHANGED <<input, list, pc, bounds, seen, readsDone, printed>>

CloseChan ==
    /\ pc = "feeding" /\ toFeed = {}
    /\ pc' = "waiting"
    /\ UNCHANGED <<input, list, toFeed, thread, seen, readsDone, printed>>

(* Mutant: readsDoneCh is closed when the last file was sent. *)
CloseReadsDoneEarly ==
    /\ pc = "waiting"
    /\ pc' = "collecting" /\ readsDone' = TRUE
    /\ UNCHANGED <<input, list, toFeed, thread, seen, printed>>

(* wgReads.Wait, close(readsDoneCh) *)
CloseReadsDone ==
    /\ pc = "waiting" /\ \A t \in Threads : tpc[t] = "done"
    /\ pc' = "collecting" /\ readsDone' = TRUE
    /\ UNCHANGED <<input, list, toFeed, thread, seen, printed>>

(* wgProcess.Wait: the command ends. *)
End ==
    /\ pc = "collecting" /\ printed # <<>>
    /\ pc' = "over"
    /\ UNCHANGED <<input, list, toFeed, thread, seen, readsDone, printed>>

------------------------------------------------------------------------------
(* The threads: getTimestampBounds *)

(* getMetricName looks at the first byte of an empty name: the process dies. *)
Panic(t) ==
    /\ tpc[t] = "have" /\ tfile[t] = Blank
    /\ pc' = "panicked"
    /\ UNCHANGED <<input, list, toFeed, thread, seen, readsDone, printed>>

Running == pc \notin {"panicked", "failed", "over"}

(* The file cannot be converted: skipped. *)
Skip(t) ==
    /\ Running /\ tpc[t] = "have" /\ tfile[t] # Blank
    /\ ~IsConvertible(content[tfile[t]])
    /\ tpc' = [tpc EXCEPT ![t] = "recv"]
    /\ tfile' = [tfile EXCEPT ![t] = NoFile]
    /\ UNCHANGED <<input, list, pc, toFeed, bounds, seen, readsDone, printed>>

Convert(t) ==
    /\ Running /\ tpc[t] = "have" /\ tfile[t] # Blank
    /\ \E points \in {ReadPoints(content[tfile[t]])} :
         /\ points # <<>>
         /\ bounds' = [bounds EXCEPT ![t] =
                         [min |-> Min(ToSet(points)), max |-> Max(ToSet(points))]]
    /\ tpc' = [tpc EXCEPT ![t] = "min"]
    /\ UNCHANGED <<input, list, pc, toFeed, tfile, seen, readsDone, printed>>

(* collectTimestamps takes one timestamp. *)
Collect(ts) ==
    /\ printed = <<>>
    /\ seen' = [min |-> Min({seen.min, ts}), max |-> Max({seen.max, ts})]

SendMin(t) ==
    /\ Running /\ tpc[t] = "min"
    /\ Collect(bounds[t].min)
    /\ tpc' = [tpc EXCEPT ![t] = "max"]
    /\ UNCHANGED <<input, list, pc, toFeed, tfile, bounds, readsDone, printed>>

(* Mutant: the thread ends after its first file. *)
SendMaxOnce(t) ==
    /\ Running /\ tpc[t] = "max"
    /\ Collect(bounds[t].max)
    /\ tpc' = [tpc EXCEPT ![t] = "done"]
    /\ tfile' = [tfile EXCEPT ![t] = NoFile]
    /\ bounds' = [bounds EXCEPT ![t] = Unset]
    /\ UNCHANGED <<input, list, pc, toFeed, readsDone, printed>>

SendMax(t) ==
    /\ Running /\ tpc[t] = "max"
    /\ Collect(bounds[t].max)
    /\ tpc' = [tpc EXCEPT ![t] = "recv"]
    /\ tfile' = [tfile EXCEPT ![t] = NoFile]
    /\ bounds' = [bounds EXCEPT ![t] = Unset]
    /\ UNCHANGED <<input, list, pc, toFeed, readsDone, printed>>

EndThread(t) ==
    /\ pc = "waiting" /\ tpc[t] = "recv"
    /\ tpc' = [tpc EXCEPT ![t] = "done"]
    /\ UNCHANGED <<input, list, pc, toFeed, tfile, bounds, seen, readsDone, printed>>

NoDay == -1

(* Mutant: days are printed even when no timestamp came. *)
ReportAlways ==
    /\ Running /\ readsDone /\ printed = <<>>
    /\ printed' = <<DayOf(seen.min), DayOf(seen.max)>>
    /\ UNCHANGED <<input, list, pc, toFeed, thread, seen, readsDone>>

(* The collector takes the other branch of its select and prints: a day is  *)
(* left out of the output when its timestamp was never set.                 *)
Report ==
    /\ Running /\ readsDone /\ printed = <<>>
    /\ printed' = << IF seen.min = MaxInt64 THEN NoDay ELSE DayOf(seen.min),
                     IF seen.max = -MaxInt64 THEN NoDay ELSE DayOf(seen.max) >>
    /\ UNCHANGED <<input, list, pc, toFeed, thread, seen, readsDone>>

------------------------------------------------------------------------------
MainStep ==
    \/ EndList \/ CloseChan \/ CloseReadsDone \/ End
    \/ \E f \in Files \cup {Blank} :
         ListFile(f) \/ PassOver(f) \/ \E t \in Threads : Feed(t, f)

ThreadStep(t) ==
    Panic(t) \/ Skip(t) \/ Convert(t) \/ SendMin(t) \/ SendMax(t) \/ EndThread(t)

Step == MainStep \/ Report \/ \E t \in Threads : ThreadStep(t)

Next == Step \/ ListFails

Spec == Init /\ [][Next]_vars

(* Some goroutine that can take a step takes one: the scheduler need not be *)
(* fair to each of them for the command to end.                             *)
FairSpec == Spec /\ WF_vars(Step)
------------------------------------------------------------------------------
TypeOK ==
    /\ source \in {"walk", "file-list", "own"}
    /\ list \subseteq Files \cup {Blank} /\ toFeed \subseteq Files \cup {Blank}
    /\ pc \in {"listing", "feeding", "waiting", "collecting", "over", "failed", "panicked"}
    /\ tpc \in [Threads -> {"recv", "have", "min", "max", "done"}]
    /\ tfile \in [Threads -> Files \cup {Blank, NoFile}]
    /\ \A b \in {seen} \cup {bounds[t] : t \in Threads} :
         {b.min, b.max} \subseteq (0..Uint32) \cup {MaxInt64, -MaxInt64}
    /\ readsDone \in BOOLEAN
    /\ printed \in {<<>>} \cup Seq((0..DayOf(Uint32)) \cup {NoDay})

(* What ReadPoints must keep: at every age the points of the finest archive *)
(* that reaches back so far, and none that are older than the coarsest. Age *)
(* is counted from the newest point, or from the end of the finer archives' *)
(* retention when those are empty.                                          *)
Kept(w) ==
    UNION {{ts \in Points(w[i]) :
              /\ Now(w) - ts < w[i].retention
              /\ i > 1 => Now(w) - ts >= w[i - 1].retention} : i \in DOMAIN w}

(* The files threads have just taken. *)
Taken == {tfile[t] : t \in {u \in Threads : tpc[u] = "have"}} \ {Blank}

(* The points of an archive are read once each, in order of time, from the  *)
(* archive that is to be read at their age - unless the sum of the newest   *)
(* point and a retention wraps around (daterange.go:45, whisper.go:83).     *)
PointsKept ==
    \A f \in Taken :
        LET w == content[f]
            points == ReadPoints(w)
        IN  /\ IsAscending(points)
            /\ w # <<>> /\ Now(w) < Uint32 => ToSet(points) = Kept(w)

(* The samples of one file are cut into one block for each day, and the     *)
(* builder takes every block whole: no day comes twice (the index of the    *)
(* date's file would keep the second only), and samplesToChunks finds every *)
(* block in order and leaves none of its samples out.                       *)
DaysApart ==
    \A f \in Taken :
        LET points == ReadPoints(content[f])
            blocks == SplitSamplesByDays(points)
        IN  /\ FlattenSeq(blocks) = points
            /\ \A i, j \in DOMAIN blocks :
                 i < j => DayOf(Last(blocks[i])) < DayOf(Head(blocks[j]))
            /\ \A i \in DOMAIN blocks :
                 LET c == SamplesToChunks(blocks[i], 0, 0)
                 IN  /\ ~c.failed
                     /\ FlattenSeq([k \in DOMAIN c.chunks |-> c.chunks[k].samples]) = blocks[i]
                     /\ \A k \in DOMAIN c.chunks :
                          /\ Len(c.chunks[k].samples) <= SamplesPerChunk
                          /\ c.chunks[k].min = Head(c.chunks[k].samples)
                          /\ c.chunks[k].max = Last(c.chunks[k].samples)

(* The printed days are the first and the last that any file has samples    *)
(* of, over all files the operator meant, whether they were walked or       *)
(* listed, and no matter which thread sent what when: passes run with them  *)
(* leave no sample out.                                                     *)
Meant == IF source = "own" THEN list \ {Blank} ELSE Matching
AllDays == {DayOf(ts) : ts \in UNION {ToSet(ReadPoints(content[f])) : f \in Meant}}
RangeIsExact ==
    pc = "over" =>
        printed = IF AllDays = {} THEN <<NoDay, NoDay>> ELSE <<Min(AllDays), Max(AllDays)>>

(* The command ends: no thread is left with a timestamp that nobody takes,  *)
(* and the wait groups are not waited for in vain.                          *)
RangeEnds == <>(~Running)
==============================================================================
