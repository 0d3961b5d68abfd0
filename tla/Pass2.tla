-------------------------------- MODULE Pass2 --------------------------------
(****************************************************************************)
(* The second pass of the whisper conversion                                *)
(* (pkg/graphite/convert/whisperconverter/pass2.go and convert/paths.go):   *)
(* several workers, separate runs of the program, divide the selected dates *)
(* among them; the threads of each turn a date's intermediate file into a   *)
(* block, which counts as finished once its meta.json is written, the last  *)
(* step of FinishBlock.  A worker may die anywhere and be run again.        *)
(*                                                                          *)
(* The intermediate files are those a first pass left and do not change.    *)
(****************************************************************************)
EXTENDS Integers, Sequences, FiniteSets

CONSTANTS
    WorkerCount,     \* --workers; the worker IDs are 0 .. WorkerCount - 1
    Threads,         \* --threads: the goroutines of each worker
    DateCount,       \* the selected dates are 1 .. DateCount
    Empty,           \* the dates whose intermediate file has no records
    TornChoices,     \* which dates may have a last record without a value
    MissingChoices,  \* which dates may have no intermediate file
    SharedBlocks,    \* do all workers write to one blocks directory?
    ResumeFlags,     \* the values of --resume-blocks the operators use
    NoDate,          \* not a date
    MaxFailures,     \* bound: runs that die
    MaxRuns          \* bound: runs of each worker

Workers == 0..(WorkerCount - 1)
Dates   == 1..DateCount
Dirs    == IF SharedBlocks THEN {0} ELSE Workers
DirOf(w) == IF SharedBlocks THEN 0 ELSE w

ASSUME Pass2Assumption ==
    /\ WorkerCount \in Nat \ {0} /\ DateCount \in Nat \ {0}
    /\ Threads # {} /\ IsFiniteSet(Threads)
    /\ Empty \subseteq Dates
    /\ TornChoices \subseteq SUBSET Dates /\ MissingChoices \subseteq SUBSET Dates
    /\ SharedBlocks \in BOOLEAN /\ ResumeFlags \subseteq BOOLEAN
    /\ NoDate \notin Dates
    /\ MaxFailures \in Nat /\ MaxRuns \in Nat

VARIABLES
    missing,    \* the dates without an intermediate file
    torn,       \* those whose file ends in a record that cannot be read
    dirs,       \* [Dirs -> [Dates -> Nat]]: block directories made for a date
    whole,      \* those with all chunks and the whole index
    finished,   \* those with a meta.json
    wpc,        \* where each worker's main goroutine is
    resume,     \* --resume-blocks of each worker's run
    listed,     \* history: the dates each worker's last run divided
    queue,      \* the dates each worker has still to send to its threads
    tpc,        \* where each thread of each worker is
    tdate,      \* the date each thread is at
    runs, failures     \* counted for the bounds

blocks == <<dirs, whole, finished>>
input  == <<missing, torn>>
thread == <<tpc, tdate>>
bounds == <<runs, failures>>
vars   == <<input, blocks, wpc, resume, listed, queue, thread, bounds>>

------------------------------------------------------------------------------
(* Mutant: the last path of a worker is left out. *)
PathsOffByOne(paths, workerCount, workerID) ==
    LET n == (Len(paths) - workerID - 1) \div workerCount
    IN  [k \in 1..n |-> paths[workerID + (k - 1) * workerCount + 1]]

(* PathsForWorker: from its own index, every workerCount-th path. When there *)
(* are more workers than paths, both returns are of an empty slice.          *)
PathsForWorker(paths, workerCount, workerID) ==
    IF workerCount > Len(paths) \/ workerID >= Len(paths) THEN <<>>
    ELSE LET n == (Len(paths) - workerID - 1) \div workerCount + 1
         IN  [k \in 1..n |-> paths[workerID + (k - 1) * workerCount + 1]]

(* GetFinishedBlockDates: the dates some readable meta.json is of. *)
GetFinishedBlockDates(dir) == {d \in Dates : finished[dir][d] > 0}

(* main.go passes *resumeBlocks for the parameter overwriteBlocks. *)
OverwriteBlocks(w) == resume[w]

SkippableDates(w) ==
    IF OverwriteBlocks(w) THEN {} ELSE GetFinishedBlockDates(DirOf(w))

(* The dates of a set in order. *)
Increasing(s) == \A i, j \in DOMAIN s : i < j => s[i] < s[j]
InDateOrder(S) == CHOOSE s \in [1..Cardinality(S) -> S] : Increasing(s)

(* Mutant: the dates are counted from zero. *)
RemainingFromZero(w) == InDateOrder(0..(DateCount - 1) \ SkippableDates(w))

(* The paths to convert. *)
Remaining(w) == InDateOrder(Dates \ SkippableDates(w))

------------------------------------------------------------------------------
Init ==
    /\ missing \in MissingChoices /\ torn \in TornChoices
    /\ dirs = [v \in Dirs |-> [d \in Dates |-> 0]]
    /\ whole = [v \in Dirs |-> [d \in Dates |-> 0]]
    /\ finished = [v \in Dirs |-> [d \in Dates |-> 0]]
    /\ wpc = [w \in Workers |-> "idle"]
    /\ resume \in [Workers -> ResumeFlags]
    /\ listed = [w \in Workers |-> {}]
    /\ queue = [w \in Workers |-> <<>>]
    /\ tpc = [w \in Workers |-> [t \in Threads |-> "off"]]
    /\ tdate = [w \in Workers |-> [t \in Threads |-> NoDate]]
    /\ runs = [w \in Workers |-> 0] /\ failures = 0

Running(w) == wpc[w] \in {"listing", "feeding", "waiting"}

StopThreads(w) ==
    /\ tpc' = [tpc EXCEPT ![w] = [t \in Threads |-> "off"]]
    /\ tdate' = [tdate EXCEPT ![w] = [t \in Threads |-> NoDate]]

(* os.Exit(1), or a crash: the partial blocks stay. *)
Die(w) ==
    /\ failures' = failures + 1
    /\ wpc' = [wpc EXCEPT ![w] = "stopped"]
    /\ queue' = [queue EXCEPT ![w] = <<>>]
    /\ StopThreads(w)
    /\ UNCHANGED <<input, blocks, resume, listed, runs>>

(* Worker w is run, again when it likes: the threads are started first. The *)
(* bound on the runs keeps one for each crash there may still be.           *)
Start(w, r) ==
    /\ ~Running(w) /\ runs[w] < MaxRuns
    /\ wpc[w] = "done" => runs[w] + MaxFailures - failures < MaxRuns
    /\ runs' = [runs EXCEPT ![w] = @ + 1]
    /\ resume' = [resume EXCEPT ![w] = r]
    /\ wpc' = [wpc EXCEPT ![w] = "listing"]
    /\ tpc' = [tpc EXCEPT ![w] = [t \in Threads |-> "recv"]]
    /\ UNCHANGED <<input, blocks, listed, queue, tdate, failures>>

(* getIntermediateListIntoChan up to its first send. *)
List(w) ==
    /\ wpc[w] = "listing"
    /\ missing \subseteq SkippableDates(w)
    /\ wpc' = [wpc EXCEPT ![w] = "feeding"]
    /\ listed' = [listed EXCEPT ![w] = Dates \ SkippableDates(w)]
    /\ queue' = [queue EXCEPT ![w] = PathsForWorker(Remaining(w), WorkerCount, w)]
    /\ UNCHANGED <<input, blocks, resume, thread, bounds>>

(* "did not find expected file": the process exits. *)
ListFails(w) ==
    /\ wpc[w] = "listing"
    /\ ~(missing \subseteq SkippableDates(w))
    /\ Die(w)

(* Mutant: a date is sent to two threads. *)
FeedTwice(w, t) ==
    /\ wpc[w] = "feeding" /\ queue[w] # <<>> /\ tpc[w][t] = "recv"
    /\ tpc' = [tpc EXCEPT ![w][t] = "have"]
    /\ tdate' = [tdate EXCEPT ![w][t] = Head(queue[w])]
    /\ queue' = [queue EXCEPT ![w] = IF Head(@) \in {tdate[w][u] : u \in Threads}
                                     THEN Tail(@) ELSE @]
    /\ UNCHANGED <<input, blocks, wpc, resume, listed, bounds>>

(* A send on the unbuffered channel meets a thread that receives. *)
Feed(w, t) ==
    /\ wpc[w] = "feeding" /\ queue[w] # <<>> /\ tpc[w][t] = "recv"
    /\ tpc' = [tpc EXCEPT ![w][t] = "have"]
    /\ tdate' = [tdate EXCEPT ![w][t] = Head(queue[w])]
    /\ queue' = [queue EXCEPT ![w] = Tail(@)]
    /\ UNCHANGED <<input, blocks, wpc, resume, listed, bounds>>

(* Mutant: the channel is never closed. *)
LeaveChanOpen(w) == wpc[w] = "feeding" /\ queue[w] = <<>> /\ UNCHANGED vars

(* The walk is over. *)
CloseChan(w) ==
    /\ wpc[w] = "feeding" /\ queue[w] = <<>>
    /\ wpc' = [wpc EXCEPT ![w] = "waiting"]
    /\ UNCHANGED <<input, blocks, resume, listed, queue, thread, bounds>>

(* wgReads.Wait returns. *)
Finish(w) ==
    /\ wpc[w] = "waiting" /\ \A t \in Threads : tpc[w][t] = "done"
    /\ wpc' = [wpc EXCEPT ![w] = "done"]
    /\ StopThreads(w)
    /\ UNCHANGED <<input, blocks, resume, listed, queue, bounds>>

------------------------------------------------------------------------------
(* The threads: createBlocksFromChan and createOneBlock *)

(* Mutant: the builder is made before the index is looked at. *)
NoSeriesDirLeft(w, t) ==
    /\ tpc[w][t] = "have" /\ tdate[w][t] \in Empty
    /\ dirs' = [dirs EXCEPT ![DirOf(w)][tdate[w][t]] = @ + 1]
    /\ tpc' = [tpc EXCEPT ![w][t] = "recv"]
    /\ tdate' = [tdate EXCEPT ![w][t] = NoDate]
    /\ UNCHANGED <<input, whole, finished, wpc, resume, listed, queue, bounds>>

(* The index is empty: no block. *)
NoSeries(w, t) ==
    /\ tpc[w][t] = "have" /\ tdate[w][t] \in Empty
    /\ tpc' = [tpc EXCEPT ![w][t] = "recv"]
    /\ tdate' = [tdate EXCEPT ![w][t] = NoDate]
    /\ UNCHANGED <<input, blocks, wpc, resume, listed, queue, bounds>>

(* NewBuilder makes a directory with a new ULID. *)
NewBlock(w, t) ==
    /\ tpc[w][t] = "have" /\ tdate[w][t] \notin Empty
    /\ dirs' = [dirs EXCEPT ![DirOf(w)][tdate[w][t]] = @ + 1]
    /\ tpc' = [tpc EXCEPT ![w][t] = "build"]
    /\ UNCHANGED <<input, whole, finished, wpc, resume, listed, queue, tdate, bounds>>

(* Mutant: meta.json is written before the data. *)
WriteBlockMetaFirst(w, t) ==
    /\ tpc[w][t] = "build" /\ tdate[w][t] \notin torn
    /\ finished' = [finished EXCEPT ![DirOf(w)][tdate[w][t]] = @ + 1]
    /\ tpc' = [tpc EXCEPT ![w][t] = "meta"]
    /\ UNCHANGED <<input, dirs, whole, wpc, resume, listed, queue, tdate, bounds>>

(* Every series was read and added; FinishBlock writes chunks and index. *)
WriteBlock(w, t) ==
    /\ tpc[w][t] = "build" /\ tdate[w][t] \notin torn
    /\ whole' = [whole EXCEPT ![DirOf(w)][tdate[w][t]] = @ + 1]
    /\ tpc' = [tpc EXCEPT ![w][t] = "meta"]
    /\ UNCHANGED <<input, dirs, finished, wpc, resume, listed, queue, tdate, bounds>>

(* FinishBlock ends with meta.json, and the thread takes the next date. *)
WriteMeta(w, t) ==
    /\ tpc[w][t] = "meta"
    /\ finished' = [finished EXCEPT ![DirOf(w)][tdate[w][t]] = @ + 1]
    /\ tpc' = [tpc EXCEPT ![w][t] = "recv"]
    /\ tdate' = [tdate EXCEPT ![w][t] = NoDate]
    /\ UNCHANGED <<input, dirs, whole, wpc, resume, listed, queue, bounds>>

(* ReadAt fails on the torn record: the process exits, and its other threads *)
(* with it.                                                                  *)
BlockFails(w, t) ==
    /\ tpc[w][t] = "build" /\ tdate[w][t] \in torn
    /\ Die(w)

(* The channel is closed and empty: wg.Done. *)
EndThread(w, t) ==
    /\ tpc[w][t] = "recv" /\ wpc[w] = "waiting"
    /\ tpc' = [tpc EXCEPT ![w][t] = "done"]
    /\ UNCHANGED <<input, blocks, wpc, resume, listed, queue, tdate, bounds>>

Crash(w) == Running(w) /\ failures < MaxFailures /\ Die(w)

ThreadStep(w, t) ==
    \/ NoSeries(w, t) \/ NewBlock(w, t) \/ WriteBlock(w, t) \/ WriteMeta(w, t)
    \/ BlockFails(w, t) \/ EndThread(w, t)

MainStep(w) ==
    \/ List(w) \/ ListFails(w) \/ CloseChan(w) \/ Finish(w)
    \/ \E t \in Threads : Feed(w, t)

Restart(w) == wpc[w] \in {"idle", "stopped"} /\ \E r \in ResumeFlags : Start(w, r)

Next ==
    \E w \in Workers :
        \/ MainStep(w) \/ Crash(w)
        \/ \E t \in Threads : ThreadStep(w, t)
        \/ \E r \in ResumeFlags : Start(w, r)

Spec == Init /\ [][Next]_vars

(* Goroutines are scheduled, and a worker is started, and run again when it  *)
(* dies. The runs are finitely many and each has finitely many steps, so it  *)
(* is enough that, while some step can be taken, one is.                     *)
GoOn ==
    \E w \in Workers :
        MainStep(w) \/ Restart(w) \/ \E t \in Threads : ThreadStep(w, t)

FairSpec == Spec /\ WF_vars(GoOn)
------------------------------------------------------------------------------
TypeOK ==
    /\ finished \in [Dirs -> [Dates -> Nat]]
    /\ missing \in MissingChoices /\ torn \in TornChoices
    /\ dirs \in [Dirs -> [Dates -> Nat]]
    /\ whole \in [Dirs -> [Dates -> Nat]]
    /\ wpc \in [Workers -> {"idle", "stopped", "listing", "feeding", "waiting", "done"}]
    /\ resume \in [Workers -> ResumeFlags]
    /\ listed \in [Workers -> SUBSET Dates]
    /\ queue \in [Workers -> Seq(Dates)]
    /\ tpc \in [Workers -> [Threads -> {"off", "recv", "have", "build", "meta", "done"}]]
    /\ tdate \in [Workers -> [Threads -> Dates \cup {NoDate}]]
    /\ runs \in [Workers -> 0..MaxRuns] /\ failures \in Nat

AllDone == \A w \in Workers : wpc[w] = "done"
Converted(d) == \E v \in Dirs : finished[v][d] > 0 /\ whole[v][d] > 0
BuildersAt(v, d) ==
    Cardinality({x \in Workers \X Threads : DirOf(x[1]) = v /\ tdate[x[1]][x[2]] = d})
Building(w, d) == \E t \in Threads : tdate[w][t] = d

(* When every worker has ended its run without an error, every selected date *)
(* that has data has a finished block somewhere: the division of the dates   *)
(* left none out.                                                            *)
AllDatesConverted == AllDone => \A d \in Dates \ Empty : Converted(d)

NoneTwice ==
    \A w, u \in Workers, d \in Dates :
        listed[w] = listed[u] /\ Building(w, d) /\ Building(u, d) => w = u

(* Workers that divided the same list, whatever they skipped of it, leave no *)
(* date to nobody and none to two of them; those that skipped different      *)
(* dates may do both, since PathsForWorker counts in what is left.           *)
DividedOnce ==
    /\ (\A w, u \in Workers : listed[w] = listed[u]) => AllDatesConverted
    /\ NoneTwice

(* --resume-blocks: "If true, dates are skipped if there exists a finished   *)
(* output block for that date": no directory gets a second one.               *)
NoSecondBlock == \A v \in Dirs, d \in Dates : finished[v][d] <= 1

(* A directory that has a finished block of a date gets a second one only    *)
(* from a run that does not skip finished dates, however many threads and    *)
(* runs wrote to it; for workers that do not share a directory.              *)
SecondOnlyOverwriting ==
    [][\A v \in Dirs, d \in Dates :
          finished[v][d] > 0 /\ finished'[v][d] > finished[v][d] =>
            \E w \in Workers :
                DirOf(w) = v /\ OverwriteBlocks(w) /\ Building(w, d)]_vars

(* A date that a resuming run would skip has its whole block: a block whose  *)
(* worker died at any point is never taken for a finished one.              *)
FinishedIsWhole ==
    \A v \in Dirs : \A d \in GetFinishedBlockDates(v) :
        d \notin Empty \cup torn /\ whole[v][d] >= finished[v][d]

(* A block directory without meta.json is being built, or a run that died   *)
(* left it: at most one for each of its threads.                            *)
LitterBounded ==
    \A v \in Dirs, d \in Dates :
        dirs[v][d] - finished[v][d] <= BuildersAt(v, d) + failures * Cardinality(Threads)

(* Every run of a worker ends, even those that cannot go well, and with      *)
(* files that can be read the workers, run again after each crash, get every *)
(* date converted.                                                           *)
EventuallyConverted ==
    /\ <>[](\A w \in Workers : ~Running(w))
    /\ torn = {} /\ missing = {} =>
          <>[](/\ AllDone
               /\ (\A w, u \in Workers : listed[w] = listed[u]) =>
                     \A d \in Dates \ Empty : Converted(d))
==============================================================================
