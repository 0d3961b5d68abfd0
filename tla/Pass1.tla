-------------------------------- MODULE Pass1 --------------------------------
(****************************************************************************)
(* The first pass of the whisper conversion                                 *)
(* (pkg/graphite/convert/whisperconverter/pass1.go): the threads of one run *)
(* of the program take whisper files from a channel, append a block of each *)
(* metric's samples to the intermediate file of every selected date the     *)
(* samples cover, and then append the metric to the progress file.  A run   *)
(* may die anywhere; the next one skips the metrics of the progress file.   *)
(*                                                                          *)
(* A file is the bag of its complete records, which is all that a crash or  *)
(* a reopen leaves of it (USTable.tla).                                     *)
(****************************************************************************)
EXTENDS Naturals, FiniteSets

CONSTANTS
    Threads,         \* the goroutines of createIntermediateFromChan
    Metrics,         \* the metrics, one whisper file each
    NoMetric,        \* not a metric
    Convertible,     \* those whose whisper file WhisperToMimirSamples can read
    DaysOf,          \* [Metrics -> SUBSET days]: the days of a metric's samples
    Dates,           \* the dates that runs may select
    Ranges,          \* the selections, start-date to end-date, of the runs
    ResumeChoices,   \* the values of resume-intermediate the operator uses
    MaxFailures,     \* bound: runs that crash or fail
    MaxRuns          \* bound: runs of the program

ASSUME Pass1Assumption ==
    /\ Threads # {} /\ IsFiniteSet(Threads)
    /\ IsFiniteSet(Metrics) /\ NoMetric \notin Metrics
    /\ Convertible \subseteq Metrics
    /\ Ranges # {} /\ Ranges \subseteq SUBSET Dates
    /\ ResumeChoices \subseteq BOOLEAN
    /\ MaxFailures \in Nat /\ MaxRuns \in Nat

VARIABLES
    dateRecs,   \* [Dates -> [Metrics -> Nat]]: records in each date's file
    progRecs,   \* [Metrics -> Nat]: records in processedMetrics.intermediate
    pc,         \* where the main goroutine is
    resume,     \* resume-intermediate of the current run
    range,      \* the dates selected for it
    opened,     \* the date files the run holds open
    skippable,  \* the metrics found in the progress file when it was opened
    toFeed,     \* the metrics whose files the walk has still to send
    tpc,        \* where each thread is
    tmetric,    \* the metric each thread is working on
    todo,       \* the dates each thread has still to append to
    processed, skipped,  \* the counters of progress.go
    recordedFor,         \* history: the dates selected when a metric was
                         \* recorded
    runs, failures       \* counted for the bounds

files   == <<dateRecs, progRecs, recordedFor>>
main    == <<pc, resume, range, opened, skippable, toFeed>>
thread  == <<tpc, tmetric, todo>>
counts  == <<processed, skipped>>
bounds  == <<runs, failures>>
vars    == <<files, main, thread, counts, bounds>>

Running  == {"opening", "feeding", "waiting"}
Recorded == {m \in Metrics : progRecs[m] > 0}
Wanted(m) == DaysOf[m] \cap range

NoThreads ==
    /\ tpc' = [t \in Threads |-> "off"]
    /\ tmetric' = [t \in Threads |-> NoMetric]
    /\ todo' = [t \in Threads |-> {}]

Init ==
    /\ dateRecs = [d \in Dates |-> [m \in Metrics |-> 0]]
    /\ progRecs = [m \in Metrics |-> 0]
    /\ recordedFor = [m \in Metrics |-> {}]
    /\ pc = "stopped" /\ resume \in ResumeChoices /\ range \in Ranges
    /\ opened = {} /\ skippable = {} /\ toFeed = {}
    /\ tpc = [t \in Threads |-> "off"]
    /\ tmetric = [t \in Threads |-> NoMetric]
    /\ todo = [t \in Threads |-> {}]
    /\ processed = 0 /\ skipped = 0
    /\ runs = 0 /\ failures = 0

------------------------------------------------------------------------------
(* The main goroutine *)

(* The operator runs pass1, again and again if he likes, and with other     *)
(* dates if he likes.                                                       *)
Start(r, R) ==
    /\ pc \notin Running /\ runs < MaxRuns
    /\ runs' = runs + 1
    /\ pc' = "opening" /\ resume' = r /\ range' = R
    /\ skippable' = {} /\ toFeed' = Metrics
    /\ processed' = 0 /\ skipped' = 0
    /\ UNCHANGED <<files, opened, thread, failures>>

(* openIntermediateFiles: its threads open the files in no given order;     *)
(* without resume, os.Create truncates each of them.                        *)
OpenDate(d) ==
    /\ pc = "opening" /\ d \in range \ opened
    /\ opened' = opened \cup {d}
    /\ dateRecs' = IF resume THEN dateRecs
                   ELSE [dateRecs EXCEPT ![d] = [m \in Metrics |-> 0]]
    /\ UNCHANGED <<progRecs, recordedFor, pc, resume, range, skippable, toFeed, thread,
                   counts, bounds>>

(* Mutants: the index of the progress file is not kept; the wait for the    *)
(* goroutines that open the date files is forgotten.                        *)
OpenProgressNoIndex ==
    /\ pc = "opening" /\ opened = range
    /\ pc' = "feeding"
    /\ tpc' = [t \in Threads |-> "recv"]
    /\ UNCHANGED <<files, resume, range, opened, skippable, toFeed, tmetric, todo, counts, bounds>>
OpenProgressNoWait ==
    /\ pc = "opening"
    /\ pc' = "feeding"
    /\ skippable' = Recorded
    /\ tpc' = [t \in Threads |-> "recv"]
    /\ UNCHANGED <<files, resume, range, opened, toFeed, tmetric, todo, counts, bounds>>

(* The progress file is opened with overwrite = false, whatever resume is;  *)
(* then the threads are started.                                            *)
OpenProgress ==
    /\ pc = "opening" /\ opened = range
    /\ pc' = "feeding"
    /\ skippable' = Recorded
    /\ tpc' = [t \in Threads |-> "recv"]
    /\ UNCHANGED <<files, resume, range, opened, toFeed, tmetric, todo, counts, bounds>>

(* An error opening it: CommandPass1 returns, the date files are closed. *)
OpenProgressFails ==
    /\ pc = "opening" /\ opened = range /\ failures < MaxFailures
    /\ failures' = failures + 1
    /\ pc' = "stopped" /\ opened' = {}
    /\ UNCHANGED <<files, resume, range, skippable, toFeed, thread, counts, runs>>

(* Mutant: one file is sent again and again. *)
FeedTwice(t, m) ==
    /\ pc = "feeding" /\ m \in toFeed /\ tpc[t] = "recv"
    /\ toFeed' = IF \E u \in Threads : tmetric[u] = m THEN toFeed \ {m} ELSE toFeed
    /\ tpc' = [tpc EXCEPT ![t] = "have"]
    /\ tmetric' = [tmetric EXCEPT ![t] = m]
    /\ UNCHANGED <<files, pc, resume, range, opened, skippable, todo, counts, bounds>>

(* getWhisperListIntoChan: a send on the unbuffered channel meets a thread  *)
(* that receives.                                                           *)
Feed(t, m) ==
    /\ pc = "feeding" /\ m \in toFeed /\ tpc[t] = "recv"
    /\ toFeed' = toFeed \ {m}
    /\ tpc' = [tpc EXCEPT ![t] = "have"]
    /\ tmetric' = [tmetric EXCEPT ![t] = m]
    /\ UNCHANGED <<files, pc, resume, range, opened, skippable, todo, counts, bounds>>

(* Mutant: the walk returns without closing the channel. *)
LeaveChanOpen == pc = "feeding" /\ toFeed = {} /\ UNCHANGED vars

CloseChan ==
    /\ pc = "feeding" /\ toFeed = {}
    /\ pc' = "waiting"
    /\ UNCHANGED <<files, resume, range, opened, skippable, toFeed, thread, counts, bounds>>

(* Mutant: the wait for the threads is forgotten. *)
FinishNoWait ==
    /\ pc = "waiting"
    /\ pc' = "done" /\ opened' = {}
    /\ NoThreads
    /\ UNCHANGED <<files, resume, range, skippable, toFeed, counts, bounds>>

(* wgReads.Wait returns; the deferred calls close all files. *)
Finish ==
    /\ pc = "waiting" /\ \A t \in Threads : tpc[t] = "done"
    /\ pc' = "done" /\ opened' = {}
    /\ NoThreads
    /\ UNCHANGED <<files, resume, range, skippable, toFeed, counts, bounds>>

(* The process dies: a crash, a kill, or os.Exit(1) after an error on one of *)
(* the files. An Append cut short leaves no record.                          *)
Crash ==
    /\ pc \in Running /\ failures < MaxFailures
    /\ failures' = failures + 1
    /\ pc' = "stopped" /\ opened' = {}
    /\ NoThreads
    /\ UNCHANGED <<files, resume, range, skippable, toFeed, counts, runs>>

------------------------------------------------------------------------------
(* The threads: createIntermediateFromChan *)

(* In the progress file when the run began: not processed again. *)
Skip(t) ==
    /\ tpc[t] = "have" /\ tmetric[t] \in skippable
    /\ skipped' = skipped + 1
    /\ tpc' = [tpc EXCEPT ![t] = "recv"]
    /\ tmetric' = [tmetric EXCEPT ![t] = NoMetric]
    /\ UNCHANGED <<files, main, todo, processed, bounds>>

(* WhisperToMimirSamples fails: skipped and not recorded. *)
Reject(t) ==
    /\ tpc[t] = "have" /\ tmetric[t] \notin skippable \cup Convertible
    /\ skipped' = skipped + 1
    /\ tpc' = [tpc EXCEPT ![t] = "recv"]
    /\ tmetric' = [tmetric EXCEPT ![t] = NoMetric]
    /\ UNCHANGED <<files, main, todo, processed, bounds>>

(* Mutant: blocks of days that were not selected are written too. *)
ConvertAllDays(t) ==
    /\ tpc[t] = "have" /\ tmetric[t] \in Convertible \ skippable
    /\ tpc' = [tpc EXCEPT ![t] = "write"]
    /\ todo' = [todo EXCEPT ![t] = DaysOf[tmetric[t]]]
    /\ UNCHANGED <<files, main, tmetric, counts, bounds>>

(* The samples are split by days; a day that was not selected has no file. *)
Convert(t) ==
    /\ tpc[t] = "have" /\ tmetric[t] \in Convertible \ skippable
    /\ tpc' = [tpc EXCEPT ![t] = "write"]
    /\ todo' = [todo EXCEPT ![t] = Wanted(tmetric[t])]
    /\ UNCHANGED <<files, main, tmetric, counts, bounds>>

(* The next of the shuffled blocks goes to its date's file. *)
AppendDate(t, d) ==
    /\ tpc[t] = "write" /\ d \in todo[t]
    /\ dateRecs' = [dateRecs EXCEPT ![d][tmetric[t]] = @ + 1]
    /\ todo' = [todo EXCEPT ![t] = @ \ {d}]
    /\ UNCHANGED <<progRecs, recordedFor, main, tpc, tmetric, counts, bounds>>

(* Mutant: the metric is recorded before its blocks are written. *)
RecordFirst(t) ==
    /\ tpc[t] = "write"
    /\ progRecs' = IF progRecs[tmetric[t]] = 0
                   THEN [progRecs EXCEPT ![tmetric[t]] = 1] ELSE progRecs
    /\ recordedFor' = [recordedFor EXCEPT ![tmetric[t]] = range]
    /\ IF todo[t] = {}
       THEN /\ processed' = processed + 1
            /\ tpc' = [tpc EXCEPT ![t] = "recv"]
            /\ tmetric' = [tmetric EXCEPT ![t] = NoMetric]
       ELSE UNCHANGED <<processed, tpc, tmetric>>
    /\ UNCHANGED <<dateRecs, main, todo, skipped, bounds>>

(* All blocks written: the metric is appended to the progress file. *)
Record(t) ==
    /\ tpc[t] = "write" /\ todo[t] = {}
    /\ progRecs' = [progRecs EXCEPT ![tmetric[t]] = @ + 1]
    /\ recordedFor' = [recordedFor EXCEPT ![tmetric[t]] = range]
    /\ processed' = processed + 1
    /\ tpc' = [tpc EXCEPT ![t] = "recv"]
    /\ tmetric' = [tmetric EXCEPT ![t] = NoMetric]
    /\ UNCHANGED <<dateRecs, main, todo, skipped, bounds>>

(* The channel is closed and empty: wg.Done. *)
EndThread(t) ==
    /\ tpc[t] = "recv" /\ pc = "waiting"
    /\ tpc' = [tpc EXCEPT ![t] = "done"]
    /\ UNCHANGED <<files, main, tmetric, todo, counts, bounds>>

ThreadStep(t) ==
    \/ Skip(t) \/ Reject(t) \/ Convert(t) \/ Record(t) \/ EndThread(t)
    \/ \E d \in Dates : AppendDate(t, d)

MainStep ==
    \/ OpenProgress \/ CloseChan \/ Finish
    \/ \E d \in Dates : OpenDate(d)
    \/ \E t \in Threads, m \in Metrics : Feed(t, m)

Next ==
    \/ MainStep \/ OpenProgressFails \/ Crash
    \/ \E r \in ResumeChoices, R \in Ranges : Start(r, R)
    \/ \E t \in Threads : ThreadStep(t)

Spec == Init /\ [][Next]_vars

(* Goroutines are scheduled fairly, and the operator restarts a run that did *)
(* not end well, as the README tells him he may.                             *)
Fairness ==
    /\ WF_vars(MainStep)
    /\ \A t \in Threads : WF_vars(ThreadStep(t))
    /\ WF_vars(pc = "stopped" /\ \E r \in ResumeChoices, R \in Ranges : Start(r, R))

FairSpec == Spec /\ Fairness
------------------------------------------------------------------------------
TypeOK ==
    /\ dateRecs \in [Dates -> [Metrics -> Nat]]
    /\ progRecs \in [Metrics -> Nat]
    /\ pc \in Running \cup {"stopped", "done"}
    /\ recordedFor \in [Metrics -> SUBSET Dates]
    /\ resume \in ResumeChoices /\ range \in Ranges
    /\ opened \in SUBSET Dates
    /\ skippable \in SUBSET Metrics
    /\ toFeed \in SUBSET Metrics
    /\ tpc \in [Threads -> {"off", "recv", "have", "write", "done"}]
    /\ tmetric \in [Threads -> Metrics \cup {NoMetric}]
    /\ todo \in [Threads -> SUBSET Dates]
    /\ processed \in Nat /\ skipped \in Nat
    /\ runs \in Nat /\ failures \in Nat

HasAllData(m, R) == \A d \in DaysOf[m] \cap R : dateRecs[d][m] > 0

(* A metric in the progress file, which restarted runs skip, has its data   *)
(* in the file of every date that was selected when it was recorded,        *)
(* wherever the earlier runs died and whatever dates they were for. Of the  *)
(* dates of another run nothing is said: the progress file does not hold    *)
(* them (pass1.go:153), and a run over more dates skips the metric.         *)
RecordedHasData == \A m \in Recorded : HasAllData(m, recordedFor[m])

(* A run that ends has converted everything that can be, its own work and   *)
(* that of the runs it resumed together.                                    *)
DoneIsComplete ==
    pc = "done" => Convertible \subseteq Recorded

(* README and --resume-intermediate=false ("existing intermediate files will *)
(* be overwritten"): the run leaves the data of every convertible metric in  *)
(* the files it overwrote.                                                   *)
OverwritingRunConverts ==
    pc = "done" /\ ~resume => \A m \in Convertible : HasAllData(m, range)

(* Repeated work is bounded: a run takes each file once, as its counters    *)
(* tell, no metric is recorded twice, and a date file has at most one copy  *)
(* of a metric more than there were failed runs; only a run that died       *)
(* between an append and the record leaves a copy behind.                   *)
BoundedRework ==
    /\ pc = "done" => processed + skipped = Cardinality(Metrics)
    /\ \A m \in Metrics :
         /\ progRecs[m] <= 1
         /\ \A d \in Dates : dateRecs[d][m] <= failures + 1

(* A recorded metric's data are final: no thread appends to them again and  *)
(* nothing removes them.                                                    *)
RecordedIsFinal ==
    [][\A m \in Recorded :
          /\ progRecs'[m] = progRecs[m]
          /\ \A d \in Dates : dateRecs'[d][m] = dateRecs[d][m]]_vars

(* Every file is used as AppendLog.tla says: opened before it is appended   *)
(* to, by one run at a time, and not after it was closed.                   *)
DateLog(d) == INSTANCE AppendLog WITH
    Keys <- Metrics, MayOverwrite <- FALSE \in ResumeChoices,
    records <- dateRecs[d], isOpen <- d \in opened
ProgressLog == INSTANCE AppendLog WITH
    Keys <- Metrics, MayOverwrite <- FALSE,
    records <- progRecs, isOpen <- pc \in {"feeding", "waiting"}
FilesAreLogs ==
    /\ ProgressLog!Init /\ \A d \in Dates : DateLog(d)!Init
    /\ [][/\ [ProgressLog!Next]_<<progRecs, pc \in {"feeding", "waiting"}>>
          /\ \A d \in Dates :
                [DateLog(d)!Next]_<<dateRecs[d], d \in opened>>]_vars

(* A run ends: neither the walk nor a thread waits for ever on the channel  *)
(* or on the wait group.                                                    *)
RunEnds == pc \in Running ~> pc \in {"stopped", "done"}

(* Restarted after each failure, the conversion gets everything converted.  *)
EventuallyConverted ==
    <>[](/\ Convertible \subseteq Recorded
         /\ \A m \in Convertible : HasAllData(m, recordedFor[m]))
==============================================================================
