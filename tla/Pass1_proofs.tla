----------------------------- MODULE Pass1_proofs -----------------------------
(****************************************************************************)
(* Proofs about Pass1.tla, for any set of threads, metrics and dates and    *)
(* any number of runs and failures.                                         *)
(****************************************************************************)
EXTENDS Pass1, FiniteSetTheorems, TLAPS

(* The operator always resumes, the default of resume-intermediate. *)
Resuming == ResumeChoices = {TRUE}

(* What a thread at its blocks has written: the dates it has done are in.   *)
WritingHasData ==
    \A t \in Threads : tpc[t] = "write" =>
        /\ tmetric[t] \in Convertible
        /\ todo[t] \subseteq Wanted(tmetric[t])
        /\ \A d \in Wanted(tmetric[t]) \ todo[t] : dateRecs[d][tmetric[t]] > 0

(* Threads work while a run feeds them: the selection of dates does not     *)
(* change under them.                                                       *)
Feeding == {"feeding", "waiting"}
OffBetweenRuns == pc \notin Feeding => \A t \in Threads : tpc[t] = "off"

DataInv == TypeOK /\ OffBetweenRuns /\ WritingHasData /\ RecordedHasData

(* Where a metric that can be converted is during a run: still to be sent,  *)
(* with a thread, or recorded.                                              *)
Holding(t, m) == tpc[t] \in {"have", "write"} /\ tmetric[t] = m
Accounted ==
    pc \in {"feeding", "waiting"} =>
        /\ skippable \subseteq Recorded
        /\ \A m \in Convertible :
             m \in toFeed \/ m \in Recorded \/ \E t \in Threads : Holding(t, m)
BeforeFeeding == pc = "opening" => toFeed = Metrics
AfterFeeding  == pc = "waiting" => toFeed = {}
DoneInv ==
    TypeOK /\ BeforeFeeding /\ Accounted /\ AfterFeeding /\ DoneIsComplete

------------------------------------------------------------------------------
(* An append adds one record of the thread's metric to one date's file. *)
LEMMA AppendEffect ==
    ASSUME TypeOK, NEW t \in Threads, NEW d \in Dates, AppendDate(t, d)
    PROVE  /\ dateRecs' \in [Dates -> [Metrics -> Nat]]
           /\ \A e \in Dates, m \in Metrics :
                dateRecs'[e][m] = IF e = d /\ m = tmetric[t]
                                  THEN dateRecs[e][m] + 1 ELSE dateRecs[e][m]
<1> DEFINE row == [m \in Metrics |-> IF m = tmetric[t] THEN dateRecs[d][m] + 1
                                     ELSE dateRecs[d][m]]
<1>1. dateRecs[d] \in [Metrics -> Nat] /\ dateRecs \in [Dates -> [Metrics -> Nat]]
  BY DEF TypeOK
<1>2. row \in [Metrics -> Nat]
  BY <1>1
<1>3. dateRecs' = [dateRecs EXCEPT ![d] = row]
  <2>1. row = [dateRecs[d] EXCEPT ![tmetric[t]] = @ + 1]
    BY <1>1
  <2> QED BY <2>1, <1>1 DEF AppendDate
<1> QED BY <1>1, <1>2, <1>3

(* A metric's record in the progress file is added to those that are there. *)
LEMMA RecordEffect ==
    ASSUME TypeOK, NEW t \in Threads, Record(t)
    PROVE  /\ progRecs' \in [Metrics -> Nat]
           /\ \A m \in Metrics :
                progRecs'[m] = IF m = tmetric[t] THEN progRecs[m] + 1
                               ELSE progRecs[m]
           /\ recordedFor' \in [Metrics -> SUBSET Dates]
           /\ \A m \in Metrics :
                recordedFor'[m] = IF m = tmetric[t] THEN range ELSE recordedFor[m]
<1>1. progRecs' = [m \in Metrics |-> IF m = tmetric[t] THEN progRecs[m] + 1
                                    ELSE progRecs[m]]
  BY DEF Record, TypeOK
<1>2. range \in SUBSET Dates
  BY Pass1Assumption DEF TypeOK
<1>3. recordedFor' = [m \in Metrics |-> IF m = tmetric[t] THEN range
                                       ELSE recordedFor[m]]
  BY DEF Record, TypeOK
<1>4. progRecs \in [Metrics -> Nat] /\ recordedFor \in [Metrics -> SUBSET Dates]
  BY DEF TypeOK
<1> QED BY <1>1, <1>2, <1>3, <1>4

(* The variables keep their types under every step of the program. *)
LEMMA TypeStep == TypeOK /\ [Next]_vars => TypeOK'
<1> USE DEF TypeOK, Running, Recorded, Wanted
<1>1. SUFFICES ASSUME TypeOK, [Next]_vars PROVE TypeOK'
  OBVIOUS
<1>2. CASE MainStep
  <2>1. CASE OpenProgress
    BY <1>1, <2>1 DEF OpenProgress, files, counts, bounds
  <2>2. CASE CloseChan
    BY <1>1, <2>2 DEF CloseChan, files, thread, counts, bounds
  <2>3. CASE Finish
    BY <1>1, <2>3 DEF Finish, NoThreads, files, counts, bounds
  <2>4. ASSUME NEW d \in Dates, OpenDate(d) PROVE TypeOK'
    BY <1>1, <2>4 DEF OpenDate, thread, counts, bounds
  <2>5. ASSUME NEW t \in Threads, NEW m \in Metrics, Feed(t, m) PROVE TypeOK'
    BY <1>1, <2>5 DEF Feed, files, counts, bounds
  <2> QED BY <1>2, <2>1, <2>2, <2>3, <2>4, <2>5 DEF MainStep
<1>3. CASE OpenProgressFails
  BY <1>1, <1>3 DEF OpenProgressFails, files, thread, counts
<1>4. CASE Crash
  BY <1>1, <1>4 DEF Crash, NoThreads, files, counts
<1>5. ASSUME NEW r \in ResumeChoices, NEW R \in Ranges, Start(r, R) PROVE TypeOK'
  BY <1>1, <1>5 DEF Start, files, thread
<1>6. ASSUME NEW t \in Threads, ThreadStep(t) PROVE TypeOK'
  <2>1. CASE Skip(t)
    BY <1>1, <2>1 DEF Skip, files, main, bounds
  <2>2. CASE Reject(t)
    BY <1>1, <2>2 DEF Reject, files, main, bounds
  <2>3. CASE Convert(t)
    <3>1. range \in SUBSET Dates
      BY <1>1, Pass1Assumption
    <3> QED BY <1>1, <2>3, <3>1 DEF Convert, files, main, counts, bounds
  <2>4. CASE Record(t)
    <3>1. progRecs' \in [Metrics -> Nat] /\ recordedFor' \in [Metrics -> SUBSET Dates]
      BY <1>1, <2>4, RecordEffect
    <3> QED BY <1>1, <2>4, <3>1 DEF Record, main, bounds
  <2>5. CASE EndThread(t)
    BY <1>1, <2>5 DEF EndThread, files, main, counts, bounds
  <2>6. ASSUME NEW d \in Dates, AppendDate(t, d) PROVE TypeOK'
    <3>1. dateRecs' \in [Dates -> [Metrics -> Nat]]
      BY <1>1, <2>6, AppendEffect
    <3> QED BY <1>1, <2>6, <3>1 DEF AppendDate, main, counts, bounds
  <2> QED BY <1>6, <2>1, <2>2, <2>3, <2>4, <2>5, <2>6 DEF ThreadStep
<1>7. CASE UNCHANGED vars
  BY <1>1, <1>7 DEF vars, files, main, thread, counts, bounds
<1> QED BY <1>1, <1>2, <1>3, <1>4, <1>5, <1>6, <1>7 DEF Next

(* Type correctness, for every instance of the constants. *)
THEOREM TypeCorrect == Spec => []TypeOK
<1>1. Init => TypeOK
  BY Pass1Assumption DEF Init, TypeOK, Running
<1> QED BY <1>1, TypeStep, PTL DEF Spec

------------------------------------------------------------------------------
(* No step that leaves a run leaves a thread at work. *)
LEMMA OffStep == TypeOK /\ OffBetweenRuns /\ [Next]_vars => OffBetweenRuns'
<1> USE DEF TypeOK, OffBetweenRuns, Feeding
<1>1. SUFFICES ASSUME TypeOK, OffBetweenRuns, [Next]_vars PROVE OffBetweenRuns'
  OBVIOUS
<1>2. CASE MainStep
  BY <1>1, <1>2 DEF MainStep, OpenProgress, CloseChan, Finish, NoThreads, OpenDate,
                    Feed, thread
<1>3. CASE OpenProgressFails
  BY <1>1, <1>3 DEF OpenProgressFails, thread
<1>4. CASE Crash
  BY <1>1, <1>4 DEF Crash, NoThreads
<1>5. ASSUME NEW r \in ResumeChoices, NEW R \in Ranges, Start(r, R)
      PROVE  OffBetweenRuns'
  BY <1>1, <1>5 DEF Start, thread, Running
<1>6. ASSUME NEW t \in Threads, ThreadStep(t) PROVE OffBetweenRuns'
  <2>1. pc' = pc /\ tpc[t] # "off"
    BY <1>6 DEF ThreadStep, Skip, Reject, Convert, Record, EndThread, AppendDate, main
  <2> QED BY <1>1, <2>1
<1>7. CASE UNCHANGED vars
  BY <1>1, <1>7 DEF vars, main, thread
<1> QED BY <1>1, <1>2, <1>3, <1>4, <1>5, <1>6, <1>7 DEF Next

(* The invariant behind RecordedHasData: what a thread has written so far.  *)
LEMMA DataStep ==
    ASSUME Resuming, DataInv, [Next]_vars
    PROVE  WritingHasData' /\ RecordedHasData'
<1>0. TypeOK /\ TypeOK' /\ OffBetweenRuns /\ WritingHasData /\ RecordedHasData
  BY TypeStep DEF DataInv
<1>1. ASSUME UNCHANGED <<dateRecs, progRecs, recordedFor>>,
             \A t \in Threads : tpc'[t] = "write" =>
                /\ tpc[t] = "write" /\ tmetric'[t] = tmetric[t] /\ todo'[t] = todo[t]
                /\ range' = range
      PROVE  WritingHasData' /\ RecordedHasData'
  BY <1>0, <1>1 DEF WritingHasData, RecordedHasData, Recorded, HasAllData, Wanted
<1>2. CASE MainStep
  <2>1. CASE OpenProgress
    BY <1>0, <1>1, <2>1 DEF OpenProgress, files, TypeOK
  <2>2. CASE CloseChan
    BY <1>0, <1>1, <2>2 DEF CloseChan, files, thread
  <2>3. CASE Finish
    BY <1>0, <1>1, <2>3 DEF Finish, NoThreads, files
  <2>4. ASSUME NEW d \in Dates, OpenDate(d)
        PROVE  WritingHasData' /\ RecordedHasData'
    <3>1. resume
      BY <1>0 DEF TypeOK, Resuming
    <3> QED BY <1>1, <2>4, <3>1 DEF OpenDate, thread
  <2>5. ASSUME NEW t \in Threads, NEW m \in Metrics, Feed(t, m)
        PROVE  WritingHasData' /\ RecordedHasData'
    BY <1>0, <1>1, <2>5 DEF Feed, files, TypeOK
  <2> QED BY <1>2, <2>1, <2>2, <2>3, <2>4, <2>5 DEF MainStep
<1>3. CASE OpenProgressFails
  BY <1>1, <1>3 DEF OpenProgressFails, files, thread
<1>4. CASE Crash
  BY <1>0, <1>1, <1>4 DEF Crash, NoThreads, files
<1>5. ASSUME NEW r \in ResumeChoices, NEW R \in Ranges, Start(r, R)
      PROVE  WritingHasData' /\ RecordedHasData'
  <2>1. \A t \in Threads : tpc'[t] = "off"
    BY <1>0, <1>5 DEF Start, thread, OffBetweenRuns, Running, Feeding
  <2> QED BY <1>1, <1>5, <2>1 DEF Start, files
<1>6. ASSUME NEW t \in Threads, ThreadStep(t)
      PROVE  WritingHasData' /\ RecordedHasData'
  <2>1. CASE Skip(t)
    BY <1>0, <1>1, <2>1 DEF Skip, files, main, TypeOK
  <2>2. CASE Reject(t)
    BY <1>0, <1>1, <2>2 DEF Reject, files, main, TypeOK
  <2>3. CASE Convert(t)
    <3>1. RecordedHasData'
      BY <1>0, <2>3 DEF Convert, files, RecordedHasData, Recorded, HasAllData, Wanted
    <3>2. WritingHasData'
      BY <1>0, <2>3 DEF Convert, files, main, WritingHasData, Wanted, TypeOK
    <3> QED BY <3>1, <3>2
  <2>4. CASE Record(t)
    <3>1. HasAllData(tmetric[t], range)
      BY <1>0, <2>4 DEF Record, WritingHasData, HasAllData, Wanted
    <3>2. Recorded' \subseteq Recorded \cup {tmetric[t]}
      BY <1>0, <2>4, RecordEffect DEF Recorded
    <3>3. RecordedHasData'
      BY <1>0, <2>4, <3>1, <3>2, RecordEffect
         DEF Record, RecordedHasData, HasAllData, Recorded
    <3>4. WritingHasData'
      BY <1>0, <2>4 DEF Record, main, WritingHasData, Wanted, TypeOK
    <3> QED BY <3>3, <3>4
  <2>5. CASE EndThread(t)
    BY <1>0, <1>1, <2>5 DEF EndThread, files, main, TypeOK
  <2>6. ASSUME NEW d \in Dates, AppendDate(t, d)
        PROVE  WritingHasData' /\ RecordedHasData'
    <3>1. \A e \in Dates, m \in Metrics : dateRecs[e][m] > 0 => dateRecs'[e][m] > 0
      BY <1>0, <2>6, AppendEffect DEF TypeOK
    <3>2. tmetric[t] \in Metrics /\ dateRecs'[d][tmetric[t]] > 0
      <4>1. tmetric[t] \in Metrics
        BY <1>0, <2>6, Pass1Assumption DEF AppendDate, WritingHasData
      <4> QED BY <1>0, <2>6, <4>1, AppendEffect DEF TypeOK
    <3>3. RecordedHasData'
      BY <1>0, <2>6, <3>1 DEF AppendDate, RecordedHasData, Recorded, HasAllData, Wanted
    <3>4. ASSUME NEW u \in Threads, tpc'[u] = "write"
          PROVE  /\ tmetric'[u] \in Convertible
                 /\ todo'[u] \subseteq Wanted(tmetric'[u])
                 /\ \A e \in Wanted(tmetric'[u]) \ todo'[u] :
                      dateRecs'[e][tmetric'[u]] > 0
      <4>1. tpc[u] = "write" /\ tmetric'[u] = tmetric[u] /\ range' = range
        BY <2>6, <3>4 DEF AppendDate, main
      <4>2. todo'[u] = IF u = t THEN todo[u] \ {d} ELSE todo[u]
        BY <1>0, <2>6 DEF AppendDate, TypeOK
      <4>3. /\ tmetric[u] \in Convertible /\ tmetric[u] \in Metrics
            /\ todo[u] \subseteq Wanted(tmetric[u])
            /\ \A e \in Wanted(tmetric[u]) \ todo[u] : dateRecs[e][tmetric[u]] > 0
        BY <1>0, <4>1, Pass1Assumption DEF WritingHasData
      <4>4. Wanted(tmetric[u]) \subseteq Dates
        BY <1>0, Pass1Assumption DEF Wanted, TypeOK
      <4> QED BY <3>1, <3>2, <4>1, <4>2, <4>3, <4>4
    <3>5. WritingHasData'
      <4>1. range' = range
        BY <2>6 DEF AppendDate, main
      <4> QED BY <3>4, <4>1 DEF WritingHasData, Wanted
    <3> QED BY <3>3, <3>5
  <2> QED BY <1>6, <2>1, <2>2, <2>3, <2>4, <2>5, <2>6 DEF ThreadStep
<1>7. CASE UNCHANGED vars
  BY <1>1, <1>7 DEF vars, files, main, thread
<1> QED BY <1>2, <1>3, <1>4, <1>5, <1>6, <1>7 DEF Next

(* A metric in the progress file has its data in the file of every date that *)
(* was selected when it was recorded, whatever the crashes and the dates of  *)
(* the other runs, when every run resumes.                                   *)
THEOREM RecordedHasDataAlways == ASSUME Resuming PROVE Spec => []RecordedHasData
<1>1. Init => DataInv
  BY Pass1Assumption DEF Init, DataInv, TypeOK, Running, OffBetweenRuns,
         WritingHasData, RecordedHasData, Recorded
<1>2. DataInv /\ [Next]_vars => DataInv'
  BY DataStep, TypeStep, OffStep DEF DataInv
<1>3. DataInv => RecordedHasData
  BY DEF DataInv
<1> QED BY <1>1, <1>2, <1>3, PTL DEF Spec

------------------------------------------------------------------------------
(* Where the convertible metrics of a run are is kept by every step. *)
LEMMA AccountStep ==
    ASSUME DoneInv, [Next]_vars
    PROVE  BeforeFeeding' /\ Accounted' /\ AfterFeeding' /\ DoneIsComplete'
<1> DEFINE Goal == BeforeFeeding' /\ Accounted' /\ AfterFeeding' /\ DoneIsComplete'
<1>0. TypeOK /\ TypeOK' /\ BeforeFeeding /\ Accounted /\ AfterFeeding /\ DoneIsComplete
  BY TypeStep DEF DoneInv
<1> USE DEF BeforeFeeding, Accounted, AfterFeeding, DoneIsComplete
<1>2. CASE MainStep
  <2>1. CASE OpenProgress
    <3>1. Recorded' = Recorded /\ toFeed' = Metrics /\ skippable' = Recorded
      BY <1>0, <2>1 DEF OpenProgress, files, Recorded
    <3> QED BY <2>1, <3>1, Pass1Assumption DEF OpenProgress
  <2>2. CASE CloseChan
    BY <1>0, <2>2 DEF CloseChan, files, thread, Recorded, Holding
  <2>3. CASE Finish
    <3>1. \A t \in Threads, m \in Metrics : ~Holding(t, m)
      BY <2>3 DEF Finish, Holding
    <3>2. Convertible \subseteq Recorded
      BY <1>0, <2>3, <3>1, Pass1Assumption DEF Finish
    <3> QED BY <2>3, <3>2 DEF Finish, files, Recorded
  <2>4. ASSUME NEW d \in Dates, OpenDate(d) PROVE Goal
    BY <1>0, <2>4 DEF OpenDate
  <2>5. ASSUME NEW t \in Threads, NEW m \in Metrics, Feed(t, m) PROVE Goal
    <3>1. Holding(t, m)' /\ \A u \in Threads : u # t => \A n : Holding(u, n)' = Holding(u, n)
      BY <1>0, <2>5 DEF Feed, Holding, TypeOK
    <3>2. \A n : ~Holding(t, n)
      BY <2>5 DEF Feed, Holding
    <3>3. Recorded' = Recorded
      BY <2>5 DEF Feed, files, Recorded
    <3>4. \A n \in Convertible :
             n \in toFeed' \/ n \in Recorded' \/ \E u \in Threads : Holding(u, n)'
      BY <1>0, <2>5, <3>1, <3>2, <3>3 DEF Feed
    <3> QED BY <1>0, <2>5, <3>3, <3>4 DEF Feed
  <2> QED BY <1>2, <2>1, <2>2, <2>3, <2>4, <2>5 DEF MainStep
<1>3. CASE OpenProgressFails
  BY <1>3 DEF OpenProgressFails
<1>4. CASE Crash
  BY <1>4 DEF Crash
<1>5. ASSUME NEW r \in ResumeChoices, NEW R \in Ranges, Start(r, R) PROVE Goal
  BY <1>5 DEF Start
<1>6. ASSUME NEW t \in Threads, ThreadStep(t) PROVE Goal
  <2>0. ASSUME Recorded \subseteq Recorded', UNCHANGED main,
               pc \in {"feeding", "waiting"} => \A n \in Convertible :
                 Holding(t, n) => n \in Recorded' \/ Holding(t, n)',
               \A u \in Threads : u # t => \A n : Holding(u, n)' = Holding(u, n)
        PROVE  Goal
    <3>1. pc \in {"feeding", "waiting"} => \A n \in Convertible : \A u \in Threads :
             Holding(u, n) => n \in Recorded' \/ \E v \in Threads : Holding(v, n)'
      BY <2>0
    <3> QED BY <1>0, <2>0, <3>1 DEF main
  <2>1. CASE Skip(t)
    <3>1. \A u \in Threads : u # t => \A n : Holding(u, n)' = Holding(u, n)
      BY <1>0, <2>1 DEF Skip, Holding, TypeOK
    <3>2. Recorded' = Recorded /\ UNCHANGED main
      BY <2>1 DEF Skip, files, Recorded
    <3>3. pc \in {"feeding", "waiting"} =>
             \A n \in Convertible : Holding(t, n) => n \in Recorded'
      BY <1>0, <2>1, <3>2 DEF Skip, Holding
    <3> QED BY <2>0, <3>1, <3>2, <3>3
  <2>2. CASE Reject(t)
    BY <1>0, <2>0, <2>2 DEF Reject, files, Recorded, Holding, TypeOK
  <2>3. CASE Convert(t)
    BY <1>0, <2>0, <2>3 DEF Convert, files, Recorded, Holding, TypeOK
  <2>4. CASE Record(t)
    <3>1. \A m \in Metrics : progRecs[m] > 0 \/ m = tmetric[t] => progRecs'[m] > 0
      BY <1>0, <2>4, RecordEffect DEF TypeOK
    <3>2. Recorded \subseteq Recorded'
      BY <3>1 DEF Recorded
    <3>3. \A n \in Convertible : Holding(t, n) => n \in Recorded'
      BY <3>1, Pass1Assumption DEF Recorded, Holding
    <3>4. UNCHANGED main
          /\ \A u \in Threads : u # t => \A n : Holding(u, n)' = Holding(u, n)
      BY <1>0, <2>4 DEF Record, Holding, TypeOK
    <3> QED BY <2>0, <3>2, <3>3, <3>4
  <2>5. CASE EndThread(t)
    BY <1>0, <2>0, <2>5 DEF EndThread, files, Recorded, Holding, TypeOK
  <2>6. ASSUME NEW d \in Dates, AppendDate(t, d) PROVE Goal
    BY <1>0, <2>0, <2>6 DEF AppendDate, Recorded, Holding
  <2> QED BY <1>6, <2>1, <2>2, <2>3, <2>4, <2>5, <2>6 DEF ThreadStep
<1>7. CASE UNCHANGED vars
  BY <1>0, <1>7 DEF vars, files, main, thread, Recorded, Holding
<1> QED BY <1>2, <1>3, <1>4, <1>5, <1>6, <1>7 DEF Next

(* A run that ends leaves every convertible metric recorded, whatever the   *)
(* runs before it did: no metric is dropped between the walk, the channel   *)
(* and the threads.                                                         *)
THEOREM DoneIsCompleteAlways == Spec => []DoneIsComplete
<1>1. Init => DoneInv
  BY Pass1Assumption DEF Init, DoneInv, TypeOK, Running, BeforeFeeding, Accounted, AfterFeeding,
         DoneIsComplete
<1>2. DoneInv /\ [Next]_vars => DoneInv'
  BY AccountStep, TypeStep DEF DoneInv
<1>3. DoneInv => DoneIsComplete
  BY DEF DoneInv
<1> QED BY <1>1, <1>2, <1>3, PTL DEF Spec
------------------------------------------------------------------------------
(* A metric has one holder: it is held only when it was taken from what is   *)
(* to be sent, by one thread.                                               *)
OneHolder ==
    /\ \A t \in Threads : tpc[t] \in {"have", "write"} => tmetric[t] \in Metrics \ toFeed
    /\ \A t, u \in Threads :
         /\ tpc[t] \in {"have", "write"} /\ tpc[u] \in {"have", "write"}
         /\ tmetric[t] = tmetric[u]
         => t = u

(* A metric recorded since the run began is neither to be sent nor held.     *)
RecordedGone ==
    pc \in Feeding => \A m \in Recorded \ skippable :
        m \notin toFeed /\ \A t \in Threads : ~Holding(t, m)

(* What was recorded before the run is not written. *)
WritingNew == \A t \in Threads : tpc[t] = "write" => tmetric[t] \notin skippable

HeldInv == TypeOK /\ OffBetweenRuns /\ OneHolder /\ RecordedGone /\ WritingNew

(* The metric a thread is writing is not in the progress file.               *)
LEMMA WrittenUnrecorded ==
    ASSUME HeldInv, NEW t \in Threads, tpc[t] = "write"
    PROVE  tmetric[t] \in Metrics /\ tmetric[t] \notin Recorded
<1>1. pc \in Feeding
  BY DEF HeldInv, OffBetweenRuns
<1>2. tmetric[t] \in Metrics /\ tmetric[t] \notin skippable
  BY DEF HeldInv, OneHolder, WritingNew
<1>3. tmetric[t] \in Recorded => tmetric[t] \in Recorded \ skippable
  BY <1>2
<1>4. Holding(t, tmetric[t])
  BY DEF Holding
<1> QED BY <1>1, <1>2, <1>3, <1>4 DEF HeldInv, RecordedGone

LEMMA HeldStep ==
    ASSUME HeldInv, [Next]_vars
    PROVE  OneHolder' /\ RecordedGone' /\ WritingNew'
<1> DEFINE Goal == OneHolder' /\ RecordedGone' /\ WritingNew'
<1>0. TypeOK /\ TypeOK' /\ OffBetweenRuns /\ OffBetweenRuns'
      /\ OneHolder /\ RecordedGone /\ WritingNew
  BY TypeStep, OffStep DEF HeldInv
<1> USE DEF OneHolder, RecordedGone, WritingNew, Holding
<1>1. ASSUME \A t \in Threads : tpc'[t] \notin {"have", "write"},
             Recorded' \subseteq skippable' \/ pc' \notin Feeding
      PROVE  Goal
  BY <1>1
<1>2. CASE MainStep
  <2>1. CASE OpenProgress
    BY <1>0, <1>1, <2>1 DEF OpenProgress, files, Recorded, TypeOK
  <2>2. CASE CloseChan
    BY <1>0, <2>2 DEF CloseChan, files, thread, Recorded, Feeding
  <2>3. CASE Finish
    BY <1>0, <1>1, <2>3 DEF Finish, NoThreads, Feeding
  <2>4. ASSUME NEW d \in Dates, OpenDate(d) PROVE Goal
    BY <1>0, <1>1, <2>4 DEF OpenDate, thread, Feeding, OffBetweenRuns
  <2>5. ASSUME NEW t \in Threads, NEW m \in Metrics, Feed(t, m) PROVE Goal
    <3>1. /\ tpc' = [tpc EXCEPT ![t] = "have"] /\ tmetric' = [tmetric EXCEPT ![t] = m]
          /\ toFeed' = toFeed \ {m} /\ m \in toFeed
          /\ skippable' = skippable /\ pc' = pc /\ pc \in Feeding
      BY <2>5 DEF Feed, Feeding
    <3>2. Recorded' = Recorded
      BY <2>5 DEF Feed, files, Recorded
    <3>3. /\ tpc'[t] = "have" /\ tmetric'[t] = m
          /\ \A u \in Threads : u # t => tpc'[u] = tpc[u] /\ tmetric'[u] = tmetric[u]
      BY <1>0, <3>1 DEF TypeOK
    <3>4. OneHolder'
      BY <1>0, <3>1, <3>3
    <3>5. RecordedGone'
      BY <1>0, <3>1, <3>2, <3>3
    <3>6. WritingNew'
      BY <1>0, <3>1, <3>3
    <3> QED BY <3>4, <3>5, <3>6
  <2> QED BY <1>2, <2>1, <2>2, <2>3, <2>4, <2>5 DEF MainStep
<1>3. CASE OpenProgressFails
  BY <1>0, <1>1, <1>3 DEF OpenProgressFails, thread, Feeding, OffBetweenRuns
<1>4. CASE Crash
  BY <1>0, <1>1, <1>4 DEF Crash, NoThreads, Feeding
<1>5. ASSUME NEW r \in ResumeChoices, NEW R \in Ranges, Start(r, R) PROVE Goal
  BY <1>0, <1>1, <1>5 DEF Start, thread, Running, Feeding, OffBetweenRuns
<1>6. ASSUME NEW t \in Threads, ThreadStep(t) PROVE Goal
  <2>0. /\ UNCHANGED <<toFeed, skippable, pc>> /\ pc \in Feeding
    BY <1>0, <1>6 DEF ThreadStep, Skip, Reject, Convert, Record, EndThread, AppendDate,
                      main, OffBetweenRuns
  (* A thread that goes on with its metric, or lets it go. *)
  <2>1. ASSUME Recorded' \subseteq Recorded \cup {tmetric[t]},
               Recorded' # Recorded => tpc[t] = "write" /\ tpc'[t] = "recv",
               \A u \in Threads : u # t => tpc'[u] = tpc[u] /\ tmetric'[u] = tmetric[u],
               \/ tpc'[t] \notin {"have", "write"}
               \/ /\ tpc[t] \in {"have", "write"} /\ tmetric'[t] = tmetric[t]
                  /\ tpc'[t] = "write" => tmetric[t] \notin skippable
        PROVE  Goal
    <3>1. OneHolder'
      BY <1>0, <2>0, <2>1
    <3>2. WritingNew'
      BY <1>0, <2>0, <2>1
    <3>3. ASSUME NEW m \in Recorded' \ skippable'
          PROVE  m \notin toFeed' /\ \A u \in Threads : ~Holding(u, m)'
      <4>1. CASE m \in Recorded
        BY <1>0, <2>0, <2>1, <3>3, <4>1
      <4>2. CASE m \notin Recorded
        <5>1. m = tmetric[t] /\ tpc[t] = "write" /\ tpc'[t] = "recv"
          BY <2>1, <3>3, <4>2
        <5> QED BY <1>0, <2>0, <2>1, <5>1
      <4> QED BY <4>1, <4>2
    <3> QED BY <3>1, <3>2, <3>3
  <2>2. CASE Skip(t)
    BY <1>0, <2>1, <2>2 DEF Skip, files, Recorded, TypeOK
  <2>3. CASE Reject(t)
    BY <1>0, <2>1, <2>3 DEF Reject, files, Recorded, TypeOK
  <2>4. CASE Convert(t)
    BY <1>0, <2>1, <2>4 DEF Convert, files, Recorded, TypeOK
  <2>5. CASE Record(t)
    <3>1. Recorded' \subseteq Recorded \cup {tmetric[t]}
      BY <1>0, <2>5, RecordEffect DEF Recorded
    <3> QED BY <1>0, <2>1, <2>5, <3>1 DEF Record, TypeOK
  <2>6. CASE EndThread(t)
    BY <1>0, <2>1, <2>6 DEF EndThread, files, Recorded, TypeOK
  <2>7. ASSUME NEW d \in Dates, AppendDate(t, d) PROVE Goal
    BY <1>0, <2>1, <2>7 DEF AppendDate, Recorded
  <2> QED BY <1>6, <2>2, <2>3, <2>4, <2>5, <2>6, <2>7 DEF ThreadStep
<1>7. CASE UNCHANGED vars
  BY <1>0, <1>7 DEF vars, files, main, thread, Recorded
<1> QED BY <1>2, <1>3, <1>4, <1>5, <1>6, <1>7 DEF Next

(* The holders are as described in every run of the program. *)
LEMMA HeldAlways == Spec => []HeldInv
<1>1. Init => HeldInv
  BY Pass1Assumption DEF Init, HeldInv, TypeOK, Running, OffBetweenRuns, OneHolder,
         RecordedGone, WritingNew, Feeding
<1>2. HeldInv /\ [Next]_vars => HeldInv'
  BY HeldStep, TypeStep, OffStep DEF HeldInv
<1> QED BY <1>1, <1>2, PTL DEF Spec

(* A recorded metric's data are final when every run resumes: no thread has  *)
(* such a metric in its hands, so no step touches its records.               *)
THEOREM RecordedIsFinalAlways == ASSUME Resuming PROVE Spec => RecordedIsFinal
<1> DEFINE Kept == \A m \in Recorded :
                      /\ progRecs'[m] = progRecs[m]
                      /\ \A d \in Dates : dateRecs'[d][m] = dateRecs[d][m]
<1>1. HeldInv /\ [Next]_vars => [Kept]_vars
  <2>0. SUFFICES ASSUME HeldInv, Next PROVE Kept
    OBVIOUS
  <2>1. TypeOK
    BY <2>0 DEF HeldInv
  <2>2. CASE UNCHANGED <<dateRecs, progRecs>>
    BY <2>2
  <2>3. ASSUME NEW d \in Dates, OpenDate(d) PROVE Kept
    <3>1. resume
      BY <2>1 DEF TypeOK, Resuming
    <3> QED BY <2>3, <3>1 DEF OpenDate
  <2>4. ASSUME NEW t \in Threads, NEW d \in Dates, AppendDate(t, d) PROVE Kept
    <3>1. tmetric[t] \notin Recorded
      BY <2>0, <2>4, WrittenUnrecorded DEF AppendDate
    <3>2. \A m \in Recorded : m \in Metrics
      BY DEF Recorded
    <3> QED BY <2>1, <2>4, <3>1, <3>2, AppendEffect DEF AppendDate
  <2>5. ASSUME NEW t \in Threads, Record(t) PROVE Kept
    <3>1. tmetric[t] \notin Recorded
      BY <2>0, <2>5, WrittenUnrecorded DEF Record
    <3>2. \A m \in Recorded : m \in Metrics
      BY DEF Recorded
    <3> QED BY <2>1, <2>5, <3>1, <3>2, RecordEffect DEF Record
  <2>6. \/ UNCHANGED <<dateRecs, progRecs>>
        \/ \E d \in Dates : OpenDate(d)
        \/ \E t \in Threads : Record(t) \/ \E d \in Dates : AppendDate(t, d)
    BY <2>0 DEF Next, MainStep, ThreadStep, OpenProgress, CloseChan, Finish, Feed,
                OpenProgressFails, Crash, Start, Skip, Reject, Convert, EndThread, files
  <2> QED BY <2>2, <2>3, <2>4, <2>5, <2>6
<1> QED BY <1>1, HeldAlways, PTL DEF RecordedIsFinal, Spec
------------------------------------------------------------------------------
(* The threads that have a file in their hands, and the account of a run:    *)
(* each file is still to be sent, in a thread's hands, or counted.           *)
Busy == {t \in Threads : tpc[t] \in {"have", "write"}}
Total == processed + skipped + Cardinality(toFeed) + Cardinality(Busy)
CountedOnce ==
    /\ pc \in Running => Total = Cardinality(Metrics)
    /\ pc = "done" => processed + skipped = Cardinality(Metrics)

(* A date file has a copy of an unrecorded metric for each failed run at     *)
(* most, and one more once the thread that is writing it has been there.     *)
Copied(t, d, m) == tpc[t] = "write" /\ tmetric[t] = m /\ d \notin todo[t]
CopiesBounded ==
    \A m \in Metrics :
        /\ progRecs[m] <= 1
        /\ \A d \in Dates :
             /\ dateRecs[d][m] <= failures + 1
             /\ m \notin Recorded /\ (\A t \in Threads : ~Copied(t, d, m)) =>
                  dateRecs[d][m] <= failures

ReworkInv == HeldInv /\ DoneInv /\ CountedOnce /\ CopiesBounded

LEMMA Sizes ==
    ASSUME TypeOK
    PROVE  /\ IsFiniteSet(toFeed) /\ IsFiniteSet(Busy)
           /\ Cardinality(toFeed) \in Nat /\ Cardinality(Busy) \in Nat
<1>1. IsFiniteSet(toFeed)
  BY FS_Subset, Pass1Assumption DEF TypeOK
<1>2. IsFiniteSet(Busy)
  <2>1. Busy \in SUBSET Threads
    BY DEF Busy
  <2> QED BY <2>1, FS_Subset, Pass1Assumption
<1> QED BY <1>1, <1>2, FS_CardinalityType

(* A thread that lets its file go. *)
LEMMA LetGo ==
    ASSUME TypeOK, NEW t \in Threads, t \in Busy, tpc' = [tpc EXCEPT ![t] = "recv"]
    PROVE  Cardinality(Busy') = Cardinality(Busy) - 1
<1>1. Busy' = Busy \ {t}
  BY DEF Busy, TypeOK
<1> QED BY <1>1, Sizes, FS_RemoveElement

LEMMA CountStep ==
    ASSUME ReworkInv, [Next]_vars
    PROVE  CountedOnce'
<1>0. /\ TypeOK /\ OffBetweenRuns /\ CountedOnce /\ AfterFeeding /\ BeforeFeeding
      /\ Cardinality(toFeed) \in Nat /\ Cardinality(Busy) \in Nat
      /\ processed \in Nat /\ skipped \in Nat
  BY Sizes DEF ReworkInv, HeldInv, DoneInv, TypeOK
<1> USE DEF CountedOnce, Total
<1>1. ASSUME Busy' = Busy, UNCHANGED <<toFeed, counts>>,
             pc' \in Running => pc \in Running, pc' = "done" => pc = "done"
      PROVE  CountedOnce'
  BY <1>0, <1>1 DEF counts
<1>2. CASE MainStep
  <2>1. CASE OpenProgress
    <3>1. Busy' = Busy
      BY <1>0, <2>1 DEF OpenProgress, Busy, OffBetweenRuns, Feeding, TypeOK
    <3> QED BY <1>1, <2>1, <3>1 DEF OpenProgress, Running
  <2>2. CASE CloseChan
    BY <1>1, <2>2 DEF CloseChan, Busy, thread, Running
  <2>3. CASE Finish
    <3>1. Busy = {} /\ toFeed = {}
      BY <1>0, <2>3 DEF Finish, Busy, AfterFeeding
    <3>2. processed + skipped = Cardinality(Metrics)
      BY <1>0, <2>3, <3>1, FS_EmptySet DEF Finish, Running
    <3> QED BY <2>3, <3>2 DEF Finish, counts, Running
  <2>4. ASSUME NEW d \in Dates, OpenDate(d) PROVE CountedOnce'
    BY <1>1, <2>4 DEF OpenDate, Busy, thread
  <2>5. ASSUME NEW t \in Threads, NEW m \in Metrics, Feed(t, m) PROVE CountedOnce'
    <3>1. Busy' = Busy \cup {t} /\ t \notin Busy
      BY <1>0, <2>5 DEF Feed, Busy, TypeOK
    <3>2. Cardinality(Busy') = Cardinality(Busy) + 1
      BY <1>0, <3>1, Sizes, FS_AddElement
    <3>3. Cardinality(toFeed') = Cardinality(toFeed) - 1
      BY <1>0, <2>5, Sizes, FS_RemoveElement DEF Feed
    <3> QED BY <1>0, <2>5, <3>2, <3>3 DEF Feed, counts, Running
  <2> QED BY <1>2, <2>1, <2>2, <2>3, <2>4, <2>5 DEF MainStep
<1>3. CASE OpenProgressFails
  BY <1>3 DEF OpenProgressFails, Running
<1>4. CASE Crash
  BY <1>4 DEF Crash, Running
<1>5. ASSUME NEW r \in ResumeChoices, NEW R \in Ranges, Start(r, R) PROVE CountedOnce'
  <2>1. Busy' = {}
    BY <1>0, <1>5 DEF Start, thread, Busy, OffBetweenRuns, Feeding, Running
  <2>2. Cardinality(Metrics) \in Nat
    BY Pass1Assumption, FS_CardinalityType
  <2> QED BY <1>5, <2>1, <2>2, FS_EmptySet DEF Start
<1>6. ASSUME NEW t \in Threads, ThreadStep(t) PROVE CountedOnce'
  <2>1. pc' = pc /\ toFeed' = toFeed /\ pc \in Running /\ pc # "done"
    BY <1>0, <1>6 DEF ThreadStep, Skip, Reject, Convert, Record, EndThread, AppendDate,
                      main, OffBetweenRuns, Feeding, Running
  <2>2. ASSUME t \in Busy, tpc' = [tpc EXCEPT ![t] = "recv"],
               \/ processed' = processed + 1 /\ skipped' = skipped
               \/ processed' = processed /\ skipped' = skipped + 1
        PROVE  CountedOnce'
    <3>1. Cardinality(Busy') = Cardinality(Busy) - 1
      BY <1>0, <2>2, LetGo
    <3>2. Cardinality(toFeed') = Cardinality(toFeed)
      BY <2>1
    <3>3. Total' = Total
      BY <1>0, <2>2, <3>1, <3>2
    <3> QED BY <1>0, <2>1, <3>3
  <2>3. CASE Skip(t)
    BY <1>0, <2>2, <2>3 DEF Skip, Busy
  <2>4. CASE Reject(t)
    BY <1>0, <2>2, <2>4 DEF Reject, Busy
  <2>5. CASE Convert(t)
    <3>1. Busy' = Busy
      BY <1>0, <2>5 DEF Convert, Busy, TypeOK
    <3> QED BY <1>1, <2>1, <2>5, <3>1 DEF Convert
  <2>6. CASE Record(t)
    BY <1>0, <2>2, <2>6 DEF Record, Busy
  <2>7. CASE EndThread(t)
    <3>1. Busy' = Busy
      BY <1>0, <2>7 DEF EndThread, Busy, TypeOK
    <3> QED BY <1>1, <2>1, <2>7, <3>1 DEF EndThread
  <2>8. ASSUME NEW d \in Dates, AppendDate(t, d) PROVE CountedOnce'
    BY <1>1, <2>1, <2>8 DEF AppendDate, Busy
  <2> QED BY <1>6, <2>3, <2>4, <2>5, <2>6, <2>7, <2>8 DEF ThreadStep
<1>7. CASE UNCHANGED vars
  BY <1>1, <1>7 DEF vars, main, thread, Busy
<1> QED BY <1>2, <1>3, <1>4, <1>5, <1>6, <1>7 DEF Next

LEMMA CopiesStep ==
    ASSUME ReworkInv, [Next]_vars
    PROVE  CopiesBounded'
<1>0. /\ TypeOK /\ TypeOK' /\ HeldInv /\ OffBetweenRuns /\ OneHolder /\ CopiesBounded
      /\ failures \in Nat /\ dateRecs \in [Dates -> [Metrics -> Nat]]
  BY TypeStep DEF ReworkInv, HeldInv, TypeOK
<1> USE DEF CopiesBounded, Copied
(* The files and those that write them stay as they are. *)
<1>1. ASSUME UNCHANGED <<dateRecs, progRecs>>, failures' \in Nat, failures' >= failures,
             \/ failures' > failures
             \/ \A t \in Threads : tpc[t] = "write" =>
                  /\ tpc'[t] = "write" /\ tmetric'[t] = tmetric[t] /\ todo'[t] = todo[t]
      PROVE  CopiesBounded'
  <2>1. \A m \in Metrics, d \in Dates : dateRecs[d][m] \in Nat
    BY <1>0
  <2>2. Recorded' = Recorded
    BY <1>1 DEF Recorded
  <2>3. CASE failures' > failures
    BY <1>0, <1>1, <2>1, <2>3
  <2>4. CASE \A t \in Threads : tpc[t] = "write" =>
               /\ tpc'[t] = "write" /\ tmetric'[t] = tmetric[t] /\ todo'[t] = todo[t]
    BY <1>0, <1>1, <2>1, <2>2, <2>4
  <2> QED BY <1>1, <2>3, <2>4
<1>2. CASE MainStep
  <2>1. CASE OpenProgress
    BY <1>0, <1>1, <2>1 DEF OpenProgress, files, bounds, OffBetweenRuns, Feeding
  <2>2. CASE CloseChan
    BY <1>0, <1>1, <2>2 DEF CloseChan, files, bounds, thread
  <2>3. CASE Finish
    BY <1>0, <1>1, <2>3 DEF Finish, files, bounds
  <2>4. ASSUME NEW d \in Dates, OpenDate(d) PROVE CopiesBounded'
    <3>1. \A e \in Dates, m \in Metrics :
             dateRecs'[e][m] = dateRecs[e][m] \/ dateRecs'[e][m] = 0
      BY <1>0, <2>4 DEF OpenDate
    <3>2. UNCHANGED <<progRecs, failures, tpc, tmetric, todo>> /\ Recorded' = Recorded
      BY <2>4 DEF OpenDate, thread, bounds, Recorded
    <3> QED BY <1>0, <3>1, <3>2
  <2>5. ASSUME NEW t \in Threads, NEW m \in Metrics, Feed(t, m) PROVE CopiesBounded'
    BY <1>0, <1>1, <2>5 DEF Feed, files, bounds, TypeOK
  <2> QED BY <1>2, <2>1, <2>2, <2>3, <2>4, <2>5 DEF MainStep
<1>3. CASE OpenProgressFails
  BY <1>0, <1>1, <1>3 DEF OpenProgressFails, files
<1>4. CASE Crash
  BY <1>0, <1>1, <1>4 DEF Crash, files
<1>5. ASSUME NEW r \in ResumeChoices, NEW R \in Ranges, Start(r, R) PROVE CopiesBounded'
  BY <1>0, <1>1, <1>5 DEF Start, files, thread
<1>6. ASSUME NEW t \in Threads, ThreadStep(t) PROVE CopiesBounded'
  <2>0. UNCHANGED failures
    BY <1>6 DEF ThreadStep, Skip, Reject, Convert, Record, EndThread, AppendDate, bounds
  <2>1. CASE Skip(t)
    BY <1>0, <1>1, <2>0, <2>1 DEF Skip, files, TypeOK
  <2>2. CASE Reject(t)
    BY <1>0, <1>1, <2>0, <2>2 DEF Reject, files, TypeOK
  <2>3. CASE Convert(t)
    <3>1. \A u \in Threads : tpc[u] = "write" =>
             tpc'[u] = "write" /\ tmetric'[u] = tmetric[u] /\ todo'[u] = todo[u]
      BY <1>0, <2>3 DEF Convert, TypeOK
    <3> QED BY <1>0, <1>1, <2>0, <2>3, <3>1 DEF Convert, files
  <2>4. CASE Record(t)
    <3>1. tmetric[t] \in Metrics /\ tmetric[t] \notin Recorded
      BY <1>0, <2>4, WrittenUnrecorded DEF Record
    <3>2. progRecs[tmetric[t]] = 0
      BY <1>0, <3>1 DEF Recorded, TypeOK
    <3>3. \A m \in Metrics : progRecs'[m] <= 1
      BY <1>0, <2>4, <3>1, <3>2, RecordEffect
    <3>4. \A m \in Metrics : m \notin Recorded' => m \notin Recorded /\ m # tmetric[t]
      <4>1. \A m \in Metrics : progRecs[m] \in Nat /\ progRecs'[m] \in Nat
        BY <1>0 DEF TypeOK
      <4> QED BY <1>0, <2>4, <3>2, <4>1, RecordEffect DEF Recorded
    <3>5. /\ dateRecs' = dateRecs
          /\ \A u \in Threads : u # t =>
               tpc'[u] = tpc[u] /\ tmetric'[u] = tmetric[u] /\ todo'[u] = todo[u]
      BY <1>0, <2>4 DEF Record, TypeOK
    <3>6. \A m \in Metrics, d \in Dates : m # tmetric[t] /\
             (\A u \in Threads : ~Copied(u, d, m)') => \A u \in Threads : ~Copied(u, d, m)
      BY <3>5
    <3> QED BY <1>0, <2>0, <3>3, <3>4, <3>5, <3>6
  <2>5. CASE EndThread(t)
    BY <1>0, <1>1, <2>0, <2>5 DEF EndThread, files, TypeOK
  <2>6. ASSUME NEW d \in Dates, AppendDate(t, d) PROVE CopiesBounded'
    <3>1. tmetric[t] \in Metrics /\ tmetric[t] \notin Recorded
      BY <1>0, <2>6, WrittenUnrecorded DEF AppendDate
    <3>2. /\ tpc[t] = "write" /\ d \in todo[t]
          /\ UNCHANGED <<tpc, tmetric, progRecs>> /\ Recorded' = Recorded
      BY <2>6 DEF AppendDate, Recorded
    <3>3. \A u \in Threads : todo'[u] = IF u = t THEN todo[u] \ {d} ELSE todo[u]
      BY <1>0, <2>6 DEF AppendDate, TypeOK
    <3>4. \A u \in Threads : ~Copied(u, d, tmetric[t])
      BY <1>0, <3>2 DEF OneHolder
    <3>5. dateRecs[d][tmetric[t]] <= failures
      BY <1>0, <3>1, <3>4
    <3>6. \A e \in Dates, m \in Metrics : e # d \/ m # tmetric[t] =>
             /\ dateRecs'[e][m] = dateRecs[e][m]
             /\ \A u \in Threads : Copied(u, e, m)' <=> Copied(u, e, m)
      <4>1. ASSUME NEW e \in Dates, NEW m \in Metrics, e # d \/ m # tmetric[t]
            PROVE  dateRecs'[e][m] = dateRecs[e][m]
        BY <1>0, <2>6, <4>1, AppendEffect
      <4>2. ASSUME NEW e \in Dates, NEW m \in Metrics, e # d \/ m # tmetric[t],
                   NEW u \in Threads
            PROVE  Copied(u, e, m)' <=> Copied(u, e, m)
        <5>1. CASE u = t
          BY <3>2, <3>3, <4>2, <5>1
        <5>2. CASE u # t
          BY <3>2, <3>3, <5>2
        <5> QED BY <5>1, <5>2
      <4> QED BY <4>1, <4>2
    <3>7. dateRecs'[d][tmetric[t]] <= failures + 1 /\ Copied(t, d, tmetric[t])'
      <4>1. dateRecs[d][tmetric[t]] \in Nat
        BY <1>0, <3>1
      <4>2. dateRecs'[d][tmetric[t]] = dateRecs[d][tmetric[t]] + 1
        BY <1>0, <2>6, <3>1, AppendEffect
      <4>3. Copied(t, d, tmetric[t])'
        BY <3>2, <3>3
      <4>4. dateRecs'[d][tmetric[t]] <= failures + 1
        BY <1>0, <3>5, <4>1, <4>2
      <4> QED BY <4>3, <4>4
    <3> QED BY <1>0, <2>0, <3>1, <3>2, <3>6, <3>7
  <2> QED BY <1>6, <2>1, <2>2, <2>3, <2>4, <2>5, <2>6 DEF ThreadStep
<1>7. CASE UNCHANGED vars
  BY <1>0, <1>1, <1>7 DEF vars, files, thread, bounds
<1> QED BY <1>2, <1>3, <1>4, <1>5, <1>6, <1>7 DEF Next

(* However often runs die, and whether or not they resume, a run takes every *)
(* file once, no metric is recorded twice, and a date file has at most one   *)
(* copy of a metric more than there were failures.                           *)
THEOREM BoundedReworkAlways == Spec => []BoundedRework
<1>1. Init => ReworkInv
  <2>1. Init => HeldInv
    BY Pass1Assumption DEF Init, HeldInv, TypeOK, Running, OffBetweenRuns, OneHolder,
           RecordedGone, WritingNew, Feeding
  <2>2. Init => DoneInv
    BY Pass1Assumption DEF Init, DoneInv, TypeOK, Running, BeforeFeeding, Accounted,
           AfterFeeding, DoneIsComplete
  <2>3. Init => CountedOnce
    BY DEF Init, CountedOnce, Running
  <2>4. Init => CopiesBounded
    BY DEF Init, CopiesBounded
  <2> QED BY <2>1, <2>2, <2>3, <2>4 DEF ReworkInv
<1>2. ReworkInv /\ [Next]_vars => ReworkInv'
  BY CountStep, CopiesStep, HeldStep, AccountStep, TypeStep, OffStep
     DEF ReworkInv, HeldInv, DoneInv
<1>3. ReworkInv => BoundedRework
  BY DEF ReworkInv, CountedOnce, CopiesBounded, BoundedRework
<1> QED BY <1>1, <1>2, <1>3, PTL DEF Spec
------------------------------------------------------------------------------
(* The date files a run holds open are those of its selection once its       *)
(* threads work, and what the threads have still to write is among them.     *)
OpenInv ==
    /\ pc \notin Running => opened = {}
    /\ pc = "opening" => opened \subseteq range
    /\ pc \in Feeding => opened = range
    /\ \A t \in Threads : tpc[t] = "write" => todo[t] \subseteq opened

LEMMA OpenStep ==
    ASSUME HeldInv, OpenInv, [Next]_vars
    PROVE  OpenInv'
<1>0. TypeOK /\ OffBetweenRuns /\ OpenInv
  BY DEF HeldInv
<1> USE DEF OpenInv, Running, Feeding
<1>1. ASSUME UNCHANGED <<pc, opened, range>>,
             \A t \in Threads : tpc'[t] = "write" =>
                todo'[t] \subseteq opened \/ (tpc[t] = "write" /\ todo'[t] \subseteq todo[t])
      PROVE  OpenInv'
  BY <1>0, <1>1
<1>2. CASE MainStep
  <2>1. CASE OpenProgress
    BY <1>0, <2>1 DEF OpenProgress, TypeOK
  <2>2. CASE CloseChan
    BY <1>0, <2>2 DEF CloseChan, thread
  <2>3. CASE Finish
    BY <1>0, <2>3 DEF Finish, NoThreads
  <2>4. ASSUME NEW d \in Dates, OpenDate(d) PROVE OpenInv'
    BY <1>0, <2>4 DEF OpenDate, thread, OffBetweenRuns
  <2>5. ASSUME NEW t \in Threads, NEW m \in Metrics, Feed(t, m) PROVE OpenInv'
    BY <1>0, <1>1, <2>5 DEF Feed, TypeOK
  <2> QED BY <1>2, <2>1, <2>2, <2>3, <2>4, <2>5 DEF MainStep
<1>3. CASE OpenProgressFails
  BY <1>0, <1>3 DEF OpenProgressFails, thread, OffBetweenRuns
<1>4. CASE Crash
  BY <1>0, <1>4 DEF Crash, NoThreads
<1>5. ASSUME NEW r \in ResumeChoices, NEW R \in Ranges, Start(r, R) PROVE OpenInv'
  BY <1>0, <1>5 DEF Start, thread, OffBetweenRuns
<1>6. ASSUME NEW t \in Threads, ThreadStep(t) PROVE OpenInv'
  <2>1. CASE Skip(t)
    BY <1>0, <1>1, <2>1 DEF Skip, main, TypeOK
  <2>2. CASE Reject(t)
    BY <1>0, <1>1, <2>2 DEF Reject, main, TypeOK
  <2>3. CASE Convert(t)
    <3>1. opened = range
      BY <1>0, <2>3 DEF Convert, OffBetweenRuns
    <3> QED BY <1>0, <1>1, <2>3, <3>1 DEF Convert, main, TypeOK, Wanted
  <2>4. CASE Record(t)
    BY <1>0, <1>1, <2>4 DEF Record, main, TypeOK
  <2>5. CASE EndThread(t)
    BY <1>0, <1>1, <2>5 DEF EndThread, main, TypeOK
  <2>6. ASSUME NEW d \in Dates, AppendDate(t, d) PROVE OpenInv'
    BY <1>0, <1>1, <2>6 DEF AppendDate, main, TypeOK
  <2> QED BY <1>6, <2>1, <2>2, <2>3, <2>4, <2>5, <2>6 DEF ThreadStep
<1>7. CASE UNCHANGED vars
  BY <1>0, <1>7 DEF vars, main, thread
<1> QED BY <1>2, <1>3, <1>4, <1>5, <1>6, <1>7 DEF Next

(* A step of the program is a step of the progress file's log, or none. *)
LEMMA ProgressLogStep ==
    ASSUME HeldInv, [Next]_vars
    PROVE  [ProgressLog!Next]_<<progRecs, pc \in {"feeding", "waiting"}>>
<1>0. TypeOK /\ OffBetweenRuns
  BY DEF HeldInv
<1>1. ASSUME UNCHANGED progRecs, (pc' \in Feeding) = (pc \in Feeding)
      PROVE  UNCHANGED <<progRecs, pc \in {"feeding", "waiting"}>>
  BY <1>1 DEF Feeding
<1>2. ASSUME UNCHANGED progRecs, pc \notin Feeding, pc' \in Feeding
      PROVE  ProgressLog!Next
  BY <1>2 DEF Feeding, ProgressLog!Next, ProgressLog!Open
<1>3. ASSUME UNCHANGED progRecs, pc \in Feeding, pc' \notin Feeding
      PROVE  ProgressLog!Next
  BY <1>3 DEF Feeding, ProgressLog!Next, ProgressLog!Leave
<1>4. CASE UNCHANGED progRecs
  BY <1>1, <1>2, <1>3, <1>4
<1>5. ASSUME NEW t \in Threads, Record(t) PROVE ProgressLog!Next
  <2>1. tmetric[t] \in Metrics /\ pc \in Feeding
    BY <1>0, <1>5, WrittenUnrecorded DEF Record, OffBetweenRuns
  <2>2. ProgressLog!Append(tmetric[t])
    BY <1>5, <2>1 DEF Record, main, Feeding, ProgressLog!Append
  <2> QED BY <2>1, <2>2 DEF ProgressLog!Next
<1>6. UNCHANGED progRecs \/ \E t \in Threads : Record(t)
  BY DEF Next, MainStep, ThreadStep, OpenProgress, CloseChan, Finish, Feed, OpenDate,
         OpenProgressFails, Crash, Start, Skip, Reject, Convert, EndThread, AppendDate,
         files, vars
<1> QED BY <1>4, <1>5, <1>6

(* A step of the program is a step of each date file's log, or none. *)
LEMMA DateLogStep ==
    ASSUME HeldInv, OpenInv, [Next]_vars, NEW d \in Dates
    PROVE  [DateLog(d)!Next]_<<dateRecs[d], d \in opened>>
<1>0. TypeOK /\ OffBetweenRuns /\ dateRecs \in [Dates -> [Metrics -> Nat]]
  BY DEF HeldInv, TypeOK
<1>1. ASSUME UNCHANGED dateRecs, UNCHANGED opened \/ opened' = {}
      PROVE  [DateLog(d)!Next]_<<dateRecs[d], d \in opened>>
  <2>1. CASE (d \in opened') = (d \in opened)
    BY <1>1, <2>1
  <2>2. CASE d \in opened /\ d \notin opened'
    BY <1>1, <2>2 DEF DateLog!Next, DateLog!Leave
  <2> QED BY <1>1, <2>1, <2>2
<1>2. ASSUME NEW e \in Dates, OpenDate(e)
      PROVE  [DateLog(d)!Next]_<<dateRecs[d], d \in opened>>
  <2>1. CASE e # d
    <3>1. dateRecs'[d] = dateRecs[d] /\ (d \in opened') = (d \in opened)
      BY <1>0, <1>2, <2>1 DEF OpenDate
    <3> QED BY <3>1
  <2>2. CASE e = d
    <3>1. d \notin opened /\ d \in opened'
      BY <1>2, <2>2 DEF OpenDate
    <3>2. \/ dateRecs'[d] = dateRecs[d]
          \/ FALSE \in ResumeChoices /\ dateRecs'[d] = [m \in Metrics |-> 0]
      BY <1>0, <1>2, <2>2, Pass1Assumption DEF OpenDate, TypeOK
    <3> QED BY <3>1, <3>2 DEF DateLog!Next, DateLog!Open, DateLog!NoRecords
  <2> QED BY <2>1, <2>2
<1>3. ASSUME NEW t \in Threads, NEW e \in Dates, AppendDate(t, e)
      PROVE  [DateLog(d)!Next]_<<dateRecs[d], d \in opened>>
  <2>1. tmetric[t] \in Metrics /\ e \in opened /\ opened' = opened
    BY <1>3, WrittenUnrecorded DEF AppendDate, OpenInv, main
  <2>2. CASE e # d
    <3>1. dateRecs'[d] = dateRecs[d]
      BY <1>0, <1>3, <2>2 DEF AppendDate
    <3> QED BY <2>1, <3>1
  <2>3. CASE e = d
    <3>1. dateRecs'[d] = [dateRecs[d] EXCEPT ![tmetric[t]] = @ + 1]
      BY <1>0, <1>3, <2>3 DEF AppendDate
    <3>2. DateLog(d)!Append(tmetric[t])
      BY <2>1, <2>3, <3>1 DEF DateLog!Append
    <3> QED BY <2>1, <3>2 DEF DateLog!Next
  <2> QED BY <2>2, <2>3
<1>4. \/ UNCHANGED dateRecs /\ (UNCHANGED opened \/ opened' = {})
      \/ \E e \in Dates : OpenDate(e) \/ \E t \in Threads : AppendDate(t, e)
  BY DEF Next, MainStep, ThreadStep, OpenProgress, CloseChan, Finish, Feed, main,
         OpenProgressFails, Crash, Start, Skip, Reject, Convert, EndThread, Record,
         files, vars
<1> QED BY <1>1, <1>2, <1>3, <1>4

(* Pass 1 implements AppendLog.tla on each of its files: the progress file,  *)
(* which it never empties, and the file of every date.                       *)
THEOREM FilesAreLogsAlways == Spec => FilesAreLogs
<1> DEFINE Steps == /\ [ProgressLog!Next]_<<progRecs, pc \in {"feeding", "waiting"}>>
                    /\ \A d \in Dates :
                         [DateLog(d)!Next]_<<dateRecs[d], d \in opened>>
<1>1. Init => ProgressLog!Init /\ \A d \in Dates : DateLog(d)!Init
  BY DEF Init, ProgressLog!Init, ProgressLog!NoRecords, DateLog!Init, DateLog!NoRecords
<1>2. Init => OpenInv
  BY DEF Init, OpenInv, Running, Feeding
<1>3. HeldInv /\ OpenInv /\ [Next]_vars => OpenInv'
  BY OpenStep
<1>4. HeldInv /\ OpenInv /\ [Next]_vars => Steps
  BY ProgressLogStep, DateLogStep
<1>5. HeldInv /\ OpenInv /\ [Next]_vars => [Steps]_vars
  BY <1>4
<1> QED BY <1>1, <1>2, <1>3, <1>5, HeldAlways, PTL DEF FilesAreLogs, Spec
==============================================================================
