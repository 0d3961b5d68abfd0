--------------------------- MODULE Lifecycle_proofs ---------------------------
(****************************************************************************)
(* Proofs about Lifecycle.tla, for any sets of requests and any number of   *)
(* failures.                                                                *)
(****************************************************************************)
EXTENDS Lifecycle, SequenceTheorems, TLAPS

(* What a server's goroutine sends is what its Serve returned. *)
SendsResult == \A s \in Servers : spc[s] = "sending" => serr[s] # "none"

TypeInv == TypeOK /\ SendsResult

(* Before the group runs nothing does; before New there is no group. *)
BeforeRun ==
    /\ app = "none" => gpc = "idle"
    /\ gpc = "idle" =>
         /\ results = <<>> /\ errChan = <<>>
         /\ \A a \in Actors : apc[a] = "off"
         /\ \A s \in Servers : spc[s] = "off" /\ serr[s] = "none"

(* Until the first actor returned, no server was told to shut down, and so  *)
(* none returned without an error.                                          *)
Undisturbed == gpc \in {"idle", "first"}
BeforeFirst ==
    Undisturbed =>
        /\ closing = {} /\ ~quit /\ result = "none"
        /\ \A s \in Servers : serr[s] # "nil"
        /\ \A i \in DOMAIN errChan : errChan[i] # "nil"

(* Who sleeps got a signal, and withdrew the readiness. *)
Withdrawn == signalled /\ ~ready
SignalTrue ==
    /\ sigs = 1 => signalled
    /\ apc["signal"] = "sleeping" => Withdrawn
    /\ Undisturbed => \A i \in DOMAIN results : results[i] = "nil" => Withdrawn
    /\ result = "nil" => Withdrawn

(* What the shutdown of each server leaves: it is closed, and drained. *)
AfterHTTP == {"drainGRPC", "drainInternal", "collect", "returned"}
AfterGRPC == {"drainInternal", "collect", "returned"}
Drained ==
    /\ gpc \in AfterHTTP => "http" \in closing /\ (Active("http") = {} \/ timedOut)
    /\ gpc = "drainHTTP" => "http" \in closing
    /\ gpc \in AfterHTTP => "grpc" \in closing
    /\ gpc \in AfterGRPC => Active("grpc") = {}
    /\ "internal" \in closing => gpc \in AfterGRPC

LifeInv ==
    TypeInv /\ BeforeRun /\ BeforeFirst /\ SignalTrue /\ Drained /\ CutOnlyByTimeout

------------------------------------------------------------------------------
LEMMA LifeInvInit == Init => LifeInv
<1> SUFFICES ASSUME Init PROVE LifeInv
  OBVIOUS
<1>1. TypeInv
  <2>1. app = "none" /\ gpc = "idle" /\ result = "none" /\ held = {} /\ closing = {}
    BY DEF Init
  <2>2. results = <<>> /\ errChan = <<>> /\ <<>> \in Seq({"nil", "error"}) /\ Len(<<>>) = 0
    BY DEF Init
  <2>3. sigs \in 0..1 /\ failures \in 0..MaxFailures
    BY LifecycleAssumption DEF Init
  <2>4. timedOut \in BOOLEAN /\ ready \in BOOLEAN /\ quit \in BOOLEAN /\ signalled \in BOOLEAN
    BY DEF Init
  <2>5. /\ apc \in [Actors -> {"off", "starting", "running", "sleeping", "returned"}]
        /\ spc \in [Servers -> {"off", "starting", "serving", "sending", "ended"}]
        /\ serr \in [Servers -> {"none", "nil", "error"}]
        /\ req \in [Requests -> {"new", "active", "answered", "cut"}]
    BY DEF Init
  <2>6. TypeOK
    BY <2>1, <2>2, <2>3, <2>4, <2>5 DEF TypeOK
  <2> QED BY <2>6 DEF Init, TypeInv, SendsResult
<1>2. BeforeRun /\ BeforeFirst
  BY DEF Init, BeforeRun, BeforeFirst
<1>3. SignalTrue /\ Drained /\ CutOnlyByTimeout
  BY DEF Init, SignalTrue, Drained, AfterHTTP, AfterGRPC, CutOnlyByTimeout, Actors
<1> QED BY <1>1, <1>2, <1>3 DEF LifeInv

LEMMA PortsType == \A o \in NewServerOutcomes : o.ports \subseteq Servers /\ o.failed \in BOOLEAN
<1> SUFFICES ASSUME NEW o \in NewServerOutcomes
             PROVE  o.ports \subseteq Servers /\ o.failed \in BOOLEAN
  OBVIOUS
<1>1. CASE o = [failed |-> TRUE, ports |-> {}]
  BY <1>1
<1>2. CASE o = [failed |-> FALSE, ports |-> {"http"}]
  BY <1>2 DEF Servers
<1>3. CASE o = [failed |-> FALSE, ports |-> {"http", "grpc"}]
  BY <1>3 DEF Servers
<1> QED BY <1>1, <1>2, <1>3 DEF NewServerOutcomes

LEMMA TypeInvStep == TypeInv /\ [Next]_vars => TypeInv'
<1> SUFFICES ASSUME TypeInv, [Next]_vars PROVE TypeInv'
  OBVIOUS
<1> USE LifecycleAssumption DEF TypeInv
<1>1. CASE UNCHANGED vars
  BY <1>1 DEF vars, appVars, groupVars, srvVars, stopVars, sigVars, TypeOK, SendsResult
<1>2. CASE New
  <2>1. held' \subseteq {"tracer"} \cup Servers
    BY <1>1, <1>2, PortsType DEF New
  <2>2. app' \in {"built", "failed"} /\ ready' \in BOOLEAN
    BY <1>1, <1>2, PortsType DEF New
  <2>3. UNCHANGED <<groupVars, apc, srvVars, stopVars, sigs, quit, req, signalled, failures>>
    BY <1>2 DEF New
  <2> QED BY <2>1, <2>2, <2>3 DEF TypeOK, SendsResult, groupVars, srvVars, stopVars
<1>3. CASE NewFails
  <2>1. held' \subseteq {"tracer"} \cup Servers
    BY <1>3, PortsType DEF NewFails, Closed
  <2>2. app' \in {"built", "failed"} /\ ready' \in BOOLEAN
    BY <1>3, PortsType DEF NewFails
  <2>3. UNCHANGED <<groupVars, apc, srvVars, stopVars, sigs, quit, req, signalled, failures>>
    BY <1>3 DEF NewFails
  <2> QED BY <2>1, <2>2, <2>3 DEF TypeOK, SendsResult, groupVars, srvVars, stopVars
<1>4. CASE Exit
  BY <1>4 DEF Exit, TypeOK, SendsResult, groupVars, srvVars, stopVars, sigVars
<1>5. CASE Signal
  BY <1>5 DEF Signal, TypeOK, SendsResult, appVars, groupVars, srvVars, stopVars
<1>6. CASE GroupRun
  BY <1>6 DEF GroupRun, TypeOK, SendsResult, srvVars, stopVars, sigVars
<1>7. CASE FirstReturned
  BY <1>7 DEF FirstReturned, TypeOK, SendsResult, Servers, appVars, srvVars, sigVars
<1>8. CASE DrainHTTP
  BY <1>8 DEF DrainHTTP, TypeOK, SendsResult, Servers, appVars, srvVars, sigVars
<1>9. CASE DrainTimeout
  BY <1>9 DEF DrainTimeout, TypeOK, SendsResult, Servers, appVars, srvVars, sigVars
<1>10. CASE DrainGRPC
  BY <1>10 DEF DrainGRPC, TypeOK, SendsResult, appVars, srvVars, sigVars
<1>11. CASE InterruptSignal
  BY <1>11 DEF InterruptSignal, TypeOK, SendsResult, appVars, srvVars, stopVars
<1>12. CASE AllReturned
  BY <1>12 DEF AllReturned, TypeOK, SendsResult, appVars, srvVars, stopVars, sigVars
<1>13. CASE StartServer
  BY <1>13 DEF StartServer, TypeOK, SendsResult, Alive, appVars, groupVars, stopVars,
     sigVars
<1>14. CASE ServerReturns
  BY <1>14 DEF ServerReturns, Returns, TypeOK, SendsResult, Actors, appVars, stopVars,
     sigVars
<1>15. CASE StartInternal
  BY <1>15 DEF StartInternal, TypeOK, SendsResult, Alive, appVars, groupVars, srvVars,
     stopVars, sigVars
<1>16. CASE InternalEnds
  BY <1>16 DEF InternalEnds, Returns, TypeOK, SendsResult, Actors, appVars, srvVars,
     stopVars, sigVars
<1>17. CASE InternalFails
  BY <1>17 DEF InternalFails, Returns, TypeOK, SendsResult, Actors, appVars, srvVars,
     stopVars, sigVars
<1>18. CASE StartSignal
  BY <1>18 DEF StartSignal, TypeOK, SendsResult, Alive, appVars, groupVars, srvVars,
     stopVars, sigVars
<1>19. CASE GotSignal
  <2>1. sigs' \in 0..1
    BY <1>19 DEF GotSignal
  <2>3. ready' \in BOOLEAN
    BY <1>19 DEF GotSignal
  <2>2. apc' \in [Actors -> {"off", "starting", "running", "sleeping", "returned"}]
    BY <1>19 DEF GotSignal, TypeOK
  <2> QED BY <1>19, <2>1, <2>2, <2>3
         DEF GotSignal, TypeOK, SendsResult, appVars, groupVars, srvVars, stopVars
<1>20. CASE Slept
  BY <1>20 DEF Slept, Returns, TypeOK, SendsResult, Alive, Servers, Actors, appVars,
     groupVars, srvVars, stopVars, sigVars
<1>21. CASE Quit
  BY <1>21 DEF Quit, Returns, TypeOK, SendsResult, Actors, appVars, srvVars, stopVars,
     sigVars
<1>22. ASSUME NEW s \in Servers, Serve(s) PROVE TypeInv'
  BY <1>22 DEF Serve, TypeOK, SendsResult, appVars, groupVars, stopVars, sigVars
<1>23. ASSUME NEW s \in Servers, ServeEnds(s) PROVE TypeInv'
  BY <1>23 DEF ServeEnds, TypeOK, SendsResult, appVars, groupVars, stopVars, sigVars
<1>24. ASSUME NEW s \in Servers, Send(s) PROVE TypeInv'
  BY <1>24 DEF Send, CanSend, TypeOK, SendsResult, appVars, groupVars, stopVars, sigVars
<1>25. ASSUME NEW s \in Servers, ServeFails(s) PROVE TypeInv'
  BY <1>25 DEF ServeFails, TypeOK, SendsResult, appVars, groupVars, stopVars, sigVars
<1>26. ASSUME NEW r \in Requests, Accept(r) PROVE TypeInv'
  BY <1>26 DEF Accept, TypeOK, SendsResult, appVars, groupVars, srvVars, stopVars, sigVars
<1>27. ASSUME NEW r \in Requests, Answer(r) PROVE TypeInv'
  BY <1>27 DEF Answer, TypeOK, SendsResult, appVars, groupVars, srvVars, stopVars, sigVars
<1> QED
  BY <1>1, <1>2, <1>3, <1>4, <1>5, <1>6, <1>7, <1>8, <1>9, <1>10, <1>11, <1>12, <1>13,
     <1>14, <1>15, <1>16, <1>17, <1>18, <1>19, <1>20, <1>21, <1>22, <1>23, <1>24, <1>25,
     <1>26, <1>27 DEF Next, GroupStep, ServerStep,
     SubStep, InternalStep, SignalStep

LEMMA BeforeRunStep == TypeInv /\ BeforeRun /\ [Next]_vars => BeforeRun'
<1> SUFFICES ASSUME TypeInv, BeforeRun, [Next]_vars PROVE BeforeRun'
  OBVIOUS
<1>0. BeforeRun /\ TypeOK
  BY DEF TypeInv
<1>1. CASE UNCHANGED vars
  BY <1>0, <1>1 DEF vars, appVars, groupVars, srvVars, BeforeRun
<1>2. CASE New
  BY <1>0, <1>2 DEF New, BeforeRun, groupVars, srvVars
<1>3. CASE NewFails
  BY <1>0, <1>3 DEF NewFails, Closed, BeforeRun, groupVars, srvVars
<1>4. CASE Exit
  BY <1>0, <1>4 DEF Exit, BeforeRun, groupVars
<1>5. CASE Signal
  BY <1>0, <1>5 DEF Signal, BeforeRun, appVars, groupVars, srvVars
<1>6. CASE GroupRun
  BY <1>0, <1>6 DEF GroupRun, BeforeRun, Alive, sigVars
<1>7. CASE FirstReturned
  BY <1>0, <1>7 DEF FirstReturned, BeforeRun, appVars
<1>8. CASE DrainHTTP
  BY <1>0, <1>8 DEF DrainHTTP, BeforeRun, appVars
<1>9. CASE DrainTimeout
  BY <1>0, <1>9 DEF DrainTimeout, BeforeRun, appVars
<1>10. CASE DrainGRPC
  BY <1>0, <1>10 DEF DrainGRPC, BeforeRun, appVars
<1>11. CASE InterruptSignal
  BY <1>0, <1>11 DEF InterruptSignal, BeforeRun, appVars
<1>12. CASE AllReturned
  BY <1>0, <1>12 DEF AllReturned, BeforeRun, appVars
<1>13. CASE StartServer
  BY <1>0, <1>13 DEF StartServer, BeforeRun, Actors, appVars, groupVars
<1>14. CASE ServerReturns
  BY <1>0, <1>14 DEF ServerReturns, Returns, BeforeRun, appVars
<1>15. CASE StartInternal
  BY <1>0, <1>15 DEF StartInternal, BeforeRun, appVars, groupVars, srvVars
<1>16. CASE InternalEnds
  BY <1>0, <1>16 DEF InternalEnds, Returns, BeforeRun, Actors, appVars
<1>17. CASE InternalFails
  BY <1>0, <1>17 DEF InternalFails, Returns, BeforeRun, Actors, appVars
<1>18. CASE StartSignal
  BY <1>0, <1>18 DEF StartSignal, BeforeRun, appVars, groupVars, srvVars
<1>19. CASE GotSignal
  BY <1>0, <1>19 DEF GotSignal, BeforeRun, appVars, groupVars, srvVars
<1>20. CASE Slept
  BY <1>0, <1>20 DEF Slept, Returns, BeforeRun, Actors, appVars
<1>21. CASE Quit
  BY <1>0, <1>21 DEF Quit, Returns, BeforeRun, Actors, appVars
<1>22. ASSUME NEW s \in Servers, Serve(s) PROVE BeforeRun'
  BY <1>0, <1>22 DEF Serve, BeforeRun, appVars, groupVars
<1>23. ASSUME NEW s \in Servers, ServeEnds(s) PROVE BeforeRun'
  BY <1>0, <1>23 DEF ServeEnds, BeforeRun, appVars, groupVars
<1>24. ASSUME NEW s \in Servers, Send(s) PROVE BeforeRun'
  BY <1>0, <1>24 DEF Send, CanSend, BeforeRun, appVars, groupVars
<1>25. ASSUME NEW s \in Servers, ServeFails(s) PROVE BeforeRun'
  BY <1>0, <1>25 DEF ServeFails, BeforeRun, appVars, groupVars
<1>26. ASSUME NEW r \in Requests, Accept(r) PROVE BeforeRun'
  BY <1>0, <1>26 DEF Accept, BeforeRun, appVars, groupVars
<1>27. ASSUME NEW r \in Requests, Answer(r) PROVE BeforeRun'
  BY <1>0, <1>27 DEF Answer, BeforeRun, appVars, groupVars, srvVars
<1> QED
  BY <1>1, <1>2, <1>3, <1>4, <1>5, <1>6, <1>7, <1>8, <1>9, <1>10, <1>11, <1>12, <1>13,
     <1>14, <1>15, <1>16, <1>17, <1>18, <1>19, <1>20, <1>21, <1>22, <1>23, <1>24, <1>25,
     <1>26, <1>27 DEF Next, GroupStep, ServerStep,
     SubStep, InternalStep, SignalStep

LEMMA BeforeFirstStep ==
    TypeInv /\ BeforeRun /\ BeforeFirst /\ [Next]_vars => BeforeFirst'
<1> SUFFICES ASSUME TypeInv, BeforeRun, BeforeFirst, [Next]_vars PROVE BeforeFirst'
  OBVIOUS
<1>0. TypeOK /\ BeforeRun /\ BeforeFirst
  BY DEF TypeInv
<1>1. CASE UNCHANGED vars
  BY <1>0, <1>1 DEF vars, groupVars, srvVars, stopVars, sigVars, BeforeFirst, Undisturbed
<1>2. CASE New
  BY <1>0, <1>2 DEF New, BeforeFirst, Undisturbed, groupVars, srvVars, stopVars
<1>3. CASE NewFails
  BY <1>0, <1>3 DEF NewFails, Closed, BeforeFirst, Undisturbed, groupVars, srvVars, stopVars
<1>4. CASE Exit
  BY <1>0, <1>4 DEF Exit, BeforeFirst, Undisturbed, groupVars
<1>5. CASE Signal
  BY <1>0, <1>5 DEF Signal, BeforeFirst, Undisturbed, groupVars, srvVars, stopVars
<1>6. CASE GroupRun
  BY <1>0, <1>6 DEF GroupRun, BeforeFirst, Undisturbed, srvVars, stopVars, sigVars
<1>7. CASE FirstReturned
  BY <1>0, <1>7 DEF FirstReturned, BeforeFirst, Undisturbed
<1>8. CASE DrainHTTP
  BY <1>0, <1>8 DEF DrainHTTP, BeforeFirst, Undisturbed
<1>9. CASE DrainTimeout
  BY <1>0, <1>9 DEF DrainTimeout, BeforeFirst, Undisturbed
<1>10. CASE DrainGRPC
  BY <1>0, <1>10 DEF DrainGRPC, BeforeFirst, Undisturbed
<1>11. CASE InterruptSignal
  BY <1>0, <1>11 DEF InterruptSignal, BeforeFirst, Undisturbed
<1>12. CASE AllReturned
  BY <1>0, <1>12 DEF AllReturned, BeforeFirst, Undisturbed
<1>13. CASE StartServer
  BY <1>0, <1>13 DEF StartServer, BeforeFirst, Undisturbed, groupVars, stopVars, sigVars
<1>14. CASE ServerReturns
  BY <1>0, <1>14 DEF ServerReturns, Returns, BeforeFirst, Undisturbed, TypeOK, stopVars,
     sigVars
<1>15. CASE StartInternal
  BY <1>0, <1>15 DEF StartInternal, BeforeFirst, Undisturbed, groupVars, srvVars,
     stopVars, sigVars
<1>16. CASE InternalEnds
  BY <1>0, <1>16 DEF InternalEnds, Returns, BeforeFirst, Undisturbed
<1>17. CASE InternalFails
  BY <1>0, <1>17 DEF InternalFails, Returns, BeforeFirst, Undisturbed, srvVars, stopVars,
     sigVars
<1>18. CASE StartSignal
  BY <1>0, <1>18 DEF StartSignal, BeforeFirst, Undisturbed, groupVars, srvVars, stopVars,
     sigVars
<1>19. CASE GotSignal
  BY <1>0, <1>19 DEF GotSignal, BeforeFirst, Undisturbed, groupVars, srvVars, stopVars
<1>20. CASE Slept
  BY <1>0, <1>20 DEF Slept, Returns, BeforeFirst, Undisturbed, srvVars, stopVars, sigVars
<1>21. CASE Quit
  BY <1>0, <1>21 DEF Quit, Returns, BeforeFirst, Undisturbed
<1>22. ASSUME NEW s \in Servers, Serve(s) PROVE BeforeFirst'
  BY <1>0, <1>22 DEF Serve, BeforeFirst, Undisturbed, groupVars, stopVars, sigVars
<1>23. ASSUME NEW s \in Servers, ServeEnds(s) PROVE BeforeFirst'
  BY <1>0, <1>23 DEF ServeEnds, BeforeFirst, Undisturbed, groupVars
<1>24. ASSUME NEW s \in Servers, Send(s) PROVE BeforeFirst'
  BY <1>0, <1>24 DEF Send, CanSend, BeforeFirst, Undisturbed, groupVars, stopVars, sigVars
<1>25. ASSUME NEW s \in Servers, ServeFails(s) PROVE BeforeFirst'
  BY <1>0, <1>25 DEF ServeFails, BeforeFirst, Undisturbed, groupVars, stopVars, sigVars
<1>26. ASSUME NEW r \in Requests, Accept(r) PROVE BeforeFirst'
  BY <1>0, <1>26 DEF Accept, BeforeFirst, Undisturbed, groupVars, srvVars, stopVars, sigVars
<1>27. ASSUME NEW r \in Requests, Answer(r) PROVE BeforeFirst'
  BY <1>0, <1>27 DEF Answer, BeforeFirst, Undisturbed, groupVars, srvVars, stopVars, sigVars
<1> QED
  BY <1>1, <1>2, <1>3, <1>4, <1>5, <1>6, <1>7, <1>8, <1>9, <1>10, <1>11, <1>12, <1>13,
     <1>14, <1>15, <1>16, <1>17, <1>18, <1>19, <1>20, <1>21, <1>22, <1>23, <1>24, <1>25,
     <1>26, <1>27 DEF Next, GroupStep, ServerStep,
     SubStep, InternalStep, SignalStep

LEMMA SignalTrueStep ==
    LifeInv /\ [Next]_vars => SignalTrue'
<1> SUFFICES ASSUME LifeInv, [Next]_vars PROVE SignalTrue'
  OBVIOUS
<1>0. TypeOK /\ BeforeRun /\ BeforeFirst /\ SignalTrue
  BY DEF LifeInv, TypeInv
<1>1. CASE UNCHANGED vars
  BY <1>0, <1>1 DEF vars, groupVars, sigVars, SignalTrue, Undisturbed, Withdrawn
<1>2. CASE New
  BY <1>0, <1>2 DEF New, BeforeRun, BeforeFirst, Undisturbed, Withdrawn, SignalTrue,
     Actors, groupVars
<1>3. CASE NewFails
  BY <1>0, <1>3 DEF NewFails, Closed, BeforeRun, BeforeFirst, Undisturbed, Withdrawn,
     SignalTrue, Actors, groupVars
<1>4. CASE Exit
  BY <1>0, <1>4 DEF Exit, Undisturbed, Withdrawn, SignalTrue, groupVars, sigVars
<1>5. CASE Signal
  BY <1>0, <1>5 DEF Signal, Undisturbed, Withdrawn, SignalTrue, groupVars
<1>6. CASE GroupRun
  BY <1>0, <1>6 DEF GroupRun, Undisturbed, Withdrawn, SignalTrue, Actors, sigVars
<1>7. CASE FirstReturned
  BY <1>0, <1>7 DEF FirstReturned, Undisturbed, Withdrawn, SignalTrue, sigVars
<1>8. CASE DrainHTTP
  BY <1>0, <1>8 DEF DrainHTTP, Undisturbed, Withdrawn, SignalTrue, sigVars
<1>9. CASE DrainTimeout
  BY <1>0, <1>9 DEF DrainTimeout, Undisturbed, Withdrawn, SignalTrue, sigVars
<1>10. CASE DrainGRPC
  BY <1>0, <1>10 DEF DrainGRPC, Undisturbed, Withdrawn, SignalTrue, sigVars
<1>11. CASE InterruptSignal
  BY <1>0, <1>11 DEF InterruptSignal, Undisturbed, Withdrawn, SignalTrue
<1>12. CASE AllReturned
  BY <1>0, <1>12 DEF AllReturned, Withdrawn, SignalTrue, sigVars
<1>13. CASE StartServer
  BY <1>0, <1>13 DEF StartServer, Undisturbed, Withdrawn, SignalTrue, groupVars, sigVars
<1>14. CASE ServerReturns
  BY <1>0, <1>14 DEF ServerReturns, Returns, BeforeFirst, Undisturbed, Withdrawn,
     SignalTrue, TypeOK, sigVars
<1>15. CASE StartInternal
  BY <1>0, <1>15 DEF StartInternal, Undisturbed, Withdrawn, SignalTrue, groupVars, sigVars
<1>16. CASE InternalEnds
  BY <1>0, <1>16 DEF InternalEnds, Returns, Undisturbed, Withdrawn, SignalTrue, sigVars
<1>17. CASE InternalFails
  BY <1>0, <1>17 DEF InternalFails, Returns, Undisturbed, Withdrawn, SignalTrue, sigVars
<1>18. CASE StartSignal
  BY <1>0, <1>18 DEF StartSignal, Undisturbed, Withdrawn, SignalTrue, groupVars, sigVars
<1>19. CASE GotSignal
  BY <1>0, <1>19 DEF GotSignal, Withdrawn, SignalTrue
<1>20. CASE Slept
  BY <1>0, <1>20 DEF Slept, Returns, Withdrawn, SignalTrue, sigVars
<1>21. CASE Quit
  BY <1>0, <1>21 DEF Quit, Returns, BeforeFirst, Undisturbed, Withdrawn, SignalTrue, sigVars
<1>22. ASSUME NEW s \in Servers, Serve(s) PROVE SignalTrue'
  BY <1>0, <1>22 DEF Serve, Undisturbed, Withdrawn, SignalTrue, groupVars, sigVars
<1>23. ASSUME NEW s \in Servers, ServeEnds(s) PROVE SignalTrue'
  BY <1>0, <1>23 DEF ServeEnds, Undisturbed, Withdrawn, SignalTrue, groupVars, sigVars
<1>24. ASSUME NEW s \in Servers, Send(s) PROVE SignalTrue'
  BY <1>0, <1>24 DEF Send, CanSend, Undisturbed, Withdrawn, SignalTrue, groupVars, sigVars
<1>25. ASSUME NEW s \in Servers, ServeFails(s) PROVE SignalTrue'
  BY <1>0, <1>25 DEF ServeFails, Undisturbed, Withdrawn, SignalTrue, groupVars, sigVars
<1>26. ASSUME NEW r \in Requests, Accept(r) PROVE SignalTrue'
  BY <1>0, <1>26 DEF Accept, Undisturbed, Withdrawn, SignalTrue, groupVars, sigVars
<1>27. ASSUME NEW r \in Requests, Answer(r) PROVE SignalTrue'
  BY <1>0, <1>27 DEF Answer, Undisturbed, Withdrawn, SignalTrue, groupVars, sigVars
<1> QED
  BY <1>1, <1>2, <1>3, <1>4, <1>5, <1>6, <1>7, <1>8, <1>9, <1>10, <1>11, <1>12, <1>13,
     <1>14, <1>15, <1>16, <1>17, <1>18, <1>19, <1>20, <1>21, <1>22, <1>23, <1>24, <1>25,
     <1>26, <1>27 DEF Next, GroupStep, ServerStep,
     SubStep, InternalStep, SignalStep

LEMMA DrainedStep ==
    LifeInv /\ [Next]_vars => Drained'
<1> SUFFICES ASSUME LifeInv, [Next]_vars PROVE Drained'
  OBVIOUS
<1>0. TypeOK /\ BeforeRun /\ BeforeFirst /\ Drained
  BY DEF LifeInv, TypeInv
<1>1. CASE UNCHANGED vars
  BY <1>0, <1>1 DEF vars, groupVars, stopVars, Drained, Active
<1>2. CASE New
  BY <1>0, <1>2 DEF New, Drained, Active, groupVars, stopVars
<1>3. CASE NewFails
  BY <1>0, <1>3 DEF NewFails, Closed, Drained, Active, groupVars, stopVars
<1>4. CASE Exit
  BY <1>0, <1>4 DEF Exit, Drained, Active, OfServer, Requests, groupVars, stopVars
<1>5. CASE Signal
  BY <1>0, <1>5 DEF Signal, Drained, Active, groupVars, stopVars
<1>6. CASE GroupRun
  BY <1>0, <1>6 DEF GroupRun, Drained, AfterHTTP, AfterGRPC, stopVars
<1>7. CASE FirstReturned
  BY <1>0, <1>7 DEF FirstReturned, Drained, AfterHTTP, AfterGRPC
<1>8. CASE DrainHTTP
  BY <1>0, <1>8 DEF DrainHTTP, Drained, AfterGRPC, Active
<1>9. CASE DrainTimeout
  BY <1>0, <1>9 DEF DrainTimeout, Drained, AfterGRPC
<1>10. CASE DrainGRPC
  BY <1>0, <1>10 DEF DrainGRPC, Drained, AfterHTTP, AfterGRPC, Active
<1>11. CASE InterruptSignal
  BY <1>0, <1>11 DEF InterruptSignal, Drained, AfterHTTP, AfterGRPC, Active, stopVars
<1>12. CASE AllReturned
  BY <1>0, <1>12 DEF AllReturned, Drained, AfterHTTP, AfterGRPC, Active, stopVars
<1>13. CASE StartServer
  BY <1>0, <1>13 DEF StartServer, Drained, Active, groupVars, stopVars
<1>14. CASE ServerReturns
  BY <1>0, <1>14 DEF ServerReturns, Returns, Drained, Active, stopVars
<1>15. CASE StartInternal
  BY <1>0, <1>15 DEF StartInternal, Drained, Active, groupVars, stopVars
<1>16. CASE InternalEnds
  BY <1>0, <1>16 DEF InternalEnds, Returns, Drained, Active, stopVars
<1>17. CASE InternalFails
  BY <1>0, <1>17 DEF InternalFails, Returns, Drained, Active, stopVars
<1>18. CASE StartSignal
  BY <1>0, <1>18 DEF StartSignal, Drained, Active, groupVars, stopVars
<1>19. CASE GotSignal
  BY <1>0, <1>19 DEF GotSignal, Drained, Active, groupVars, stopVars
<1>20. CASE Slept
  BY <1>0, <1>20 DEF Slept, Returns, Drained, Active, stopVars
<1>21. CASE Quit
  BY <1>0, <1>21 DEF Quit, Returns, Drained, Active, stopVars
<1>22. ASSUME NEW s \in Servers, Serve(s) PROVE Drained'
  BY <1>0, <1>22 DEF Serve, Drained, Active, groupVars, stopVars
<1>23. ASSUME NEW s \in Servers, ServeEnds(s) PROVE Drained'
  BY <1>0, <1>23 DEF ServeEnds, Drained, Active, groupVars, stopVars
<1>24. ASSUME NEW s \in Servers, Send(s) PROVE Drained'
  BY <1>0, <1>24 DEF Send, CanSend, Drained, Active, groupVars, stopVars
<1>25. ASSUME NEW s \in Servers, ServeFails(s) PROVE Drained'
  BY <1>0, <1>25 DEF ServeFails, Drained, Active, groupVars, stopVars
<1>26. ASSUME NEW r \in Requests, Accept(r) PROVE Drained'
  BY <1>0, <1>26 DEF Accept, Drained, AfterHTTP, AfterGRPC, Servers, groupVars, stopVars
<1>27. ASSUME NEW r \in Requests, Answer(r) PROVE Drained'
  BY <1>0, <1>27 DEF Answer, Drained, Active, groupVars, stopVars
<1> QED
  BY <1>1, <1>2, <1>3, <1>4, <1>5, <1>6, <1>7, <1>8, <1>9, <1>10, <1>11, <1>12, <1>13,
     <1>14, <1>15, <1>16, <1>17, <1>18, <1>19, <1>20, <1>21, <1>22, <1>23, <1>24, <1>25,
     <1>26, <1>27 DEF Next, GroupStep, ServerStep,
     SubStep, InternalStep, SignalStep

LEMMA CutStep ==
    LifeInv /\ [Next]_vars => CutOnlyByTimeout'
<1> SUFFICES ASSUME LifeInv, [Next]_vars PROVE CutOnlyByTimeout'
  OBVIOUS
<1>0. TypeOK /\ BeforeRun /\ Drained /\ CutOnlyByTimeout
  BY DEF LifeInv, TypeInv
<1>1. CASE UNCHANGED vars
  BY <1>0, <1>1 DEF vars, stopVars, CutOnlyByTimeout
<1>2. CASE New
  BY <1>0, <1>2 DEF New, CutOnlyByTimeout, stopVars
<1>3. CASE NewFails
  BY <1>0, <1>3 DEF NewFails, Closed, CutOnlyByTimeout, stopVars
<1>4. CASE Exit
  BY <1>0, <1>4 DEF Exit, CutOnlyByTimeout, Drained, AfterHTTP, AfterGRPC, Active,
     OfServer, Requests, stopVars
<1>5. CASE Signal
  BY <1>0, <1>5 DEF Signal, CutOnlyByTimeout, stopVars
<1>6. CASE GroupRun
  BY <1>0, <1>6 DEF GroupRun, CutOnlyByTimeout, stopVars
<1>7. CASE FirstReturned
  BY <1>0, <1>7 DEF FirstReturned, CutOnlyByTimeout
<1>8. CASE DrainHTTP
  BY <1>0, <1>8 DEF DrainHTTP, CutOnlyByTimeout
<1>9. CASE DrainTimeout
  BY <1>0, <1>9 DEF DrainTimeout, CutOnlyByTimeout
<1>10. CASE DrainGRPC
  BY <1>0, <1>10 DEF DrainGRPC, CutOnlyByTimeout
<1>11. CASE InterruptSignal
  BY <1>0, <1>11 DEF InterruptSignal, CutOnlyByTimeout, stopVars
<1>12. CASE AllReturned
  BY <1>0, <1>12 DEF AllReturned, CutOnlyByTimeout, stopVars
<1>13. CASE StartServer
  BY <1>0, <1>13 DEF StartServer, CutOnlyByTimeout, stopVars
<1>14. CASE ServerReturns
  BY <1>0, <1>14 DEF ServerReturns, Returns, CutOnlyByTimeout, stopVars
<1>15. CASE StartInternal
  BY <1>0, <1>15 DEF StartInternal, CutOnlyByTimeout, stopVars
<1>16. CASE InternalEnds
  BY <1>0, <1>16 DEF InternalEnds, Returns, CutOnlyByTimeout, stopVars
<1>17. CASE InternalFails
  BY <1>0, <1>17 DEF InternalFails, Returns, CutOnlyByTimeout, stopVars
<1>18. CASE StartSignal
  BY <1>0, <1>18 DEF StartSignal, CutOnlyByTimeout, stopVars
<1>19. CASE GotSignal
  BY <1>0, <1>19 DEF GotSignal, CutOnlyByTimeout, stopVars
<1>20. CASE Slept
  BY <1>0, <1>20 DEF Slept, Returns, CutOnlyByTimeout, stopVars
<1>21. CASE Quit
  BY <1>0, <1>21 DEF Quit, Returns, CutOnlyByTimeout, stopVars
<1>22. ASSUME NEW s \in Servers, Serve(s) PROVE CutOnlyByTimeout'
  BY <1>0, <1>22 DEF Serve, CutOnlyByTimeout, stopVars
<1>23. ASSUME NEW s \in Servers, ServeEnds(s) PROVE CutOnlyByTimeout'
  BY <1>0, <1>23 DEF ServeEnds, CutOnlyByTimeout, stopVars
<1>24. ASSUME NEW s \in Servers, Send(s) PROVE CutOnlyByTimeout'
  BY <1>0, <1>24 DEF Send, CanSend, CutOnlyByTimeout, stopVars
<1>25. ASSUME NEW s \in Servers, ServeFails(s) PROVE CutOnlyByTimeout'
  BY <1>0, <1>25 DEF ServeFails, CutOnlyByTimeout, stopVars
<1>26. ASSUME NEW r \in Requests, Accept(r) PROVE CutOnlyByTimeout'
  BY <1>0, <1>26 DEF Accept, CutOnlyByTimeout, stopVars
<1>27. ASSUME NEW r \in Requests, Answer(r) PROVE CutOnlyByTimeout'
  BY <1>0, <1>27 DEF Answer, CutOnlyByTimeout, stopVars
<1> QED
  BY <1>1, <1>2, <1>3, <1>4, <1>5, <1>6, <1>7, <1>8, <1>9, <1>10, <1>11, <1>12, <1>13,
     <1>14, <1>15, <1>16, <1>17, <1>18, <1>19, <1>20, <1>21, <1>22, <1>23, <1>24, <1>25,
     <1>26, <1>27 DEF Next, GroupStep, ServerStep,
     SubStep, InternalStep, SignalStep

LEMMA LifeInvStep == LifeInv /\ [Next]_vars => LifeInv'
BY TypeInvStep, BeforeRunStep, BeforeFirstStep, SignalTrueStep, DrainedStep, CutStep
   DEF LifeInv

(* Every variable keeps its type. *)
THEOREM TypeCorrect == Spec => []TypeOK
<1>1. LifeInv => TypeOK
  BY DEF LifeInv, TypeInv
<1> QED BY <1>1, LifeInvInit, LifeInvStep, PTL DEF Spec

(* A request is cut off only when the graceful shutdown of the HTTP server   *)
(* timed out, one over gRPC never is: for any number of requests.            *)
THEOREM CutOnlyByTimeoutAlways == Spec => []CutOnlyByTimeout
<1>1. LifeInv => CutOnlyByTimeout
  BY DEF LifeInv
<1> QED BY <1>1, LifeInvInit, LifeInvStep, PTL DEF Spec

(* The readiness goes before the server stops to accept requests when it is  *)
(* a signal that ends the group, and the internal server goes last.          *)
THEOREM ShutdownOrderAlways == Spec => []ShutdownOrder
<1>1. LifeInv => ShutdownOrder
  BY DEF LifeInv, SignalTrue, Withdrawn, Drained, AfterHTTP, AfterGRPC, ShutdownOrder
<1> QED BY <1>1, LifeInvInit, LifeInvStep, PTL DEF Spec

(* The group returns nil only for a stop signal, whichever servers fail.     *)
THEOREM CleanOnlyBySignalAlways == Spec => []CleanOnlyBySignal
<1>1. LifeInv => CleanOnlyBySignal
  BY DEF LifeInv, SignalTrue, Withdrawn, CleanOnlyBySignal
<1> QED BY <1>1, LifeInvInit, LifeInvStep, PTL DEF Spec
==============================================================================
