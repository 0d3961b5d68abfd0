------------------------------ MODULE Lifecycle ------------------------------
(****************************************************************************)
(* The life of a proxy process: appcommon.New (pkg/appcommon/harness.go),   *)
(* the run group with its three actors, the server (pkg/server/server.go),  *)
(* the internal server (pkg/internalserver) and the signal handler          *)
(* (pkg/stopsignal), and the requests it serves while it stops.             *)
(*                                                                          *)
(* The group of github.com/oklog/run, http.Server and grpc.Server are       *)
(* external: modelled from how the code uses them.                          *)
(****************************************************************************)
EXTENDS Naturals, Sequences, FiniteSets

CONSTANTS
    HTTPRequests,    \* the requests clients of the HTTP server may make
    GRPCRequests,    \* and of the gRPC server
    MaxFailures      \* bound: servers that fail while they serve

ASSUME LifecycleAssumption ==
    /\ HTTPRequests \cap GRPCRequests = {} /\ MaxFailures \in Nat

Requests == HTTPRequests \cup GRPCRequests
Actors   == {"server", "internal", "signal"}
Servers  == {"http", "grpc"}
OfServer(s) == IF s = "http" THEN HTTPRequests ELSE GRPCRequests

VARIABLES
    app,        \* "none", "failed" (New returned an error), "built",
                \* "panicked" or "exited"
    held,       \* what the process holds open: the tracer, the two ports
    gpc,        \* where Group.Run is
    results,    \* its channel of the actors' results
    result,     \* the result it returns: that of the first actor to return
    apc,        \* where each actor's run function is
    spc,        \* where the goroutine of each server of Server.Run is
    serr,       \* what that server's Serve returned
    errChan,    \* the channel of Server.Run
    closing,    \* the servers that were told to shut down
    timedOut,   \* whether the HTTP server's Shutdown gave up waiting
    ready, sigs, quit,   \* the SignalHandler
    req,        \* where each request is
    signalled,  \* history: a stop signal was sent
    failures    \* counted for the bound

appVars   == <<app, held>>
groupVars == <<gpc, results, result>>
srvVars   == <<spc, serr, errChan>>
stopVars  == <<closing, timedOut>>
sigVars   == <<ready, sigs, quit>>
vars == <<appVars, groupVars, apc, srvVars, stopVars, sigVars, req, signalled, failures>>

Init ==
    /\ app = "none" /\ held = {}
    /\ gpc = "idle" /\ results = <<>> /\ result = "none"
    /\ apc = [a \in Actors |-> "off"]
    /\ spc = [s \in Servers |-> "off"] /\ serr = [s \in Servers |-> "none"]
    /\ errChan = <<>>
    /\ closing = {} /\ timedOut = FALSE
    /\ ready = FALSE /\ sigs = 0 /\ quit = FALSE
    /\ req = [r \in Requests |-> "new"]
    /\ signalled = FALSE /\ failures = 0

------------------------------------------------------------------------------
(* New *)

(* NewServer: the HTTP port is opened, then the gRPC port. When the second   *)
(* fails, the error returned is err, which is nil by then.                   *)
NewServerOutcomes ==
    {[failed |-> TRUE,  ports |-> {}],
     [failed |-> FALSE, ports |-> {"http"}],
     [failed |-> FALSE, ports |-> {"http", "grpc"}]}

(* app.Close runs the closers: that of the tracer New made. *)
Closed(resources) == resources \ {"tracer"}

(* An error before or in NewServer, or of registerVersionMetrics when the    *)
(* handler of signals is there already.                                      *)
NewFails ==
    /\ app = "none"
    /\ app' = "failed"
    /\ \E o \in NewServerOutcomes, tracer \in SUBSET {"tracer"} :
         held' = Closed(o.ports \cup tracer) /\ ready' = ~o.failed
    /\ UNCHANGED <<groupVars, apc, srvVars, stopVars, sigs, quit, req, signalled, failures>>

(* The handler of signals is ready from here on. *)
New ==
    /\ app = "none"
    /\ app' = "built"
    /\ \E o \in NewServerOutcomes, tracer \in SUBSET {"tracer"} :
         ~o.failed /\ held' = o.ports \cup tracer
    /\ ready' = TRUE
    /\ UNCHANGED <<groupVars, apc, srvVars, stopVars, sigs, quit, req, signalled, failures>>

------------------------------------------------------------------------------
(* The group *)

Alive == app = "built"

(* Without a server, Run dereferences nil in a goroutine. *)
GroupRun ==
    /\ Alive /\ gpc = "idle"
    /\ gpc' = "first"
    /\ apc' = [a \in Actors |-> "starting"]
    /\ app' = IF Servers \subseteq held THEN app ELSE "panicked"
    /\ UNCHANGED <<held, results, result, srvVars, stopVars, sigVars, req, signalled, failures>>

Returns(a, res) ==
    /\ apc' = [apc EXCEPT ![a] = "returned"]
    /\ results' = Append(results, res)

FirstReturned ==
    /\ Alive /\ gpc = "first" /\ results # <<>>
    /\ result' = Head(results) /\ results' = Tail(results)
    /\ gpc' = "drainHTTP"
    /\ closing' = closing \cup {"http"}
    /\ UNCHANGED <<appVars, apc, srvVars, timedOut, sigVars, req, signalled, failures>>

Active(s) == {r \in OfServer(s) : req[r] = "active"}

(* Mutant: the server is closed, whatever requests it has. *)
CloseHTTP ==
    /\ Alive /\ gpc = "drainHTTP"
    /\ gpc' = "drainGRPC"
    /\ closing' = closing \cup {"grpc"}
    /\ UNCHANGED <<appVars, results, result, apc, srvVars, timedOut, sigVars, req, signalled, failures>>

(* Server.Shutdown: HTTPServer.Shutdown returns when no request is active... *)
DrainHTTP ==
    /\ Alive /\ gpc = "drainHTTP" /\ Active("http") = {}
    /\ gpc' = "drainGRPC"
    /\ closing' = closing \cup {"grpc"}
    /\ UNCHANGED <<appVars, results, result, apc, srvVars, timedOut, sigVars, req, signalled, failures>>

(* ... or after ServerGracefulShutdownTimeout; the error is only logged. *)
DrainTimeout ==
    /\ Alive /\ gpc = "drainHTTP" /\ Active("http") # {}
    /\ timedOut' = TRUE
    /\ gpc' = "drainGRPC"
    /\ closing' = closing \cup {"grpc"}
    /\ UNCHANGED <<appVars, results, result, apc, srvVars, sigVars, req, signalled, failures>>

(* GracefulStop waits without a limit; then the internal server is told. *)
DrainGRPC ==
    /\ Alive /\ gpc = "drainGRPC" /\ Active("grpc") = {}
    /\ gpc' = "drainInternal"
    /\ closing' = closing \cup {"internal"}
    /\ UNCHANGED <<appVars, results, result, apc, srvVars, timedOut, sigVars, req, signalled, failures>>

(* Its Shutdown returns, and Stop closes quit: all actors are interrupted. *)
InterruptSignal ==
    /\ Alive /\ gpc = "drainInternal"
    /\ quit' = TRUE
    /\ gpc' = "collect"
    /\ UNCHANGED <<appVars, results, result, apc, srvVars, stopVars, ready, sigs, req, signalled, failures>>

AllReturned ==
    /\ Alive /\ gpc = "collect" /\ Len(results) = Cardinality(Actors) - 1
    /\ results' = <<>>
    /\ gpc' = "returned"
    /\ UNCHANGED <<appVars, result, apc, srvVars, stopVars, sigVars, req, signalled, failures>>

(* The caller closes the app and the process ends. *)
Exit ==
    /\ Alive /\ gpc = "returned"
    /\ app' = "exited" /\ held' = {}
    /\ req' = [r \in Requests |-> IF req[r] = "active" THEN "cut" ELSE req[r]]
    /\ UNCHANGED <<groupVars, apc, srvVars, stopVars, sigVars, signalled, failures>>

------------------------------------------------------------------------------
(* The server: Server.Run and its two goroutines *)

StartServer ==
    /\ Alive /\ apc["server"] = "starting"
    /\ apc' = [apc EXCEPT !["server"] = "running"]
    /\ spc' = [s \in Servers |-> "starting"]
    /\ UNCHANGED <<appVars, groupVars, serr, errChan, stopVars, sigVars, req, signalled, failures>>

(* Serve, which returns at once when the server was shut down already. *)
Serve(s) ==
    /\ Alive /\ spc[s] = "starting" /\ s \notin closing
    /\ spc' = [spc EXCEPT ![s] = "serving"]
    /\ UNCHANGED <<appVars, groupVars, apc, serr, errChan, stopVars, sigVars, req, signalled, failures>>

(* Mutant: every error of Serve is taken for that of a server shut down. *)
ServeFailsQuietly(s) ==
    /\ Alive /\ spc[s] = "serving" /\ failures < MaxFailures
    /\ failures' = failures + 1
    /\ spc' = [spc EXCEPT ![s] = "sending"] /\ serr' = [serr EXCEPT ![s] = "nil"]
    /\ UNCHANGED <<appVars, groupVars, apc, errChan, stopVars, sigVars, req, signalled>>

ServeFails(s) ==
    /\ Alive /\ spc[s] = "serving" /\ failures < MaxFailures
    /\ failures' = failures + 1
    /\ spc' = [spc EXCEPT ![s] = "sending"] /\ serr' = [serr EXCEPT ![s] = "error"]
    /\ UNCHANGED <<appVars, groupVars, apc, errChan, stopVars, sigVars, req, signalled>>

(* ErrServerClosed or ErrServerStopped, as soon as the shutdown begins. *)
ServeEnds(s) ==
    /\ Alive /\ spc[s] \in {"starting", "serving"} /\ s \in closing
    /\ spc' = [spc EXCEPT ![s] = "sending"] /\ serr' = [serr EXCEPT ![s] = "nil"]
    /\ UNCHANGED <<appVars, groupVars, apc, errChan, stopVars, sigVars, req, signalled, failures>>

(* Mutant: errChan has no buffer: a send needs Run to be receiving. *)
CanSendUnbuffered == errChan = <<>> /\ apc["server"] = "running"

(* Mutant: Run takes no second result, a buffer of two is filled. *)
CanSendTwice == Len(errChan) < 2

(* errChan has a buffer of one for its two senders. *)
CanSend == Len(errChan) < 1

Send(s) ==
    /\ Alive /\ spc[s] = "sending" /\ CanSend
    /\ errChan' = Append(errChan, serr[s])
    /\ spc' = [spc EXCEPT ![s] = "ended"]
    /\ UNCHANGED <<appVars, groupVars, apc, serr, stopVars, sigVars, req, signalled, failures>>

(* Run returns the first of the two results. *)
ServerReturns ==
    /\ Alive /\ apc["server"] = "running" /\ errChan # <<>>
    /\ Returns("server", Head(errChan))
    /\ errChan' = Tail(errChan)
    /\ UNCHANGED <<appVars, gpc, result, spc, serr, stopVars, sigVars, req, signalled, failures>>

Accept(r) ==
    /\ Alive /\ req[r] = "new"
    /\ \E s \in Servers \ closing : r \in OfServer(s) /\ spc[s] = "serving"
    /\ req' = [req EXCEPT ![r] = "active"]
    /\ UNCHANGED <<appVars, groupVars, apc, srvVars, stopVars, sigVars, signalled, failures>>

Answer(r) ==
    /\ Alive /\ req[r] = "active"
    /\ req' = [req EXCEPT ![r] = "answered"]
    /\ UNCHANGED <<appVars, groupVars, apc, srvVars, stopVars, sigVars, signalled, failures>>

------------------------------------------------------------------------------
(* The internal server: ListenAndServe *)

StartInternal ==
    /\ Alive /\ apc["internal"] = "starting" /\ "internal" \notin closing
    /\ apc' = [apc EXCEPT !["internal"] = "running"]
    /\ UNCHANGED <<appVars, groupVars, srvVars, stopVars, sigVars, req, signalled, failures>>

(* The port is in use, or accepting connections fails. *)
InternalFails ==
    /\ Alive /\ apc["internal"] \in {"starting", "running"} /\ failures < MaxFailures
    /\ failures' = failures + 1
    /\ Returns("internal", "error")
    /\ UNCHANGED <<appVars, gpc, result, srvVars, stopVars, sigVars, req, signalled>>

(* http.ErrServerClosed is returned as it is. *)
InternalEnds ==
    /\ Alive /\ apc["internal"] \in {"starting", "running"} /\ "internal" \in closing
    /\ Returns("internal", "error")
    /\ UNCHANGED <<appVars, gpc, result, srvVars, stopVars, sigVars, req, signalled, failures>>

------------------------------------------------------------------------------
(* The signal handler *)

(* Mutant: the channel has no buffer, a signal nobody waits for is dropped. *)
SignalUnbuffered ==
    /\ Alive /\ ~signalled
    /\ signalled' = TRUE
    /\ sigs' = IF apc["signal"] = "running" THEN 1 ELSE 0
    /\ UNCHANGED <<appVars, groupVars, apc, srvVars, stopVars, ready, quit, req, failures>>

(* signal.Notify delivers to a buffer of one, from New on; a second signal   *)
(* changes nothing: it is buffered and not read, or dropped.                 *)
Signal ==
    /\ Alive /\ ~signalled
    /\ signalled' = TRUE
    /\ sigs' = 1
    /\ UNCHANGED <<appVars, groupVars, apc, srvVars, stopVars, ready, quit, req, failures>>

StartSignal ==
    /\ Alive /\ apc["signal"] = "starting"
    /\ apc' = [apc EXCEPT !["signal"] = "running"]
    /\ UNCHANGED <<appVars, groupVars, srvVars, stopVars, sigVars, req, signalled, failures>>

(* Mutant: the shutdown begins before the pods' readiness is withdrawn. *)
GotSignalStillReady ==
    /\ Alive /\ apc["signal"] = "running" /\ sigs = 1
    /\ sigs' = 0
    /\ apc' = [apc EXCEPT !["signal"] = "sleeping"]
    /\ UNCHANGED <<appVars, groupVars, srvVars, stopVars, ready, quit, req, signalled, failures>>

(* The signal: not ready any more, for shutdownDelay before the group ends. *)
GotSignal ==
    /\ Alive /\ apc["signal"] = "running" /\ sigs = 1
    /\ sigs' = 0 /\ ready' = FALSE
    /\ apc' = [apc EXCEPT !["signal"] = "sleeping"]
    /\ UNCHANGED <<appVars, groupVars, srvVars, stopVars, quit, req, signalled, failures>>

Slept ==
    /\ Alive /\ apc["signal"] = "sleeping"
    /\ Returns("signal", "nil")
    /\ UNCHANGED <<appVars, gpc, result, srvVars, stopVars, sigVars, req, signalled, failures>>

Quit ==
    /\ Alive /\ apc["signal"] = "running" /\ quit
    /\ Returns("signal", "nil")
    /\ UNCHANGED <<appVars, gpc, result, srvVars, stopVars, sigVars, req, signalled, failures>>

------------------------------------------------------------------------------
GroupStep ==
    \/ GroupRun \/ FirstReturned \/ DrainHTTP \/ DrainTimeout \/ DrainGRPC
    \/ InterruptSignal \/ AllReturned
ServerStep   == StartServer \/ ServerReturns
SubStep(s)   == Serve(s) \/ ServeEnds(s) \/ Send(s)
InternalStep == StartInternal \/ InternalEnds
SignalStep   == StartSignal \/ GotSignal \/ Slept \/ Quit

Next ==
    \/ New \/ NewFails \/ Exit \/ Signal
    \/ GroupStep \/ ServerStep \/ InternalStep \/ InternalFails \/ SignalStep
    \/ \E s \in Servers : SubStep(s) \/ ServeFails(s)
    \/ \E r \in Requests : Accept(r) \/ Answer(r)

Spec == Init /\ [][Next]_vars

(* The goroutines run and the timeout fires; and, because GracefulStop has   *)
(* no timeout, the gRPC handlers are taken to return.                        *)
FairSpec ==
    /\ Spec
    /\ WF_vars(GroupStep) /\ WF_vars(ServerStep) /\ WF_vars(InternalStep)
    /\ WF_vars(SignalStep)
    /\ \A s \in Servers : WF_vars(SubStep(s))
    /\ \A r \in GRPCRequests : WF_vars(Answer(r))
------------------------------------------------------------------------------
TypeOK ==
    /\ app \in {"none", "failed", "built", "panicked", "exited"}
    /\ held \subseteq {"tracer"} \cup Servers
    /\ gpc \in {"idle", "first", "drainHTTP", "drainGRPC", "drainInternal",
                "collect", "returned"}
    /\ results \in Seq({"nil", "error"}) /\ result \in {"none", "nil", "error"}
    /\ apc \in [Actors -> {"off", "starting", "running", "sleeping", "returned"}]
    /\ spc \in [Servers -> {"off", "starting", "serving", "sending", "ended"}]
    /\ serr \in [Servers -> {"none", "nil", "error"}]
    /\ errChan \in Seq({"nil", "error"}) /\ Len(errChan) <= 1
    /\ closing \subseteq Servers \cup {"internal"} /\ timedOut \in BOOLEAN
    /\ ready \in BOOLEAN /\ sigs \in 0..1 /\ quit \in BOOLEAN
    /\ req \in [Requests -> {"new", "active", "answered", "cut"}]
    /\ signalled \in BOOLEAN /\ failures \in 0..MaxFailures

(* Serve, and with it Server.Run, returns as soon as a shutdown begins; the  *)
(* process must not end with it: a request is cut off only when the graceful *)
(* shutdown of the HTTP server timed out, one over gRPC never is.            *)
CutOnlyByTimeout ==
    \A r \in Requests : req[r] = "cut" => timedOut /\ r \in HTTPRequests

(* The order of the shutdown. When it is a stop signal that ends the group,  *)
(* the readiness is withdrawn before the server stops to accept requests;    *)
(* and the internal server answers probes and scrapes until it has drained.  *)
ShutdownOrder ==
    /\ result = "nil" => ~ready
    /\ "internal" \in closing =>
         /\ Active("grpc") = {}
         /\ Active("http") = {} \/ timedOut

(* The group returns nil only for a stop signal: a server that failed ends   *)
(* the process with its error.                                               *)
CleanOnlyBySignal == result = "nil" => signalled

Over == app \in {"panicked", "exited"} \/ gpc = "returned"

(* A stop signal stops the process, also one that comes before the group or  *)
(* the handler runs; so does the failure of any server: no actor outlives    *)
(* the others.                                                               *)
Stops == signalled \/ failures > 0 ~> Over

(* Neither of the two senders of Server.Run is left behind on the channel.   *)
NoSenderLeft ==
    gpc = "returned" ~> (app = "exited" \/ \A s \in Servers : spc[s] = "ended")
==============================================================================
