----------------------------- MODULE WriteProxy ------------------------------
(****************************************************************************)
(* The path of a Graphite write: the middlewares in front of the handler    *)
(* (pkg/server/middleware), RemoteWriteProxy.ServeHTTP and the conversion   *)
(* (pkg/graphite/writeproxy), the client that writes to upstream with a     *)
(* timeout (pkg/remotewrite/client.go), and the pool of slices the          *)
(* concurrent handlers share.                                               *)
(*                                                                          *)
(* A request's body is a record: whether it is authorised, its size, whether *)
(* its content type is known, and its metrics: "good", "invalid" (Validate  *)
(* refuses it), "badTag" (the conversion does), or Garbled for all of them. *)
(* Series <<r, i>> is made of the i-th metric of request r.                 *)
(****************************************************************************)
EXTENDS Integers, Sequences, FiniteSets, SequencesExt

CONSTANTS
    Requests,
    Bodies,      \* the bodies a request may have
    MaxBody,     \* HTTPMaxRequestSizeLimit
    Slices,      \* the slices of series there can be
    NoSlice,     \* not a slice
    Garbled      \* the metrics of a body that cannot be parsed

Fits(b)   == b.size <= MaxBody
Parses(b) == b.known /\ b.metrics # Garbled

ASSUME WriteProxyAssumption ==
    /\ MaxBody \in Nat /\ NoSlice \notin Slices
    /\ Garbled \notin Seq(Requests \X Nat)
    /\ \A b \in Bodies : b.auth \in BOOLEAN /\ b.size \in Nat /\ b.known \in BOOLEAN
    /\ \A b \in Bodies : Parses(b) => b.metrics \in Seq({"good", "invalid", "badTag"})

Counters == {"incoming", "incomingSamples", "rejected",
             "received", "receivedSamples", "outOfOrder"}

VARIABLES
    pc,          \* where each request's handler is
    body,        \* each request's body
    slice,       \* the slice of its series; kept as a history when given back
    pool,        \* the slices in the pool
    content,     \* [Slices -> the series in it]
    sent,        \* the marshaled body of each request's write
    wire,        \* where that write is: "none", "sent", "answered", "lost"
    reply,       \* what upstream answered
    result,      \* what the client's Write returned
    store,       \* what upstream stored
    answer,      \* the status each request was answered with, or 0
    counts,      \* the counters of the recorders
    inflight     \* the gauge of Instrument

poolVars == <<slice, pool, content>>
wireVars == <<sent, wire, reply, store>>
vars == <<pc, body, poolVars, wireVars, result, answer, counts, inflight>>

Init ==
    /\ pc = [r \in Requests |-> "new"]
    /\ body \in [Requests -> Bodies]
    /\ slice = [r \in Requests |-> NoSlice]
    /\ pool = {} /\ content = [s \in Slices |-> <<>>]
    /\ sent = [r \in Requests |-> <<>>]
    /\ wire = [r \in Requests |-> "none"] /\ reply = [r \in Requests |-> "none"]
    /\ store = <<>>
    /\ result = [r \in Requests |-> "none"]
    /\ answer = [r \in Requests |-> 0]
    /\ counts = [c \in Counters |-> 0]
    /\ inflight = 0

Goto(r, p) == pc' = [pc EXCEPT ![r] = p]

(* http.Error and return: no slice was taken. *)
Refuse(r, code) == answer' = [answer EXCEPT ![r] = code] /\ Goto(r, "leaving")

(* A recorder's measure: n more in one of the counters. *)
Plus(c, counter, n) == [c EXCEPT ![counter] = @ + n]

Series(r) == [i \in DOMAIN body[r].metrics |-> <<r, i>>]
Of(r, kind) == {i \in DOMAIN body[r].metrics : body[r].metrics[i] = kind}

------------------------------------------------------------------------------
(* The middlewares: instrument, authentication, limits *)

(* Mutant: the gauge is not raised. *)
ArriveUncounted(r) ==
    /\ pc[r] = "new"
    /\ Goto(r, "auth")
    /\ UNCHANGED <<body, poolVars, wireVars, result, answer, counts, inflight>>

Arrive(r) ==
    /\ pc[r] = "new"
    /\ inflight' = inflight + 1
    /\ Goto(r, "auth")
    /\ UNCHANGED <<body, poolVars, wireVars, result, answer, counts>>

Authorise(r) ==
    /\ pc[r] = "auth"
    /\ IF body[r].auth THEN Goto(r, "read") /\ UNCHANGED answer ELSE Refuse(r, 401)
    /\ UNCHANGED <<body, poolVars, wireVars, result, counts, inflight>>

(* RequestLimits: the body is read up to one byte beyond the limit. Reading  *)
(* may time out, be cut off, or fail.                                        *)
ReadBody(r) ==
    /\ pc[r] = "read"
    /\ \/ Fits(body[r]) /\ Goto(r, "decode") /\ UNCHANGED answer
       \/ ~Fits(body[r]) /\ Refuse(r, 413)
       \/ \E code \in {408, 499, 500} : Refuse(r, code)
    /\ UNCHANGED <<body, poolVars, wireVars, result, counts, inflight>>

(* Instrument's deferred calls, when the handler has returned. *)
Leave(r) ==
    /\ pc[r] = "leaving"
    /\ inflight' = inflight - 1
    /\ Goto(r, "done")
    /\ UNCHANGED <<body, poolVars, wireVars, result, answer, counts>>

------------------------------------------------------------------------------
(* ServeHTTP *)

DecodeFails(r) ==
    /\ pc[r] = "decode" /\ ~Parses(body[r])
    /\ IF body[r].known
       THEN Refuse(r, 400) /\ counts' = Plus(counts, "rejected", 1)
       ELSE Refuse(r, 415) /\ UNCHANGED counts
    /\ UNCHANGED <<body, poolVars, wireVars, result, inflight>>

(* The request and its samples are counted before they are validated. *)
Decode(r) ==
    /\ pc[r] = "decode" /\ Parses(body[r])
    /\ counts' = Plus(Plus(counts, "incoming", 1), "incomingSamples", Len(body[r].metrics))
    /\ Goto(r, "validate")
    /\ UNCHANGED <<body, poolVars, wireVars, result, answer, inflight>>

(* All metrics are validated, each invalid one is counted. *)
Validate(r) ==
    /\ pc[r] = "validate"
    /\ counts' = Plus(counts, "rejected", Cardinality(Of(r, "invalid")))
    /\ IF Of(r, "invalid") = {} THEN Goto(r, "convert") /\ UNCHANGED answer
                                ELSE Refuse(r, 400)
    /\ UNCHANGED <<body, poolVars, wireVars, result, inflight>>

Holds(r) == pc[r] \in {"write", "waiting", "respond", "release"}

(* What the pool may give: one of its slices, or a new one. *)
FromPool == pool \cup {s \in Slices : \A r \in Requests : Holds(r) => slice[r] # s}

(* GeneratePreallocTimeseries: on an error the slice is dropped, that is,    *)
(* neither given back nor held.                                              *)
Convert(r) ==
    /\ pc[r] = "convert"
    /\ \E s \in FromPool :
        /\ pool' = pool \ {s}
        /\ IF Of(r, "badTag") = {}
           THEN /\ slice' = [slice EXCEPT ![r] = s]
                /\ content' = [content EXCEPT ![s] = Series(r)]
                /\ Goto(r, "write") /\ UNCHANGED answer
           ELSE Refuse(r, 400) /\ UNCHANGED <<slice, content>>
    /\ UNCHANGED <<body, wireVars, result, counts, inflight>>

(* client.Write marshals the series and Do sends the bytes. *)
Send(r) ==
    /\ pc[r] = "write"
    /\ sent' = [sent EXCEPT ![r] = content[slice[r]]]
    /\ wire' = [wire EXCEPT ![r] = "sent"]
    /\ Goto(r, "waiting")
    /\ UNCHANGED <<body, poolVars, reply, store, result, answer, counts, inflight>>

Returned(r, res) == result' = [result EXCEPT ![r] = res] /\ Goto(r, "respond")

(* do and errFromResp: the error says what the status was. *)
GetReply(r) ==
    /\ pc[r] = "waiting" /\ wire[r] \in {"answered", "lost"}
    /\ Returned(r, CASE wire[r] = "answered" /\ reply[r] = "200" -> "ok"
                     [] wire[r] = "answered" /\ reply[r] = "429" -> "tooMany"
                     [] OTHER -> "error")
    /\ counts' = IF wire[r] = "answered" /\ reply[r] = "400 out of order sample"
                 THEN Plus(counts, "outOfOrder", 1) ELSE counts
    /\ UNCHANGED <<body, poolVars, wireVars, answer, inflight>>

(* Mutant: the write has no timeout. *)
NoTimeOut(r) == FALSE /\ UNCHANGED vars

(* Mutant: a write that is given up gives the slice back, as does the defer. *)
TimeOutReleasing(r) ==
    /\ pc[r] = "waiting"
    /\ Returned(r, "error")
    /\ pool' = pool \cup {slice[r]}
    /\ UNCHANGED <<body, slice, content, wireVars, answer, counts, inflight>>

(* The timeout, or the request's own context: what was sent stays on its way. *)
TimeOut(r) ==
    /\ pc[r] = "waiting"
    /\ Returned(r, "error")
    /\ UNCHANGED <<body, poolVars, wireVars, answer, counts, inflight>>

(* Mutant: the samples are counted as received before the error is looked at. *)
RespondCountingAll(r) ==
    /\ pc[r] = "respond"
    /\ answer' = [answer EXCEPT ![r] =
           CASE result[r] = "ok" -> 200 [] result[r] = "tooMany" -> 429 [] OTHER -> 500]
    /\ counts' = Plus(Plus(counts, "received", 1), "receivedSamples", Len(content[slice[r]]))
    /\ Goto(r, "release")
    /\ UNCHANGED <<body, poolVars, wireVars, result, inflight>>

Respond(r) ==
    /\ pc[r] = "respond"
    /\ answer' = [answer EXCEPT ![r] =
           CASE result[r] = "ok" -> 200 [] result[r] = "tooMany" -> 429 [] OTHER -> 500]
    /\ counts' = IF result[r] = "ok"
                 THEN Plus(Plus(counts, "received", 1), "receivedSamples", Len(content[slice[r]]))
                 ELSE counts
    /\ Goto(r, "release")
    /\ UNCHANGED <<body, poolVars, wireVars, result, inflight>>

(* The deferred ReuseSlice. *)
Release(r) ==
    /\ pc[r] = "release"
    /\ pool' = pool \cup {slice[r]}
    /\ content' = [content EXCEPT ![slice[r]] = <<>>]
    /\ Goto(r, "leaving")
    /\ UNCHANGED <<body, slice, wireVars, result, answer, counts, inflight>>

------------------------------------------------------------------------------
(* Upstream and the network *)

(* Mutant: the bytes on their way are in the pooled slice. *)
OnTheWireShared(r) == content[slice[r]]

(* What the transport reads of the body when it comes to write it: the bytes *)
(* client.Write encoded, which nothing else refers to.                       *)
OnTheWire(r) == sent[r]

(* Upstream takes a write whole or not at all. It may answer a write that it *)
(* took with an error, but neither with a 400 nor with a 429.                *)
Upstream(r) ==
    /\ wire[r] = "sent"
    /\ \/ /\ store' = Append(store, [req |-> r, series |-> OnTheWire(r)])
          /\ \E status \in {"200", "500"} : reply' = [reply EXCEPT ![r] = status]
       \/ /\ \E status \in {"400", "400 out of order sample", "429", "500"} :
                reply' = [reply EXCEPT ![r] = status]
          /\ UNCHANGED store
    /\ wire' = [wire EXCEPT ![r] = "answered"]
    /\ UNCHANGED <<pc, body, poolVars, sent, result, answer, counts, inflight>>

(* The request or its answer is lost with the connection. *)
Lose(r) ==
    /\ wire[r] \in {"sent", "answered"}
    /\ wire' = [wire EXCEPT ![r] = "lost"]
    /\ UNCHANGED <<pc, body, poolVars, sent, reply, store, result, answer, counts, inflight>>

------------------------------------------------------------------------------
HandlerStep(r) ==
    \/ Authorise(r) \/ ReadBody(r) \/ DecodeFails(r) \/ Decode(r) \/ Validate(r)
    \/ Convert(r) \/ Send(r) \/ GetReply(r) \/ TimeOut(r) \/ Respond(r)
    \/ Release(r) \/ Leave(r)

Next == \E r \in Requests : Arrive(r) \/ HandlerStep(r) \/ Upstream(r) \/ Lose(r)

Spec == Init /\ [][Next]_vars

(* Handlers run and timers fire; upstream need not do anything. *)
FairSpec == Spec /\ \A r \in Requests : WF_vars(HandlerStep(r))
------------------------------------------------------------------------------
Stages == {"new", "auth", "read", "decode", "validate", "convert", "write",
           "waiting", "respond", "release", "leaving", "done"}
Statuses == {200, 400, 401, 408, 413, 415, 429, 499, 500}

TypeOK ==
    /\ pc \in [Requests -> Stages]
    /\ body \in [Requests -> Bodies]
    /\ slice \in [Requests -> Slices \cup {NoSlice}] /\ pool \subseteq Slices
    /\ content \in [Slices -> Seq(Requests \X Nat)]
    /\ sent \in [Requests -> Seq(Requests \X Nat)]
    /\ wire \in [Requests -> {"none", "sent", "answered", "lost"}]
    /\ reply \in [Requests -> {"none", "200", "400", "400 out of order sample", "429", "500"}]
    /\ result \in [Requests -> {"none", "ok", "tooMany", "error"}]
    /\ store \in Seq([req : Requests, series : Seq(Requests \X Nat)])
    /\ answer \in [Requests -> Statuses \cup {0}]
    /\ counts \in [Counters -> Nat]
    /\ inflight \in Nat

(* A pooled slice has one user: no two handlers hold one, none holds one     *)
(* that is in the pool, and what a handler put in it stays until it gives it *)
(* back, whatever became of the write.                                       *)
SliceOneUser ==
    \A r \in Requests : Holds(r) =>
        /\ slice[r] \notin pool
        /\ content[slice[r]] = Series(r)
        /\ \A q \in Requests \ {r} : Holds(q) => slice[q] # slice[r]

(* The counters tell the truth about concurrent requests: the gauge is the   *)
(* number of requests in the handlers; each sample counted as received is    *)
(* one that upstream stored; and when all handlers are done every incoming   *)
(* request was received, refused after decoding, or failed upstream.         *)
GaugeAgrees == inflight = Cardinality({r \in Requests : pc[r] \notin {"new", "done"}})

StoredSamples == UNION {Range(store[i].series) : i \in DOMAIN store}
SamplesAgree == counts["receivedSamples"] <= Cardinality(StoredSamples)

Answered(codes) == {r \in Requests : answer[r] \in codes}
RequestsAgree ==
    (\A r \in Requests : pc[r] = "done") =>
        /\ counts["received"] = Cardinality(Answered({200}))
        /\ counts["incoming"] =
               Cardinality({r \in Requests : wire[r] # "none"})
               + Cardinality({r \in Answered({400}) : Parses(body[r])})

CountersAgree == GaugeAgrees /\ SamplesAgree /\ RequestsAgree

(* The proxy implements WriteSpec.tla. *)
Promise == INSTANCE WriteSpec WITH
    NoSeries <- Garbled,
    Refusals <- {400, 401, 413, 415, 429},
    offered <- [r \in Requests |-> IF pc[r] = "new" THEN Garbled
                                   ELSE IF Parses(body[r]) THEN Series(r) ELSE <<>>]
IsWriteSpec == Promise!Spec

(* Every request that came is answered, whatever upstream does. *)
EveryAnswered == \A r \in Requests : pc[r] = "auth" ~> pc[r] = "done" /\ answer[r] # 0
==============================================================================
