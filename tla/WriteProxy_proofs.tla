--------------------------- MODULE WriteProxy_proofs --------------------------
(****************************************************************************)
(* Proofs about WriteProxy.tla, for any set of requests, any bodies and any *)
(* set of slices.                                                           *)
(****************************************************************************)
EXTENDS WriteProxy, FiniteSetTheorems, SequenceTheorems, TLAPS

(* The requests in the handlers are what the gauge counts: finitely many,   *)
(* as each of them arrived.                                                 *)
Inside == {r \in Requests : pc[r] \notin {"new", "done"}}
Gauge  == IsFiniteSet(Inside) /\ GaugeAgrees

(* What the body of a request is known to be once ServeHTTP decoded it. *)
Decoded(r) == pc[r] \in {"validate", "convert", "write", "waiting", "respond", "release"}
Parsed == \A r \in Requests : Decoded(r) => Parses(body[r])

HoldsSlice == \A r \in Requests : Holds(r) => slice[r] \in Slices

TypeInv == TypeOK /\ Gauge /\ Parsed /\ HoldsSlice

(* Before it is sent nothing is known of a write, and until Respond the     *)
(* request has no answer.                                                   *)
Early == {"new", "auth", "read", "decode", "validate", "convert", "write"}
Unanswered(r) ==
    /\ pc[r] \in Early => wire[r] = "none" /\ answer[r] = 0 /\ result[r] = "none"
    /\ pc[r] \in {"waiting", "respond", "release"} => wire[r] # "none"
    /\ pc[r] \in {"waiting", "respond"} => answer[r] = 0

(* What is stored of a request, by where its write is. *)
OnItsWay(r) ==
    /\ wire[r] = "none" => ~Promise!Stored(r)
    /\ wire[r] = "sent" => ~Promise!Stored(r) /\ sent[r] = Series(r)
    /\ wire[r] # "none" =>
           pc[r] \notin Early /\ Parses(body[r]) /\ answer[r] \in {0, 200, 429, 500}
    /\ wire[r] = "answered" /\ reply[r] = "200" => Promise!Stored(r)
    /\ wire[r] = "answered" /\ reply[r] = "429" => ~Promise!Stored(r)

(* What the client's Write returned, and what was answered, is true. *)
Truthful(r) ==
    /\ result[r] = "ok" => Promise!Stored(r)
    /\ result[r] = "tooMany" => ~Promise!Stored(r) /\ wire[r] \in {"answered", "lost"}
    /\ answer[r] = 200 => result[r] = "ok"
    /\ answer[r] = 429 => result[r] = "tooMany"

Settled(r) == Unanswered(r) /\ OnItsWay(r) /\ Truthful(r)

(* Upstream has the series of requests, as they were made. *)
StoredWhole == \A i \in DOMAIN store : store[i].series = Series(store[i].req)

WriteInv ==
    TypeInv /\ SliceOneUser /\ (\A r \in Requests : Settled(r)) /\ StoredWhole

(* The requests that were counted as incoming, and as received. *)
Taken(r) == Decoded(r) \/ wire[r] # "none" \/ (answer[r] = 400 /\ Parses(body[r]))
Incoming == {r \in Requests : Taken(r)}
Received == {r \in Requests : answer[r] = 200}
ReceivedSamples ==
    {x \in Requests \X Nat : x[1] \in Received /\ x[2] \in DOMAIN body[x[1]].metrics}

(* The counters count them. *)
Counted ==
    /\ IsFiniteSet(Incoming) /\ counts["incoming"] = Cardinality(Incoming)
    /\ IsFiniteSet(Received) /\ counts["received"] = Cardinality(Received)
    /\ IsFiniteSet(ReceivedSamples)
    /\ counts["receivedSamples"] = Cardinality(ReceivedSamples)
    /\ IsFiniteSet(StoredSamples)

------------------------------------------------------------------------------
(* One more, and one less. *)
LEMMA OneMore ==
    ASSUME NEW S, IsFiniteSet(S), NEW x, x \notin S
    PROVE  IsFiniteSet(S \cup {x}) /\ Cardinality(S \cup {x}) = Cardinality(S) + 1
BY FS_AddElement

LEMMA OneLess ==
    ASSUME NEW S, IsFiniteSet(S), NEW x \in S
    PROVE  /\ IsFiniteSet(S \ {x}) /\ Cardinality(S \ {x}) = Cardinality(S) - 1
           /\ Cardinality(S) \in Nat /\ Cardinality(S) > 0
<1>1. IsFiniteSet(S \ {x}) /\ Cardinality(S \ {x}) = Cardinality(S) - 1
  BY FS_RemoveElement
<1>2. Cardinality(S) \in Nat /\ Cardinality(S \ {x}) \in Nat
  BY <1>1, FS_CardinalityType
<1> QED BY <1>1, <1>2

(* The metrics of a body that parses, and the series made of them. *)
LEMMA SeriesType ==
    ASSUME NEW r \in Requests, body \in [Requests -> Bodies], Parses(body[r])
    PROVE  /\ Len(body[r].metrics) \in Nat
           /\ DOMAIN body[r].metrics = 1 .. Len(body[r].metrics)
           /\ Series(r) \in Seq(Requests \X Nat)
           /\ Len(Series(r)) = Len(body[r].metrics)
<1> DEFINE ms == body[r].metrics
<1>1. ms \in Seq({"good", "invalid", "badTag"})
  BY WriteProxyAssumption
<1>2. Len(ms) \in Nat /\ DOMAIN ms = 1 .. Len(ms)
  BY <1>1
<1>3. Series(r) = [i \in 1 .. Len(ms) |-> <<r, i>>]
  BY <1>2 DEF Series
<1>4. \A i \in 1 .. Len(ms) : <<r, i>> \in Requests \X Nat
  BY <1>2
<1>5. Series(r) \in Seq(Requests \X Nat) /\ Len(Series(r)) = Len(ms)
  BY <1>2, <1>3, <1>4
<1> QED BY <1>2, <1>5

(* The metrics of one kind can be counted. *)
LEMMA OfCounts ==
    ASSUME NEW r \in Requests, body \in [Requests -> Bodies], Parses(body[r]), NEW kind
    PROVE  Cardinality(Of(r, kind)) \in Nat
<1>1. Of(r, kind) \subseteq 1 .. Len(body[r].metrics) /\ Len(body[r].metrics) \in Nat
  BY SeriesType DEF Of
<1>2. IsFiniteSet(1 .. Len(body[r].metrics))
  BY <1>1, FS_Interval
<1>3. IsFiniteSet(Of(r, kind))
  BY <1>1, <1>2, FS_Subset
<1> QED BY <1>3, FS_CardinalityType

(* A measure keeps the counters counts. *)
LEMMA PlusType ==
    ASSUME NEW c \in [Counters -> Nat], NEW counter \in Counters, NEW n \in Nat
    PROVE  Plus(c, counter, n) \in [Counters -> Nat]
BY DEF Plus

(* What a request that moves on in the handlers owes to the invariant. *)
Moved(r, p) ==
    /\ Goto(r, p) /\ p \in Stages \ {"new", "done"} /\ pc[r] \notin {"new", "done"}
    /\ p \in {"validate", "convert", "write", "waiting", "respond", "release"} =>
           Parses(body[r])
    /\ p \in {"write", "waiting", "respond", "release"} => slice'[r] \in Slices
    /\ \A q \in Requests \ {r} : slice'[q] = slice[q]
    /\ UNCHANGED <<body, inflight>>

LEMMA MovedKeeps ==
    ASSUME TypeInv, NEW r \in Requests, NEW p, Moved(r, p)
    PROVE  pc' \in [Requests -> Stages] /\ Gauge' /\ Parsed' /\ HoldsSlice'
<1> USE DEF TypeInv
<1>1. /\ pc' \in [Requests -> Stages] /\ pc'[r] = p
      /\ \A q \in Requests \ {r} : pc'[q] = pc[q]
  BY DEF Moved, Goto, TypeOK
<1>2. Inside' = Inside
  BY <1>1 DEF Inside, Moved, Stages
<1>3. Gauge'
  BY <1>2 DEF Gauge, GaugeAgrees, Inside, Moved
<1>4. Parsed'
  <2> SUFFICES ASSUME NEW q \in Requests, Decoded(q)' PROVE Parses(body'[q])
    BY DEF Parsed
  <2>1. CASE q = r
    BY <1>1, <2>1 DEF Moved, Decoded
  <2>2. CASE q # r
    BY <1>1, <2>2 DEF Moved, Parsed, Decoded
  <2> QED BY <2>1, <2>2
<1>5. HoldsSlice'
  <2> SUFFICES ASSUME NEW q \in Requests, Holds(q)' PROVE slice'[q] \in Slices
    BY DEF HoldsSlice
  <2>1. CASE q = r
    BY <1>1, <2>1 DEF Moved, Holds
  <2>2. CASE q # r
    BY <1>1, <2>2 DEF Moved, HoldsSlice, Holds
  <2> QED BY <2>1, <2>2
<1> QED BY <1>1, <1>3, <1>4, <1>5

LEMMA TypeInvInit == Init => TypeInv
<1> SUFFICES ASSUME Init PROVE TypeInv
  OBVIOUS
<1>1. TypeOK
  BY WriteProxyAssumption DEF Init, TypeOK, Stages, Counters, Statuses
<1>2. Inside = {}
  BY DEF Init, Inside
<1>3. Gauge
  BY <1>2, FS_EmptySet DEF Gauge, GaugeAgrees, Inside, Init
<1>4. Parsed /\ HoldsSlice
  BY DEF Init, Parsed, Decoded, HoldsSlice, Holds
<1> QED BY <1>1, <1>3, <1>4 DEF TypeInv

LEMMA TypeInvStep == TypeInv /\ [Next]_vars => TypeInv'
<1> SUFFICES ASSUME TypeInv, [Next]_vars PROVE TypeInv'
  OBVIOUS
<1> USE DEF TypeInv
<1>a. answer \in [Requests -> Statuses \cup {0}]
  BY DEF TypeOK
<1>b. store \in Seq([req : Requests, series : Seq(Requests \X Nat)])
  BY DEF TypeOK
<1>0. /\ counts \in [Counters -> Nat]
      /\ content \in [Slices -> Seq(Requests \X Nat)] /\ pool \subseteq Slices
      /\ sent \in [Requests -> Seq(Requests \X Nat)] /\ inflight \in Nat
  BY DEF TypeOK
<1>1. CASE UNCHANGED vars
  <2>1. TypeOK' /\ Parsed' /\ HoldsSlice'
    BY <1>1 DEF vars, poolVars, wireVars, TypeOK, Parsed, Decoded, HoldsSlice, Holds
  <2>2. Gauge'
    BY <1>1 DEF vars, Gauge, GaugeAgrees, Inside
  <2> QED BY <2>1, <2>2
<1>2. ASSUME NEW r \in Requests, Arrive(r) PROVE TypeInv'
  <2>1. TypeOK'
    <3>1. pc' \in [Requests -> Stages]
      BY <1>2 DEF Arrive, Goto, TypeOK, Stages
    <3>2. inflight' \in Nat
      BY <1>0, <1>2 DEF Arrive
    <3> QED BY <1>2, <3>1, <3>2 DEF Arrive, poolVars, wireVars, TypeOK
  <2>2. Parsed' /\ HoldsSlice'
    BY <1>2 DEF Arrive, Goto, poolVars, TypeOK, Parsed, Decoded, HoldsSlice, Holds
  <2>3. r \notin Inside /\ Inside' = Inside \cup {r}
    BY <1>2 DEF Arrive, Goto, Inside, TypeOK
  <2>4. Gauge'
    BY <1>2, <2>3, OneMore DEF Gauge, GaugeAgrees, Inside, Arrive
  <2> QED BY <2>1, <2>2, <2>4
<1>3. ASSUME NEW r \in Requests, Leave(r) PROVE TypeInv'
  <2>1. r \in Inside /\ Inside' = Inside \ {r}
    BY <1>3 DEF Leave, Goto, Inside, TypeOK
  <2>2. Gauge' /\ inflight' \in Nat
    <3>1. IsFiniteSet(Inside) /\ inflight = Cardinality(Inside)
      BY DEF Gauge, GaugeAgrees, Inside
    <3>2. /\ IsFiniteSet(Inside \ {r}) /\ Cardinality(Inside \ {r}) = Cardinality(Inside) - 1
          /\ Cardinality(Inside) \in Nat /\ Cardinality(Inside) > 0
      BY <2>1, <3>1, OneLess
    <3>3. inflight' = inflight - 1
      BY <1>3 DEF Leave
    <3>4. inflight' = Cardinality(Inside \ {r}) /\ inflight' \in Nat
      BY <3>1, <3>2, <3>3
    <3> QED BY <2>1, <3>2, <3>4 DEF Gauge, GaugeAgrees, Inside
  <2>3. TypeOK'
    BY <1>3, <2>2 DEF Leave, Goto, poolVars, wireVars, TypeOK, Stages
  <2>4. Parsed' /\ HoldsSlice'
    BY <1>3 DEF Leave, Goto, poolVars, TypeOK, Parsed, Decoded, HoldsSlice, Holds
  <2> QED BY <2>2, <2>3, <2>4
<1>4. ASSUME NEW r \in Requests, Authorise(r) PROVE TypeInv'
  <2>1. Moved(r, "read") \/ Moved(r, "leaving")
    BY <1>4 DEF Moved, Stages, Goto, TypeOK, Parsed, Decoded, HoldsSlice, Holds,
       Authorise, Refuse, poolVars, wireVars
  <2>2. pc' \in [Requests -> Stages] /\ Gauge' /\ Parsed' /\ HoldsSlice'
    BY <2>1, MovedKeeps
  <2>3. answer' \in [Requests -> Statuses \cup {0}]
    BY <1>a, <1>4 DEF Authorise, Refuse, Statuses
  <2>4. TypeOK'
    BY <1>4, <2>2, <2>3 DEF TypeOK, Authorise, poolVars, wireVars
  <2> QED BY <2>2, <2>4
<1>5. ASSUME NEW r \in Requests, ReadBody(r) PROVE TypeInv'
  <2>1. Moved(r, "decode") \/ Moved(r, "leaving")
    BY <1>5 DEF Moved, Stages, Goto, TypeOK, Parsed, Decoded, HoldsSlice, Holds, ReadBody,
       Refuse, poolVars, wireVars
  <2>2. pc' \in [Requests -> Stages] /\ Gauge' /\ Parsed' /\ HoldsSlice'
    BY <2>1, MovedKeeps
  <2>3. answer' \in [Requests -> Statuses \cup {0}]
    BY <1>a, <1>5 DEF ReadBody, Refuse, Statuses
  <2>4. TypeOK'
    BY <1>5, <2>2, <2>3 DEF TypeOK, ReadBody, poolVars, wireVars
  <2> QED BY <2>2, <2>4
<1>6. ASSUME NEW r \in Requests, DecodeFails(r) PROVE TypeInv'
  <2>1. Moved(r, "leaving")
    BY <1>6 DEF Moved, Stages, Goto, TypeOK, Parsed, Decoded, HoldsSlice, Holds,
       DecodeFails, Refuse, poolVars, wireVars
  <2>2. pc' \in [Requests -> Stages] /\ Gauge' /\ Parsed' /\ HoldsSlice'
    BY <2>1, MovedKeeps
  <2>3. answer' \in [Requests -> Statuses \cup {0}]
    BY <1>a, <1>6 DEF DecodeFails, Refuse, Statuses
  <2>4. Plus(counts, "rejected", 1) \in [Counters -> Nat]
    BY <1>0, PlusType DEF Counters
  <2>5. counts' \in [Counters -> Nat]
    BY <1>0, <1>6, <2>4 DEF DecodeFails
  <2>6. TypeOK'
    BY <1>6, <2>2, <2>3, <2>4, <2>5 DEF TypeOK, DecodeFails, poolVars, wireVars
  <2> QED BY <2>2, <2>6
<1>7. ASSUME NEW r \in Requests, Decode(r) PROVE TypeInv'
  <2>1. Moved(r, "validate")
    BY <1>7 DEF Moved, Stages, Goto, TypeOK, Parsed, Decoded, HoldsSlice, Holds, Decode,
       poolVars, wireVars
  <2>2. pc' \in [Requests -> Stages] /\ Gauge' /\ Parsed' /\ HoldsSlice'
    BY <2>1, MovedKeeps
  <2>3. Len(body[r].metrics) \in Nat
    BY <1>0, <1>7, SeriesType DEF Decode, TypeOK
  <2>4. counts' \in [Counters -> Nat]
    BY <1>0, <1>7, <2>3, PlusType DEF Decode, Counters
  <2>5. TypeOK'
    BY <1>7, <2>2, <2>3, <2>4 DEF TypeOK, Decode, poolVars, wireVars
  <2> QED BY <2>2, <2>5
<1>8. ASSUME NEW r \in Requests, Validate(r) PROVE TypeInv'
  <2>1. Moved(r, "convert") \/ Moved(r, "leaving")
    BY <1>8 DEF Moved, Stages, Goto, TypeOK, Parsed, Decoded, HoldsSlice, Holds, Validate,
       Refuse, poolVars, wireVars
  <2>2. pc' \in [Requests -> Stages] /\ Gauge' /\ Parsed' /\ HoldsSlice'
    BY <2>1, MovedKeeps
  <2>3. answer' \in [Requests -> Statuses \cup {0}]
    BY <1>a, <1>8 DEF Validate, Refuse, Statuses
  <2>4. Cardinality(Of(r, "invalid")) \in Nat
    BY <1>0, <1>8, OfCounts DEF Validate, TypeOK, Parsed, Decoded
  <2>5. counts' \in [Counters -> Nat]
    BY <1>0, <1>8, <2>4, PlusType DEF Validate, Counters
  <2>6. TypeOK'
    BY <1>8, <2>2, <2>3, <2>4, <2>5 DEF TypeOK, Validate, poolVars, wireVars
  <2> QED BY <2>2, <2>6
<1>9. ASSUME NEW r \in Requests, Convert(r) PROVE TypeInv'
  <2>1. Moved(r, "write") \/ Moved(r, "leaving")
    BY <1>9 DEF Moved, Stages, Goto, TypeOK, Parsed, Decoded, HoldsSlice, Holds, Convert,
       Refuse, FromPool, poolVars, wireVars
  <2>2. pc' \in [Requests -> Stages] /\ Gauge' /\ Parsed' /\ HoldsSlice'
    BY <2>1, MovedKeeps
  <2>3. answer' \in [Requests -> Statuses \cup {0}]
    BY <1>a, <1>9 DEF Convert, Refuse, Statuses
  <2>4. slice' \in [Requests -> Slices \cup {NoSlice}] /\ pool' \subseteq Slices
    BY <1>0, <1>9 DEF Convert, FromPool, TypeOK
  <2>5. content' \in [Slices -> Seq(Requests \X Nat)]
    BY <1>0, <1>9, SeriesType DEF Convert, FromPool, Parsed, Decoded, TypeOK
  <2>6. TypeOK'
    BY <1>9, <2>2, <2>3, <2>4, <2>5 DEF TypeOK, Convert, poolVars, wireVars
  <2> QED BY <2>2, <2>6
<1>10. ASSUME NEW r \in Requests, Send(r) PROVE TypeInv'
  <2>1. Moved(r, "waiting")
    BY <1>10 DEF Moved, Stages, Goto, TypeOK, Parsed, Decoded, HoldsSlice, Holds, Send,
       poolVars, wireVars
  <2>2. pc' \in [Requests -> Stages] /\ Gauge' /\ Parsed' /\ HoldsSlice'
    BY <2>1, MovedKeeps
  <2>3. sent' \in [Requests -> Seq(Requests \X Nat)]
    BY <1>0, <1>10 DEF Send, HoldsSlice, Holds
  <2>4. wire' \in [Requests -> {"none", "sent", "answered", "lost"}]
    BY <1>0, <1>10 DEF Send, TypeOK
  <2>5. TypeOK'
    BY <1>10, <2>2, <2>3, <2>4 DEF TypeOK, Send, poolVars, wireVars
  <2> QED BY <2>2, <2>5
<1>11. ASSUME NEW r \in Requests, GetReply(r) PROVE TypeInv'
  <2>1. Moved(r, "respond")
    BY <1>11 DEF Moved, Stages, Goto, TypeOK, Parsed, Decoded, HoldsSlice, Holds,
       GetReply, Returned, poolVars, wireVars
  <2>2. pc' \in [Requests -> Stages] /\ Gauge' /\ Parsed' /\ HoldsSlice'
    BY <2>1, MovedKeeps
  <2>3. result' \in [Requests -> {"none", "ok", "tooMany", "error"}]
    BY <1>0, <1>11 DEF GetReply, Returned, TypeOK
  <2>4. counts' \in [Counters -> Nat]
    BY <1>0, <1>11, PlusType DEF GetReply, Counters
  <2>5. TypeOK'
    BY <1>11, <2>2, <2>3, <2>4 DEF TypeOK, GetReply, poolVars, wireVars
  <2> QED BY <2>2, <2>5
<1>12. ASSUME NEW r \in Requests, TimeOut(r) PROVE TypeInv'
  <2>1. Moved(r, "respond")
    BY <1>12 DEF Moved, Stages, Goto, TypeOK, Parsed, Decoded, HoldsSlice, Holds, TimeOut,
       Returned, poolVars, wireVars
  <2>2. pc' \in [Requests -> Stages] /\ Gauge' /\ Parsed' /\ HoldsSlice'
    BY <2>1, MovedKeeps
  <2>3. result' \in [Requests -> {"none", "ok", "tooMany", "error"}]
    BY <1>0, <1>12 DEF TimeOut, Returned, TypeOK
  <2>4. TypeOK'
    BY <1>12, <2>2, <2>3 DEF TypeOK, TimeOut, poolVars, wireVars
  <2> QED BY <2>2, <2>4
<1>13. ASSUME NEW r \in Requests, Respond(r) PROVE TypeInv'
  <2>1. Moved(r, "release")
    BY <1>13 DEF Moved, Stages, Goto, TypeOK, Parsed, Decoded, HoldsSlice, Holds, Respond,
       Plus, poolVars, wireVars
  <2>2. pc' \in [Requests -> Stages] /\ Gauge' /\ Parsed' /\ HoldsSlice'
    BY <2>1, MovedKeeps
  <2>3. answer' \in [Requests -> Statuses \cup {0}]
    BY <1>a, <1>13 DEF Respond, Statuses
  <2>4. Len(content[slice[r]]) \in Nat
    BY <1>0, <1>13 DEF Respond, HoldsSlice, Holds
  <2>5. Plus(Plus(counts, "received", 1), "receivedSamples",
      Len(content[slice[r]])) \in [Counters -> Nat]
    BY <1>0, <1>13, <2>4, PlusType DEF Counters
  <2>6. counts' \in [Counters -> Nat]
    BY <1>0, <1>13, <2>5 DEF Respond
  <2>7. TypeOK'
    BY <1>13, <2>2, <2>3, <2>4, <2>5, <2>6 DEF TypeOK, Respond, poolVars, wireVars
  <2> QED BY <2>2, <2>7
<1>14. ASSUME NEW r \in Requests, Release(r) PROVE TypeInv'
  <2>1. Moved(r, "leaving")
    BY <1>14 DEF Moved, Stages, Goto, TypeOK, Parsed, Decoded, HoldsSlice, Holds, Release,
       poolVars, wireVars
  <2>2. pc' \in [Requests -> Stages] /\ Gauge' /\ Parsed' /\ HoldsSlice'
    BY <2>1, MovedKeeps
  <2>3. pool' \subseteq Slices /\ content' \in [Slices -> Seq(Requests \X Nat)]
    BY <1>0, <1>14 DEF Release, HoldsSlice, Holds
  <2>4. TypeOK'
    BY <1>14, <2>2, <2>3 DEF TypeOK, Release, poolVars, wireVars
  <2> QED BY <2>2, <2>4
<1>15. ASSUME NEW r \in Requests, Upstream(r) \/ Lose(r) PROVE TypeInv'
  <2>1. store' \in Seq([req : Requests, series : Seq(Requests \X Nat)])
    <3> DEFINE Writes == [req : Requests, series : Seq(Requests \X Nat)]
               write == [req |-> r, series |-> sent[r]]
    <3>1. UNCHANGED store \/ store' = Append(store, write)
      BY <1>15 DEF Upstream, Lose, OnTheWire
    <3>2. write \in Writes
      BY <1>0
    <3>3. store \in Seq(Writes)
      BY <1>b
    <3> HIDE DEF write, Writes
    <3>4. Append(store, write) \in Seq(Writes)
      BY <3>2, <3>3, AppendProperties
    <3>5. store' \in Seq(Writes)
      BY <3>1, <3>3, <3>4
    <3> QED BY <3>5 DEF Writes
  <2>2. TypeOK'
    <3>1. wire' \in [Requests -> {"none", "sent", "answered", "lost"}]
      BY <1>15 DEF Upstream, Lose, TypeOK
    <3>2. reply' \in
            [Requests ->
               {"none", "200", "400", "400 out of order sample", "429", "500"}]
      BY <1>15 DEF Upstream, Lose, TypeOK
    <3>3. UNCHANGED <<pc, body, poolVars, sent, result, answer, counts, inflight>>
      BY <1>15 DEF Upstream, Lose
    <3> QED BY <2>1, <3>1, <3>2, <3>3 DEF poolVars, TypeOK
  <2>3. Parsed' /\ HoldsSlice'
    BY <1>15 DEF Upstream, Lose, poolVars, Parsed, Decoded, HoldsSlice, Holds
  <2>4. Gauge'
    BY <1>15 DEF Upstream, Lose, Gauge, GaugeAgrees, Inside
  <2> QED BY <2>2, <2>3, <2>4
<1> QED
  BY <1>1, <1>2, <1>3, <1>4, <1>5, <1>6, <1>7, <1>8, <1>9, <1>10, <1>11, <1>12, <1>13,
     <1>14, <1>15 DEF Next, HandlerStep

(* Every variable keeps its type. *)
THEOREM TypeCorrect == Spec => []TypeOK
<1>1. Spec => []TypeInv
  BY TypeInvInit, TypeInvStep, PTL DEF Spec
<1>2. TypeInv => TypeOK
  BY DEF TypeInv
<1> QED BY <1>1, <1>2, PTL

------------------------------------------------------------------------------
(* A pooled slice has one user. Only Convert and Release give or take one. *)
LEMMA SliceKept ==
    ASSUME SliceOneUser, UNCHANGED <<body, poolVars>>,
           \A q \in Requests : Holds(q)' => Holds(q)
    PROVE  SliceOneUser'
BY DEF SliceOneUser, Series, poolVars

LEMMA SliceOneUserStep == TypeInv /\ SliceOneUser /\ [Next]_vars => SliceOneUser'
<1> SUFFICES ASSUME TypeInv, SliceOneUser, [Next]_vars PROVE SliceOneUser'
  OBVIOUS
<1>0. /\ pc \in [Requests -> Stages] /\ slice \in [Requests -> Slices \cup {NoSlice}]
      /\ pool \subseteq Slices /\ content \in [Slices -> Seq(Requests \X Nat)]
  BY DEF TypeInv, TypeOK
<1>1. ASSUME NEW r \in Requests, Convert(r) PROVE SliceOneUser'
  <2>1. PICK s \in FromPool :
          /\ pool' = pool \ {s}
          /\ IF Of(r, "badTag") = {}
             THEN /\ slice' = [slice EXCEPT ![r] = s]
                  /\ content' = [content EXCEPT ![s] = Series(r)]
                  /\ Goto(r, "write")
             ELSE Goto(r, "leaving") /\ UNCHANGED <<slice, content>>
    BY <1>1 DEF Convert, Refuse
  <2>2. UNCHANGED body /\ pc[r] = "convert" /\ ~Holds(r)
    BY <1>1 DEF Convert, Holds
  <2>3. s \in Slices /\ \A q \in Requests : Holds(q) => slice[q] # s
    BY <1>0, <2>1 DEF FromPool, SliceOneUser
  <2>4. \A q \in Requests : Series(q)' = Series(q)
    BY <2>2 DEF Series
  <2>5. CASE Of(r, "badTag") = {}
    <3>1. /\ slice'[r] = s /\ content'[s] = Series(r)
          /\ \A q \in Requests \ {r} : (Holds(q)' <=> Holds(q)) /\ slice'[q] = slice[q]
      BY <1>0, <2>1, <2>3, <2>5 DEF Goto, Holds
    <3>2. \A q \in Requests \ {r} : Holds(q) => content'[slice[q]] = Series(q)
      BY <1>0, <2>1, <2>3, <2>5 DEF SliceOneUser, TypeInv, HoldsSlice
    <3> SUFFICES ASSUME NEW q \in Requests, Holds(q)'
                 PROVE  /\ slice'[q] \notin pool' /\ content'[slice'[q]] = Series(q)'
                        /\ \A t \in Requests \ {q} : Holds(t)' => slice'[t] # slice'[q]
      BY DEF SliceOneUser
    <3>3. CASE q = r
      BY <2>1, <2>3, <2>4, <3>1, <3>3
    <3>4. CASE q # r
      BY <2>1, <2>3, <2>4, <3>1, <3>2, <3>4 DEF SliceOneUser
    <3> QED BY <3>3, <3>4
  <2>6. CASE Of(r, "badTag") # {}
    <3>1. \A q \in Requests : Holds(q)' => Holds(q)
      BY <1>0, <2>1, <2>6 DEF Goto, Holds
    <3> QED BY <2>1, <2>2, <2>4, <2>6, <3>1 DEF SliceOneUser
  <2> QED BY <2>5, <2>6
<1>2. ASSUME NEW r \in Requests, Release(r) PROVE SliceOneUser'
  <2>1. Holds(r) /\ slice[r] \in Slices
    BY <1>2 DEF Release, Holds, TypeInv, HoldsSlice
  <2>2. \A q \in Requests : Holds(q)' <=> Holds(q) /\ q # r
    BY <1>0, <1>2 DEF Release, Goto, Holds
  <2>3. \A q \in Requests : Series(q)' = Series(q)
    BY <1>2 DEF Release, Series
  <2> QED BY <1>0, <1>2, <2>1, <2>2, <2>3 DEF SliceOneUser, Release
<1>3. ASSUME NEW r \in Requests,
             \/ Arrive(r) \/ Leave(r) \/ Upstream(r) \/ Lose(r)
             \/ Authorise(r) \/ ReadBody(r) \/ DecodeFails(r) \/ Decode(r) \/ Validate(r)
             \/ Send(r) \/ GetReply(r) \/ TimeOut(r) \/ Respond(r)
      PROVE  SliceOneUser'
  <2>1. UNCHANGED <<body, poolVars>>
    BY <1>3 DEF Arrive, Leave, Upstream, Lose, Authorise, ReadBody, DecodeFails, Decode,
                Validate, Send, GetReply, TimeOut, Respond
  <2>2. \A q \in Requests : Holds(q)' => Holds(q)
    <3>1. CASE Upstream(r) \/ Lose(r)
      BY <3>1 DEF Upstream, Lose, Holds
    <3>2. CASE Send(r) \/ GetReply(r) \/ TimeOut(r) \/ Respond(r)
      BY <1>0, <3>2 DEF Send, GetReply, TimeOut, Respond, Returned, Goto, Holds
    <3>3. CASE \/ Arrive(r) \/ Leave(r) \/ Authorise(r) \/ ReadBody(r)
               \/ DecodeFails(r) \/ Decode(r) \/ Validate(r)
      <4>1. \E p : Goto(r, p) /\ p \notin {"write", "waiting", "respond", "release"}
        BY <3>3 DEF Arrive, Leave, Authorise, ReadBody, DecodeFails, Decode, Validate,
                    Refuse
      <4> QED BY <1>0, <4>1 DEF Goto, Holds
    <3> QED BY <1>3, <3>1, <3>2, <3>3
  <2> QED BY <2>1, <2>2, SliceKept
<1>4. CASE UNCHANGED vars
  BY <1>4, SliceKept DEF vars, Holds
<1> QED BY <1>1, <1>2, <1>3, <1>4 DEF Next, HandlerStep

(* A slice of the pool has one user, for any number of concurrent requests,  *)
(* also when a write is given up and is still on its way.                    *)
THEOREM SliceOneUserAlways == Spec => []SliceOneUser
<1>1. Init => TypeInv /\ SliceOneUser
  BY TypeInvInit DEF Init, SliceOneUser, Holds
<1>2. TypeInv /\ SliceOneUser /\ [Next]_vars => (TypeInv /\ SliceOneUser)'
  BY TypeInvStep, SliceOneUserStep
<1> QED BY <1>1, <1>2, PTL DEF Spec

------------------------------------------------------------------------------
(* The promise. What stays of a request that a step is not about. *)
LEMMA SameStore ==
    ASSUME UNCHANGED <<body, store>>
    PROVE  /\ \A q \in Requests : Promise!Stored(q)' <=> Promise!Stored(q)
           /\ \A q \in Requests : Series(q)' = Series(q)
           /\ StoredWhole => StoredWhole'
BY DEF Promise!Stored, Series, StoredWhole

LEMMA OtherKept ==
    ASSUME NEW q \in Requests, Settled(q), UNCHANGED body,
           UNCHANGED <<pc[q], wire[q], reply[q], sent[q], result[q], answer[q]>>,
           Promise!Stored(q)' <=> Promise!Stored(q)
    PROVE  Settled(q)'
<1>1. Series(q)' = Series(q)
  BY DEF Series
<1>2. /\ pc'[q] = pc[q] /\ wire'[q] = wire[q] /\ reply'[q] = reply[q] /\ sent'[q] = sent[q]
      /\ result'[q] = result[q] /\ answer'[q] = answer[q]
  OBVIOUS
<1>3. Unanswered(q)' /\ Truthful(q)'
  BY <1>2 DEF Settled, Unanswered, Truthful
<1>4. OnItsWay(q)'
  BY <1>1, <1>2 DEF Settled, OnItsWay
<1> QED BY <1>3, <1>4 DEF Settled

(* What a handler does before it sends: go on, or refuse. *)
LEMMA EarlyKept ==
    ASSUME TypeOK, NEW r \in Requests, NEW p, Goto(r, p), pc[r] \in Early,
           \A q \in Requests : Settled(q), UNCHANGED <<body, wireVars, result>>,
           \/ p \in Early /\ UNCHANGED answer
           \/ p = "leaving" /\ \E code \in {400, 401, 408, 413, 415, 499, 500} :
                  answer' = [answer EXCEPT ![r] = code]
    PROVE  \A q \in Requests : Settled(q)'
<1>1. \A q \in Requests : Promise!Stored(q)' <=> Promise!Stored(q)
  BY SameStore DEF wireVars
<1>2. /\ pc'[r] = p /\ \A q \in Requests \ {r} : pc'[q] = pc[q] /\ answer'[q] = answer[q]
      /\ answer'[r] \in {answer[r], 400, 401, 408, 413, 415, 499, 500}
      /\ p \in Early => answer'[r] = answer[r]
  <2>1. /\ pc \in [Requests -> Stages] /\ answer \in [Requests -> Statuses \cup {0}]
    BY DEF TypeOK
  <2>2. CASE p \in Early /\ UNCHANGED answer
    BY <2>1, <2>2 DEF Goto
  <2>3. CASE p = "leaving" /\ \E code \in {400, 401, 408, 413, 415, 499, 500} :
                answer' = [answer EXCEPT ![r] = code]
    BY <2>1, <2>3 DEF Goto, Early
  <2> QED BY <2>2, <2>3
<1>3. Settled(r)'
  <2>1. wire[r] = "none" /\ answer[r] = 0 /\ result[r] = "none" /\ ~Promise!Stored(r)
    BY DEF Settled, Unanswered, OnItsWay
  <2>2. wire'[r] = "none" /\ result'[r] = "none" /\ ~Promise!Stored(r)'
    BY <1>1, <2>1 DEF wireVars
  <2>3. p \in Early \/ p = "leaving"
    OBVIOUS
  <2>4. Unanswered(r)'
    BY <1>2, <2>1, <2>2, <2>3 DEF Unanswered, Early
  <2>5. OnItsWay(r)'
    BY <2>2 DEF OnItsWay
  <2>6. Truthful(r)'
    BY <1>2, <2>1, <2>2 DEF Truthful
  <2> QED BY <2>4, <2>5, <2>6 DEF Settled
<1>4. ASSUME NEW q \in Requests \ {r} PROVE Settled(q)'
  BY <1>1, <1>2, OtherKept DEF wireVars
<1> QED BY <1>3, <1>4

(* What Upstream adds to the store. *)
LEMMA StoreGrows ==
    ASSUME TypeOK, NEW r \in Requests,
           store' = Append(store, [req |-> r, series |-> sent[r]])
    PROVE  /\ DOMAIN store' = 1 .. Len(store) + 1 /\ Len(store) \in Nat
           /\ DOMAIN store = 1 .. Len(store)
           /\ store'[Len(store) + 1] = [req |-> r, series |-> sent[r]]
           /\ \A i \in DOMAIN store : store'[i] = store[i]
           /\ Promise!Stored(r)'
           /\ \A q \in Requests \ {r} : Promise!Stored(q)' <=> Promise!Stored(q)
<1> DEFINE Writes == [req : Requests, series : Seq(Requests \X Nat)]
           write == [req |-> r, series |-> sent[r]]
<1>1. store \in Seq(Writes) /\ store' = Append(store, write)
  BY DEF TypeOK
<1>2. write.req = r
  OBVIOUS
<1> HIDE DEF write, Writes
<1>3. /\ DOMAIN store' = 1 .. Len(store) + 1 /\ Len(store) \in Nat
      /\ DOMAIN store = 1 .. Len(store) /\ store'[Len(store) + 1] = write
      /\ \A i \in DOMAIN store : store'[i] = store[i]
  BY <1>1, AppendProperties, LenProperties
<1>4. Promise!Stored(r)'
  BY <1>2, <1>3 DEF Promise!Stored
<1>5. ASSUME NEW q \in Requests \ {r} PROVE Promise!Stored(q)' <=> Promise!Stored(q)
  <2>1. Promise!Stored(q) => Promise!Stored(q)'
    BY <1>3 DEF Promise!Stored
  <2>2. ASSUME Promise!Stored(q)' PROVE Promise!Stored(q)
    <3>1. PICK i \in 1 .. Len(store) + 1 : store'[i].req = q
      BY <1>3, <2>2 DEF Promise!Stored
    <3>2. i \in 1 .. Len(store)
      BY <1>2, <1>3, <3>1
    <3> QED BY <1>3, <3>1, <3>2 DEF Promise!Stored
  <2> QED BY <2>1, <2>2
<1> QED BY <1>3, <1>4, <1>5 DEF write

LEMMA SettledStep ==
    WriteInv /\ [Next]_vars => (\A q \in Requests : Settled(q)') /\ StoredWhole'
<1> SUFFICES ASSUME WriteInv, [Next]_vars
             PROVE  (\A q \in Requests : Settled(q)') /\ StoredWhole'
  OBVIOUS
<1> DEFINE Goal == (\A q \in Requests : Settled(q)') /\ StoredWhole'
<1>0. /\ pc \in [Requests -> Stages]
      /\ wire \in [Requests -> {"none", "sent", "answered", "lost"}]
      /\ answer \in [Requests -> Statuses \cup {0}]
      /\ result \in [Requests -> {"none", "ok", "tooMany", "error"}]
      /\ reply \in [Requests -> {"none", "200", "400", "400 out of order sample", "429", "500"}]
      /\ sent \in [Requests -> Seq(Requests \X Nat)]
  BY DEF WriteInv, TypeInv, TypeOK
<1>a. /\ TypeOK /\ SliceOneUser /\ Parsed /\ StoredWhole
      /\ \A q \in Requests : Settled(q) /\ Unanswered(q) /\ OnItsWay(q) /\ Truthful(q)
  BY DEF WriteInv, TypeInv, Settled
<1>b. ASSUME UNCHANGED <<body, store>>, \A q \in Requests : Settled(q)' PROVE Goal
  BY <1>a, <1>b, SameStore
<1>1. CASE UNCHANGED vars
  <2>1. \A q \in Requests : Promise!Stored(q)' <=> Promise!Stored(q)
    BY <1>1, SameStore DEF vars, wireVars
  <2>2. \A q \in Requests : Settled(q)'
    BY <1>1, <1>a, <2>1, OtherKept DEF vars, wireVars
  <2> QED BY <1>1, <1>b, <2>2 DEF vars, wireVars
<1>2. ASSUME NEW r \in Requests, Arrive(r) PROVE Goal
  <2>1. pc[r] \in Early /\ UNCHANGED <<body, wireVars, result>>
    BY <1>2 DEF Arrive, Early
  <2>2. \E p : /\ Goto(r, p)
              /\ \/ p \in Early /\ UNCHANGED answer
                 \/ p = "leaving" /\ \E code \in {400, 401, 408, 413, 415, 499, 500} :
                        answer' = [answer EXCEPT ![r] = code]
    BY <1>2 DEF Arrive, Early
  <2>3. \A q \in Requests : Settled(q)'
    BY <1>a, <2>1, <2>2, EarlyKept
  <2> QED BY <1>b, <2>1, <2>3 DEF wireVars
<1>3. ASSUME NEW r \in Requests, Authorise(r) PROVE Goal
  <2>1. pc[r] \in Early /\ UNCHANGED <<body, wireVars, result>>
    BY <1>3 DEF Authorise, Early
  <2>2. \E p : /\ Goto(r, p)
              /\ \/ p \in Early /\ UNCHANGED answer
                 \/ p = "leaving" /\ \E code \in {400, 401, 408, 413, 415, 499, 500} :
                        answer' = [answer EXCEPT ![r] = code]
    BY <1>3 DEF Authorise, Refuse, Early
  <2>3. \A q \in Requests : Settled(q)'
    BY <1>a, <2>1, <2>2, EarlyKept
  <2> QED BY <1>b, <2>1, <2>3 DEF wireVars
<1>4. ASSUME NEW r \in Requests, ReadBody(r) PROVE Goal
  <2>1. pc[r] \in Early /\ UNCHANGED <<body, wireVars, result>>
    BY <1>4 DEF ReadBody, Early
  <2>2. \E p : /\ Goto(r, p)
              /\ \/ p \in Early /\ UNCHANGED answer
                 \/ p = "leaving" /\ \E code \in {400, 401, 408, 413, 415, 499, 500} :
                        answer' = [answer EXCEPT ![r] = code]
    BY <1>4 DEF ReadBody, Refuse, Early
  <2>3. \A q \in Requests : Settled(q)'
    BY <1>a, <2>1, <2>2, EarlyKept
  <2> QED BY <1>b, <2>1, <2>3 DEF wireVars
<1>5. ASSUME NEW r \in Requests, DecodeFails(r) PROVE Goal
  <2>1. pc[r] \in Early /\ UNCHANGED <<body, wireVars, result>>
    BY <1>5 DEF DecodeFails, Early
  <2>2. \E p : /\ Goto(r, p)
              /\ \/ p \in Early /\ UNCHANGED answer
                 \/ p = "leaving" /\ \E code \in {400, 401, 408, 413, 415, 499, 500} :
                        answer' = [answer EXCEPT ![r] = code]
    BY <1>5 DEF DecodeFails, Refuse, Early
  <2>3. \A q \in Requests : Settled(q)'
    BY <1>a, <2>1, <2>2, EarlyKept
  <2> QED BY <1>b, <2>1, <2>3 DEF wireVars
<1>6. ASSUME NEW r \in Requests, Decode(r) PROVE Goal
  <2>1. pc[r] \in Early /\ UNCHANGED <<body, wireVars, result>>
    BY <1>6 DEF Decode, Early
  <2>2. \E p : /\ Goto(r, p)
              /\ \/ p \in Early /\ UNCHANGED answer
                 \/ p = "leaving" /\ \E code \in {400, 401, 408, 413, 415, 499, 500} :
                        answer' = [answer EXCEPT ![r] = code]
    BY <1>6 DEF Decode, Early
  <2>3. \A q \in Requests : Settled(q)'
    BY <1>a, <2>1, <2>2, EarlyKept
  <2> QED BY <1>b, <2>1, <2>3 DEF wireVars
<1>7. ASSUME NEW r \in Requests, Validate(r) PROVE Goal
  <2>1. pc[r] \in Early /\ UNCHANGED <<body, wireVars, result>>
    BY <1>7 DEF Validate, Early
  <2>2. \E p : /\ Goto(r, p)
              /\ \/ p \in Early /\ UNCHANGED answer
                 \/ p = "leaving" /\ \E code \in {400, 401, 408, 413, 415, 499, 500} :
                        answer' = [answer EXCEPT ![r] = code]
    BY <1>7 DEF Validate, Refuse, Early
  <2>3. \A q \in Requests : Settled(q)'
    BY <1>a, <2>1, <2>2, EarlyKept
  <2> QED BY <1>b, <2>1, <2>3 DEF wireVars
<1>8. ASSUME NEW r \in Requests, Convert(r) PROVE Goal
  <2>1. pc[r] \in Early /\ UNCHANGED <<body, wireVars, result>>
    BY <1>8 DEF Convert, Early
  <2>2. \E p : /\ Goto(r, p)
              /\ \/ p \in Early /\ UNCHANGED answer
                 \/ p = "leaving" /\ \E code \in {400, 401, 408, 413, 415, 499, 500} :
                        answer' = [answer EXCEPT ![r] = code]
    BY <1>8 DEF Convert, Refuse, Early
  <2>3. \A q \in Requests : Settled(q)'
    BY <1>a, <2>1, <2>2, EarlyKept
  <2> QED BY <1>b, <2>1, <2>3 DEF wireVars
<1>9. ASSUME NEW r \in Requests, Leave(r) PROVE Goal
  <2>1. /\ UNCHANGED <<body, store>>
        /\ \A q \in Requests : Promise!Stored(q)' <=> Promise!Stored(q)
        /\ \A q \in Requests : Series(q)' = Series(q)
    BY <1>9, SameStore DEF Leave, wireVars
  <2>2. ASSUME NEW q \in Requests \ {r} PROVE Settled(q)'
    <3>1. UNCHANGED <<pc[q], wire[q], reply[q], sent[q], result[q], answer[q]>>
      BY <1>0, <1>9 DEF Leave, wireVars, Goto
    <3> QED BY <1>a, <2>1, <3>1, OtherKept
  <2>3. /\ pc[r] = "leaving" /\ pc'[r] = "done"
        /\ wire'[r] = wire[r] /\ reply'[r] = reply[r] /\ sent'[r] = sent[r]
        /\ result'[r] = result[r] /\ answer'[r] = answer[r]
    BY <1>0, <1>a, <1>9 DEF Leave, wireVars, Goto
  <2>4. Unanswered(r) /\ OnItsWay(r) /\ Truthful(r)
    BY <1>a
  <2>5. Unanswered(r)'
    BY <2>3, <2>4 DEF Unanswered, Early
  <2>6. OnItsWay(r)'
    BY <2>1, <2>3, <2>4 DEF Unanswered, OnItsWay, Early
  <2>7. Truthful(r)'
    BY <2>1, <2>3, <2>4 DEF Unanswered, OnItsWay, Early, Truthful
  <2> QED BY <1>b, <2>1, <2>2, <2>5, <2>6, <2>7 DEF Settled
<1>10. ASSUME NEW r \in Requests, Send(r) PROVE Goal
  <2>1. /\ UNCHANGED <<body, store>>
        /\ \A q \in Requests : Promise!Stored(q)' <=> Promise!Stored(q)
        /\ \A q \in Requests : Series(q)' = Series(q)
    BY <1>10, SameStore DEF Send, wireVars
  <2>2. ASSUME NEW q \in Requests \ {r} PROVE Settled(q)'
    <3>1. UNCHANGED <<pc[q], wire[q], reply[q], sent[q], result[q], answer[q]>>
      BY <1>0, <1>10 DEF Send, wireVars, Goto
    <3> QED BY <1>a, <2>1, <3>1, OtherKept
  <2>3. /\ pc[r] = "write" /\ pc'[r] = "waiting"
        /\ wire'[r] = "sent" /\ sent'[r] = Series(r) /\ Parses(body[r])
        /\ reply'[r] = reply[r] /\ result'[r] = result[r] /\ answer'[r] = answer[r]
    BY <1>0, <1>a, <1>10 DEF Send, wireVars, Goto, Parsed, Decoded, SliceOneUser, Holds
  <2>4. Unanswered(r) /\ OnItsWay(r) /\ Truthful(r)
    BY <1>a
  <2>5. Unanswered(r)'
    BY <2>3, <2>4 DEF Unanswered, Early
  <2>6. OnItsWay(r)'
    BY <2>1, <2>3, <2>4 DEF Unanswered, OnItsWay, Early
  <2>7. Truthful(r)'
    BY <2>1, <2>3, <2>4 DEF Unanswered, OnItsWay, Early, Truthful
  <2> QED BY <1>b, <2>1, <2>2, <2>5, <2>6, <2>7 DEF Settled
<1>11. ASSUME NEW r \in Requests, GetReply(r) PROVE Goal
  <2>1. /\ UNCHANGED <<body, store>>
        /\ \A q \in Requests : Promise!Stored(q)' <=> Promise!Stored(q)
        /\ \A q \in Requests : Series(q)' = Series(q)
    BY <1>11, SameStore DEF GetReply, wireVars
  <2>2. ASSUME NEW q \in Requests \ {r} PROVE Settled(q)'
    <3>1. UNCHANGED <<pc[q], wire[q], reply[q], sent[q], result[q], answer[q]>>
      BY <1>0, <1>11 DEF GetReply, Returned, wireVars, Goto
    <3> QED BY <1>a, <2>1, <3>1, OtherKept
  <2>3. /\ pc[r] = "waiting" /\ pc'[r] = "respond"
        /\ wire[r] \in {"answered", "lost"} /\ result'[r] \in {"ok", "tooMany", "error"}
        /\ result'[r] = "ok" => wire[r] = "answered" /\ reply[r] = "200"
        /\ result'[r] = "tooMany" => wire[r] = "answered" /\ reply[r] = "429"
        /\ wire'[r] = wire[r] /\ reply'[r] = reply[r] /\ sent'[r] = sent[r]
        /\ answer'[r] = answer[r]
    BY <1>0, <1>a, <1>11 DEF GetReply, Returned, wireVars, Goto
  <2>4. Unanswered(r) /\ OnItsWay(r) /\ Truthful(r)
    BY <1>a
  <2>5. Unanswered(r)'
    BY <2>3, <2>4 DEF Unanswered, Early
  <2>6. OnItsWay(r)'
    BY <2>1, <2>3, <2>4 DEF Unanswered, OnItsWay, Early
  <2>7. Truthful(r)'
    BY <2>1, <2>3, <2>4 DEF Unanswered, OnItsWay, Early, Truthful
  <2> QED BY <1>b, <2>1, <2>2, <2>5, <2>6, <2>7 DEF Settled
<1>12. ASSUME NEW r \in Requests, TimeOut(r) PROVE Goal
  <2>1. /\ UNCHANGED <<body, store>>
        /\ \A q \in Requests : Promise!Stored(q)' <=> Promise!Stored(q)
        /\ \A q \in Requests : Series(q)' = Series(q)
    BY <1>12, SameStore DEF TimeOut, wireVars
  <2>2. ASSUME NEW q \in Requests \ {r} PROVE Settled(q)'
    <3>1. UNCHANGED <<pc[q], wire[q], reply[q], sent[q], result[q], answer[q]>>
      BY <1>0, <1>12 DEF TimeOut, Returned, wireVars, Goto
    <3> QED BY <1>a, <2>1, <3>1, OtherKept
  <2>3. /\ pc[r] = "waiting" /\ pc'[r] = "respond"
        /\ result'[r] = "error"
        /\ wire'[r] = wire[r] /\ reply'[r] = reply[r] /\ sent'[r] = sent[r]
        /\ answer'[r] = answer[r]
    BY <1>0, <1>a, <1>12 DEF TimeOut, Returned, wireVars, Goto
  <2>4. Unanswered(r) /\ OnItsWay(r) /\ Truthful(r)
    BY <1>a
  <2>5. Unanswered(r)'
    BY <2>3, <2>4 DEF Unanswered, Early
  <2>6. OnItsWay(r)'
    BY <2>1, <2>3, <2>4 DEF Unanswered, OnItsWay, Early
  <2>7. Truthful(r)'
    BY <2>1, <2>3, <2>4 DEF Unanswered, OnItsWay, Early, Truthful
  <2> QED BY <1>b, <2>1, <2>2, <2>5, <2>6, <2>7 DEF Settled
<1>13. ASSUME NEW r \in Requests, Respond(r) PROVE Goal
  <2>1. /\ UNCHANGED <<body, store>>
        /\ \A q \in Requests : Promise!Stored(q)' <=> Promise!Stored(q)
        /\ \A q \in Requests : Series(q)' = Series(q)
    BY <1>13, SameStore DEF Respond, wireVars
  <2>2. ASSUME NEW q \in Requests \ {r} PROVE Settled(q)'
    <3>1. UNCHANGED <<pc[q], wire[q], reply[q], sent[q], result[q], answer[q]>>
      BY <1>0, <1>13 DEF Respond, wireVars, Goto
    <3> QED BY <1>a, <2>1, <3>1, OtherKept
  <2>3. /\ pc[r] = "respond" /\ pc'[r] = "release"
        /\ answer'[r] \in {200, 429, 500}
        /\ answer'[r] = 200 => result[r] = "ok"
        /\ answer'[r] = 429 => result[r] = "tooMany"
        /\ wire'[r] = wire[r] /\ reply'[r] = reply[r] /\ sent'[r] = sent[r]
        /\ result'[r] = result[r]
    <3> DEFINE code == CASE result[r] = "ok" -> 200 [] result[r] = "tooMany" -> 429 [] OTHER -> 500
    <3>1. /\ code \in {200, 429, 500}
          /\ code = 200 => result[r] = "ok"
          /\ code = 429 => result[r] = "tooMany"
      <4>1. CASE result[r] = "ok"
        BY <4>1
      <4>2. CASE result[r] = "tooMany"
        BY <4>2
      <4>3. CASE result[r] \notin {"ok", "tooMany"}
        BY <4>3
      <4> QED BY <4>1, <4>2, <4>3
    <3>2. answer' = [answer EXCEPT ![r] = code]
      BY <1>13 DEF Respond
    <3> HIDE DEF code
    <3>3. answer'[r] = code
      BY <1>0, <3>2
    <3>4. pc[r] = "respond" /\ pc'[r] = "release" /\ UNCHANGED <<wire, reply, sent, result>>
      BY <1>0, <1>13 DEF Respond, wireVars, Goto
    <3> QED BY <3>1, <3>3, <3>4
  <2>4. Unanswered(r) /\ OnItsWay(r) /\ Truthful(r)
    BY <1>a
  <2>5. Unanswered(r)'
    BY <2>3, <2>4 DEF Unanswered, Early
  <2>6. OnItsWay(r)'
    BY <2>1, <2>3, <2>4 DEF Unanswered, OnItsWay, Early
  <2>7. Truthful(r)'
    BY <2>1, <2>3, <2>4 DEF Unanswered, OnItsWay, Early, Truthful
  <2> QED BY <1>b, <2>1, <2>2, <2>5, <2>6, <2>7 DEF Settled
<1>14. ASSUME NEW r \in Requests, Release(r) PROVE Goal
  <2>1. /\ UNCHANGED <<body, store>>
        /\ \A q \in Requests : Promise!Stored(q)' <=> Promise!Stored(q)
        /\ \A q \in Requests : Series(q)' = Series(q)
    BY <1>14, SameStore DEF Release, wireVars
  <2>2. ASSUME NEW q \in Requests \ {r} PROVE Settled(q)'
    <3>1. UNCHANGED <<pc[q], wire[q], reply[q], sent[q], result[q], answer[q]>>
      BY <1>0, <1>14 DEF Release, wireVars, Goto
    <3> QED BY <1>a, <2>1, <3>1, OtherKept
  <2>3. /\ pc[r] = "release" /\ pc'[r] = "leaving"
        /\ wire'[r] = wire[r] /\ reply'[r] = reply[r] /\ sent'[r] = sent[r]
        /\ result'[r] = result[r] /\ answer'[r] = answer[r]
    BY <1>0, <1>a, <1>14 DEF Release, wireVars, Goto
  <2>4. Unanswered(r) /\ OnItsWay(r) /\ Truthful(r)
    BY <1>a
  <2>5. Unanswered(r)'
    BY <2>3, <2>4 DEF Unanswered, Early
  <2>6. OnItsWay(r)'
    BY <2>1, <2>3, <2>4 DEF Unanswered, OnItsWay, Early
  <2>7. Truthful(r)'
    BY <2>1, <2>3, <2>4 DEF Unanswered, OnItsWay, Early, Truthful
  <2> QED BY <1>b, <2>1, <2>2, <2>5, <2>6, <2>7 DEF Settled
<1>15. ASSUME NEW r \in Requests, Lose(r) PROVE Goal
  <2>1. /\ UNCHANGED <<body, store>>
        /\ \A q \in Requests : Promise!Stored(q)' <=> Promise!Stored(q)
        /\ \A q \in Requests : Series(q)' = Series(q)
    BY <1>15, SameStore DEF Lose, wireVars
  <2>2. ASSUME NEW q \in Requests \ {r} PROVE Settled(q)'
    <3>1. UNCHANGED <<pc[q], wire[q], reply[q], sent[q], result[q], answer[q]>>
      BY <1>0, <1>15 DEF Lose, wireVars, Goto
    <3> QED BY <1>a, <2>1, <3>1, OtherKept
  <2>3. /\ wire[r] \in {"sent", "answered"} /\ wire'[r] = "lost"
        /\ UNCHANGED <<pc[r], reply[r], sent[r], result[r], answer[r]>>
    BY <1>0, <1>a, <1>15 DEF Lose, wireVars, Goto
  <2>4. Unanswered(r) /\ OnItsWay(r) /\ Truthful(r)
    BY <1>a
  <2>5. Unanswered(r)'
    BY <2>3, <2>4 DEF Unanswered, Early
  <2>6. OnItsWay(r)'
    BY <2>1, <2>3, <2>4 DEF Unanswered, OnItsWay, Early
  <2>7. Truthful(r)'
    BY <2>1, <2>3, <2>4 DEF Unanswered, OnItsWay, Early, Truthful
  <2> QED BY <1>b, <2>1, <2>2, <2>5, <2>6, <2>7 DEF Settled
<1>16. ASSUME NEW r \in Requests, Upstream(r) PROVE Goal
  <2>1. /\ wire[r] = "sent" /\ UNCHANGED <<pc, body, sent, result, answer>>
        /\ wire' = [wire EXCEPT ![r] = "answered"]
        /\ \A q \in Requests : Series(q)' = Series(q)
    BY <1>16 DEF Upstream, Series
  <2>2. ~Promise!Stored(r) /\ sent[r] = Series(r)
    BY <1>a, <2>1 DEF OnItsWay
  <2>3. CASE /\ store' = Append(store, [req |-> r, series |-> sent[r]])
             /\ \E status \in {"200", "500"} : reply' = [reply EXCEPT ![r] = status]
    <3>1. ASSUME NEW q \in Requests \ {r} PROVE Settled(q)'
      <4>1. wire'[q] = wire[q] /\ reply'[q] = reply[q]
        BY <1>0, <2>1, <2>3
      <4>2. Promise!Stored(q)' <=> Promise!Stored(q)
        BY <1>a, <2>3, StoreGrows
      <4> QED BY <1>a, <2>1, <4>1, <4>2, OtherKept
    <3>2. Settled(r)'
      <4>1. Promise!Stored(r)' /\ wire'[r] = "answered" /\ reply'[r] \in {"200", "500"}
        BY <1>0, <1>a, <2>1, <2>3, StoreGrows
      <4>2. Unanswered(r)' /\ OnItsWay(r)'
        BY <1>a, <2>1, <4>1 DEF Unanswered, OnItsWay
      <4>3. Truthful(r)'
        BY <1>a, <2>1, <4>1 DEF Truthful
      <4> QED BY <4>2, <4>3 DEF Settled
    <3>3. StoredWhole'
      <4> SUFFICES ASSUME NEW i \in DOMAIN store'
                   PROVE  store'[i].series = Series(store[i].req)'
        BY DEF StoredWhole
      <4>1. CASE i \in DOMAIN store
        <5>1. store'[i] = store[i] /\ store[i].series = Series(store[i].req)
          BY <1>a, <2>3, <4>1, StoreGrows DEF StoredWhole
        <5> QED BY <2>1, <5>1 DEF Series
      <4>2. CASE i = Len(store) + 1
        <5>1. store'[i] = [req |-> r, series |-> sent[r]]
          BY <1>a, <2>3, <4>2, StoreGrows
        <5> QED BY <2>1, <2>2, <5>1
      <4> QED BY <1>a, <2>3, <4>1, <4>2, StoreGrows
    <3> QED BY <3>1, <3>2, <3>3
  <2>4. CASE /\ \E status \in {"400", "400 out of order sample", "429", "500"} :
                   reply' = [reply EXCEPT ![r] = status]
             /\ UNCHANGED store
    <3>0. \A q \in Requests : Promise!Stored(q)' <=> Promise!Stored(q)
      BY <2>1, <2>4, SameStore
    <3>1. ASSUME NEW q \in Requests \ {r} PROVE Settled(q)'
      <4>1. wire'[q] = wire[q] /\ reply'[q] = reply[q]
        BY <1>0, <2>1, <2>4
      <4> QED BY <1>a, <2>1, <3>0, <4>1, OtherKept
    <3>2. Settled(r)'
      <4>1. wire'[r] = "answered" /\ reply'[r] # "200"
        BY <1>0, <2>1, <2>4
      <4>2. Unanswered(r)' /\ OnItsWay(r)'
        BY <1>a, <2>1, <2>2, <3>0, <4>1 DEF Unanswered, OnItsWay
      <4>3. Truthful(r)'
        BY <1>a, <2>1, <3>0, <4>1 DEF Truthful
      <4> QED BY <4>2, <4>3 DEF Settled
    <3> QED BY <1>b, <2>1, <2>4, <3>1, <3>2
  <2> QED BY <1>16, <2>3, <2>4 DEF Upstream, OnTheWire
<1> QED
  BY <1>1, <1>2, <1>3, <1>4, <1>5, <1>6, <1>7, <1>8, <1>9, <1>10, <1>11, <1>12, <1>13,
     <1>14, <1>15, <1>16 DEF Next, HandlerStep

LEMMA WriteInvInit == Init => WriteInv
<1> SUFFICES ASSUME Init PROVE WriteInv
  OBVIOUS
<1>1. SliceOneUser
  BY DEF Init, SliceOneUser, Holds
<1>2. store = <<>> /\ StoredWhole
  BY DEF Init, StoredWhole
<1>3. ASSUME NEW r \in Requests PROVE Settled(r)
  <2>1. ~Promise!Stored(r)
    BY <1>2 DEF Promise!Stored
  <2> QED BY <2>1 DEF Init, Settled, Unanswered, OnItsWay, Truthful
<1> QED BY <1>1, <1>2, <1>3, TypeInvInit DEF WriteInv

LEMMA WriteInvStep == WriteInv /\ [Next]_vars => WriteInv'
BY TypeInvStep, SliceOneUserStep, SettledStep DEF WriteInv

(* What the requests offer: the substitution of Promise. *)
Offered == [r \in Requests |-> IF pc[r] = "new" THEN Garbled
                               ELSE IF Parses(body[r]) THEN Series(r) ELSE <<>>]

LEMMA OfferedIsSeries ==
    ASSUME TypeOK, NEW r \in Requests, pc[r] # "new" PROVE Offered[r] # Garbled
<1>1. Series(r) \in Seq(Requests \X Nat) \/ ~Parses(body[r])
  BY SeriesType DEF TypeOK
<1>2. <<>> \in Seq(Requests \X Nat)
  OBVIOUS
<1>3. Garbled \notin Seq(Requests \X Nat)
  BY WriteProxyAssumption
<1> QED BY <1>1, <1>2, <1>3 DEF Offered

LEMMA OfferedKept ==
    ASSUME UNCHANGED body, \A q \in Requests : pc'[q] = "new" <=> pc[q] = "new"
    PROVE  Offered' = Offered
BY DEF Offered, Series

(* A handler that answers: with a code that is no refusal, or when nothing   *)
(* was stored; and with 200 only when it was.                                *)
LEMMA AnswerStep ==
    ASSUME WriteInv, NEW r \in Requests, NEW p, Goto(r, p), p # "new", pc[r] # "new",
           UNCHANGED <<body, store>>,
           NEW code \in Statuses, answer' = [answer EXCEPT ![r] = code], answer[r] = 0,
           code = 200 => Promise!Stored(r),
           code \in {400, 401, 413, 415, 429} => ~Promise!Stored(r)
    PROVE  Promise!Next
<1>1. Offered[r] # Garbled
  BY OfferedIsSeries DEF WriteInv, TypeInv
<1>2. pc \in [Requests -> Stages]
  BY DEF WriteInv, TypeInv, TypeOK
<1>3. Offered' = Offered
  BY <1>2, OfferedKept DEF Goto
<1>4. Promise!Answer(r, code)
  BY <1>1, <1>3 DEF Promise!Answer, Offered
<1> QED BY <1>4 DEF Promise!Next, Statuses

(* A step of a request that came, which neither answers nor stores. *)
LEMMA SilentStep ==
    ASSUME TypeOK, UNCHANGED <<body, store, answer>>,
           \A q \in Requests : pc'[q] = "new" <=> pc[q] = "new"
    PROVE  UNCHANGED Promise!specVars
<1>1. Offered' = Offered
  BY OfferedKept
<1> QED BY <1>1 DEF Promise!specVars, Offered

LEMMA WriteSpecStep ==
    WriteInv /\ [Next]_vars => [Promise!Next]_(Promise!specVars)
<1> SUFFICES ASSUME WriteInv, [Next]_vars
             PROVE  Promise!Next \/ UNCHANGED Promise!specVars
  OBVIOUS
<1> DEFINE Goal == Promise!Next \/ UNCHANGED Promise!specVars
<1>0. TypeOK /\ pc \in [Requests -> Stages] /\ \A q \in Requests : Settled(q)
  BY DEF WriteInv, TypeInv, TypeOK
<1>1. CASE UNCHANGED vars
  <2>1. UNCHANGED <<pc, body, store, answer>>
    BY <1>1 DEF vars, wireVars
  <2> QED BY <1>0, <2>1, SilentStep
<1>2. ASSUME NEW r \in Requests, Arrive(r) PROVE Goal
  <2>1. /\ pc[r] = "new" /\ pc' = [pc EXCEPT ![r] = "auth"]
        /\ UNCHANGED <<body, store, answer>>
    BY <1>2 DEF Arrive, Goto, wireVars
  <2>2. \A q \in Requests : Series(q)' = Series(q)
    BY <2>1 DEF Series
  <2>3. Offered[r] = Garbled /\ \A q \in Requests \ {r} : Offered'[q] = Offered[q]
    BY <1>0, <2>1, <2>2 DEF Offered
  <2>4. TypeOK'
    BY TypeInvStep DEF WriteInv, TypeInv
  <2>5. Offered'[r] # Garbled
    <3>1. Offered'[r] = IF Parses(body[r]) THEN Series(r) ELSE <<>>
      BY <1>0, <2>1, <2>2 DEF Offered
    <3>2. Series(r) \in Seq(Requests \X Nat) \/ ~Parses(body[r])
      BY <1>0, SeriesType DEF TypeOK
    <3>3. <<>> \in Seq(Requests \X Nat) /\ Garbled \notin Seq(Requests \X Nat)
      BY WriteProxyAssumption
    <3> QED BY <3>1, <3>2, <3>3
  <2>6. Promise!Offer(r)
    BY <2>1, <2>3, <2>5 DEF Promise!Offer, Offered
  <2> QED BY <2>6 DEF Promise!Next
<1>3. ASSUME NEW r \in Requests,
             \/ Authorise(r) \/ ReadBody(r) \/ DecodeFails(r) \/ Decode(r)
             \/ Validate(r) \/ Convert(r)
      PROVE  Goal
  <2>1. pc[r] \in Early \ {"new"} /\ UNCHANGED <<body, store>>
    BY <1>3 DEF Authorise, ReadBody, DecodeFails, Decode, Validate, Convert, Early, wireVars
  <2>2. answer[r] = 0 /\ ~Promise!Stored(r)
    BY <1>0, <2>1 DEF Settled, Unanswered, OnItsWay
  <2>3. \E p : /\ Goto(r, p) /\ p # "new"
              /\ \/ UNCHANGED answer
                 \/ \E code \in Statuses \ {200} : answer' = [answer EXCEPT ![r] = code]
    <3>1. CASE Authorise(r) \/ ReadBody(r)
      BY <3>1 DEF Authorise, ReadBody, Refuse, Statuses
    <3>2. CASE DecodeFails(r) \/ Decode(r)
      BY <3>2 DEF DecodeFails, Decode, Refuse, Statuses
    <3>3. CASE Validate(r) \/ Convert(r)
      BY <3>3 DEF Validate, Convert, Refuse, Statuses
    <3> QED BY <1>3, <3>1, <3>2, <3>3
  <2>4. PICK p : /\ Goto(r, p) /\ p # "new"
                 /\ \/ UNCHANGED answer
                    \/ \E code \in Statuses \ {200} : answer' = [answer EXCEPT ![r] = code]
    BY <2>3
  <2>5. CASE UNCHANGED answer
    <3>1. \A q \in Requests : pc'[q] = "new" <=> pc[q] = "new"
      BY <1>0, <2>1, <2>4 DEF Goto
    <3> QED BY <1>0, <2>1, <2>5, <3>1, SilentStep
  <2>6. ASSUME NEW code \in Statuses \ {200}, answer' = [answer EXCEPT ![r] = code]
        PROVE  Goal
    BY <2>1, <2>2, <2>4, <2>6, AnswerStep
  <2> QED BY <2>4, <2>5, <2>6
<1>4. ASSUME NEW r \in Requests, Respond(r) PROVE Goal
  <2> DEFINE code == CASE result[r] = "ok" -> 200 [] result[r] = "tooMany" -> 429 [] OTHER -> 500
  <2>1. /\ code \in {200, 429, 500}
        /\ code = 200 => result[r] = "ok"
        /\ code = 429 => result[r] = "tooMany"
    <3>1. CASE result[r] = "ok"
      BY <3>1
    <3>2. CASE result[r] = "tooMany"
      BY <3>2
    <3>3. CASE result[r] \notin {"ok", "tooMany"}
      BY <3>3
    <3> QED BY <3>1, <3>2, <3>3
  <2>2. /\ answer' = [answer EXCEPT ![r] = code]
        /\ pc[r] = "respond" /\ Goto(r, "release") /\ UNCHANGED <<body, store>>
    BY <1>4 DEF Respond, wireVars
  <2> HIDE DEF code
  <2>3. answer[r] = 0
    BY <1>0, <2>2 DEF Settled, Unanswered
  <2>4. code = 200 => Promise!Stored(r)
    BY <1>0, <2>1 DEF Settled, Truthful
  <2>5. code = 429 => ~Promise!Stored(r)
    BY <1>0, <2>1 DEF Settled, Truthful
  <2>6. code \in Statuses /\ (code \in {400, 401, 413, 415, 429} => ~Promise!Stored(r))
    BY <2>1, <2>5 DEF Statuses
  <2> QED BY <2>2, <2>3, <2>4, <2>6, AnswerStep
<1>5. ASSUME NEW r \in Requests,
             Send(r) \/ GetReply(r) \/ TimeOut(r) \/ Release(r) \/ Leave(r) \/ Lose(r)
      PROVE  Goal
  <2>1. UNCHANGED <<body, store, answer>>
    BY <1>5 DEF Send, GetReply, TimeOut, Release, Leave, Lose, wireVars
  <2>2. CASE Lose(r)
    BY <1>0, <2>1, <2>2, SilentStep DEF Lose
  <2>3. CASE Send(r) \/ GetReply(r) \/ TimeOut(r) \/ Release(r) \/ Leave(r)
    <3>1. /\ pc[r] # "new"
          /\ \/ Goto(r, "waiting") \/ Goto(r, "respond") \/ Goto(r, "leaving") \/ Goto(r, "done")
      <4>1. CASE Send(r)
        BY <4>1 DEF Send
      <4>2. CASE GetReply(r)
        BY <4>2 DEF GetReply, Returned
      <4>3. CASE TimeOut(r) \/ Release(r) \/ Leave(r)
        BY <4>3 DEF TimeOut, Returned, Release, Leave
      <4> QED BY <2>3, <4>1, <4>2, <4>3
    <3>2. \A q \in Requests : pc'[q] = "new" <=> pc[q] = "new"
      BY <1>0, <3>1 DEF Goto
    <3> QED BY <1>0, <2>1, <3>2, SilentStep
  <2> QED BY <1>5, <2>2, <2>3
<1>6. ASSUME NEW r \in Requests, Upstream(r) PROVE Goal
  <2>1. wire[r] = "sent" /\ UNCHANGED <<pc, body, answer>>
    BY <1>6 DEF Upstream
  <2>2. /\ ~Promise!Stored(r) /\ sent[r] = Series(r) /\ pc[r] # "new" /\ Parses(body[r])
        /\ answer[r] \in {0, 200, 429, 500} /\ answer[r] # 429
    BY <1>0, <2>1 DEF Settled, OnItsWay, Truthful, Early
  <2>3. Offered' = Offered /\ Offered[r] = sent[r] /\ Offered[r] # Garbled
    BY <1>0, <2>1, <2>2, OfferedKept, OfferedIsSeries DEF Offered
  <2>4. CASE UNCHANGED store
    BY <1>0, <2>1, <2>4, SilentStep
  <2>5. CASE store' = Append(store, [req |-> r, series |-> sent[r]])
    <3>1. Promise!Store(r)
      BY <2>1, <2>2, <2>3, <2>5 DEF Promise!Store, Offered
    <3> QED BY <3>1 DEF Promise!Next
  <2> QED BY <1>6, <2>4, <2>5 DEF Upstream, OnTheWire
<1> QED BY <1>1, <1>2, <1>3, <1>4, <1>5, <1>6 DEF Next, HandlerStep

(* The proxy implements WriteSpec: a 200 says that upstream stored the       *)
(* request's series, a refusal that it did not and never will, and nothing   *)
(* is stored twice, although writes that are given up stay on their way.     *)
THEOREM ImplementsWriteSpec == Spec => IsWriteSpec
<1>1. Init => Promise!Init
  BY DEF Init, Promise!Init
<1>2. WriteInv /\ [Next]_vars => [Promise!Next]_(Promise!specVars)
  BY WriteSpecStep
<1> QED BY <1>1, <1>2, WriteInvInit, WriteInvStep, PTL DEF Spec, IsWriteSpec, Promise!Spec

------------------------------------------------------------------------------
(* The counters. The samples of one request. *)
SamplesOf(r) == {x \in Requests \X Nat : x[1] = r /\ x[2] \in DOMAIN body[r].metrics}

LEMMA SamplesCount ==
    ASSUME TypeOK, NEW r \in Requests, Parses(body[r])
    PROVE  /\ SamplesOf(r) = Range(Series(r)) /\ IsFiniteSet(SamplesOf(r))
           /\ Cardinality(SamplesOf(r)) = Len(Series(r)) /\ Len(Series(r)) \in Nat
<1> DEFINE n == Len(body[r].metrics)
<1>1. /\ n \in Nat /\ DOMAIN body[r].metrics = 1 .. n /\ Len(Series(r)) = n
      /\ Series(r) = [i \in 1 .. n |-> <<r, i>>]
  BY SeriesType DEF TypeOK, Series
<1> HIDE DEF n
<1>2. SamplesOf(r) = Range(Series(r))
  BY <1>1 DEF SamplesOf, Range
<1>3. ExistsBijection(1 .. n, SamplesOf(r))
  <2>1. Series(r) \in [1 .. n -> SamplesOf(r)]
    BY <1>1 DEF SamplesOf
  <2>2. \A i, j \in 1 .. n : Series(r)[i] = Series(r)[j] => i = j
    BY <1>1
  <2>3. \A x \in SamplesOf(r) : \E i \in 1 .. n : Series(r)[i] = x
    BY <1>1, <1>2 DEF Range
  <2> QED BY <2>1, <2>2, <2>3
         DEF ExistsBijection, Bijection, Injection, IsInjective, Surjection
<1>4. IsFiniteSet(1 .. n)
  BY <1>1, FS_Interval
<1>5. IsFiniteSet(SamplesOf(r))
  BY <1>3, <1>4, FS_Bijection
<1>6. Cardinality(SamplesOf(r)) = n
  BY <1>1, <1>3, FS_CountingElements
<1> QED BY <1>1, <1>2, <1>5, <1>6

(* A step that takes no request in and answers none with a 200. *)
LEMMA CountedKept ==
    ASSUME Counted, UNCHANGED <<body, store>>,
           \A c \in {"incoming", "received", "receivedSamples"} : counts'[c] = counts[c],
           \A q \in Requests : Taken(q)' <=> Taken(q),
           \A q \in Requests : answer'[q] = 200 <=> answer[q] = 200
    PROVE  Counted'
<1>1. Incoming' = Incoming
  BY DEF Incoming
<1>2. Received' = Received
  BY DEF Received
<1>3. ReceivedSamples' = ReceivedSamples /\ StoredSamples' = StoredSamples
  BY <1>2 DEF ReceivedSamples, StoredSamples
<1> QED BY <1>1, <1>2, <1>3 DEF Counted

(* A request moves on, with or without an answer, and is in as it was. *)
LEMMA CountedMoved ==
    ASSUME WriteInv, Counted, NEW r \in Requests, NEW p, Goto(r, p),
           UNCHANGED <<body, store, wire>>,
           \A c \in {"incoming", "received", "receivedSamples"} : counts'[c] = counts[c],
           \/ UNCHANGED answer
           \/ answer[r] = 0 /\ \E code \in Statuses \ {200} : answer' = [answer EXCEPT ![r] = code],
           Taken(r)' <=> Taken(r)
    PROVE  Counted'
<1>1. /\ pc \in [Requests -> Stages] /\ answer \in [Requests -> Statuses \cup {0}]
  BY DEF WriteInv, TypeInv, TypeOK
<1>2. ASSUME NEW q \in Requests \ {r} PROVE answer'[q] = answer[q] /\ pc'[q] = pc[q]
  BY <1>1 DEF Goto
<1>3. \A q \in Requests : Taken(q)' <=> Taken(q)
  BY <1>2 DEF Taken, Decoded
<1>4. answer'[r] = 200 <=> answer[r] = 200
  BY <1>1
<1>5. \A q \in Requests : answer'[q] = 200 <=> answer[q] = 200
  BY <1>2, <1>4
<1> QED BY <1>3, <1>5, CountedKept

LEMMA PlusCounts ==
    ASSUME NEW c \in [Counters -> Nat], NEW counter \in Counters, NEW n \in Nat
    PROVE  /\ Plus(c, counter, n)[counter] = c[counter] + n
           /\ \A k \in Counters \ {counter} : Plus(c, counter, n)[k] = c[k]
BY DEF Plus

(* The counters of refusals do not show in those. *)
LEMMA PlusOther ==
    ASSUME NEW c \in [Counters -> Nat], NEW counter \in {"rejected", "outOfOrder"},
        NEW n \in Nat
    PROVE  \A k \in {"incoming", "received", "receivedSamples"} : Plus(c, counter,
        n)[k] = c[k]
<1>1. counter \in Counters
  BY DEF Counters
<1>2. {"incoming", "received", "receivedSamples"} \subseteq Counters \ {counter}
  BY DEF Counters
<1> QED BY <1>1, <1>2, PlusCounts

LEMMA CountedStep == WriteInv /\ Counted /\ [Next]_vars => Counted'
<1> SUFFICES ASSUME WriteInv, Counted, [Next]_vars PROVE Counted'
  OBVIOUS
<1>0. /\ TypeOK /\ pc \in [Requests -> Stages] /\ \A q \in Requests : Settled(q)
      /\ counts \in [Counters -> Nat]
  BY DEF WriteInv, TypeInv, TypeOK
<1>a. answer \in [Requests -> Statuses \cup {0}]
  BY <1>0 DEF TypeOK
<1>1. CASE UNCHANGED vars
  BY <1>1, CountedKept DEF vars, wireVars, Taken, Decoded
<1>2. ASSUME NEW r \in Requests, Arrive(r) \/ Authorise(r) \/ ReadBody(r) PROVE Counted'
  <2>1. pc[r] \in {"new", "auth", "read"} /\ UNCHANGED <<body, store, wire, counts>>
    BY <1>2 DEF Arrive, Authorise, ReadBody, wireVars
  <2>2. wire[r] = "none" /\ answer[r] = 0
    BY <1>0, <2>1 DEF Settled, Unanswered, Early
  <2>3. \E p \in {"auth", "read", "decode", "leaving"} :
           /\ Goto(r, p)
           /\ \/ UNCHANGED answer
              \/ \E code \in Statuses \ {200, 400} : answer' = [answer EXCEPT ![r] = code]
    <3>1. CASE Arrive(r)
      BY <3>1 DEF Arrive
    <3>2. CASE Authorise(r)
      BY <3>2 DEF Authorise, Refuse, Statuses
    <3>3. CASE ReadBody(r)
      BY <3>3 DEF ReadBody, Refuse, Statuses
    <3> QED BY <1>2, <3>1, <3>2, <3>3
  <2>4. PICK p \in {"auth", "read", "decode", "leaving"} :
           /\ Goto(r, p)
           /\ \/ UNCHANGED answer
              \/ \E code \in Statuses \ {200, 400} : answer' = [answer EXCEPT ![r] = code]
    BY <2>3
  <2>5. answer'[r] # 400 /\ pc'[r] = p /\ wire'[r] = "none"
    BY <1>0, <1>a, <2>1, <2>2, <2>4 DEF Goto
  <2>6. ~Taken(r) /\ ~Taken(r)'
    BY <2>1, <2>2, <2>5 DEF Taken, Decoded
  <2> QED BY <2>1, <2>2, <2>4, <2>6, CountedMoved
<1>3. ASSUME NEW r \in Requests, DecodeFails(r) PROVE Counted'
  <2>1. /\ pc[r] = "decode" /\ ~Parses(body[r]) /\ UNCHANGED <<body, store, wire>>
        /\ Goto(r, "leaving")
    BY <1>3 DEF DecodeFails, Refuse, wireVars
  <2>2. wire[r] = "none" /\ answer[r] = 0
    BY <1>0, <2>1 DEF Settled, Unanswered, Early
  <2>3. \E code \in Statuses \ {200} : answer' = [answer EXCEPT ![r] = code]
    <3>1. answer' = [answer EXCEPT ![r] = 400] \/ answer' = [answer EXCEPT ![r] = 415]
      BY <1>3 DEF DecodeFails, Refuse
    <3> QED BY <3>1 DEF Statuses
  <2>4. \A c \in {"incoming", "received", "receivedSamples"} : counts'[c] = counts[c]
    <3>1. counts' = Plus(counts, "rejected", 1) \/ UNCHANGED counts
      BY <1>3 DEF DecodeFails
    <3> QED BY <1>0, <3>1, PlusOther
  <2>5. ~Taken(r) /\ ~Taken(r)'
    BY <1>0, <2>1, <2>2 DEF Taken, Decoded, Goto
  <2> QED BY <2>1, <2>2, <2>3, <2>4, <2>5, CountedMoved
<1>4. ASSUME NEW r \in Requests, Decode(r) PROVE Counted'
  <2>1. /\ pc[r] = "decode" /\ Goto(r, "validate")
        /\ UNCHANGED <<body, store, wire, answer>>
    BY <1>4 DEF Decode, wireVars
  <2>2. r \notin Incoming /\ Incoming' = Incoming \cup {r}
    <3>1. wire[r] = "none" /\ answer[r] = 0
      BY <1>0, <2>1 DEF Settled, Unanswered, Early
    <3>2. ~Taken(r) /\ Taken(r)'
      BY <1>0, <2>1, <3>1 DEF Taken, Decoded, Goto
    <3>3. \A q \in Requests \ {r} : Taken(q)' <=> Taken(q)
      BY <1>0, <2>1 DEF Taken, Decoded, Goto
    <3> QED BY <3>2, <3>3 DEF Incoming
  <2>3. IsFiniteSet(Incoming') /\ Cardinality(Incoming') = Cardinality(Incoming) + 1
    BY <2>2, OneMore DEF Counted
  <2>4. /\ counts'["incoming"] = counts["incoming"] + 1
        /\ counts'["received"] = counts["received"]
        /\ counts'["receivedSamples"] = counts["receivedSamples"]
    <3> DEFINE mid == Plus(counts, "incoming", 1)
               n == Len(body[r].metrics)
    <3>1. n \in Nat
      BY <1>0, <1>4, SeriesType DEF Decode, TypeOK
    <3>2. /\ "incoming" \in Counters /\ "incomingSamples" \in Counters
          /\ {"received", "receivedSamples"} \subseteq Counters \ {"incoming"}
          /\ {"incoming", "received", "receivedSamples"} \subseteq Counters \ {"incomingSamples"}
      BY DEF Counters
    <3>3. /\ mid["incoming"] = counts["incoming"] + 1
          /\ \A k \in Counters \ {"incoming"} : mid[k] = counts[k]
      BY <1>0, <3>2, PlusCounts
    <3>4. mid \in [Counters -> Nat]
      BY <1>0, <3>2, PlusType
    <3>5. counts' = Plus(mid, "incomingSamples", n)
      BY <1>4 DEF Decode
    <3> HIDE DEF mid, n
    <3>6. \A k \in Counters \ {"incomingSamples"} : counts'[k] = mid[k]
      BY <3>1, <3>2, <3>4, <3>5, PlusCounts
    <3> QED BY <3>2, <3>3, <3>6
  <2>5. Received' = Received /\ ReceivedSamples' = ReceivedSamples /\ StoredSamples' = StoredSamples
    BY <2>1 DEF Received, ReceivedSamples, StoredSamples
  <2> QED BY <2>3, <2>4, <2>5 DEF Counted
<1>5. ASSUME NEW r \in Requests, Validate(r) \/ Convert(r) PROVE Counted'
  <2>1. pc[r] \in {"validate", "convert"} /\ UNCHANGED <<body, store, wire>>
    BY <1>5 DEF Validate, Convert, wireVars
  <2>2. answer[r] = 0 /\ Parses(body[r])
    BY <1>0, <2>1 DEF Settled, Unanswered, Early, WriteInv, TypeInv, Parsed, Decoded
  <2>3. \/ (Goto(r, "convert") \/ Goto(r, "write")) /\ UNCHANGED answer
        \/ Goto(r, "leaving") /\ answer' = [answer EXCEPT ![r] = 400]
    <3>1. CASE Validate(r)
      BY <3>1 DEF Validate, Refuse
    <3>2. CASE Convert(r)
      BY <3>2 DEF Convert, Refuse
    <3> QED BY <1>5, <3>1, <3>2
  <2>4. \A c \in {"incoming", "received", "receivedSamples"} : counts'[c] = counts[c]
    <3>1. CASE Validate(r)
      <4>1. Cardinality(Of(r, "invalid")) \in Nat
        BY <1>0, <2>2, OfCounts DEF TypeOK
      <4>2. counts' = Plus(counts, "rejected", Cardinality(Of(r, "invalid")))
        BY <3>1 DEF Validate
      <4> QED BY <1>0, <4>1, <4>2, PlusOther
    <3>2. CASE Convert(r)
      BY <3>2 DEF Convert
    <3> QED BY <1>5, <3>1, <3>2
  <2>5. Taken(r) /\ Taken(r)'
    <3>1. Taken(r)
      BY <2>1 DEF Taken, Decoded
    <3>2. CASE (Goto(r, "convert") \/ Goto(r, "write")) /\ UNCHANGED answer
      <4>1. pc'[r] \in {"convert", "write"}
        BY <1>0, <3>2 DEF Goto
      <4> QED BY <3>1, <4>1 DEF Taken, Decoded
    <3>3. CASE Goto(r, "leaving") /\ answer' = [answer EXCEPT ![r] = 400]
      <4>1. answer'[r] = 400 /\ Parses(body'[r])
        BY <1>a, <2>1, <2>2, <3>3
      <4> QED BY <3>1, <4>1 DEF Taken
    <3> QED BY <2>3, <3>1, <3>2, <3>3
  <2>6. CASE UNCHANGED answer
    BY <2>1, <2>3, <2>4, <2>5, <2>6, CountedMoved
  <2>7. CASE Goto(r, "leaving") /\ answer' = [answer EXCEPT ![r] = 400]
    <3> DEFINE code == 400
    <3>1. code \in Statuses \ {200} /\ answer' = [answer EXCEPT ![r] = code]
      BY <2>7 DEF Statuses
    <3> HIDE DEF code
    <3>2. \E c \in Statuses \ {200} : answer' = [answer EXCEPT ![r] = c]
      BY <3>1
    <3> QED BY <2>1, <2>2, <2>4, <2>5, <2>7, <3>2, CountedMoved
  <2> QED BY <2>3, <2>6, <2>7
<1>6. ASSUME NEW r \in Requests, GetReply(r) \/ TimeOut(r) \/ Release(r) \/ Leave(r)
      PROVE  Counted'
  <2>1. /\ pc[r] \in {"waiting", "release", "leaving"} /\ UNCHANGED <<body, store>>
        /\ UNCHANGED <<wire, answer>>
        /\ pc[r] = "leaving" => Goto(r, "done")
        /\ pc[r] # "leaving" => Goto(r, "respond") \/ Goto(r, "leaving")
    <3>1. CASE GetReply(r)
      BY <3>1 DEF GetReply, Returned, wireVars
    <3>2. CASE TimeOut(r) \/ Release(r) \/ Leave(r)
      BY <3>2 DEF TimeOut, Returned, Release, Leave, wireVars
    <3> QED BY <1>6, <3>1, <3>2
  <2>2. pc[r] \in {"waiting", "release"} => wire[r] # "none"
    BY <1>0 DEF Settled, Unanswered
  <2>3. Taken(r)' <=> Taken(r)
    BY <1>0, <2>1, <2>2 DEF Taken, Decoded, Goto
  <2>4. \A c \in {"incoming", "received", "receivedSamples"} : counts'[c] = counts[c]
    <3>1. counts' = Plus(counts, "outOfOrder", 1) \/ UNCHANGED counts
      <4>1. CASE GetReply(r)
        BY <4>1 DEF GetReply
      <4>2. CASE TimeOut(r) \/ Release(r) \/ Leave(r)
        BY <4>2 DEF TimeOut, Release, Leave
      <4> QED BY <1>6, <4>1, <4>2
    <3> QED BY <1>0, <3>1, PlusOther
  <2> QED BY <2>1, <2>3, <2>4, CountedMoved
<1>7. ASSUME NEW r \in Requests, Send(r) \/ Lose(r) PROVE Counted'
  <2>1. /\ UNCHANGED <<body, store, answer, counts>>
        /\ \A q \in Requests : Taken(q)' <=> Taken(q)
    <3>1. CASE Send(r)
      <4>1. Taken(r) /\ Taken(r)'
        BY <1>0, <3>1 DEF Send, Taken, Decoded, Goto
      <4>2. \A q \in Requests \ {r} : Taken(q)' <=> Taken(q)
        BY <1>0, <3>1 DEF Send, Taken, Decoded, Goto, TypeOK
      <4> QED BY <3>1, <4>1, <4>2 DEF Send
    <3>2. CASE Lose(r)
      BY <1>0, <3>2 DEF Lose, Taken, Decoded, TypeOK
    <3> QED BY <1>7, <3>1, <3>2
  <2> QED BY <2>1, CountedKept
<1>8. ASSUME NEW r \in Requests, Respond(r) PROVE Counted'
  <2>1. /\ pc[r] = "respond" /\ Goto(r, "release") /\ UNCHANGED <<body, store, wire>>
    BY <1>8 DEF Respond, wireVars
  <2>2. answer[r] = 0 /\ wire[r] # "none" /\ Parses(body[r]) /\ content[slice[r]] = Series(r)
    BY <1>0, <2>1 DEF Settled, Unanswered, WriteInv, TypeInv, Parsed, Decoded,
       SliceOneUser, Holds
  <2>3. Taken(r) /\ Taken(r)'
    BY <2>1, <2>2 DEF Taken
  <2>4. CASE result[r] # "ok"
    <3>1. \E code \in Statuses \ {200} : answer' = [answer EXCEPT ![r] = code]
      <4>1. CASE result[r] = "tooMany"
        <5> DEFINE code == 429
        <5>1. answer' = [answer EXCEPT ![r] = code]
          BY <1>8, <4>1 DEF Respond
        <5>2. code \in Statuses \ {200}
          BY DEF Statuses
        <5> HIDE DEF code
        <5> QED BY <5>1, <5>2
      <4>2. CASE result[r] # "tooMany"
        <5> DEFINE code == 500
        <5>1. answer' = [answer EXCEPT ![r] = code]
          BY <1>8, <2>4, <4>2 DEF Respond
        <5>2. code \in Statuses \ {200}
          BY DEF Statuses
        <5> HIDE DEF code
        <5> QED BY <5>1, <5>2
      <4> QED BY <4>1, <4>2
    <3>2. UNCHANGED counts
      BY <1>8, <2>4 DEF Respond
    <3> QED BY <2>1, <2>2, <2>3, <3>1, <3>2, CountedMoved
  <2>5. CASE result[r] = "ok"
    <3>1. answer' = [answer EXCEPT ![r] = 200]
      BY <1>8, <2>5 DEF Respond
    <3>2. r \notin Received /\ Received' = Received \cup {r}
      BY <1>a, <2>2, <3>1 DEF Received
    <3>3. IsFiniteSet(Received') /\ Cardinality(Received') = Cardinality(Received) + 1
      BY <3>2, OneMore DEF Counted
    <3>4. Incoming' = Incoming
      <4>1. ASSUME NEW q \in Requests \ {r} PROVE Taken(q)' <=> Taken(q)
        BY <1>0, <1>a, <2>1, <3>1 DEF Taken, Decoded, Goto
      <4> QED BY <2>3, <4>1 DEF Incoming
    <3>5. /\ ReceivedSamples' = ReceivedSamples \cup SamplesOf(r)
          /\ ReceivedSamples \cap SamplesOf(r) = {}
      BY <2>1, <3>2 DEF ReceivedSamples, SamplesOf
    <3>6. /\ IsFiniteSet(SamplesOf(r)) /\ Cardinality(SamplesOf(r)) = Len(Series(r))
          /\ Len(Series(r)) \in Nat
      BY <1>0, <2>2, SamplesCount
    <3>7. /\ IsFiniteSet(ReceivedSamples')
          /\ Cardinality(ReceivedSamples') = Cardinality(ReceivedSamples) + Len(Series(r))
      <4>1. IsFiniteSet(ReceivedSamples) /\ Cardinality(ReceivedSamples) \in Nat
        BY FS_CardinalityType DEF Counted
      <4> DEFINE all == ReceivedSamples \cup SamplesOf(r)
      <4>2. /\ IsFiniteSet(all)
            /\ Cardinality(all) = Cardinality(ReceivedSamples) + Cardinality(SamplesOf(r))
                                  - Cardinality(ReceivedSamples \cap SamplesOf(r))
        BY <3>6, <4>1, FS_Union
      <4>3. Cardinality(ReceivedSamples \cap SamplesOf(r)) = 0
        BY <3>5, FS_EmptySet
      <4> HIDE DEF all
      <4>4. IsFiniteSet(all) /\ Cardinality(all) = Cardinality(ReceivedSamples) + Len(Series(r))
        BY <3>6, <4>1, <4>2, <4>3
      <4> QED BY <3>5, <4>4 DEF all
    <3>8. /\ counts'["incoming"] = counts["incoming"]
          /\ counts'["received"] = counts["received"] + 1
          /\ counts'["receivedSamples"] = counts["receivedSamples"] + Len(Series(r))
      <4> DEFINE mid == Plus(counts, "received", 1)
      <4>1. /\ "received" \in Counters /\ "receivedSamples" \in Counters
            /\ {"incoming", "receivedSamples"} \subseteq Counters \ {"received"}
            /\ {"incoming", "received"} \subseteq Counters \ {"receivedSamples"}
        BY DEF Counters
      <4>2. /\ mid["received"] = counts["received"] + 1
            /\ \A k \in Counters \ {"received"} : mid[k] = counts[k]
        BY <1>0, <4>1, PlusCounts
      <4>3. mid \in [Counters -> Nat]
        BY <1>0, <4>1, PlusType
      <4>4. counts' = Plus(mid, "receivedSamples", Len(Series(r)))
        BY <1>8, <2>2, <2>5 DEF Respond
      <4> HIDE DEF mid
      <4>5. /\ counts'["receivedSamples"] = mid["receivedSamples"] + Len(Series(r))
            /\ \A k \in Counters \ {"receivedSamples"} : counts'[k] = mid[k]
        BY <3>6, <4>1, <4>3, <4>4, PlusCounts
      <4> QED BY <4>1, <4>2, <4>5
    <3>9. StoredSamples' = StoredSamples
      BY <2>1 DEF StoredSamples
    <3> QED BY <3>3, <3>4, <3>7, <3>8, <3>9 DEF Counted
  <2> QED BY <2>4, <2>5
<1>9. ASSUME NEW r \in Requests, Upstream(r) PROVE Counted'
  <2>1. wire[r] = "sent" /\ wire' = [wire EXCEPT ![r] = "answered"]
        /\ UNCHANGED <<pc, body, sent, answer, counts>>
    BY <1>9 DEF Upstream
  <2>2. \A q \in Requests : Taken(q)' <=> Taken(q)
    BY <1>0, <2>1 DEF Taken, Decoded, TypeOK
  <2>3. CASE UNCHANGED store
    BY <2>1, <2>2, <2>3, CountedKept
  <2>4. CASE store' = Append(store, [req |-> r, series |-> sent[r]])
    <3>1. Incoming' = Incoming /\ Received' = Received /\ ReceivedSamples' = ReceivedSamples
      BY <2>1, <2>2 DEF Incoming, Received, ReceivedSamples
    <3>2. sent[r] = Series(r) /\ Parses(body[r])
      BY <1>0, <2>1 DEF Settled, OnItsWay
    <3>3. IsFiniteSet(Range(sent[r]))
      BY <1>0, <3>2, SamplesCount
    <3>4. StoredSamples' = StoredSamples \cup Range(sent[r])
      <4>1. /\ DOMAIN store' = 1 .. Len(store) + 1 /\ DOMAIN store = 1 .. Len(store)
            /\ Len(store) \in Nat /\ store'[Len(store) + 1].series = sent[r]
            /\ \A i \in 1 .. Len(store) : store'[i] = store[i]
        BY <1>0, <2>4, StoreGrows
      <4>2. DOMAIN store' = DOMAIN store \cup {Len(store) + 1}
        BY <4>1
      <4> QED BY <4>1, <4>2 DEF StoredSamples
    <3>5. IsFiniteSet(StoredSamples')
      BY <3>3, <3>4, FS_Union DEF Counted
    <3> QED BY <2>1, <3>1, <3>5 DEF Counted
  <2> QED BY <1>9, <2>3, <2>4 DEF Upstream, OnTheWire
<1> QED
  BY <1>1, <1>2, <1>3, <1>4, <1>5, <1>6, <1>7, <1>8, <1>9 DEF Next, HandlerStep

LEMMA CountersFollow == WriteInv /\ Counted => CountersAgree
<1> SUFFICES ASSUME WriteInv, Counted PROVE CountersAgree
  OBVIOUS
<1>0. TypeOK /\ Gauge /\ StoredWhole /\ \A q \in Requests : Settled(q)
  BY DEF WriteInv, TypeInv
<1>1. SamplesAgree
  <2>1. ASSUME NEW x \in ReceivedSamples PROVE x \in StoredSamples
    <3>1. /\ x[1] \in Requests /\ answer[x[1]] = 200 /\ x \in SamplesOf(x[1])
      BY DEF ReceivedSamples, Received, SamplesOf
    <3>2. Promise!Stored(x[1])
      BY <1>0, <3>1 DEF Settled, Truthful
    <3>3. PICK i \in DOMAIN store : store[i].req = x[1]
      BY <3>2 DEF Promise!Stored
    <3>4. store[i].series = Series(x[1])
      BY <1>0, <3>3 DEF StoredWhole
    <3>5. Parses(body[x[1]])
      BY <1>0, <3>1, <3>2 DEF Settled, OnItsWay
    <3>6. x \in Range(Series(x[1]))
      BY <1>0, <3>1, <3>5, SamplesCount
    <3> QED BY <3>4, <3>6 DEF StoredSamples
  <2>2. Cardinality(ReceivedSamples) <= Cardinality(StoredSamples)
    BY <2>1, FS_Subset DEF Counted
  <2> QED BY <2>2 DEF SamplesAgree, Counted
<1>2. RequestsAgree
  <2> SUFFICES ASSUME \A r \in Requests : pc[r] = "done"
               PROVE  /\ counts["received"] = Cardinality(Answered({200}))
                      /\ counts["incoming"] =
                             Cardinality({r \in Requests : wire[r] # "none"})
                             + Cardinality({r \in Answered({400}) : Parses(body[r])})
    BY DEF RequestsAgree
  <2> DEFINE W == {r \in Requests : wire[r] # "none"}
             B == {r \in Answered({400}) : Parses(body[r])}
  <2>1. Answered({200}) = Received
    BY DEF Answered, Received
  <2>2. Incoming = W \cup B
    BY DEF Incoming, Taken, Decoded, Answered
  <2>3. W \cap B = {}
    BY <1>0 DEF Settled, OnItsWay, Answered
  <2>4. IsFiniteSet(W) /\ IsFiniteSet(B)
    BY <2>2, FS_Subset DEF Counted
  <2>5. Cardinality(Incoming) = Cardinality(W) + Cardinality(B) - Cardinality(W \cap B)
    BY <2>2, <2>4, FS_Union
  <2> HIDE DEF W, B
  <2>6. Cardinality(Incoming) = Cardinality(W) + Cardinality(B)
    <3>1. Cardinality(W \cap B) = 0
      BY <2>3, FS_EmptySet
    <3>2. Cardinality(W) \in Nat /\ Cardinality(B) \in Nat
      BY <2>4, FS_CardinalityType
    <3> QED BY <2>5, <3>1, <3>2
  <2> QED BY <2>1, <2>6 DEF Counted, W, B
<1> QED BY <1>0, <1>1, <1>2 DEF CountersAgree, Gauge

(* The gauge and the counters agree with what upstream stored and what was   *)
(* answered, for any number of requests at a time and wherever they end.     *)
THEOREM CountersAgreeAlways == Spec => []CountersAgree
<1>1. Init => Counted
  <2> SUFFICES ASSUME Init PROVE Counted
    OBVIOUS
  <2>1. Incoming = {} /\ Received = {}
    BY DEF Init, Incoming, Taken, Decoded, Received
  <2>2. ReceivedSamples = {}
    BY <2>1 DEF ReceivedSamples
  <2>3. StoredSamples = {}
    BY DEF Init, StoredSamples
  <2> QED BY <2>1, <2>2, <2>3, FS_EmptySet DEF Counted, Init, Counters
<1>2. WriteInv /\ Counted /\ [Next]_vars => (WriteInv /\ Counted)'
  BY WriteInvStep, CountedStep
<1> QED BY <1>1, <1>2, WriteInvInit, CountersFollow, PTL DEF Spec
==============================================================================
