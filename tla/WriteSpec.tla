------------------------------ MODULE WriteSpec ------------------------------
(****************************************************************************)
(* What the write proxy promises to those who write through it: upstream    *)
(* stores the series of a request whole and at most once, a 200 says that   *)
(* it did, a refusal says that it did not and never will, and any other     *)
(* answer leaves it open.                                                   *)
(****************************************************************************)
EXTENDS Naturals, Sequences

CONSTANTS
    Requests,
    NoSeries,   \* what a request offers that has not come yet
    Refusals    \* the answers that say nothing was stored

VARIABLES
    offered,    \* [Requests -> the series of the request, or NoSeries]
    store,      \* upstream: the sequence of what was stored, and for whom
    answer      \* [Requests -> the status, or 0]

specVars == <<offered, store, answer>>

Stored(r) == \E i \in DOMAIN store : store[i].req = r

Init ==
    /\ offered = [r \in Requests |-> NoSeries]
    /\ store = <<>>
    /\ answer = [r \in Requests |-> 0]

Offer(r) ==
    /\ offered[r] = NoSeries /\ offered'[r] # NoSeries
    /\ \A q \in Requests \ {r} : offered'[q] = offered[q]
    /\ UNCHANGED <<store, answer>>

(* Also when the answer was given before, as long as it was no refusal. *)
Store(r) ==
    /\ offered[r] # NoSeries /\ ~Stored(r)
    /\ answer[r] \notin Refusals
    /\ store' = Append(store, [req |-> r, series |-> offered[r]])
    /\ UNCHANGED <<offered, answer>>

Answer(r, code) ==
    /\ offered[r] # NoSeries /\ answer[r] = 0
    /\ code = 200 => Stored(r)
    /\ code \in Refusals => ~Stored(r)
    /\ answer' = [answer EXCEPT ![r] = code]
    /\ UNCHANGED <<offered, store>>

Next == \E r \in Requests :
    Offer(r) \/ Store(r) \/ \E code \in Refusals \cup {200, 408, 499, 500} : Answer(r, code)

Spec == Init /\ [][Next]_specVars
==============================================================================
