------------------------------ MODULE BlockSpec ------------------------------
(****************************************************************************)
(* What a block builder promises (the comments on Builder, NewBuilder and   *)
(* FinishBlock in pkg/tsdb/builder.go): calls add series in any order, even *)
(* concurrently; when none failed, one FinishBlock makes a block of exactly *)
(* the added series in label order, or reports an error and makes none.     *)
(****************************************************************************)
EXTENDS Naturals, Sequences, FiniteSets

CONSTANTS
    Calls,      \* the calls of AddSeriesWithSamples
    Rank        \* [Calls -> Nat]: place of a call's labels in label order

VARIABLES
    accepted,   \* the calls that have added their series
    failed,     \* whether some call returned an error
    outcome,    \* "none", "error", or "block"
    order       \* the calls in the order of the block's series

specVars == <<accepted, failed, outcome, order>>

Init == accepted = {} /\ failed = FALSE /\ outcome = "none" /\ order = <<>>

Accept(c) ==
    /\ outcome = "none" /\ c \notin accepted
    /\ accepted' = accepted \cup {c}
    /\ UNCHANGED <<failed, outcome, order>>

Fail ==
    /\ outcome = "none"
    /\ failed' = TRUE
    /\ UNCHANGED <<accepted, outcome, order>>

(* A block in label order, each accepted series once. *)
IsBlockOf(s, S) ==
    /\ {s[i] : i \in DOMAIN s} = S
    /\ \A i, j \in DOMAIN s : i < j => Rank[s[i]] < Rank[s[j]]

Finish ==
    /\ outcome = "none" /\ ~failed
    /\ outcome' = "block"
    /\ IsBlockOf(order', accepted)
    /\ UNCHANGED <<accepted, failed>>

(* Two of the series have the same labels. *)
Reject ==
    /\ outcome = "none" /\ ~failed
    /\ \E c, d \in accepted : c # d /\ Rank[c] = Rank[d]
    /\ outcome' = "error"
    /\ UNCHANGED <<accepted, failed, order>>

Next == Fail \/ Reject \/ Finish \/ \E c \in Calls : Accept(c)

Spec == Init /\ [][Next]_specVars
==============================================================================
