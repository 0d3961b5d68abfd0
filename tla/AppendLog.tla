------------------------------ MODULE AppendLog ------------------------------
(****************************************************************************)
(* What an append-only USTable file promises to its users: a bag of keyed   *)
(* records that grows by one record per append while the file is open, that *)
(* a crash or a Close leaves as it is, and that only an overwriting open    *)
(* empties.  USTable.tla shows the file format keeps this promise, and      *)
(* Pass1.tla is shown to use each of its files by this protocol.            *)
(****************************************************************************)
EXTENDS Naturals

CONSTANTS
    Keys,           \* the record keys (metric names)
    MayOverwrite    \* TRUE when some open passes overwrite = true

VARIABLES
    records,    \* [Keys -> Nat]: how many complete records each key has
    isOpen      \* TRUE while some process holds the file open for append

logVars == <<records, isOpen>>

NoRecords == [k \in Keys |-> 0]

Init == records = NoRecords /\ isOpen = FALSE

(* NewUSTableForAppend: keep what is there, or start again from nothing. *)
Open ==
    /\ ~isOpen
    /\ isOpen' = TRUE
    /\ \/ UNCHANGED records
       \/ MayOverwrite /\ records' = NoRecords

Append(k) ==
    /\ isOpen
    /\ records' = [records EXCEPT ![k] = @ + 1]
    /\ UNCHANGED isOpen

(* Close, os.Exit or a crash: no complete record is touched. *)
Leave == isOpen /\ isOpen' = FALSE /\ UNCHANGED records

Next == Open \/ Leave \/ \E k \in Keys : Append(k)

Spec == Init /\ [][Next]_logVars
==============================================================================
