------------------------------ MODULE MCUSTable ------------------------------
(* Instances of USTable.tla: a short key "s" and a long one "l", whose       *)
(* values, blocks of samples in a date file, differ in length too; the       *)
(* records of the progress file have empty values.                           *)
EXTENDS USTable, TLC

MCKeyCells == "s" :> 1 @@ "l" :> 5
MCValCells == [o \in Openers |->
    IF o = "scan" THEN "s" :> 1 @@ "l" :> 2 ELSE [k \in Keys |-> 0]]
==============================================================================
