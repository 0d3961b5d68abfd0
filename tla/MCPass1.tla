------------------------------- MODULE MCPass1 -------------------------------
(* Instances of Pass1.tla. Metric a has samples on both selected days and on *)
(* one that is not selected, b on the first, c on the second; x cannot be    *)
(* converted.                                                                *)
EXTENDS Pass1, TLC

MCDaysOf == "a" :> {1, 2, 3} @@ "b" :> {1} @@ "c" :> {2} @@ "x" :> {1}
==============================================================================
