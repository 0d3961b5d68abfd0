------------------------------- MODULE MCPass2 -------------------------------
(* Instances of Pass2.tla; the threads are interchangeable. *)
EXTENDS Pass2, TLC

Symmetric == Permutations(Threads)
==============================================================================
