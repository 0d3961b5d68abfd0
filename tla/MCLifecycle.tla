----------------------------- MODULE MCLifecycle -----------------------------
(* Instances of Lifecycle.tla. *)
EXTENDS Lifecycle
==============================================================================
