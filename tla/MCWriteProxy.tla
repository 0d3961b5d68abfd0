---------------------------- MODULE MCWriteProxy -----------------------------
(* Instances of WriteProxy.tla: bodies that end at each of the checks. *)
EXTENDS WriteProxy

Body(metrics) == [auth |-> TRUE, size |-> 1, known |-> TRUE, metrics |-> metrics]
Good == Body(<<"good", "good">>)
MCBodies == {Good, Body(<<"good", "invalid">>), Body(<<"good", "badTag">>), Body(Garbled),
             [Good EXCEPT !.auth = FALSE], [Good EXCEPT !.size = 2],
             [Good EXCEPT !.known = FALSE]}
==============================================================================
