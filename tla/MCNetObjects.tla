--------------------------- MODULE MCNetObjects ----------------------------
(* Instances of NetObjects.                                                *)
EXTENDS NetObjects, TLC

CONSTANTS c1, c2

(* A client that comes back, two objects one after the other, syncs that   *)
(* may get lost.                                                           *)
Back == [made |-> 2, change |-> 2, logins |-> (c1 :> 2) @@ (c2 :> 0), acks |-> BOOLEAN]

(* Two clients; an object of one of them reaches the other.                *)
Pass == [made |-> 1, change |-> 1, logins |-> (c1 :> 1) @@ (c2 :> 1), acks |-> {TRUE}]

BackAndPass == {Back, Pass}
BackOnly == {Back}
=============================================================================
