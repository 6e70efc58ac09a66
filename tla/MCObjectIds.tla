---------------------------- MODULE MCObjectIds -----------------------------
(* Two instances of ObjectIds in one run: a client makes so many objects   *)
(* that its ring overflows and the server has no id left; two clients      *)
(* leave and one comes back, and ids are used again.                       *)
EXTENDS ObjectIds, TLC

CONSTANTS c1, c2

ShortAndLong ==
  {[made |-> (c1 :> 5) @@ (c2 :> 0), logins |-> (c1 :> 1) @@ (c2 :> 0), served |-> 1, ended |-> 0],
   [made |-> (c1 :> 1) @@ (c2 :> 1), logins |-> (c1 :> 2) @@ (c2 :> 1), served |-> 1, ended |-> 2]}
=============================================================================
