------------------------------- MODULE MCVoting -------------------------------
(* An instance of Voting for TLC.                                          *)
EXTENDS Voting

CONSTANTS m1, m2, m3

NoBias == [kind \in Harmful \cup {"voice"} |-> 0]
(* Two of three users on one machine, with one poll, of whom some leave,   *)
(* come and change their players; and three voters with two polls.         *)
PairAndThree ==
  {[there |-> <<m1, m1, m2>>, polls |-> 1, moves |-> 3],
   [there |-> <<m1, m2, m3>>, polls |-> 2, moves |-> 0]}
NoneOrFirst == {{}, {m1}}
=============================================================================
