------------------------------ MODULE MCLogin ------------------------------
(* Instances of Login for TLC.                                             *)
EXTENDS Login, TLC

CONSTANTS c1, c2, c3, c4

(* The clients of pair share an address, no others do; of those who try,   *)
(* the ones that come back do so once.                                     *)
World(pair, max, ports, try, back) ==
  [ip         |-> [c \in Client |-> IF c \in pair THEN c1 ELSE c],
   maxClients |-> max,
   ports      |-> [c \in Client |-> IF c \in back THEN ports ELSE {1}],
   attempts   |-> [c \in Client |-> IF c \in back THEN 2 ELSE IF c \in try THEN 1 ELSE 0]]

(* Room for all three, who share an address; room for two, when one has    *)
(* another; and a client that comes back with the port it had or with      *)
(* another, while another client comes.                                    *)
SharedFullAndBack ==
  {World({c1, c2, c3}, 3, {1}, Client, {}),
   World({c1, c2}, 2, {1}, Client, {}),
   World({}, 2, {1, 2}, {c2}, {c1})}

(* A full server, two neighbours and two others.                           *)
TwoNeighbours == {World({c1, c2}, 2, {1}, Client, {})}
=============================================================================
