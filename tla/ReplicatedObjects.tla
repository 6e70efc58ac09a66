------------------------- MODULE ReplicatedObjects -------------------------
(***************************************************************************)
(* What nNetObject promises of the copies of objects on server and         *)
(* clients (src/src/network/nNetObject.cpp): an object appears on another  *)
(* node only after it was made and vanishes only after it ended where it   *)
(* came from, a copy never comes back, and it is never ahead of its        *)
(* source.  Ids, messages and acknowledgements do not exist here.          *)
(***************************************************************************)
EXTENDS Integers, FiniteSets

CONSTANTS
  Server, Client,
  Object,  \* all that are ever made
  NoNode   \* maker of an object that is not made

Node == {Server} \cup Client

VARIABLES
  maker,   \* the node that made the object
  ended,   \* objects that their maker has ended or left
  copy,    \* copy[n][o]: "never" at n, "here" or "gone"
  version  \* version[n][o]: how often the copy here was changed at its maker

vars == <<maker, ended, copy, version>>

Init ==
  /\ maker = [o \in Object |-> NoNode]
  /\ ended = {}
  /\ copy = [n \in Node |-> [o \in Object |-> "never"]]
  /\ version = [n \in Node |-> [o \in Object |-> 0]]

(* Only the version of one copy differs.                                   *)
VersionOnly(n, o) ==
  /\ version'[n][o] \in Nat
  /\ version' = [version EXCEPT ![n][o] = version'[n][o]]

(* Where the copy of n comes from.                                         *)
Source(n, o) == IF n = Server THEN maker[o] ELSE Server

(* A client that has come back may get what it once made itself.           *)
Replica(n, o) == n # maker[o] \/ (n # Server /\ o \in ended)

NotAhead(n, o) ==
  copy[Source(n, o)][o] = "here" => version'[n][o] <= version[Source(n, o)][o]

Make(n, o) ==
  /\ maker[o] = NoNode
  /\ maker' = [maker EXCEPT ![o] = n]
  /\ copy' = [copy EXCEPT ![n][o] = "here"]
  /\ UNCHANGED <<ended, version>>

(* The maker changes objects; the server those that it has taken over, or  *)
(* takes over now.                                                         *)
Change(n, objs) ==
  /\ \A o \in objs : copy[n][o] = "here" /\ (n = maker[o] \/ (n = Server /\ o \in ended))
  /\ version' = [version EXCEPT ![n] = [o \in Object |-> IF o \in objs THEN @[o] + 1 ELSE @[o]]]
  /\ UNCHANGED <<maker, ended, copy>>

Appear(n, o) ==
  /\ maker[o] # NoNode /\ Replica(n, o)
  /\ copy[n][o] = "never" /\ copy[Source(n, o)][o] # "never"
  /\ copy' = [copy EXCEPT ![n][o] = "here"]
  /\ VersionOnly(n, o) /\ NotAhead(n, o)
  /\ UNCHANGED <<maker, ended>>

Update(n, o) ==
  /\ copy[n][o] = "here" /\ Replica(n, o)
  /\ VersionOnly(n, o) /\ version'[n][o] > version[n][o] /\ NotAhead(n, o)
  /\ UNCHANGED <<maker, ended, copy>>

(* Copies end: several of the server's at once at the end of a round.      *)
MayVanish(n, o) ==
  \/ ~Replica(n, o)
  \/ n = Server /\ o \in ended
  \/ n # Server /\ copy[Server][o] = "gone"

Vanish(n) ==
  /\ \E gone \in SUBSET {o \in Object : copy[n][o] = "here" /\ MayVanish(n, o)} :
       /\ copy' = [copy EXCEPT ![n] = [o \in Object |-> IF o \in gone THEN "gone" ELSE @[o]]]
       /\ version' = [version EXCEPT ![n] = [o \in Object |-> IF o \in gone THEN 0 ELSE @[o]]]
       /\ ended' = ended \cup {o \in gone : maker[o] = n}
  /\ UNCHANGED maker

(* A client that leaves forgets all objects, and ends its own.             *)
Leave(c) ==
  LET own == {o \in Object : maker[o] = c} IN
  /\ \E gone \in SUBSET {o \in own : copy[Server][o] = "here"} :
       /\ copy' = [copy EXCEPT
            ![c] = [o \in Object |-> "never"],
            ![Server] = [o \in Object |-> IF o \in gone THEN "gone" ELSE @[o]]]
       /\ version' = [version EXCEPT
            ![c] = [o \in Object |-> 0],
            ![Server] = [o \in Object |-> IF o \in gone THEN 0 ELSE @[o]]]
  /\ ended' = ended \cup own
  /\ UNCHANGED maker

Next ==
  \/ \E n \in Node : Vanish(n) \/ \E objs \in SUBSET Object : Change(n, objs)
  \/ \E n \in Node, o \in Object : Make(n, o) \/ Appear(n, o) \/ Update(n, o)
  \/ \E c \in Client : Leave(c)

Spec == Init /\ [][Next]_vars
=============================================================================
