------------------------ MODULE MCReliableMessaging ------------------------
(* Instances of ReliableMessaging for TLC.                                 *)
EXTENDS ReliableMessaging

(* The server has sent so much that its ids come round in this connection; *)
(* the client is fresh and sends nothing.                                  *)
StartWrapping == [h \in Host |-> IF h = Server THEN 4 ELSE 1]
LimitWrapping == [h \in Host |-> IF h = Server THEN 11 ELSE 1]

(* Two fresh ends; each sends one message, which fills its window.         *)
StartFresh == [h \in Host |-> 1]
LimitEach == [h \in Host |-> 2]

(* Ids of the client reach NewWindow right after the login.                *)
StartStraddling == [h \in Host |-> 1]
LimitStraddling == [h \in Host |-> IF h = Server THEN 1 ELSE 4]
=============================================================================
