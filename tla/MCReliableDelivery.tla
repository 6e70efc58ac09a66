------------------------- MODULE MCReliableDelivery -------------------------
(* The instances in which the ids, the window and the ring are wide enough *)
(* for the network: the hypothesis of the delivery theorems.               *)
EXTENDS MCReliableMessaging

ASSUME WideWindowHolds == WideWindow
=============================================================================
