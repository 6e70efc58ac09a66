---------------------------- MODULE MessageIds ----------------------------
(***************************************************************************)
(* The ids of network messages, src/src/network/nNetwork.cpp: an unsigned  *)
(* short that counts the messages a process creates, for all its peers,    *)
(* and comes round past the reserved ids.                                  *)
(***************************************************************************)
EXTENDS Integers

CONSTANTS
  IdSpace,   \* values of an unsigned short (65536)
  Reserved,  \* IDS_RESERVED (16): ids that no message is given
  NewWindow  \* an id less than this ahead of the newest is new (10000)

ASSUME IdAssumption ==
  /\ IdSpace \in Nat /\ Reserved \in Nat /\ Reserved + 1 < IdSpace
  /\ NewWindow \in Nat /\ NewWindow < IdSpace

(* Ids that are handed out before the counter returns to the first one.    *)
Cycle == IdSpace - 1 - Reserved

(* current_id after n messages.                                            *)
MessageIDTooWide(n) == Reserved + n
MessageID(n) == Reserved + 1 + ((n - 1) % Cycle)

(* unsigned short diff = mess_id - highest_ack[id]                         *)
Diff(id, high) == (id - high) % IdSpace

(* "the message has a more recent id than anything before"                 *)
SurelyNewUnbounded(id, high) == Diff(id, high) > 0
SurelyNew(id, high) == Diff(id, high) > 0 /\ Diff(id, high) < NewWindow
=============================================================================
