---------------------------- MODULE MCTransfers ----------------------------
(* Finite instances of Transfers.                                           *)
EXTENDS Transfers, TLC

CONSTANTS a, b, c, u, v, h, none

(* One transfer expires after one unit, one after two, one never.           *)
Mixed == [T \in Transfers |-> IF T = a THEN {1} ELSE IF T = b THEN {2} ELSE {0}]

(* The program changes its mind about the timeout between submissions.      *)
Changing == [T \in Transfers |-> {0, 1}]
=============================================================================
