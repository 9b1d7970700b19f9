------------------------- MODULE MCTransferLiveness -------------------------
(* Transfers with a program that makes at most MaxCalls calls.               *)
EXTENDS Transfers

CONSTANTS a, b, c, u, v, h, none, MaxCalls

VARIABLE calls  \* calls of the program so far

(* One transfer expires after one unit, one never.                           *)
Mixed == [T \in Transfers |-> IF T = a THEN {1} ELSE {0}]

MCInit == Init /\ calls = 0

MCNext ==
  \/ \E t \in Threads : Call(t) /\ calls < MaxCalls /\ calls' = calls + 1
  \/ (Environment \/ \E t \in Threads : Progress(t)) /\ UNCHANGED calls

MCFairSpec ==
  /\ MCInit /\ [][MCNext]_<<vars, calls>>
  /\ \A t \in Threads : SF_<<vars, calls>>(Progress(t) /\ UNCHANGED calls)
  /\ WF_<<vars, calls>>(Tick /\ UNCHANGED calls)
=============================================================================
