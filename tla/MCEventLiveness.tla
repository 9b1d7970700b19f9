-------------------------- MODULE MCEventLiveness --------------------------
(* EventHandling with a program that starts at most MaxEvents calls and in  *)
(* which at most MaxEvents timeouts and signals end a poll or a wait (one   *)
(* budget for both), so that fairness of the threads suffices and none is   *)
(* asked of the mutexes.                                                    *)
EXTENDS EventHandling

CONSTANTS t1, t2, t3, free, MaxEvents

VARIABLE events  \* calls, timeouts and signals so far

MCInit == Init /\ events = 0

Counted(t) == Call(t) \/ PollGivesUp(t) \/ WaitTimesOut(t)

Free(t) == Progress(t) \/ UrbDone(t) \/ Unplug(t)

MCNext ==
  /\ ~crashed /\ UNCHANGED crashed
  /\ \E t \in Threads :
       \/ events < MaxEvents /\ Counted(t) /\ events' = events + 1
       \/ Free(t) /\ UNCHANGED events

MCSpec == MCInit /\ [][MCNext]_<<vars, events>>

(* Every thread inside the library keeps running; timeouts, signals, the   *)
(* device and further calls are not relied upon.                           *)
MCFairSpec ==
  /\ MCSpec
  /\ \A t \in Threads :
       WF_<<vars, events>>(~crashed /\ Progress(t) /\ UNCHANGED <<crashed, events>>)
=============================================================================
