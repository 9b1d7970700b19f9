----------------------- MODULE EventHandlingProofs -------------------------
(* Proofs of the safety properties of EventHandling for any number of       *)
(* threads.                                                                 *)
EXTENDS EventHandling, FiniteSetTheorems, TLAPS

(* Threads whose byte is in the control pipe.                              *)
Signalling == {t \in Threads : pc[t] \in {"lock", "active", "read"}}

(* Labels at which a thread has taken the events lock once, twice, or, in  *)
(* libusb_close(), once iff its signal could be written.                   *)
HoldsOnce  == {"try_active", "check", "poll", "reap", "reap_bcast",
               "active", "read", "unlock_flag", "unlock_mutex"}
InDoClose  == {"close_active", "close_flag", "close_mutex"}
MayHold    == {"done", "close_lock", "close_bcast", "close_list", "close_remove"}

(* How often a thread has taken the events lock.                           *)
Level(t) ==
  (IF pc[t] \in HoldsOnce \/ (pc[t] \in MayHold \union InDoClose /\ wrote[t]) THEN 1 ELSE 0)
  + (IF pc[t] \in InDoClose THEN 1 ELSE 0)

(* Labels at which a thread holds event_waiters_lock.                      *)
HoldsWaiters == {"recheck", "active_modify", "active_flag", "cond_wait", "waiters_unlock"}

(* pollfd_modify and the control pipe count the threads that change the    *)
(* poll descriptors.                                                       *)
CountInv ==
  /\ pollfdModify = Cardinality(Modifying)
  /\ ctrlPipe = Cardinality(Signalling)

(* Whoever has taken the events lock owns it, and its depth is right.      *)
LockInv ==
  /\ \A t \in Threads : eventsOwner = t <=> Level(t) > 0
  /\ eventsOwner \in Threads => eventsDepth = Level(eventsOwner)
  /\ eventsOwner = NoThread => eventsDepth = 0

WaitersInv ==
  /\ \A t \in Threads : waitersOwner = t <=> pc[t] \in HoldsWaiters
  /\ \A t \in waitSet : pc[t] = "asleep"

(* event_handler_active is set only while the events lock is held, and is  *)
(* cleared before it is released.                                          *)
ActiveInv ==
  /\ handlerActive => eventsOwner # NoThread
  /\ \A t \in Threads : pc[t] \in {"unlock_mutex", "close_mutex"} => ~handlerActive

(* A write that failed is the only way past the signal without a byte.     *)
WroteInv ==
  \A t \in Threads :
    /\ pc[t] \in {"lock", "active", "read"} => wrote[t]
    /\ ~WriteMayFail /\ pc[t] \in MayHold \union InDoClose => wrote[t]

(* A descriptor that a poll in progress may miss belongs to a call of      *)
(* libusb_open() that has yet to interrupt it.                             *)
Unannounced(u) == op[u] = "open" /\ pc[u] \in {"open_list", "modify", "write", "lock"}

PolledInv ==
  \A t, u \in Threads :
    pc[t] = "poll" /\ u \in pollfds => u \in fds[t] \/ Unannounced(u)

IInv == TypeOK /\ CountInv /\ LockInv /\ WaitersInv /\ ActiveInv /\ WroteInv

-----------------------------------------------------------------------------
(* The waiters lock is held exactly at the labels of HoldsWaiters.         *)
LEMMA WaitersStep ==
  ASSUME TypeOK, WaitersInv, NEW t \in Threads, Run(t)
  PROVE  WaitersInv'
<1> pc \in [Threads -> Labels] /\ NoThread \notin Threads /\ waitSet \subseteq Threads
  BY ThreadsAssumption DEF TypeOK
<1> USE DEF WaitersInv, HoldsWaiters, Goto, Step, Return, LeaveCall, Broadcast, locks, waiters,
      signal, polled, device
<1>1. CASE Call(t)
  BY <1>1 DEF Call, Open, Close, Submit, HandleEvents
<1>2. CASE Modify(t)
  BY <1>2 DEF Modify, OpenList, BeginModify, WriteSignal, WriteFails, LockForModify,
     ActiveForModify, ReadSignal, EndModify
<1>3. CASE DoClose(t)
  BY <1>3 DEF DoClose, CloseLock, CloseActive, CloseFlag, CloseMutex, CloseBroadcast,
     CloseList, CloseRemove
<1>4. CASE Handle(t)
  BY <1>4 DEF Handle, Finish, Again, TryModify, TryLock, TryLockFails, TryActive, CheckDone,
     GatherFds, PollInterrupted, PollReady, Reap, ReapBroadcast, ReapDone, UnlockFlag,
     UnlockMutex, UnlockBroadcast
<1>5. CASE Wait(t)
  BY <1>5 DEF Wait, WaitersLock, Recheck, ActiveModify, ActiveFlag, RetryAsHandler, CondWait,
     Awake, WaitersUnlock
<1>6. CASE Environment(t)
  BY <1>6 DEF Environment, PollGivesUp, WaitTimesOut, UrbDone, Unplug
<1> QED
  BY <1>1, <1>2, <1>3, <1>4, <1>5, <1>6 DEF Run, Progress

(* Only a write that failed lets a thread pass the signal.                 *)
LEMMA WroteStep ==
  ASSUME TypeOK, WroteInv, NEW t \in Threads, Run(t)
  PROVE  WroteInv'
<1> pc \in [Threads -> Labels] /\ wrote \in [Threads -> BOOLEAN]
  BY DEF TypeOK
<1> USE DEF WroteInv, MayHold, InDoClose, Goto, Step, Return, LeaveCall, Broadcast, locks,
      waiters, signal, polled, device
<1>1. CASE Call(t)
  BY <1>1 DEF Call, Open, Close, Submit, HandleEvents
<1>2. CASE Modify(t)
  BY <1>2 DEF Modify, OpenList, BeginModify, WriteSignal, WriteFails, LockForModify,
     ActiveForModify, ReadSignal, EndModify
<1>3. CASE DoClose(t)
  BY <1>3 DEF DoClose, CloseLock, CloseActive, CloseFlag, CloseMutex, CloseBroadcast,
     CloseList, CloseRemove
<1>4. CASE Handle(t)
  BY <1>4 DEF Handle, Finish, Again, TryModify, TryLock, TryLockFails, TryActive, CheckDone,
     GatherFds, PollInterrupted, PollReady, Reap, ReapBroadcast, ReapDone, UnlockFlag,
     UnlockMutex, UnlockBroadcast
<1>5. CASE Wait(t)
  BY <1>5 DEF Wait, WaitersLock, Recheck, ActiveModify, ActiveFlag, RetryAsHandler, CondWait,
     Awake, WaitersUnlock
<1>6. CASE Environment(t)
  BY <1>6 DEF Environment, PollGivesUp, WaitTimesOut, UrbDone, Unplug
<1> QED
  BY <1>1, <1>2, <1>3, <1>4, <1>5, <1>6 DEF Run, Progress

(* The events lock is taken and released in the order of the labels.       *)
LEMMA LockStep ==
  ASSUME TypeOK, LockInv, WroteInv, NEW t \in Threads, Run(t)
  PROVE  LockInv'
<1> /\ pc \in [Threads -> Labels] /\ wrote \in [Threads -> BOOLEAN]
    /\ eventsOwner \in Threads \union {NoThread} /\ eventsDepth \in Nat
    /\ NoThread \notin Threads
    /\ \A u \in Threads : pc[u] \in {"lock", "active", "read"} => wrote[u]
  BY ThreadsAssumption DEF TypeOK, WroteInv
<1> USE DEF LockInv, Level, HoldsOnce, MayHold, InDoClose, LockEventsMutex, UnlockEventsMutex,
      SetHandlerActive, Goto, Step, Return, LeaveCall, Broadcast, locks, waiters, signal,
      polled, device
<1>1. CASE Call(t)
  BY <1>1 DEF Call, Open, Close, Submit, HandleEvents
<1>2. CASE Modify(t)
  BY <1>2 DEF Modify, OpenList, BeginModify, WriteSignal, WriteFails, LockForModify,
     ActiveForModify, ReadSignal, EndModify
<1>3. CASE DoClose(t)
  BY <1>3 DEF DoClose, CloseLock, CloseActive, CloseFlag, CloseMutex, CloseBroadcast,
     CloseList, CloseRemove
<1>4. CASE Handle(t)
  BY <1>4 DEF Handle, Finish, Again, TryModify, TryLock, TryLockFails, TryActive, CheckDone,
     GatherFds, PollInterrupted, PollReady, Reap, ReapBroadcast, ReapDone, UnlockFlag,
     UnlockMutex, UnlockBroadcast
<1>5. CASE Wait(t)
  BY <1>5 DEF Wait, WaitersLock, Recheck, ActiveModify, ActiveFlag, RetryAsHandler, CondWait,
     Awake, WaitersUnlock
<1>6. CASE Environment(t)
  BY <1>6 DEF Environment, PollGivesUp, WaitTimesOut, UrbDone, Unplug
<1> QED
  BY <1>1, <1>2, <1>3, <1>4, <1>5, <1>6 DEF Run, Progress

(* event_handler_active follows the events lock.                           *)
LEMMA ActiveStep ==
  ASSUME TypeOK, LockInv, ActiveInv, NEW t \in Threads, Run(t)
  PROVE  ActiveInv'
<1> /\ pc \in [Threads -> Labels] /\ wrote \in [Threads -> BOOLEAN]
    /\ eventsOwner \in Threads \union {NoThread} /\ eventsDepth \in Nat
    /\ handlerActive \in BOOLEAN /\ NoThread \notin Threads
  BY ThreadsAssumption DEF TypeOK
<1> USE DEF LockInv, ActiveInv, Level, HoldsOnce, MayHold, InDoClose, LockEventsMutex,
      UnlockEventsMutex, SetHandlerActive, Goto, Step, Return, LeaveCall, Broadcast, locks,
      waiters, signal, polled, device
<1>1. CASE Call(t)
  BY <1>1 DEF Call, Open, Close, Submit, HandleEvents
<1>2. CASE Modify(t)
  BY <1>2 DEF Modify, OpenList, BeginModify, WriteSignal, WriteFails, LockForModify,
     ActiveForModify, ReadSignal, EndModify
<1>3. CASE DoClose(t)
  BY <1>3 DEF DoClose, CloseLock, CloseActive, CloseFlag, CloseMutex, CloseBroadcast,
     CloseList, CloseRemove
<1>4. CASE Handle(t)
  BY <1>4 DEF Handle, Finish, Again, TryModify, TryLock, TryLockFails, TryActive, CheckDone,
     GatherFds, PollInterrupted, PollReady, Reap, ReapBroadcast, ReapDone, UnlockFlag,
     UnlockMutex, UnlockBroadcast
<1>5. CASE Wait(t)
  BY <1>5 DEF Wait, WaitersLock, Recheck, ActiveModify, ActiveFlag, RetryAsHandler, CondWait,
     Awake, WaitersUnlock
<1>6. CASE Environment(t)
  BY <1>6 DEF Environment, PollGivesUp, WaitTimesOut, UrbDone, Unplug
<1> QED
  BY <1>1, <1>2, <1>3, <1>4, <1>5, <1>6 DEF Run, Progress

(* Only BeginModify and EndModify change which threads are modifying, and  *)
(* only WriteSignal and ReadSignal which have a byte in the pipe.          *)
LEMMA CountFrame ==
  ASSUME TypeOK, WroteInv, NEW t \in Threads, Run(t)
  PROVE  /\ ~BeginModify(t) /\ ~EndModify(t) => UNCHANGED <<Modifying, pollfdModify>>
         /\ ~WriteSignal(t) /\ ~ReadSignal(t) => UNCHANGED <<Signalling, ctrlPipe>>
<1> pc \in [Threads -> Labels]
  BY DEF TypeOK
<1> USE DEF Modifying, Signalling, Goto, Step, Return, LeaveCall, Broadcast, locks, waiters,
      signal, polled, device
<1>1. CASE Call(t)
  BY <1>1 DEF Call, Open, Close, Submit, HandleEvents
<1>2. CASE Modify(t)
  BY <1>2 DEF Modify, OpenList, BeginModify, WriteSignal, WriteFails, LockForModify,
     ActiveForModify, ReadSignal, EndModify
<1>3. CASE DoClose(t)
  BY <1>3 DEF DoClose, CloseLock, CloseActive, CloseFlag, CloseMutex, CloseBroadcast,
     CloseList, CloseRemove
<1>4. CASE Handle(t)
  BY <1>4 DEF Handle, Finish, Again, TryModify, TryLock, TryLockFails, TryActive, CheckDone,
     GatherFds, PollInterrupted, PollReady, Reap, ReapBroadcast, ReapDone, UnlockFlag,
     UnlockMutex, UnlockBroadcast
<1>5. CASE Wait(t)
  BY <1>5 DEF Wait, WaitersLock, Recheck, ActiveModify, ActiveFlag, RetryAsHandler, CondWait,
     Awake, WaitersUnlock
<1>6. CASE Environment(t)
  BY <1>6 DEF Environment, PollGivesUp, WaitTimesOut, UrbDone, Unplug
<1> QED
  BY <1>1, <1>2, <1>3, <1>4, <1>5, <1>6 DEF Run, Progress

(* pollfd_modify and the control pipe keep counting.                       *)
LEMMA CountStep ==
  ASSUME TypeOK, CountInv, WroteInv, NEW t \in Threads, Run(t)
  PROVE  CountInv'
<1>1. IsFiniteSet(Modifying) /\ IsFiniteSet(Signalling)
  BY ThreadsAssumption, FS_Subset DEF Modifying, Signalling
<1>2. pc \in [Threads -> Labels]
  BY DEF TypeOK
<1>3. pollfdModify' = Cardinality(Modifying')
  <2>1. CASE BeginModify(t)
    <3>1. t \notin Modifying /\ Modifying' = Modifying \union {t}
      BY <1>2, <2>1 DEF BeginModify, Step, Goto, Modifying
    <3> QED
      BY <1>1, <2>1, <3>1, FS_AddElement DEF BeginModify, CountInv
  <2>2. CASE EndModify(t)
    <3>1. t \in Modifying /\ Modifying' = Modifying \ {t}
      BY <1>2, <2>2 DEF EndModify, Return, Goto, Modifying
    <3>2. Cardinality(Modifying \ {t}) = Cardinality(Modifying) - 1
      BY <1>1, <3>1, FS_RemoveElement
    <3> QED
      BY <2>2, <3>1, <3>2 DEF EndModify, CountInv
  <2>3. CASE ~BeginModify(t) /\ ~EndModify(t)
    BY <2>3, CountFrame DEF CountInv
  <2> QED
    BY <2>1, <2>2, <2>3
<1>4. ctrlPipe' = Cardinality(Signalling')
  <2>1. CASE WriteSignal(t)
    <3>1. t \notin Signalling /\ Signalling' = Signalling \union {t}
      BY <1>2, <2>1 DEF WriteSignal, Step, Goto, Signalling
    <3> QED
      BY <1>1, <2>1, <3>1, FS_AddElement DEF WriteSignal, CountInv
  <2>2. CASE ReadSignal(t)
    <3>1. t \in Signalling /\ Signalling' = Signalling \ {t}
      BY <1>2, <2>2 DEF ReadSignal, Step, Goto, Signalling
    <3>2. Cardinality(Signalling \ {t}) = Cardinality(Signalling) - 1
      BY <1>1, <3>1, FS_RemoveElement
    <3> QED
      BY <2>2, <3>1, <3>2 DEF ReadSignal, CountInv
  <2>3. CASE ~WriteSignal(t) /\ ~ReadSignal(t)
    BY <2>3, CountFrame DEF CountInv
  <2> QED
    BY <2>1, <2>2, <2>3
<1> QED
  BY <1>3, <1>4 DEF CountInv

(* A thread past BeginModify is counted, so pollfd_modify is positive.     *)
LEMMA CountPositive ==
  ASSUME TypeOK, CountInv
  PROVE  pollfdModify > 0 <=> Modifying # {}
<1>1. IsFiniteSet(Modifying)
  BY ThreadsAssumption, FS_Subset DEF Modifying
<1> QED
  BY <1>1, FS_EmptySet, FS_CardinalityType DEF CountInv, TypeOK

(* The variables keep their types: a count is decremented only by a thread *)
(* it counts.                                                              *)
LEMMA TypeStep ==
  ASSUME TypeOK, CountInv, LockInv, WroteInv, NEW t \in Threads, Run(t), UNCHANGED crashed
  PROVE  TypeOK'
<1>1. pollfdModify' \in Nat /\ ctrlPipe' \in Nat
  <2>1. IsFiniteSet(Modifying') /\ IsFiniteSet(Signalling')
    BY ThreadsAssumption, FS_Subset DEF Modifying, Signalling
  <2> QED
    BY <2>1, CountStep, FS_CardinalityType DEF CountInv
<1>2. pc[t] \in {"unlock_mutex", "close_mutex"} => eventsDepth - 1 \in Nat
  BY DEF LockInv, Level, HoldsOnce, InDoClose, MayHold, TypeOK
<1> USE <1>1, ThreadsAssumption DEF TypeOK, Labels, Calls, UrbStates, LockEventsMutex,
      UnlockEventsMutex, SetHandlerActive, Goto, Step, Return, LeaveCall, Broadcast, locks, waiters, signal, polled, device
<1>3. CASE Call(t)
  BY <1>3 DEF Call, Open, Close, Submit, HandleEvents
<1>4. CASE Modify(t)
  <2>1. /\ handlerActive' \in BOOLEAN
        /\ wrote' \in [Threads -> BOOLEAN]
        /\ completed' \in [Threads -> BOOLEAN]
    BY <1>4, Zenon DEF Modify, OpenList, BeginModify, WriteSignal, WriteFails, LockForModify,
     ActiveForModify, ReadSignal, EndModify
  <2> QED
    BY <1>4, <2>1 DEF Modify, OpenList, BeginModify, WriteSignal, WriteFails, LockForModify,
     ActiveForModify, ReadSignal, EndModify
<1>5. CASE DoClose(t)
  <2>1. /\ handlerActive' \in BOOLEAN
        /\ wrote' \in [Threads -> BOOLEAN]
        /\ completed' \in [Threads -> BOOLEAN]
    BY <1>5, Zenon DEF DoClose, CloseLock, CloseActive, CloseFlag, CloseMutex, CloseBroadcast,
     CloseList, CloseRemove
  <2> QED
    BY <1>5, <1>2, <2>1 DEF DoClose, CloseLock, CloseActive, CloseFlag, CloseMutex, CloseBroadcast,
     CloseList, CloseRemove
<1>6. CASE Handle(t)
  <2>1. /\ handlerActive' \in BOOLEAN
        /\ wrote' \in [Threads -> BOOLEAN]
        /\ completed' \in [Threads -> BOOLEAN]
    BY <1>6, Zenon DEF Handle, Finish, Again, TryModify, TryLock, TryLockFails, TryActive, CheckDone,
     GatherFds, PollInterrupted, PollReady, Reap, ReapBroadcast, ReapDone, UnlockFlag,
     UnlockMutex, UnlockBroadcast
  <2>2. CASE \E u \in Threads : Reap(t, u)
    BY <2>1, <2>2 DEF Reap
  <2>3. CASE ~\E u \in Threads : Reap(t, u)
    BY <1>6, <1>2, <2>1, <2>3 DEF Handle, Finish, Again, TryModify, TryLock, TryLockFails,
       TryActive, CheckDone, GatherFds, PollInterrupted, PollReady, Ready, ReapBroadcast, ReapDone,
       UnlockFlag, UnlockMutex, UnlockBroadcast
  <2> QED
    BY <2>2, <2>3
<1>7. CASE Wait(t)
  BY <1>7 DEF Wait, WaitersLock, Recheck, ActiveModify, ActiveFlag, RetryAsHandler, CondWait,
     Awake, WaitersUnlock
<1>8. CASE Environment(t)
  BY <1>8 DEF Environment, PollGivesUp, WaitTimesOut, UrbDone, Unplug
<1> QED
  BY <1>3, <1>4, <1>5, <1>6, <1>7, <1>8 DEF Run, Progress

-----------------------------------------------------------------------------
(* IInv is inductive.                                                      *)
LEMMA Inductive ==
  ASSUME IInv, [Next]_vars
  PROVE  IInv'
<1>1. CASE \E t \in Threads : Run(t) /\ UNCHANGED crashed
  BY <1>1, TypeStep, CountStep, LockStep, WaitersStep, ActiveStep, WroteStep DEF IInv
<1>2. CASE Crash
  BY <1>2 DEF Crash, ReapUnlisted, IInv, TypeOK, CountInv, LockInv, WaitersInv, ActiveInv,
     WroteInv, Level, Modifying, Signalling, Goto, Step, Return, LeaveCall, Broadcast, locks, waiters, signal, polled, device
<1>3. CASE UNCHANGED vars
  BY <1>3 DEF vars, IInv, TypeOK, CountInv, LockInv, WaitersInv, ActiveInv,
     WroteInv, Level, Modifying, Signalling, Goto, Step, Return, LeaveCall, Broadcast, locks, waiters, signal, polled, device
<1> QED
  BY <1>1, <1>2, <1>3 DEF Next

LEMMA InitIInv == Init => IInv
<1> SUFFICES ASSUME Init PROVE IInv
  OBVIOUS
<1>1. Modifying = {} /\ Signalling = {}
  BY DEF Init, Modifying, Signalling
<1>2. Cardinality({}) = 0
  BY FS_EmptySet
<1>3. TypeOK
  BY DEF Init, TypeOK, Labels, Calls, UrbStates
<1>4. CountInv
  BY <1>1, <1>2 DEF Init, CountInv
<1>5. LockInv
  BY ThreadsAssumption DEF Init, LockInv, Level, HoldsOnce, InDoClose, MayHold
<1>6. WaitersInv /\ ActiveInv /\ WroteInv
  BY ThreadsAssumption DEF Init, WaitersInv, ActiveInv, WroteInv, HoldsWaiters, MayHold, InDoClose
<1> QED
  BY <1>3, <1>4, <1>5, <1>6 DEF IInv

THEOREM Invariance == Spec => []IInv
  BY InitIInv, Inductive, PTL DEF Spec

(* The variables of EventHandling keep their types: in particular, none of *)
(* the counters pollfd_modify, the control pipe and the depth of the       *)
(* events lock is ever decremented below zero.                             *)
THEOREM TypeCorrect == Spec => []TypeOK
  BY Invariance, PTL DEF IInv

(* Reading the control pipe never blocks libusb_open() or libusb_close().  *)
THEOREM SignalReadable == Spec => []SignalIsReadable
<1>1. IInv => SignalIsReadable
  <2> SUFFICES ASSUME IInv, NEW t \in Threads, pc[t] = "read" PROVE ctrlPipe > 0
    BY DEF SignalIsReadable
  <2>1. t \in Signalling /\ IsFiniteSet(Signalling)
    BY ThreadsAssumption, FS_Subset DEF Signalling
  <2> QED
    BY <2>1, FS_EmptySet, FS_CardinalityType DEF IInv, CountInv, TypeOK
<1> QED
  BY <1>1, Invariance, PTL

-----------------------------------------------------------------------------
(* A completion that finds its thread on the way to sleep is announced.    *)
LEMMA AnnouncedStep ==
  ASSUME IInv, CompletionIsAnnounced, NEW t \in Threads, Run(t)
  PROVE  CompletionIsAnnounced'
<1> /\ pc \in [Threads -> Labels] /\ completed \in [Threads -> BOOLEAN]
    /\ NoThread \notin Threads /\ waitSet \subseteq Threads
  BY ThreadsAssumption DEF IInv, TypeOK
<1> WaitersInv
  BY DEF IInv
<1> USE DEF CompletionIsAnnounced, GoesToSleep, WaitersInv, HoldsWaiters, Goto, Step, Return,
      LeaveCall, Broadcast, locks, waiters, signal, polled, device
<1>1. CASE Call(t)
  BY <1>1 DEF Call, Open, Close, Submit, HandleEvents
<1>2. CASE Modify(t)
  BY <1>2 DEF Modify, OpenList, BeginModify, WriteSignal, WriteFails, LockForModify,
     ActiveForModify, ReadSignal, EndModify
<1>3. CASE DoClose(t)
  BY <1>3 DEF DoClose, CloseLock, CloseActive, CloseFlag, CloseMutex, CloseBroadcast,
     CloseList, CloseRemove
<1>4. CASE Handle(t)
  BY <1>4 DEF Handle, Finish, Again, TryModify, TryLock, TryLockFails, TryActive, CheckDone,
     GatherFds, PollInterrupted, PollReady, Reap, ReapBroadcast, ReapDone, UnlockFlag,
     UnlockMutex, UnlockBroadcast
<1>5. CASE Wait(t)
  BY <1>5 DEF Wait, WaitersLock, Recheck, ActiveModify, ActiveFlag, RetryAsHandler, CondWait,
     Awake, WaitersUnlock
<1>6. CASE Environment(t)
  BY <1>6 DEF Environment, PollGivesUp, WaitTimesOut, UrbDone, Unplug
<1> QED
  BY <1>1, <1>2, <1>3, <1>4, <1>5, <1>6 DEF Run, Progress

(* No completion is lost, whether or not writes on the control pipe fail.  *)
THEOREM CompletionAnnounced == Spec => []CompletionIsAnnounced
<1>1. Init => CompletionIsAnnounced
  BY DEF Init, CompletionIsAnnounced, GoesToSleep
<1>2. IInv /\ CompletionIsAnnounced /\ [Next]_vars => CompletionIsAnnounced'
  <2> SUFFICES ASSUME IInv, CompletionIsAnnounced, [Next]_vars PROVE CompletionIsAnnounced'
    OBVIOUS
  <2>1. CASE \E t \in Threads : Run(t)
    BY <2>1, AnnouncedStep
  <2>2. CASE Crash \/ UNCHANGED vars
    BY <2>2 DEF Crash, ReapUnlisted, vars, CompletionIsAnnounced, GoesToSleep, waiters, device
  <2> QED
    BY <2>1, <2>2 DEF Next
<1> QED
  BY <1>1, <1>2, Invariance, PTL DEF Spec

-----------------------------------------------------------------------------
(* While writes succeed, a thread stops handling events or changing the    *)
(* poll set only by way of a broadcast that leaves no sleeper behind.      *)
LEMMA AttendedStep ==
  ASSUME IInv, ~WriteMayFail, SleepersAreAttended, NEW t \in Threads, Run(t)
  PROVE  SleepersAreAttended'
<1> /\ pc \in [Threads -> Labels] /\ eventsOwner \in Threads \union {NoThread}
    /\ handlerActive \in BOOLEAN
    /\ NoThread \notin Threads /\ waitSet \subseteq Threads
  BY ThreadsAssumption DEF IInv, TypeOK
<1> /\ \A u \in Threads : pc[u] \in MayHold \union InDoClose => wrote[u]
    /\ WaitersInv
  BY DEF IInv, WroteInv
<1>a. pollfdModify > 0 => Modifying # {}
  BY CountPositive DEF IInv
<1>b. handlerActive => Modifying \union Handling # {}
  BY DEF IInv, ActiveInv, LockInv, Level, HoldsOnce, MayHold, InDoClose, Modifying, Handling
<1> USE DEF SleepersAreAttended, GoesToSleep, Modifying, Handling, MayHold, InDoClose,
      WaitersInv, HoldsWaiters, Goto, Step, Return, LeaveCall, Broadcast, locks, waiters, signal, polled, device
<1>1. CASE Call(t)
  BY <1>1 DEF Call, Open, Close, Submit, HandleEvents
<1>2. CASE Modify(t)
  BY <1>2 DEF Modify, OpenList, BeginModify, WriteSignal, WriteFails, LockForModify,
     ActiveForModify, ReadSignal, EndModify
<1>3. CASE DoClose(t)
  BY <1>3 DEF DoClose, CloseLock, CloseActive, CloseFlag, CloseMutex, CloseBroadcast,
     CloseList, CloseRemove
<1>4. CASE Handle(t)
  BY <1>4 DEF Handle, Finish, Again, TryModify, TryLock, TryLockFails, TryActive, CheckDone,
     GatherFds, PollInterrupted, PollReady, Reap, ReapBroadcast, ReapDone, UnlockFlag,
     UnlockMutex, UnlockBroadcast
<1>5. CASE Wait(t)
  BY <1>5, <1>a, <1>b DEF Wait, WaitersLock, Recheck, ActiveModify, ActiveFlag, RetryAsHandler, CondWait,
     Awake, WaitersUnlock
<1>6. CASE Environment(t)
  BY <1>6 DEF Environment, PollGivesUp, WaitTimesOut, UrbDone, Unplug
<1> QED
  BY <1>1, <1>2, <1>3, <1>4, <1>5, <1>6 DEF Run, Progress

(* No waiter sleeps while nobody is going to wake it.                      *)
THEOREM SleepersAttended == ~WriteMayFail => (Spec => []SleepersAreAttended)
<1> SUFFICES ASSUME ~WriteMayFail PROVE Spec => []SleepersAreAttended
  OBVIOUS
<1>1. Init => SleepersAreAttended
  BY DEF Init, SleepersAreAttended, GoesToSleep
<1>2. IInv /\ SleepersAreAttended /\ [Next]_vars => SleepersAreAttended'
  <2> SUFFICES ASSUME IInv, SleepersAreAttended, [Next]_vars PROVE SleepersAreAttended'
    OBVIOUS
  <2>1. CASE \E t \in Threads : Run(t)
    BY <2>1, AttendedStep
  <2>2. CASE Crash \/ UNCHANGED vars
    BY <2>2 DEF Crash, ReapUnlisted, vars, SleepersAreAttended, GoesToSleep, Modifying,
       Handling, waiters
  <2> QED
    BY <2>1, <2>2 DEF Next
<1> QED
  BY <1>1, <1>2, Invariance, PTL DEF Spec

-----------------------------------------------------------------------------
(* While writes succeed, whoever polls, and whoever has taken the events   *)
(* lock for a change, is alone.                                            *)
LEMMA Exclusion ==
  ASSUME IInv, ~WriteMayFail, NEW t \in Threads, NEW u \in Threads,
         pc[t] \in HoldsOnce, pc[u] \in HoldsOnce \union MayHold \union InDoClose
  PROVE  t = u
<1>1. Level(t) > 0 /\ Level(u) > 0
  BY DEF IInv, WroteInv, Level, HoldsOnce, MayHold, InDoClose, TypeOK
<1> QED
  BY <1>1 DEF IInv, LockInv

(* A descriptor leaves the poll set only through the thread that polls or  *)
(* in its absence.                                                         *)
LEMMA StayOpenStep ==
  ASSUME IInv, ~WriteMayFail, PolledFdsStayOpen, NEW t \in Threads, Run(t)
  PROVE  PolledFdsStayOpen'
<1> /\ pc \in [Threads -> Labels] /\ fds \in [Threads -> SUBSET Threads]
    /\ pollfds \subseteq Threads
  BY DEF IInv, TypeOK
<1>a. \A u \in Threads : pc[u] \in {"poll", "reap", "reap_bcast"} =>
        u = t \/ pc[t] \notin {"close_remove", "reap"}
  BY Exclusion DEF HoldsOnce, MayHold
<1> USE DEF PolledFdsStayOpen, Goto, Step, Return, LeaveCall, Broadcast, locks, waiters, signal,
      polled, device
<1>1. CASE Call(t)
  BY <1>1 DEF Call, Open, Close, Submit, HandleEvents
<1>2. CASE Modify(t)
  BY <1>2 DEF Modify, OpenList, BeginModify, WriteSignal, WriteFails, LockForModify,
     ActiveForModify, ReadSignal, EndModify
<1>3. CASE DoClose(t)
  BY <1>3, <1>a DEF DoClose, CloseLock, CloseActive, CloseFlag, CloseMutex, CloseBroadcast,
     CloseList, CloseRemove
<1>4. CASE Handle(t)
  <2>1. CASE \E u \in Threads : Reap(t, u)
    <3>1. \A v \in Threads : pc[v] \in {"poll", "reap", "reap_bcast"} => v = t
      BY <2>1, <1>a DEF Reap
    <3>2. PICK u \in Threads : Reap(t, u)
      BY <2>1
    <3>3. /\ fds'[t] = fds[t] \ {u} /\ fds[t] \subseteq pollfds
          /\ pollfds \ {u} \subseteq pollfds'
      BY <3>2 DEF Reap
    <3>4. \A v \in Threads : pc'[v] \in {"poll", "reap", "reap_bcast"} => v = t
      BY <3>1, <3>2 DEF Reap
    <3> QED
      BY <3>3, <3>4
  <2>2. CASE ~\E u \in Threads : Reap(t, u)
    BY <1>4, <2>2 DEF Handle, Finish, Again, TryModify, TryLock, TryLockFails, TryActive,
       CheckDone, GatherFds, PollInterrupted, PollReady, Ready, ReapBroadcast, ReapDone,
       UnlockFlag, UnlockMutex, UnlockBroadcast
  <2> QED
    BY <2>1, <2>2
<1>5. CASE Wait(t)
  BY <1>5 DEF Wait, WaitersLock, Recheck, ActiveModify, ActiveFlag, RetryAsHandler, CondWait,
     Awake, WaitersUnlock
<1>6. CASE Environment(t)
  BY <1>6 DEF Environment, PollGivesUp, WaitTimesOut, UrbDone, Unplug
<1> QED
  BY <1>1, <1>2, <1>3, <1>4, <1>5, <1>6 DEF Run, Progress

(* A step of a thread makes no poll in progress miss a descriptor that is  *)
(* announced.                                                              *)
LEMMA PolledStep ==
  ASSUME IInv, ~WriteMayFail, PolledInv, NEW t \in Threads, Run(t)
  PROVE  PolledInv'
<1> /\ pc \in [Threads -> Labels] /\ fds \in [Threads -> SUBSET Threads]
    /\ pollfds \subseteq Threads /\ op \in [Threads -> Calls]
    /\ NoThread \notin Threads
  BY ThreadsAssumption DEF IInv, TypeOK
<1>a. pc[t] = "lock" /\ eventsOwner \in {NoThread, t} => \A u \in Threads : pc[u] # "poll"
  BY DEF IInv, LockInv, Level, HoldsOnce, InDoClose, MayHold
<1> USE DEF PolledInv, Unannounced, LockEventsMutex, Goto, Step, Return, LeaveCall, Broadcast,
      locks, waiters, signal, polled, device
<1>1. CASE Call(t)
  BY <1>1 DEF Call, Open, Close, Submit, HandleEvents
<1>2. CASE Modify(t)
  BY <1>2, <1>a DEF Modify, OpenList, BeginModify, WriteSignal, WriteFails, LockForModify,
     ActiveForModify, ReadSignal, EndModify
<1>3. CASE DoClose(t)
  <2>1. /\ UNCHANGED <<op, fds>> /\ pollfds' \subseteq pollfds
        /\ pc[t] \notin {"open_list", "modify", "write", "lock"} /\ pc'[t] # "poll"
        /\ \A u \in Threads : u # t => pc'[u] = pc[u]
    BY <1>3 DEF DoClose, CloseLock, CloseActive, CloseFlag, CloseMutex, CloseBroadcast,
       CloseList, CloseRemove
  <2> QED
    BY <2>1
<1>4. CASE Handle(t)
  <2>1. CASE \E u \in Threads : Reap(t, u)
    <3>1. /\ UNCHANGED op /\ pollfds' \subseteq pollfds
          /\ pc[t] = "reap" /\ pc'[t] # "poll"
          /\ \A u \in Threads : u # t => pc'[u] = pc[u] /\ fds'[u] = fds[u]
      BY <2>1 DEF Reap
    <3> QED
      BY <3>1
  <2>2. CASE GatherFds(t)
    BY <2>2 DEF GatherFds
  <2>3. CASE ~GatherFds(t) /\ ~\E u \in Threads : Reap(t, u)
    <3>1. /\ UNCHANGED pollfds /\ pc'[t] # "poll"
          /\ pc[t] \notin {"open_list", "modify", "write", "lock"}
          /\ \A u \in Threads : u # t => pc'[u] = pc[u] /\ fds'[u] = fds[u] /\ op'[u] = op[u]
      BY <1>4, <2>3 DEF Handle, Finish, Again, TryModify, TryLock, TryLockFails, TryActive,
         CheckDone, PollInterrupted, PollReady, ReapBroadcast, ReapDone, UnlockFlag,
         UnlockMutex, UnlockBroadcast
    <3> QED
      BY <3>1
  <2> QED
    BY <2>1, <2>2, <2>3
<1>5. CASE Wait(t)
  BY <1>5 DEF Wait, WaitersLock, Recheck, ActiveModify, ActiveFlag, RetryAsHandler, CondWait,
     Awake, WaitersUnlock
<1>6. CASE Environment(t)
  BY <1>6 DEF Environment, PollGivesUp, WaitTimesOut, UrbDone, Unplug
<1> QED
  BY <1>1, <1>2, <1>3, <1>4, <1>5, <1>6 DEF Run, Progress

(* No thread polls, or reaps from, a descriptor that libusb_close() has    *)
(* removed and closed.                                                     *)
THEOREM PolledStayOpen == ~WriteMayFail => (Spec => []PolledFdsStayOpen)
<1> SUFFICES ASSUME ~WriteMayFail PROVE Spec => []PolledFdsStayOpen
  OBVIOUS
<1>1. Init => PolledFdsStayOpen
  BY DEF Init, PolledFdsStayOpen
<1>2. IInv /\ PolledFdsStayOpen /\ [Next]_vars => PolledFdsStayOpen'
  <2> SUFFICES ASSUME IInv, PolledFdsStayOpen, [Next]_vars PROVE PolledFdsStayOpen'
    OBVIOUS
  <2>1. CASE \E t \in Threads : Run(t)
    BY <2>1, StayOpenStep
  <2>2. CASE Crash \/ UNCHANGED vars
    BY <2>2 DEF Crash, ReapUnlisted, vars, PolledFdsStayOpen, polled
  <2> QED
    BY <2>1, <2>2 DEF Next
<1> QED
  BY <1>1, <1>2, Invariance, PTL DEF Spec

(* No poll in progress misses the descriptor of a handle that its program  *)
(* has already received from libusb_open().                                *)
THEOREM OpenedPolled == ~WriteMayFail => (Spec => []OpenedFdsArePolled)
<1> SUFFICES ASSUME ~WriteMayFail PROVE Spec => []OpenedFdsArePolled
  OBVIOUS
<1>1. Init => PolledInv
  BY DEF Init, PolledInv
<1>2. IInv /\ PolledInv /\ [Next]_vars => PolledInv'
  <2> SUFFICES ASSUME IInv, PolledInv, [Next]_vars PROVE PolledInv'
    OBVIOUS
  <2>1. CASE \E t \in Threads : Run(t)
    BY <2>1, PolledStep
  <2>2. CASE Crash \/ UNCHANGED vars
    BY <2>2 DEF Crash, ReapUnlisted, vars, PolledInv, Unannounced, polled
  <2> QED
    BY <2>1, <2>2 DEF Next
<1>3. PolledInv => OpenedFdsArePolled
  BY DEF PolledInv, Unannounced, OpenedFdsArePolled
<1> QED
  BY <1>1, <1>2, <1>3, Invariance, PTL DEF Spec
=============================================================================
