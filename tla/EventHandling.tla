--------------------------- MODULE EventHandling ---------------------------
(***************************************************************************)
(* The event handling of one libusb context: the events lock, the event    *)
(* waiters, and the control pipe with which libusb_open() and              *)
(* libusb_close() interrupt whoever is polling (libusb/io.c, libusb/core.c,*)
(* libusb/sync.c, libusb/os/linux_usbfs.c).                                *)
(*                                                                         *)
(* Every thread owns at most one device handle, named after the thread,    *)
(* and calls, in any order, libusb_open(), libusb_close(), a synchronous   *)
(* transfer on its handle, and libusb_handle_events().  One step of the    *)
(* model is one access to state another thread can see: a critical section *)
(* of a mutex that is held for one access only is one step, a mutex held   *)
(* longer is a variable, and event_handler_active, which the code reads    *)
(* without the lock it is written under, is read and written in steps of   *)
(* its own.                                                                *)
(***************************************************************************)
EXTENDS Naturals, FiniteSets

CONSTANTS
  Threads,       \* threads of the program, also naming their device handles
  NoThread,      \* owner of a mutex that is free
  MayUnplug,     \* handles whose device the environment may disconnect
  WriteMayFail   \* whether write() on the control pipe can fail

ASSUME ThreadsAssumption ==
  /\ IsFiniteSet(Threads)
  /\ NoThread \notin Threads
  /\ MayUnplug \subseteq Threads
ASSUME WriteAssumption == WriteMayFail \in BOOLEAN

VARIABLES
  pc,             \* where each thread is in the library
  op,             \* the library call each thread is executing
  eventsOwner,    \* owner of ctx->events_lock, a recursive mutex
  eventsDepth,    \* how often the owner has taken it
  handlerActive,  \* ctx->event_handler_active
  waitersOwner,   \* owner of ctx->event_waiters_lock
  waitSet,        \* threads asleep on ctx->event_waiters_cond
  pollfdModify,   \* ctx->pollfd_modify
  ctrlPipe,       \* bytes in ctx->ctrl_pipe
  wrote,          \* whether the thread's last write to the pipe succeeded
  pollfds,        \* ctx->pollfds: handles whose descriptor is polled
  openDevs,       \* ctx->open_devs
  fds,            \* the descriptors a thread polls, then those with revents
  unplugged,      \* handles whose device is gone
  urb,            \* the URB of each thread's transfer, as the kernel sees it
  completed,      \* the "completed" flag of each thread's transfer
  crashed         \* the process was killed by a memory fault

locks   == <<eventsOwner, eventsDepth, handlerActive>>
waiters == <<waitersOwner, waitSet>>
signal  == <<pollfdModify, ctrlPipe, wrote>>
polled  == <<pollfds, openDevs, fds>>
device  == <<unplugged, urb, completed>>
vars    == <<pc, op, locks, waiters, signal, polled, device, crashed>>

Calls  == {"none", "open", "close", "sync", "events"}
Labels == {"idle",
           "open_list", "modify", "write", "lock", "active", "read", "done",
           "close_lock", "close_active", "close_flag", "close_mutex",
           "close_bcast", "close_list", "close_remove",
           "loop", "try_modify", "try_lock", "try_active", "check", "poll",
           "reap", "reap_bcast", "unlock_flag", "unlock_mutex", "unlock_bcast",
           "waiters_lock", "recheck", "active_modify", "active_flag",
           "cond_wait", "asleep", "waiters_unlock"}

(* Kernel view of a transfer's URB: not submitted, in flight, or completed *)
(* and waiting for IOCTL_USBFS_REAPURBNDELAY.                              *)
UrbStates == {"none", "flying", "reapable"}

Init ==
  /\ pc = [t \in Threads |-> "idle"]
  /\ op = [t \in Threads |-> "none"]
  /\ eventsOwner = NoThread
  /\ eventsDepth = 0
  /\ handlerActive = FALSE
  /\ waitersOwner = NoThread
  /\ waitSet = {}
  /\ pollfdModify = 0
  /\ ctrlPipe = 0
  /\ wrote = [t \in Threads |-> FALSE]
  /\ pollfds = {}
  /\ openDevs = {}
  /\ fds = [t \in Threads |-> {}]
  /\ unplugged = {}
  /\ urb = [t \in Threads |-> "none"]
  /\ completed = [t \in Threads |-> FALSE]
  /\ crashed = FALSE

Goto(t, label) == pc' = [pc EXCEPT ![t] = label]

Step(t, from, to) == pc[t] = from /\ Goto(t, to)

(* The call a thread executes is over: it is back in the program.          *)
Return(t) ==
  /\ Goto(t, "idle")
  /\ op' = [op EXCEPT ![t] = "none"]

(* op_handle_events() keeps open_devs_lock while it reaps.                 *)
OpenDevsLockFree == \A u \in Threads : pc[u] \notin {"reap", "reap_bcast"}

-----------------------------------------------------------------------------
(* Operations several calls are built from.                                *)

(* usbi_mutex_lock(&ctx->events_lock): recursive, so its owner passes.     *)
LockEventsMutex(t) ==
  /\ eventsOwner \in {NoThread, t}
  /\ eventsOwner' = t
  /\ eventsDepth' = eventsDepth + 1
  /\ UNCHANGED handlerActive

(* Mutant: events_lock is not recursive.                                   *)
UnlockEventsMutexNotRecursive(t) ==
  /\ eventsDepth' = eventsDepth - 1
  /\ eventsOwner' = NoThread
  /\ UNCHANGED handlerActive

UnlockEventsMutex(t) ==
  /\ eventsDepth' = eventsDepth - 1
  /\ eventsOwner' = IF eventsDepth = 1 THEN NoThread ELSE t
  /\ UNCHANGED handlerActive

SetHandlerActive(value) ==
  /\ handlerActive' = value
  /\ UNCHANGED <<eventsOwner, eventsDepth>>

(* Lock event_waiters_lock, broadcast event_waiters_cond, unlock: every    *)
(* sleeper leaves the wait set and goes on to reacquire the lock.          *)
Broadcast ==
  /\ waitersOwner = NoThread
  /\ waitSet' = {}
  /\ UNCHANGED waitersOwner

-----------------------------------------------------------------------------
(* libusb_open() and libusb_close() up to the events lock.                 *)

(* libusb_open(): op_open() adds the descriptor to the poll set.           *)
Open(t) ==
  /\ op[t] = "none" /\ t \notin openDevs /\ t \notin unplugged
  /\ op' = [op EXCEPT ![t] = "open"]
  /\ Step(t, "idle", "open_list")
  /\ pollfds' = pollfds \union {t}
  /\ UNCHANGED <<locks, waiters, signal, openDevs, fds, device>>

(* Mutant: libusb_open() does not interrupt the event handler.             *)
OpenListSilently(t) ==
  /\ OpenDevsLockFree
  /\ pc[t] = "open_list" /\ Return(t)
  /\ openDevs' = openDevs \union {t}
  /\ UNCHANGED <<locks, waiters, signal, pollfds, fds, device>>

(* libusb_open() lists the handle in ctx->open_devs.                       *)
OpenList(t) ==
  /\ OpenDevsLockFree
  /\ Step(t, "open_list", "modify")
  /\ openDevs' = openDevs \union {t}
  /\ UNCHANGED <<op, locks, waiters, signal, pollfds, fds, device>>

(* Mutant: libusb_close() forgets to count itself in pollfd_modify.        *)
CloseUncounted(t) ==
  /\ op[t] = "none" /\ t \in openDevs
  /\ op' = [op EXCEPT ![t] = "close"]
  /\ Step(t, "idle", "write")
  /\ UNCHANGED <<locks, waiters, signal, polled, device>>

Close(t) ==
  /\ op[t] = "none" /\ t \in openDevs
  /\ op' = [op EXCEPT ![t] = "close"]
  /\ Step(t, "idle", "modify")
  /\ UNCHANGED <<locks, waiters, signal, polled, device>>

(* Record that the poll descriptors are being changed.                     *)
BeginModify(t) ==
  /\ Step(t, "modify", "write")
  /\ pollfdModify' = pollfdModify + 1
  /\ UNCHANGED <<op, locks, waiters, ctrlPipe, wrote, polled, device>>

(* Interrupt the event handler with a byte on the control pipe.            *)
WriteSignal(t) ==
  /\ Step(t, "write", "lock")
  /\ ctrlPipe' = ctrlPipe + 1
  /\ wrote' = [wrote EXCEPT ![t] = TRUE]
  /\ UNCHANGED <<op, locks, waiters, pollfdModify, polled, device>>

(* The write failed: libusb_open() gives up signalling, libusb_close()     *)
(* closes anyway.                                                          *)
WriteFails(t) ==
  /\ WriteMayFail
  /\ Step(t, "write", IF op[t] = "open" THEN "done" ELSE "close_lock")
  /\ wrote' = [wrote EXCEPT ![t] = FALSE]
  /\ UNCHANGED <<op, locks, waiters, pollfdModify, ctrlPipe, polled, device>>

LockForModify(t) ==
  /\ Step(t, "lock", "active")
  /\ LockEventsMutex(t)
  /\ UNCHANGED <<op, waiters, signal, polled, device>>

ActiveForModify(t) ==
  /\ Step(t, "active", "read")
  /\ SetHandlerActive(TRUE)
  /\ UNCHANGED <<op, waiters, signal, polled, device>>

(* Take the byte back out of the pipe; read() blocks while it is empty.    *)
ReadSignal(t) ==
  /\ ctrlPipe > 0
  /\ Step(t, "read", IF op[t] = "open" THEN "done" ELSE "close_lock")
  /\ ctrlPipe' = ctrlPipe - 1
  /\ UNCHANGED <<op, locks, waiters, pollfdModify, wrote, polled, device>>

(* The poll descriptors are no longer being changed.  Without a signal     *)
(* there is no lock to release and the call is over.                       *)
EndModify(t) ==
  /\ pc[t] = "done"
  /\ pollfdModify' = pollfdModify - 1
  /\ IF wrote[t] THEN Goto(t, "unlock_flag") /\ UNCHANGED op ELSE Return(t)
  /\ UNCHANGED <<locks, waiters, ctrlPipe, wrote, polled, device>>

-----------------------------------------------------------------------------
(* do_close(): the nested libusb_lock_events() and libusb_unlock_events()  *)
(* around the removal of the handle's transfers, of which a thread that    *)
(* waits for its own has none, then the removal of the handle itself.      *)

CloseLock(t) ==
  /\ Step(t, "close_lock", "close_active")
  /\ LockEventsMutex(t)
  /\ UNCHANGED <<op, waiters, signal, polled, device>>

CloseActive(t) ==
  /\ Step(t, "close_active", "close_flag")
  /\ SetHandlerActive(TRUE)
  /\ UNCHANGED <<op, waiters, signal, polled, device>>

CloseFlag(t) ==
  /\ Step(t, "close_flag", "close_mutex")
  /\ SetHandlerActive(FALSE)
  /\ UNCHANGED <<op, waiters, signal, polled, device>>

CloseMutex(t) ==
  /\ Step(t, "close_mutex", "close_bcast")
  /\ UnlockEventsMutex(t)
  /\ UNCHANGED <<op, waiters, signal, polled, device>>

CloseBroadcast(t) ==
  /\ Step(t, "close_bcast", "close_list")
  /\ Broadcast
  /\ UNCHANGED <<op, locks, signal, polled, device>>

CloseList(t) ==
  /\ OpenDevsLockFree
  /\ Step(t, "close_list", "close_remove")
  /\ openDevs' = openDevs \ {t}
  /\ UNCHANGED <<op, locks, waiters, signal, pollfds, fds, device>>

(* op_close(): usbi_remove_pollfd() and close().                           *)
CloseRemove(t) ==
  /\ Step(t, "close_remove", "done")
  /\ pollfds' = pollfds \ {t}
  /\ UNCHANGED <<op, locks, waiters, signal, openDevs, fds, device>>

-----------------------------------------------------------------------------
(* The program's transfers and event loops, and the kernel.                *)

(* libusb_control_transfer() and friends: submit, then loop on             *)
(* libusb_handle_events_completed().                                       *)
Submit(t) ==
  /\ op[t] = "none" /\ t \in openDevs /\ t \notin unplugged
  /\ op' = [op EXCEPT ![t] = "sync"]
  /\ Step(t, "idle", "loop")
  /\ urb' = [urb EXCEPT ![t] = "flying"]
  /\ UNCHANGED <<locks, waiters, signal, polled, unplugged, completed>>

(* libusb_handle_events() by a thread that waits for no transfer.          *)
HandleEvents(t) ==
  /\ op[t] = "none"
  /\ op' = [op EXCEPT ![t] = "events"]
  /\ Step(t, "idle", "try_modify")
  /\ UNCHANGED <<locks, waiters, signal, polled, device>>

UrbDone(t) ==
  /\ urb[t] = "flying"
  /\ urb' = [urb EXCEPT ![t] = "reapable"]
  /\ UNCHANGED <<pc, op, locks, waiters, signal, polled, unplugged, completed>>

(* The device disappears; its descriptor reports POLLERR from now on.      *)
Unplug(t) ==
  /\ t \in MayUnplug \ unplugged /\ t \in pollfds
  /\ unplugged' = unplugged \union {t}
  /\ UNCHANGED <<pc, op, locks, waiters, signal, polled, urb, completed>>

(* while (!completed): the transfer is done and its result is returned.    *)
Finish(t) ==
  /\ pc[t] = "loop" /\ completed[t]
  /\ Return(t)
  /\ urb' = [urb EXCEPT ![t] = "none"]
  /\ completed' = [completed EXCEPT ![t] = FALSE]
  /\ UNCHANGED <<locks, waiters, signal, polled, unplugged>>

Again(t) ==
  /\ ~completed[t]
  /\ Step(t, "loop", "try_modify")
  /\ UNCHANGED <<op, locks, waiters, signal, polled, device>>

-----------------------------------------------------------------------------
(* libusb_handle_events_timeout_completed().                               *)

(* libusb_try_lock_events(): stay away while descriptors are changed.      *)
TryModify(t) ==
  /\ Step(t, "try_modify", IF pollfdModify > 0 THEN "waiters_lock" ELSE "try_lock")
  /\ UNCHANGED <<op, locks, waiters, signal, polled, device>>

TryLock(t) ==
  /\ eventsOwner = NoThread
  /\ Step(t, "try_lock", "try_active")
  /\ LockEventsMutex(t)
  /\ UNCHANGED <<op, waiters, signal, polled, device>>

TryLockFails(t) ==
  /\ eventsOwner # NoThread
  /\ Step(t, "try_lock", "waiters_lock")
  /\ UNCHANGED <<op, locks, waiters, signal, polled, device>>

TryActive(t) ==
  /\ Step(t, "try_active", "check")
  /\ SetHandlerActive(TRUE)
  /\ UNCHANGED <<op, waiters, signal, polled, device>>

(* Under the events lock: nothing left to wait for.                        *)
CheckDone(t) ==
  /\ completed[t]
  /\ Step(t, "check", "unlock_flag")
  /\ UNCHANGED <<op, locks, waiters, signal, polled, device>>

(* handle_events(): copy the poll set, then poll it.                       *)
GatherFds(t) ==
  /\ ~completed[t]
  /\ Step(t, "check", "poll")
  /\ fds' = [fds EXCEPT ![t] = pollfds]
  /\ UNCHANGED <<op, locks, waiters, signal, pollfds, openDevs, device>>

Ready(t) == {u \in fds[t] : urb[u] = "reapable" \/ u \in unplugged}

(* Mutant: the event handler empties the control pipe.                     *)
PollDrainsPipe(t) ==
  /\ ctrlPipe > 0 /\ Ready(t) = {}
  /\ Step(t, "poll", "unlock_flag")
  /\ fds' = [fds EXCEPT ![t] = {}]
  /\ ctrlPipe' = ctrlPipe - 1
  /\ UNCHANGED <<op, locks, waiters, pollfdModify, wrote, pollfds, openDevs, device>>

(* Mutant: the event handler polls again instead of returning.             *)
PollGoesOn(t) ==
  /\ ctrlPipe > 0 /\ Ready(t) = {}
  /\ Step(t, "poll", "check")
  /\ fds' = [fds EXCEPT ![t] = {}]
  /\ UNCHANGED <<op, locks, waiters, signal, pollfds, openDevs, device>>

(* poll() reports the control pipe only.                                   *)
PollInterrupted(t) ==
  /\ ctrlPipe > 0 /\ Ready(t) = {}
  /\ Step(t, "poll", "unlock_flag")
  /\ fds' = [fds EXCEPT ![t] = {}]
  /\ UNCHANGED <<op, locks, waiters, signal, pollfds, openDevs, device>>

(* poll() reports devices, whether or not the control pipe is ready too.   *)
PollReady(t) ==
  /\ Ready(t) # {}
  /\ Step(t, "poll", "reap")
  /\ fds' = [fds EXCEPT ![t] = Ready(t)]
  /\ UNCHANGED <<op, locks, waiters, signal, pollfds, openDevs, device>>

(* poll() times out or is interrupted by a signal.                         *)
PollGivesUp(t) ==
  /\ Ready(t) = {}
  /\ Step(t, "poll", "unlock_flag")
  /\ fds' = [fds EXCEPT ![t] = {}]
  /\ UNCHANGED <<op, locks, waiters, signal, pollfds, openDevs, device>>

(* op_handle_events(), one descriptor with revents.  POLLERR removes it    *)
(* from the poll set and terminates the transfer in flight; otherwise one  *)
(* URB is reaped.  Either way the callback of a transfer that ends sets    *)
(* "completed".                                                            *)
Reap(t, u) ==
  /\ pc[t] = "reap" /\ u \in fds[t] \intersect openDevs
  /\ fds' = [fds EXCEPT ![t] = @ \ {u}]
  /\ pollfds' = IF u \in unplugged THEN pollfds \ {u} ELSE pollfds
  /\ IF urb[u] = "reapable" \/ (u \in unplugged /\ urb[u] = "flying")
       THEN /\ Goto(t, "reap_bcast")
            /\ urb' = [urb EXCEPT ![u] = "none"]
            /\ completed' = [completed EXCEPT ![u] = TRUE]
       ELSE UNCHANGED <<pc, urb, completed>>
  /\ UNCHANGED <<op, locks, waiters, signal, openDevs, unplugged>>

(* The walk of open_devs finds no handle for u and falls off its end: the  *)
(* "handle" is the list head, and its "dev" the word 1 of the mutex behind *)
(* it, which HANDLE_CTX() and usbi_handle_disconnect() dereference.        *)
ReapUnlisted(t, u) ==
  /\ pc[t] = "reap" /\ u \in fds[t] \ openDevs
  /\ crashed' = TRUE
  /\ UNCHANGED <<pc, op, locks, waiters, signal, polled, device>>

(* usbi_handle_transfer_completion() wakes the waiters after the callback. *)
ReapBroadcast(t) ==
  /\ Step(t, "reap_bcast", "reap")
  /\ Broadcast
  /\ UNCHANGED <<op, locks, signal, polled, device>>

ReapDone(t) ==
  /\ fds[t] = {}
  /\ Step(t, "reap", "unlock_flag")
  /\ UNCHANGED <<op, locks, waiters, signal, polled, device>>

(* libusb_unlock_events(), called by an event handler and by the outer     *)
(* level of libusb_open() and libusb_close().                              *)
UnlockFlag(t) ==
  /\ Step(t, "unlock_flag", "unlock_mutex")
  /\ SetHandlerActive(FALSE)
  /\ UNCHANGED <<op, waiters, signal, polled, device>>

UnlockMutex(t) ==
  /\ Step(t, "unlock_mutex", "unlock_bcast")
  /\ UnlockEventsMutex(t)
  /\ UNCHANGED <<op, waiters, signal, polled, device>>

(* The synchronous loop looks at "completed" again; other calls return.    *)
LeaveCall(t) ==
  IF op[t] = "sync" THEN Goto(t, "loop") /\ UNCHANGED op ELSE Return(t)

(* Mutant: releasing the events lock does not wake the waiters.            *)
UnlockSilently(t) ==
  /\ pc[t] = "unlock_bcast"
  /\ LeaveCall(t)
  /\ UNCHANGED <<locks, waiters, signal, polled, device>>

UnlockBroadcast(t) ==
  /\ pc[t] = "unlock_bcast"
  /\ Broadcast
  /\ LeaveCall(t)
  /\ UNCHANGED <<locks, signal, polled, device>>

(* The other branch: some other thread handles the events.                 *)
WaitersLock(t) ==
  /\ waitersOwner = NoThread
  /\ Step(t, "waiters_lock", "recheck")
  /\ waitersOwner' = t
  /\ UNCHANGED <<op, locks, waitSet, signal, polled, device>>

(* Mutant: "completed" is not looked at again under event_waiters_lock.    *)
RecheckOmitted(t) ==
  /\ Step(t, "recheck", "active_modify")
  /\ UNCHANGED <<op, locks, waiters, signal, polled, device>>

Recheck(t) ==
  /\ Step(t, "recheck", IF completed[t] THEN "waiters_unlock" ELSE "active_modify")
  /\ UNCHANGED <<op, locks, waiters, signal, polled, device>>

(* libusb_event_handler_active(): a pending change counts as a handler.    *)
ActiveModify(t) ==
  /\ Step(t, "active_modify", IF pollfdModify > 0 THEN "cond_wait" ELSE "active_flag")
  /\ UNCHANGED <<op, locks, waiters, signal, polled, device>>

(* Mutant: sleep without looking whether a handler is still active.        *)
ActiveFlagIgnored(t) ==
  /\ Step(t, "active_flag", "cond_wait")
  /\ UNCHANGED <<op, locks, waiters, signal, polled, device>>

ActiveFlag(t) ==
  /\ handlerActive
  /\ Step(t, "active_flag", "cond_wait")
  /\ UNCHANGED <<op, locks, waiters, signal, polled, device>>

(* The handler went away in the meantime: release the lock and retry.      *)
RetryAsHandler(t) ==
  /\ ~handlerActive
  /\ Step(t, "active_flag", "try_modify")
  /\ waitersOwner' = NoThread
  /\ UNCHANGED <<op, locks, waitSet, signal, polled, device>>

(* libusb_wait_for_event(): release the lock and sleep, in one step.       *)
CondWait(t) ==
  /\ Step(t, "cond_wait", "asleep")
  /\ waitersOwner' = NoThread
  /\ waitSet' = waitSet \union {t}
  /\ UNCHANGED <<op, locks, signal, polled, device>>

(* pthread_cond_timedwait() ends without a broadcast.                      *)
WaitTimesOut(t) ==
  /\ t \in waitSet
  /\ waitSet' = waitSet \ {t}
  /\ UNCHANGED <<pc, op, locks, waitersOwner, signal, polled, device>>

Awake(t) ==
  /\ t \notin waitSet /\ waitersOwner = NoThread
  /\ Step(t, "asleep", "waiters_unlock")
  /\ waitersOwner' = t
  /\ UNCHANGED <<op, locks, waitSet, signal, polled, device>>

WaitersUnlock(t) ==
  /\ pc[t] = "waiters_unlock"
  /\ waitersOwner' = NoThread
  /\ LeaveCall(t)
  /\ UNCHANGED <<locks, waitSet, signal, polled, device>>

-----------------------------------------------------------------------------
(* Calls the program may or may not make.                                  *)
Call(t) == Open(t) \/ Close(t) \/ Submit(t) \/ HandleEvents(t)

Modify(t) ==
  \/ OpenList(t) \/ BeginModify(t) \/ WriteSignal(t) \/ WriteFails(t)
  \/ LockForModify(t) \/ ActiveForModify(t) \/ ReadSignal(t) \/ EndModify(t)

DoClose(t) ==
  \/ CloseLock(t) \/ CloseActive(t) \/ CloseFlag(t) \/ CloseMutex(t)
  \/ CloseBroadcast(t) \/ CloseList(t) \/ CloseRemove(t)

Handle(t) ==
  \/ Finish(t) \/ Again(t)
  \/ TryModify(t) \/ TryLock(t) \/ TryLockFails(t) \/ TryActive(t)
  \/ CheckDone(t) \/ GatherFds(t) \/ PollInterrupted(t) \/ PollReady(t)
  \/ \E u \in Threads : Reap(t, u)
  \/ ReapBroadcast(t) \/ ReapDone(t)
  \/ UnlockFlag(t) \/ UnlockMutex(t) \/ UnlockBroadcast(t)

Wait(t) ==
  \/ WaitersLock(t) \/ Recheck(t) \/ ActiveModify(t) \/ ActiveFlag(t)
  \/ RetryAsHandler(t) \/ CondWait(t) \/ Awake(t) \/ WaitersUnlock(t)

(* What a thread inside the library does without help of a timeout.        *)
Progress(t) == Modify(t) \/ DoClose(t) \/ Handle(t) \/ Wait(t)

(* Timeouts, signals and the device: they may happen or not.               *)
Environment(t) == PollGivesUp(t) \/ WaitTimesOut(t) \/ UrbDone(t) \/ Unplug(t)

Crash == \E t, u \in Threads : ReapUnlisted(t, u)

Run(t) == Call(t) \/ Progress(t) \/ Environment(t)

Next ==
  /\ ~crashed
  /\ (\E t \in Threads : Run(t) /\ UNCHANGED crashed) \/ Crash

Spec == Init /\ [][Next]_vars

-----------------------------------------------------------------------------
TypeOK ==
  /\ pc \in [Threads -> Labels]
  /\ op \in [Threads -> Calls]
  /\ eventsOwner \in Threads \union {NoThread}
  /\ eventsDepth \in Nat
  /\ handlerActive \in BOOLEAN
  /\ waitersOwner \in Threads \union {NoThread}
  /\ waitSet \subseteq Threads
  /\ pollfdModify \in Nat
  /\ ctrlPipe \in Nat
  /\ wrote \in [Threads -> BOOLEAN]
  /\ pollfds \subseteq Threads
  /\ openDevs \subseteq Threads
  /\ fds \in [Threads -> SUBSET Threads]
  /\ unplugged \subseteq Threads
  /\ urb \in [Threads -> UrbStates]
  /\ completed \in [Threads -> BOOLEAN]
  /\ crashed \in BOOLEAN

(* Threads between the increment and the decrement of pollfd_modify.       *)
Modifying ==
  {t \in Threads : pc[t] \in {"write", "lock", "active", "read", "done",
     "close_lock", "close_active", "close_flag", "close_mutex", "close_bcast",
     "close_list", "close_remove"}}

(* Threads that hold the events lock or have yet to announce its release.  *)
Handling ==
  {t \in Threads : pc[t] \in {"try_active", "check", "poll", "reap", "reap_bcast",
     "active", "read", "unlock_flag", "unlock_mutex", "unlock_bcast"}}

(* A thread that sleeps on event_waiters_cond, or has made up its mind to. *)
GoesToSleep(t) == t \in waitSet \/ pc[t] = "cond_wait"

(***************************************************************************)
(* Nobody sleeps on event_waiters_cond unattended: as long as a thread is  *)
(* asleep, or about to be, another one handles events or changes the poll  *)
(* set and will broadcast when it stops (libusb_wait_for_event() "2" and   *)
(* "3", the retry in libusb_handle_events_timeout_completed()).            *)
(***************************************************************************)
SleepersAreAttended ==
  (\E t \in Threads : GoesToSleep(t)) => Modifying \union Handling # {}

(***************************************************************************)
(* A wakeup is never lost: a thread that sleeps although its transfer has  *)
(* completed is about to be woken by the thread that ran the callback.     *)
(***************************************************************************)
CompletionIsAnnounced ==
  \A t \in Threads :
    /\ GoesToSleep(t) \/ pc[t] \in {"active_modify", "active_flag"}
    /\ completed[t]
    => \E u \in Threads : pc[u] = "reap_bcast"

(***************************************************************************)
(* libusb_close() removes and closes a descriptor only while nobody polls  *)
(* it or walks the results of polling it (libusb_close(): "perform the     *)
(* actual close of the device while holding the event handling lock").     *)
(***************************************************************************)
PolledFdsStayOpen ==
  \A t \in Threads : pc[t] \in {"poll", "reap", "reap_bcast"} => fds[t] \subseteq pollfds

(***************************************************************************)
(* Once libusb_open() has returned, whoever polls also polls the new       *)
(* descriptor (usbi_fd_notification(): event handlers realise the addition *)
(* of the new device's poll fd).                                           *)
(***************************************************************************)
OpenedFdsArePolled ==
  \A t, u \in Threads :
    pc[t] = "poll" /\ u \in pollfds /\ op[u] # "open" => u \in fds[t]

(***************************************************************************)
(* Reading the control pipe back cannot block the thread that holds the    *)
(* events lock: its own byte, or that of another change, is there.         *)
(***************************************************************************)
SignalIsReadable == \A t \in Threads : pc[t] = "read" => ctrlPipe > 0

(***************************************************************************)
(* op_handle_events() finds a handle in open_devs for every descriptor     *)
(* poll() reported.                                                        *)
(***************************************************************************)
ReportedFdsHaveHandles ==
  \A t \in Threads : pc[t] = "reap" => fds[t] \subseteq openDevs

(***************************************************************************)
(* A synchronous transfer returns once the kernel has completed its URB:   *)
(* whoever polls reaps it, and the thread that waits is woken or becomes   *)
(* the event handler itself, without the help of a timeout.                *)
(***************************************************************************)
TransferReturns ==
  \A t \in Threads : urb[t] = "reapable" ~> op[t] # "sync"

(***************************************************************************)
(* libusb_open() and libusb_close() interrupt the event handler and return *)
(* ("non-blocking function"), whatever the other threads are doing.        *)
(***************************************************************************)
ChangesReturn ==
  \A t \in Threads : op[t] \in {"open", "close"} ~> op[t] \notin {"open", "close"}
=============================================================================
