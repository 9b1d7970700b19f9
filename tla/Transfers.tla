----------------------------- MODULE Transfers -----------------------------
(***************************************************************************)
(* The asynchronous transfers of one libusb context (libusb/io.c): the     *)
(* list of flying transfers, their timeouts, the timerfd, and the races    *)
(* between submission, cancellation, timeout, completion and disconnection.*)
(*                                                                         *)
(* One thread handles events (EventHandling shows that there is at most    *)
(* one at a time); the others submit and cancel transfers and, when their  *)
(* wait for events times out, look for expired timeouts.  A transfer has   *)
(* one URB, as a control transfer has in linux_usbfs.c.  The program keeps *)
(* to the contract: it does not submit a transfer that is flying, and does *)
(* not close the device while one is.                                      *)
(*                                                                         *)
(* One step is one access to shared state, a critical section of a lock    *)
(* counting as one access unless another lock is waited for inside it.     *)
(***************************************************************************)
EXTENDS Naturals, FiniteSets, Sequences, SequencesExt

CONSTANTS
  Transfers,      \* transfers of the program
  Users,          \* threads that do not handle events
  handler,        \* the thread that handles events
  None,           \* no thread, no transfer
  Timeouts,       \* Timeouts[T]: values the program gives T->timeout, 0 for none
  MaxTime,        \* bound: the clock stops here
  SubmitMayFail,  \* whether the kernel may refuse a URB
  Unplugging      \* whether the device may disappear: "never", "quietly" (when no
                  \* transfer is being submitted, and none is afterwards), "any time"

Threads == Users \union {handler}

ASSUME ThreadsAssumption == handler \notin Users /\ None \notin Threads
ASSUME TransfersAssumption == None \notin Transfers /\ IsFiniteSet(Transfers)
ASSUME TimeAssumption == MaxTime \in Nat /\ Timeouts \in [Transfers -> SUBSET Nat]
ASSUME FaultsAssumption ==
  /\ SubmitMayFail \in BOOLEAN
  /\ Unplugging \in {"never", "quietly", "any time"}

VARIABLES
  pc,            \* where each thread is
  target,        \* the transfer it is working on
  rearm,         \* whether it is going to arm the timerfd
  seen,          \* USBI_TRANSFER_TIMED_OUT in the flags it read
  systime,       \* the time its pass over the timeouts compares with
  cursor,        \* its position in the list during such a pass
  flying,        \* ctx->flying_transfers
  flyingOwner,   \* owner of ctx->flying_transfers_lock, when held over steps
  lock,          \* owner of each transfer's lock
  timeout,       \* itransfer->timeout, 0 when not set
  timedOut,      \* USBI_TRANSFER_TIMED_OUT in itransfer->flags
  reapCancelled, \* whether the transfer's reap_action is CANCELLED
  urb,           \* the transfer's URB, as the kernel sees it
  now,           \* the monotonic clock
  armed,         \* expiry the timerfd is armed with, 0 when disarmed
  gone,          \* whether the device has disappeared
  watched,       \* whether its descriptor is still in the poll set
  status,        \* status the handler is about to report
  phase,         \* each transfer as the program knows it
  deadline,      \* when the current submission asked to time out, 0 for never
  asked,         \* whether the program has asked to cancel it
  outcome        \* status of its callback since the last submission

threads == <<rearm, seen, systime, cursor>>
timer   == <<now, armed>>
device  == <<gone, watched>>
fields  == <<timeout, timedOut, reapCancelled, urb>>
program == <<phase, deadline, asked, outcome>>
vars == <<pc, target, threads, flying, flyingOwner, lock, fields, timer,
          device, status, program>>

Labels == {"idle", "poll", "callback",
           "add", "urb", "delist", "arm", "submitted", "cancelled",
           "pass", "scan", "expire", "expired",
           "reap", "flags", "complete", "disarm", "call",
           "pick", "clear"}

(* No URB, in the hands of the device, completed by it, or killed by       *)
(* IOCTL_USBFS_DISCARDURB; the last two wait to be reaped.                 *)
UrbStates == {"none", "flying", "done", "killed"}

(* Why the current submission of each transfer may end early.              *)
EndReasons ==
  [T \in Transfers |->
     {r \in {"cancelled", "timed_out", "no_device"} :
        \/ r = "cancelled" /\ asked[T]
        \/ r = "timed_out" /\ deadline[T] # 0 /\ deadline[T] <= now
        \/ r = "no_device" /\ gone}]

L == INSTANCE TransferLifecycle WITH state <- phase, reasons <- EndReasons

Init ==
  /\ pc = [t \in Threads |-> IF t = handler THEN "poll" ELSE "idle"]
  /\ target = [t \in Threads |-> None]
  /\ rearm = [t \in Threads |-> FALSE]
  /\ seen = [t \in Threads |-> FALSE]
  /\ systime = [t \in Threads |-> 0]
  /\ cursor = [t \in Threads |-> 1]
  /\ flying = <<>>
  /\ flyingOwner = None
  /\ lock = [T \in Transfers |-> None]
  /\ timeout = [T \in Transfers |-> 0]
  /\ timedOut = [T \in Transfers |-> FALSE]
  /\ reapCancelled = [T \in Transfers |-> FALSE]
  /\ urb = [T \in Transfers |-> "none"]
  /\ now = 1
  /\ armed = 0
  /\ gone = FALSE
  /\ watched = TRUE
  /\ status = "none"
  /\ phase = [T \in Transfers |-> "idle"]
  /\ deadline = [T \in Transfers |-> 0]
  /\ asked = [T \in Transfers |-> FALSE]
  /\ outcome = [T \in Transfers |-> "none"]

Goto(t, label) == pc' = [pc EXCEPT ![t] = label]

Step(t, from, to) == pc[t] = from /\ Goto(t, to)

(* Where a thread submits and cancels: a callback runs in the handler.     *)
Home(t) == IF t = handler THEN "callback" ELSE "idle"

(* Where it goes when a pass over the timeouts is over.                    *)
PassOver(t) == IF t = handler THEN "poll" ELSE "idle"

Listed == ToSet(flying)

-----------------------------------------------------------------------------
(* Operators on the list, called with flying_transfers_lock held.          *)

(* Mutant: forgets that a transfer without timeout times out last.         *)
PositionAmongTimed(T) ==
  LET later == {i \in 1..Len(flying) : timeout[T] # 0 /\ timeout[flying[i]] > timeout[T]}
  IN  CHOOSE i \in later \union {Len(flying) + 1} : \A j \in later : i <= j

(* Where add_to_flying_list() puts T: before the first transfer that times *)
(* out later, or never.                                                    *)
Position(T) ==
  LET later == {i \in 1..Len(flying) :
                  timeout[T] # 0 /\ (timeout[flying[i]] = 0 \/ timeout[flying[i]] > timeout[T])}
  IN  CHOOSE i \in later \union {Len(flying) + 1} : \A j \in later : i <= j

(* Its result: T has a timeout and it is the next one to expire.           *)
IsFirst(T) == timeout[T] # 0 /\ Position(T) = 1

(* The list after list_del(): T has to be in it.                           *)
Without(T) == RemoveAt(flying, CHOOSE i \in 1..Len(flying) : flying[i] = T)

(* arm_timerfd_for_next_timeout(): the first transfer in s not marked as   *)
(* timed out, unless one without timeout comes before it.                  *)
NextTimeout(s) ==
  LET pending == {i \in 1..Len(s) :
                    /\ \A j \in 1..i : timeout[s[j]] # 0
                    /\ ~timedOut[s[i]]
                    /\ \A j \in 1..(i - 1) : timedOut[s[j]]}
  IN  IF pending = {} THEN 0 ELSE timeout[s[CHOOSE i \in pending : TRUE]]

ArmNext(s) == armed' = IF NextTimeout(s) = 0 THEN armed ELSE NextTimeout(s)

(* Mutant: ends the loop at a transfer that was marked before.             *)
DueBeforeMarked(t) ==
  {i \in {cursor[t]} : /\ i <= Len(flying)
                       /\ timeout[flying[i]] # 0 /\ timeout[flying[i]] <= systime[t]
                       /\ ~timedOut[flying[i]]}

(* handle_timeouts_locked(): position of the next transfer to time out;    *)
(* the loop ends at one without timeout or not yet expired, and skips the  *)
(* ones it marked before.                                                  *)
Due(t) ==
  {i \in cursor[t]..Len(flying) :
     /\ \A j \in cursor[t]..i : timeout[flying[j]] # 0
     /\ \A j \in cursor[t]..(i - 1) : timedOut[flying[j]]
     /\ ~timedOut[flying[i]]
     /\ timeout[flying[i]] <= systime[t]}

(* op_cancel_transfer() and discard_urbs(): only a URB the kernel still    *)
(* has in flight is killed.                                                *)
CancelUrb(T) ==
  /\ reapCancelled' = [reapCancelled EXCEPT ![T] = TRUE]
  /\ urb' = [urb EXCEPT ![T] = IF @ = "flying" THEN "killed" ELSE @]

(* The transfer is the program's again.                                    *)
EndSubmission(T) ==
  /\ phase' = [phase EXCEPT ![T] = "idle"]
  /\ deadline' = [deadline EXCEPT ![T] = 0]
  /\ asked' = [asked EXCEPT ![T] = FALSE]

-----------------------------------------------------------------------------
(* libusb_submit_transfer().                                               *)

(* Take the transfer's lock, reset its flags, calculate_timeout(): without *)
(* a timeout itransfer->timeout stays what it was.                         *)
Submit(t, T) ==
  /\ Unplugging = "quietly" => ~gone
  /\ phase[T] = "idle" /\ lock[T] = None
  /\ Step(t, Home(t), "add")
  /\ target' = [target EXCEPT ![t] = T]
  /\ lock' = [lock EXCEPT ![T] = t]
  /\ timedOut' = [timedOut EXCEPT ![T] = FALSE]
  /\ \E d \in Timeouts[T] :
       /\ now + d <= MaxTime
       /\ timeout' = [timeout EXCEPT ![T] = IF d = 0 THEN @ ELSE now + d]
       /\ deadline' = [deadline EXCEPT ![T] = IF d = 0 THEN 0 ELSE now + d]
  /\ phase' = [phase EXCEPT ![T] = "submitting"]
  /\ outcome' = [outcome EXCEPT ![T] = "none"]
  /\ UNCHANGED <<threads, flying, flyingOwner, reapCancelled, urb, timer, device, status, asked>>

AddToFlyingList(t) ==
  /\ flyingOwner = None
  /\ Step(t, "add", "urb")
  /\ flying' = InsertAt(flying, Position(target[t]), target[t])
  /\ rearm' = [rearm EXCEPT ![t] = IsFirst(target[t])]
  /\ UNCHANGED <<target, seen, systime, cursor, flyingOwner, lock, fields, timer, device,
                 status, program>>

(* Mutant: does not reset the reap action.                                 *)
SubmitUrbStale(t) ==
  /\ ~gone
  /\ Step(t, "urb", IF rearm[t] THEN "arm" ELSE "submitted")
  /\ urb' = [urb EXCEPT ![target[t]] = "flying"]
  /\ UNCHANGED <<target, threads, flying, flyingOwner, lock, timeout, timedOut, reapCancelled,
                 timer, device, status, program>>

(* submit_control_transfer(): the kernel takes the URB.                    *)
SubmitUrb(t) ==
  /\ ~gone
  /\ Step(t, "urb", IF rearm[t] THEN "arm" ELSE "submitted")
  /\ urb' = [urb EXCEPT ![target[t]] = "flying"]
  /\ reapCancelled' = [reapCancelled EXCEPT ![target[t]] = FALSE]
  /\ UNCHANGED <<target, threads, flying, flyingOwner, lock, timeout, timedOut, timer, device,
                 status, program>>

(* It refuses it, as it does when the device is gone.                      *)
SubmitFails(t) ==
  /\ SubmitMayFail \/ gone
  /\ Step(t, "urb", "delist")
  /\ rearm' = [rearm EXCEPT ![t] = FALSE]
  /\ reapCancelled' = [reapCancelled EXCEPT ![target[t]] = FALSE]
  /\ UNCHANGED <<target, seen, systime, cursor, flying, flyingOwner, lock, timeout, timedOut, urb,
                 timer, device, status, program>>

(* Mutant: the error path leaves the transfer in the list.                 *)
RefuseListed(t) ==
  /\ pc[t] = "delist" /\ Goto(t, Home(t))
  /\ lock' = [lock EXCEPT ![target[t]] = None]
  /\ EndSubmission(target[t])
  /\ target' = [target EXCEPT ![t] = None]
  /\ UNCHANGED <<threads, flying, flyingOwner, fields, timer, device, status, outcome>>

(* The error path waits for the list with the transfer's lock held.        *)
Refuse(t) ==
  /\ flyingOwner = None
  /\ pc[t] = "delist" /\ Goto(t, Home(t))
  /\ flying' = Without(target[t])
  /\ lock' = [lock EXCEPT ![target[t]] = None]
  /\ EndSubmission(target[t])
  /\ target' = [target EXCEPT ![t] = None]
  /\ UNCHANGED <<threads, flyingOwner, fields, timer, device, status, outcome>>

(* Mutant: arms the timerfd with the time left, which may be less than 0.  *)
ArmRelative(t) ==
  /\ Step(t, "arm", "submitted")
  /\ armed' = timeout[target[t]] - now
  /\ rearm' = [rearm EXCEPT ![t] = FALSE]
  /\ UNCHANGED <<target, seen, systime, cursor, flying, flyingOwner, lock, fields, now, device,
                 status, program>>

(* Arm the timerfd for the transfer that was first when it was listed.     *)
Arm(t) ==
  /\ Step(t, "arm", "submitted")
  /\ armed' = timeout[target[t]]
  /\ rearm' = [rearm EXCEPT ![t] = FALSE]
  /\ UNCHANGED <<target, seen, systime, cursor, flying, flyingOwner, lock, fields, now, device,
                 status, program>>

Accept(t) ==
  /\ pc[t] = "submitted" /\ Goto(t, Home(t))
  /\ lock' = [lock EXCEPT ![target[t]] = None]
  /\ phase' = [phase EXCEPT ![target[t]] = "flying"]
  /\ target' = [target EXCEPT ![t] = None]
  /\ UNCHANGED <<threads, flying, flyingOwner, fields, timer, device, status, deadline, asked,
                 outcome>>

-----------------------------------------------------------------------------
(* libusb_cancel_transfer(), called by the program and by handle_timeout(). *)

Cancel(t, T) ==
  /\ lock[T] = None
  /\ Step(t, Home(t), "cancelled")
  /\ target' = [target EXCEPT ![t] = T]
  /\ lock' = [lock EXCEPT ![T] = t]
  /\ CancelUrb(T)
  /\ seen' = [seen EXCEPT ![t] = timedOut[T]]
  /\ asked' = [asked EXCEPT ![T] = phase[T] = "flying"]
  /\ UNCHANGED <<rearm, systime, cursor, flying, flyingOwner, timeout, timedOut, timer, device,
                 status, phase, deadline, outcome>>

CancelExpired(t) ==
  /\ Step(t, "expire", "expired")
  /\ lock[target[t]] = None
  /\ lock' = [lock EXCEPT ![target[t]] = t]
  /\ CancelUrb(target[t])
  /\ seen' = [seen EXCEPT ![t] = timedOut[target[t]]]
  /\ UNCHANGED <<target, rearm, systime, cursor, flying, flyingOwner, timeout, timedOut, timer,
                 device, status, program>>

(* flags |= USBI_TRANSFER_CANCELLING, in two accesses: what another thread *)
(* wrote to the flags in between is lost.                                  *)
SetCancelling(t) ==
  /\ pc[t] \in {"cancelled", "expired"}
  /\ Goto(t, IF pc[t] = "expired" THEN "scan" ELSE Home(t))
  /\ timedOut' = [timedOut EXCEPT ![target[t]] = seen[t]]
  /\ seen' = [seen EXCEPT ![t] = FALSE]
  /\ lock' = [lock EXCEPT ![target[t]] = None]
  /\ target' = [target EXCEPT ![t] = None]
  /\ UNCHANGED <<rearm, systime, cursor, flying, flyingOwner, timeout, reapCancelled, urb, timer,
                 device, status, program>>

-----------------------------------------------------------------------------
(* handle_timeouts(), by any thread, and handle_timerfd_trigger().         *)

WaitTimesOut(t) ==
  /\ t \in Users
  /\ Step(t, "idle", "pass")
  /\ UNCHANGED <<target, threads, flying, flyingOwner, lock, fields, timer, device, status,
                 program>>

BeginPass(t) ==
  /\ flyingOwner = None
  /\ Step(t, "pass", "scan")
  /\ flyingOwner' = t
  /\ systime' = [systime EXCEPT ![t] = now]
  /\ UNCHANGED <<target, rearm, seen, cursor, flying, lock, fields, timer, device, status,
                 program>>

(* handle_timeout() marks the transfer without taking its lock.            *)
Expire(t) ==
  /\ Step(t, "scan", "expire")
  /\ \E i \in Due(t) :
       /\ target' = [target EXCEPT ![t] = flying[i]]
       /\ timedOut' = [timedOut EXCEPT ![flying[i]] = TRUE]
       /\ cursor' = [cursor EXCEPT ![t] = i + 1]
  /\ UNCHANGED <<rearm, seen, systime, flying, flyingOwner, lock, timeout, reapCancelled, urb,
                 timer, device, status, program>>

(* Mutant: keeps the list locked.                                          *)
EndPassLocked(t) ==
  /\ Due(t) = {}
  /\ pc[t] = "scan" /\ Goto(t, PassOver(t))
  /\ IF rearm[t] THEN ArmNext(flying) ELSE UNCHANGED armed
  /\ rearm' = [rearm EXCEPT ![t] = FALSE]
  /\ systime' = [systime EXCEPT ![t] = 0]
  /\ cursor' = [cursor EXCEPT ![t] = 1]
  /\ UNCHANGED <<target, seen, flying, flyingOwner, lock, fields, now, device, status, program>>

(* Nothing is due; after a trigger the timerfd is armed again.             *)
EndPass(t) ==
  /\ Due(t) = {}
  /\ pc[t] = "scan" /\ Goto(t, PassOver(t))
  /\ flyingOwner' = None
  /\ IF rearm[t] THEN ArmNext(flying) ELSE UNCHANGED armed
  /\ rearm' = [rearm EXCEPT ![t] = FALSE]
  /\ systime' = [systime EXCEPT ![t] = 0]
  /\ cursor' = [cursor EXCEPT ![t] = 1]
  /\ UNCHANGED <<target, seen, flying, lock, fields, now, device, status, program>>

-----------------------------------------------------------------------------
(* handle_events() and the completion of a transfer.                       *)

TimerFires == armed # 0 /\ armed <= now
Reapable(T) == urb[T] \in {"done", "killed"} /\ watched /\ ~gone

PollTimer ==
  /\ TimerFires
  /\ Step(handler, "poll", "pass")
  /\ armed' = 0
  /\ rearm' = [rearm EXCEPT ![handler] = TRUE]
  /\ UNCHANGED <<target, seen, systime, cursor, flying, flyingOwner, lock, fields, now, device,
                 status, program>>

(* Mutant: poll() has timed out, and nothing is done about it.             *)
PollTimesOutIdle ==
  /\ ~TimerFires /\ ~(gone /\ watched) /\ \A T \in Transfers : ~Reapable(T)
  /\ Step(handler, "poll", "poll")
  /\ UNCHANGED <<target, threads, flying, flyingOwner, lock, fields, timer, device, status,
                 program>>

PollTimesOut ==
  /\ ~TimerFires /\ ~(gone /\ watched) /\ \A T \in Transfers : ~Reapable(T)
  /\ Step(handler, "poll", "pass")
  /\ UNCHANGED <<target, threads, flying, flyingOwner, lock, fields, timer, device, status,
                 program>>

(* reap_for_handle(): the URB leaves the kernel.                           *)
ReapUrb(T) ==
  /\ Reapable(T)
  /\ Step(handler, "poll", "reap")
  /\ target' = [target EXCEPT ![handler] = T]
  /\ UNCHANGED <<threads, flying, flyingOwner, lock, fields, timer, device, status, program>>

(* handle_control_completion(), under the transfer's lock.                 *)
HandleCompletion ==
  LET T == target[handler] IN
  /\ pc[handler] = "reap"
  /\ lock[T] = None
  /\ Goto(handler, IF reapCancelled[T] THEN "flags" ELSE "complete")
  /\ urb' = [urb EXCEPT ![T] = "none"]
  /\ status' = IF reapCancelled[T] THEN status
               ELSE IF urb[T] = "done" THEN "completed" ELSE "cancelled"
  /\ UNCHANGED <<target, threads, flying, flyingOwner, lock, timeout, timedOut, reapCancelled,
                 timer, device, program>>

(* usbi_handle_transfer_cancellation(), without the lock.                  *)
HandleCancellation ==
  /\ Step(handler, "flags", "complete")
  /\ status' = IF timedOut[target[handler]] THEN "timed_out" ELSE "cancelled"
  /\ UNCHANGED <<target, threads, flying, flyingOwner, lock, fields, timer, device, program>>

(* usbi_handle_transfer_completion(): delist, arm for the next timeout ... *)
Complete ==
  /\ flyingOwner = None
  /\ Step(handler, "complete", "disarm")
  /\ flying' = Without(target[handler])
  /\ ArmNext(Without(target[handler]))
  /\ UNCHANGED <<target, threads, flyingOwner, lock, fields, now, device, status, program>>

(* ... and disarm, whatever was armed.                                     *)
Disarm ==
  /\ Step(handler, "disarm", "call")
  /\ armed' = 0
  /\ UNCHANGED <<target, threads, flying, flyingOwner, lock, fields, now, device, status, program>>

(* The callback: from here on the transfer belongs to the program.         *)
Callback ==
  /\ Step(handler, "call", "callback")
  /\ EndSubmission(target[handler])
  /\ outcome' = [outcome EXCEPT ![target[handler]] = status]
  /\ status' = "none"
  /\ target' = [target EXCEPT ![handler] = None]
  /\ UNCHANGED <<threads, flying, flyingOwner, lock, fields, timer, device>>

(* Mutant: usbi_handle_disconnect() terminates only one transfer.          *)
CallbackReturnsToPoll ==
  /\ Step(handler, "callback", "poll")
  /\ UNCHANGED <<target, threads, flying, flyingOwner, lock, fields, timer, device, status,
                 program>>

CallbackReturns ==
  /\ Step(handler, "callback", IF watched THEN "poll" ELSE "pick")
  /\ UNCHANGED <<target, threads, flying, flyingOwner, lock, fields, timer, device, status,
                 program>>

-----------------------------------------------------------------------------
(* op_handle_events() on POLLERR and usbi_handle_disconnect().             *)

PollError ==
  /\ gone /\ watched
  /\ Step(handler, "poll", "pick")
  /\ watched' = FALSE
  /\ UNCHANGED <<target, threads, flying, flyingOwner, lock, fields, timer, gone, status, program>>

PickToCancel ==
  /\ flyingOwner = None /\ flying # <<>>
  /\ Step(handler, "pick", "clear")
  /\ target' = [target EXCEPT ![handler] = Head(flying)]
  /\ UNCHANGED <<threads, flying, flyingOwner, lock, fields, timer, device, status, program>>

NoneToCancel ==
  /\ flyingOwner = None /\ flying = <<>>
  /\ Step(handler, "pick", "poll")
  /\ UNCHANGED <<target, threads, flying, flyingOwner, lock, fields, timer, device, status,
                 program>>

ClearTransferPriv ==
  LET T == target[handler] IN
  /\ Step(handler, "clear", "complete")
  /\ lock[T] = None
  /\ urb' = [urb EXCEPT ![T] = "none"]
  /\ status' = "no_device"
  /\ UNCHANGED <<target, threads, flying, flyingOwner, lock, timeout, timedOut, reapCancelled,
                 timer, device, program>>

-----------------------------------------------------------------------------
(* The environment.                                                        *)

Tick ==
  /\ now < MaxTime
  /\ now' = now + 1
  /\ UNCHANGED <<pc, target, threads, flying, flyingOwner, lock, fields, armed, device, status,
                 program>>

UrbDone(T) ==
  /\ urb[T] = "flying"
  /\ urb' = [urb EXCEPT ![T] = "done"]
  /\ UNCHANGED <<pc, target, threads, flying, flyingOwner, lock, timeout, timedOut, reapCancelled,
                 timer, device, status, program>>

(* The device goes, and the kernel takes back the URBs it had in flight.   *)
Unplug ==
  /\ ~gone
  /\ \/ Unplugging = "any time"
     \/ Unplugging = "quietly" /\ \A T \in Transfers : phase[T] # "submitting"
  /\ gone' = TRUE
  /\ urb' = [T \in Transfers |-> IF urb[T] = "flying" THEN "done" ELSE urb[T]]
  /\ UNCHANGED <<pc, target, threads, flying, flyingOwner, lock, timeout, timedOut, reapCancelled,
                 timer, watched, status, program>>

-----------------------------------------------------------------------------
(* What a thread goes on with once it has begun.                           *)
Submission(t) ==
  AddToFlyingList(t) \/ SubmitUrb(t) \/ SubmitFails(t) \/ Refuse(t) \/ Arm(t) \/ Accept(t)

Pass(t) == BeginPass(t) \/ Expire(t) \/ CancelExpired(t) \/ EndPass(t)

Events ==
  \/ PollTimer \/ PollTimesOut \/ PollError
  \/ \E T \in Transfers : ReapUrb(T)
  \/ HandleCompletion \/ HandleCancellation
  \/ Complete \/ Disarm \/ Callback \/ CallbackReturns
  \/ PickToCancel \/ NoneToCancel \/ ClearTransferPriv

Progress(t) ==
  \/ Submission(t) \/ SetCancelling(t) \/ Pass(t)
  \/ t = handler /\ Events

(* Calls the program makes when it likes.                                  *)
Call(t) == (\E T \in Transfers : Submit(t, T) \/ Cancel(t, T)) \/ WaitTimesOut(t)

Environment == Tick \/ (\E T \in Transfers : UrbDone(T)) \/ Unplug

Next == (\E t \in Threads : Call(t) \/ Progress(t)) \/ Environment

Spec == Init /\ [][Next]_vars

(* Threads inside the library go on, one that waits for a mutex which is   *)
(* released again and again obtains it, poll() ends by its timeout at the  *)
(* latest, and time passes.  The device need not complete anything.        *)
FairSpec ==
  /\ Spec
  /\ \A t \in Threads : SF_vars(Progress(t))
  /\ WF_vars(Tick)

-----------------------------------------------------------------------------
TypeOK ==
  /\ pc \in [Threads -> Labels]
  /\ target \in [Threads -> Transfers \union {None}]
  /\ rearm \in [Threads -> BOOLEAN]
  /\ seen \in [Threads -> BOOLEAN]
  /\ systime \in [Threads -> Nat]
  /\ cursor \in [Threads -> Nat \ {0}]
  /\ flying \in Seq(Transfers)
  /\ flyingOwner \in Threads \union {None}
  /\ lock \in [Transfers -> Threads \union {None}]
  /\ timeout \in [Transfers -> Nat]
  /\ timedOut \in [Transfers -> BOOLEAN]
  /\ reapCancelled \in [Transfers -> BOOLEAN]
  /\ urb \in [Transfers -> UrbStates]
  /\ now \in Nat
  /\ armed \in Nat
  /\ gone \in BOOLEAN
  /\ watched \in BOOLEAN
  /\ status \in L!Outcomes
  /\ phase \in [Transfers -> L!States]
  /\ deadline \in [Transfers -> Nat]
  /\ asked \in [Transfers -> BOOLEAN]
  /\ outcome \in [Transfers -> L!Outcomes]

(***************************************************************************)
(* The list is sorted by timeout, transfers without one at its end, and    *)
(* holds a transfer once ("timeout-sorted", "in order of timeout           *)
(* expiration"): both loops over it stop early because of that.            *)
(***************************************************************************)
FlyingSorted ==
  \A i, j \in 1..Len(flying) : i < j =>
    /\ flying[i] # flying[j]
    /\ timeout[flying[j]] # 0 =>
         timeout[flying[i]] # 0 /\ timeout[flying[i]] <= timeout[flying[j]]

(***************************************************************************)
(* A pass over the timeouts misses nothing: when it ends, no transfer in   *)
(* the list that had expired when it began still has its URB with the      *)
(* device (handle_timeouts_locked(): "finding all transfers that have      *)
(* expired timeouts").                                                     *)
(***************************************************************************)
PassFindsAll ==
  \A t \in Threads : pc[t] = "scan" /\ Due(t) = {} =>
    \A T \in Listed : timeout[T] # 0 /\ timeout[T] <= systime[t] => urb[T] # "flying"

(***************************************************************************)
(* A transfer that belongs to the program, which may free it, is not       *)
(* listed, has no URB, and no thread is about to time it out               *)
(* (usbi_handle_transfer_completion(): "transfer might have been freed by  *)
(* the above call, do not use from this point").                           *)
(***************************************************************************)
IdleIsForgotten ==
  \A T \in Transfers : phase[T] = "idle" =>
    /\ T \notin Listed
    /\ urb[T] = "none"
    /\ \A t \in Threads : target[t] = T => pc[t] \notin {"expire", "expired"}

(***************************************************************************)
(* usbi_handle_disconnect() is to "terminate all pending transfers": one   *)
(* whose submission has been refused is not pending, and may be freed.     *)
(***************************************************************************)
DisconnectEndsPending == pc[handler] = "clear" => phase[target[handler]] # "idle"

(***************************************************************************)
(* Exactly one callback for each accepted submission, none for a refused   *)
(* one, and an early end only for a reason that holds.                     *)
(***************************************************************************)
LifecycleSpec == L!Spec

(***************************************************************************)
(* A transfer with a timeout gets its callback even if the device never    *)
(* completes it, by the timerfd or by the timeout of poll().               *)
(***************************************************************************)
TimeoutEndsTransfer ==
  \A T \in Transfers : phase[T] = "flying" /\ deadline[T] # 0 ~> phase[T] = "idle"

(***************************************************************************)
(* When the device is unplugged every transfer gets its callback, without  *)
(* help of the kernel (usbi_handle_disconnect(): "terminate all pending    *)
(* transfers with the LIBUSB_TRANSFER_NO_DEVICE status code").             *)
(***************************************************************************)
UnplugEndsTransfers ==
  \A T \in Transfers : gone /\ phase[T] = "flying" ~> phase[T] = "idle"

(***************************************************************************)
(* libusb_submit_transfer(): "This function will fire off the USB transfer *)
(* and then return immediately."                                           *)
(***************************************************************************)
SubmitReturns ==
  \A T \in Transfers : phase[T] = "submitting" ~> phase[T] # "submitting"

(***************************************************************************)
(* "this timerfd is maintained to trigger on the next pending timeout"     *)
(* (libusbi.h): with no thread inside the library, it will trigger no      *)
(* later than the first timeout that has not been dealt with.              *)
(***************************************************************************)
TimerCoversNextTimeout ==
  (\A t \in Threads : pc[t] \in {"idle", "poll"}) /\ NextTimeout(flying) # 0
    => armed # 0 /\ armed <= NextTimeout(flying)

(***************************************************************************)
(* libusb_transfer.timeout: "A value of 0 indicates no timeout."           *)
(***************************************************************************)
ZeroMeansNoTimeout ==
  status = "timed_out" => deadline[target[handler]] # 0
=============================================================================
