-------------------------- MODULE WindowsTransfers --------------------------
(***************************************************************************)
(* Transfers of one handle in the Windows backend                          *)
(* (libusb/os/windows_usb.c) and the table of poll_windows.c that gives    *)
(* each of them a descriptor to poll.                                      *)
(*                                                                         *)
(* A transfer is listed in ctx->flying_transfers before the backend        *)
(* submits it; the backend creates a descriptor with an OVERLAPPED, starts *)
(* the I/O and adds the descriptor to the poll set.  The handler polls a   *)
(* copy of the poll set, looks for the transfer that has the descriptor,   *)
(* and frees the descriptor before it completes the transfer.  Control     *)
(* transfers claim an interface if none is claimed.                        *)
(***************************************************************************)
EXTENDS Naturals, Sequences, FiniteSets, SequencesExt

CONSTANTS
  Controls, Bulks,  \* transfers: control ones, and those of one bulk endpoint
  MaxFds,           \* descriptors, each with its place in poll_fd[]
  MaxAutoclaim,     \* bound on autoclaim_count
  WinFaults         \* see below

(* "stale": an event is handled while a transfer is listed that still has  *)
(* the descriptor of its last submission; "reset": the device is reset     *)
(* with transfers in flight.                                               *)
AllWinFaults == {"stale", "reset"}

ASSUME WinAssumption ==
  /\ MaxFds \in Nat \ {0} /\ MaxAutoclaim \in Nat /\ Controls \intersect Bulks = {}
  /\ WinFaults \subseteq AllWinFaults /\ "none" \notin Controls \union Bulks

Flights == Controls \union Bulks
Fds     == 1..MaxFds

VARIABLES
  winLife,      \* how far each transfer has got
  fd,           \* transfer_priv->pollable_fd.fd, or 0 if there is none
  io,           \* poll_fd[]: the I/O of each descriptor, or "free"
  purpose,      \* the transfer it was started for
  pollset,      \* ctx->pollfds
  handler,      \* where the thread that handles events is
  watched,      \* its copy of the poll set
  signalled,    \* descriptors poll has reported that it is still to look at
  matched,      \* the transfer it has found
  result,       \* what has become of its I/O
  pastDeadline, \* USBI_TRANSFER_TIMED_OUT
  reported,     \* status in the last callback
  winClaimed,   \* whether the interface is claimed
  autoclaim,    \* autoclaim_count of it
  lost          \* open_devs_lock is never released, or memory is read that is no transfer

submitVars == <<winLife, fd, pastDeadline, reported>>
fdVars     == <<io, purpose>>
pollVars   == <<handler, watched, signalled, matched, result>>
claimVars  == <<winClaimed, autoclaim>>
winVars    == <<submitVars, fdVars, pollset, pollVars, claimVars, lost>>

Results == {"done", "stalled", "aborted"}
Ended(f) == io[f] \in Results

WinTypeOK ==
  /\ winLife \in [Flights -> {"idle", "listed", "creating", "started", "flying"}]
  /\ fd \in [Flights -> 0..MaxFds]
  /\ io \in [Fds -> Results \union {"free", "pending"}]
  /\ purpose \in [Fds -> Flights \union {"none"}]
  /\ pollset \in Seq(Fds) /\ watched \subseteq Fds /\ signalled \subseteq Fds
  /\ handler \in {"idle", "polling", "handling", "freeing", "completing"}
  /\ matched \in Flights \union {"none"} /\ result \in Results
  /\ pastDeadline \in [Flights -> BOOLEAN]
  /\ reported \in [Flights -> {"none", "completed", "stall", "timed_out", "cancelled"}]
  /\ winClaimed \in BOOLEAN /\ autoclaim \in 0..MaxAutoclaim /\ lost \in BOOLEAN

WinInit ==
  /\ winLife = [x \in Flights |-> "idle"] /\ fd = [x \in Flights |-> 0]
  /\ io = [f \in Fds |-> "free"] /\ purpose = [f \in Fds |-> "none"]
  /\ pollset = <<>> /\ watched = {} /\ signalled = {}
  /\ handler = "idle" /\ matched = "none" /\ result = "done"
  /\ pastDeadline = [x \in Flights |-> FALSE] /\ reported = [x \in Flights |-> "none"]
  /\ winClaimed = FALSE /\ autoclaim = 0 /\ lost = FALSE

Step(x, from, to) == winLife[x] = from /\ winLife' = [winLife EXCEPT ![x] = to]

-----------------------------------------------------------------------------
(* libusb_submit_transfer() lists the transfer; only then does the backend *)
(* let go of the descriptor the transfer had before.                       *)
List(x) ==
  /\ Step(x, "idle", "listed")
  /\ pastDeadline' = [pastDeadline EXCEPT ![x] = FALSE]
  /\ reported' = [reported EXCEPT ![x] = "none"]
  /\ UNCHANGED <<fd, fdVars, pollset, pollVars, claimVars, lost>>

KeepFd(x)  == fd' = fd
ResetFd(x) == fd' = [fd EXCEPT ![x] = 0]

(* A bulk endpoint belongs to a claimed interface.  A control transfer     *)
(* takes any claimed interface, and claims one only if there is none: one  *)
(* that finds it auto-claimed does not count.                              *)
Begin(x) ==
  /\ ResetFd(x)
  /\ \/ Step(x, "listed", "creating") /\ winClaimed /\ UNCHANGED claimVars
     \/ Step(x, "listed", "idle") /\ ~winClaimed /\ UNCHANGED claimVars
     \/ /\ x \in Controls /\ Step(x, "listed", "creating") /\ ~winClaimed
        /\ autoclaim < MaxAutoclaim
        /\ winClaimed' = TRUE /\ autoclaim' = autoclaim + 1
  /\ UNCHANGED <<pastDeadline, reported, fdVars, pollset, pollVars, lost>>

FreeFds == {f \in Fds : io[f] = "free"}

(* usbi_create_fd() and the request, which is pending, or is done already, *)
(* or fails.  The count of an auto-claimed interface stays as it is.       *)
StartIo(x) ==
  /\ winLife[x] = "creating" /\ FreeFds # {}
  /\ LET f == Min(FreeFds) IN
     /\ io' \in {[io EXCEPT ![f] = "pending"], [io EXCEPT ![f] = "done"]}
     /\ purpose' = [purpose EXCEPT ![f] = x]
     /\ fd' = [fd EXCEPT ![x] = f]
  /\ winLife' = [winLife EXCEPT ![x] = "started"]
  /\ UNCHANGED <<pastDeadline, reported, pollset, pollVars, claimVars, lost>>

StartFails(x) ==
  /\ Step(x, "creating", "idle")
  /\ UNCHANGED <<fd, pastDeadline, reported, fdVars, pollset, pollVars, claimVars, lost>>

(* usbi_add_pollfd(); nobody who polls is interrupted.                     *)
AddPollFd(x) ==
  /\ Step(x, "started", "flying") /\ pollset' = Append(pollset, fd[x])
  /\ UNCHANGED <<fd, pastDeadline, reported, fdVars, pollVars, claimVars, lost>>

-----------------------------------------------------------------------------
(* WinUsb_AbortPipe() ends all the I/O of the endpoint.  Nothing cancels a *)
(* control transfer.                                                       *)
Abort(x) ==
  io' = [f \in Fds |-> IF x \in Bulks /\ winClaimed /\ io[f] = "pending" /\ purpose[f] \in Bulks
                       THEN "aborted" ELSE io[f]]

CancelTransfer(x) ==
  /\ winLife[x] = "flying" /\ Abort(x)
  /\ UNCHANGED <<submitVars, purpose, pollset, pollVars, claimVars, lost>>

ExpireTransfer(x) ==
  /\ handler = "idle" /\ winLife[x] = "flying" /\ ~pastDeadline[x]
  /\ pastDeadline' = [pastDeadline EXCEPT ![x] = TRUE] /\ Abort(x)
  /\ UNCHANGED <<winLife, fd, reported, purpose, pollset, pollVars, claimVars, lost>>

(* The device ends the I/O of a transfer.                                  *)
EndIo(f) ==
  /\ io[f] = "pending" /\ io' \in {[io EXCEPT ![f] = r] : r \in {"done", "stalled"}}
  /\ UNCHANGED <<submitVars, purpose, pollset, pollVars, claimVars, lost>>

-----------------------------------------------------------------------------
(* usbi_poll(): an error if a descriptor is not in the table; otherwise    *)
(* what has ended already, or the one that ends first.                     *)
PollStart ==
  /\ handler = "idle" /\ ~lost /\ \A f \in Range(pollset) : io[f] # "free"
  /\ watched' = Range(pollset) /\ signalled' = {f \in Range(pollset) : Ended(f)}
  /\ handler' = IF signalled' = {} THEN "polling" ELSE "handling"
  /\ matched' = "none" /\ UNCHANGED <<result, submitVars, fdVars, pollset, claimVars, lost>>

PollWakes ==
  /\ handler = "polling"
  /\ \E f \in watched : Ended(f) /\ signalled' = {f}
  /\ handler' = "handling"
  /\ UNCHANGED <<watched, matched, result, submitVars, fdVars, pollset, claimVars, lost>>

PollTimesOut ==
  /\ handler = "polling" /\ handler' = "idle" /\ watched' = {}
  /\ UNCHANGED <<signalled, matched, result, submitVars, fdVars, pollset, claimVars, lost>>

Holders(f) == {x \in Flights : winLife[x] # "idle" /\ fd[x] = f}

PollPlaces(f) == {n \in 1..Len(pollset) : pollset[n] = f}
Without(f)    == IF PollPlaces(f) = {} THEN pollset ELSE RemoveAt(pollset, Min(PollPlaces(f)))

(* windows_handle_events(): the first transfer listed with the descriptor; *)
(* its result is read and the descriptor leaves the poll set.  "found" is  *)
(* not reset from one descriptor to the next, and open_devs_lock is kept   *)
(* if there is none.                                                       *)
MatchTransfer(f) ==
  /\ handler = "handling" /\ f \in signalled /\ signalled' = signalled \ {f}
  /\ "stale" \in WinFaults \/ \A x \in Holders(f) : winLife[x] # "listed"
  /\ \/ \E x \in Holders(f) :
          /\ matched' = x /\ handler' = "freeing" /\ pollset' = Without(f)
          /\ result' = IF Ended(f) THEN io[f] ELSE "done"
          /\ UNCHANGED lost
     \/ /\ Holders(f) = {} /\ lost' = TRUE /\ handler' = "idle"
        /\ UNCHANGED <<matched, result, pollset>>
  /\ UNCHANGED <<watched, submitVars, fdVars, claimVars>>

(* windows_clear_transfer_priv(): usbi_free_fd() and auto_release(), which *)
(* does not ask whether the transfer has claimed anything.                 *)
FreeFd ==
  /\ handler = "freeing" /\ handler' = "completing"
  /\ LET f == fd[matched] IN
     /\ io' = [g \in Fds |-> IF g = f THEN "free" ELSE io[g]]
     /\ purpose' = [g \in Fds |-> IF g = f THEN "none" ELSE purpose[g]]
  /\ autoclaim' = IF autoclaim > 0 THEN autoclaim - 1 ELSE 0
  /\ winClaimed' = (winClaimed /\ autoclaim # 1)
  /\ UNCHANGED <<watched, signalled, matched, result, submitVars, pollset, lost>>

Outcome(x) ==
  CASE result = "done" -> "completed"
    [] result = "stalled" -> "stall"
    [] OTHER -> IF pastDeadline[x] THEN "timed_out" ELSE "cancelled"

(* usbi_handle_transfer_completion(): unlisted, and handed to the program. *)
CompleteFlight ==
  /\ handler = "completing"
  /\ winLife' = [winLife EXCEPT ![matched] = "idle"]
  /\ reported' = [reported EXCEPT ![matched] = Outcome(matched)]
  /\ handler' = IF signalled = {} THEN "idle" ELSE "handling"
  /\ UNCHANGED <<watched, signalled, matched, result, fd, pastDeadline, fdVars, pollset,
                 claimVars, lost>>

-----------------------------------------------------------------------------
(* The program claims the interface, which does nothing if it is           *)
(* auto-claimed, and releases it when it has nothing in flight.            *)
ClaimByProgram ==
  /\ ~winClaimed /\ winClaimed' = TRUE
  /\ UNCHANGED <<submitVars, fdVars, pollset, pollVars, autoclaim, lost>>

ReleaseByProgram ==
  /\ winClaimed /\ winClaimed' = FALSE /\ \A x \in Flights : winLife[x] = "idle"
  /\ UNCHANGED <<submitVars, fdVars, pollset, pollVars, autoclaim, lost>>

(* winusb_reset_device() frees every descriptor of the interface.          *)
ResetPipes ==
  /\ winClaimed
  /\ "reset" \in WinFaults \/ \A x \in Flights : winLife[x] = "idle"
  /\ pollset' = <<>>
  /\ io' = [f \in Fds |-> "free"] /\ purpose' = [f \in Fds |-> "none"]
  /\ UNCHANGED <<submitVars, pollVars, claimVars, lost>>

-----------------------------------------------------------------------------
SubmitSteps(x) ==
  List(x) \/ Begin(x) \/ StartIo(x) \/ StartFails(x) \/ AddPollFd(x)

HandleSteps ==
  \/ PollStart \/ PollWakes \/ PollTimesOut \/ FreeFd \/ CompleteFlight
  \/ \E f \in Fds : MatchTransfer(f)

WinNext ==
  \/ \E x \in Flights : SubmitSteps(x) \/ CancelTransfer(x) \/ ExpireTransfer(x)
  \/ \E f \in Fds : EndIo(f)
  \/ HandleSteps \/ ClaimByProgram \/ ReleaseByProgram \/ ResetPipes

WinSpec == WinInit /\ [][WinNext]_winVars

-----------------------------------------------------------------------------
Handled(x) == matched = x /\ handler \in {"freeing", "completing"}

(* Every transfer in flight is polled exactly once, by a descriptor that   *)
(* stands for its I/O and for no other, and nothing else is polled: an     *)
(* event finds its transfer, and no poll fails on a descriptor that is     *)
(* gone.  Otherwise a transfer never ends, or another one is completed in  *)
(* its place.                                                              *)
FlightsArePolled ==
  /\ ~lost
  /\ \A x \in Flights : winLife[x] = "flying" /\ ~Handled(x) =>
       /\ Cardinality(PollPlaces(fd[x])) = 1
       /\ io[fd[x]] # "free" /\ purpose[fd[x]] = x
  /\ \A f \in Range(pollset) : \E x \in Flights : winLife[x] = "flying" /\ fd[x] = f

(* The comment in windows_handle_events(): the descriptor that is freed is *)
(* the transfer's own, not one that has taken its place.                   *)
OwnDescriptorFreed ==
  handler = "freeing" /\ fd[matched] # 0 => purpose[fd[matched]] \in {matched, "none"}

(* The comment in auto_claim(): the count must "prevent an early release"  *)
(* of an interface that a control transfer uses.                           *)
NoEarlyRelease ==
  \A x \in Controls : winLife[x] = "flying" /\ ~Handled(x) /\ io[fd[x]] = "pending" => winClaimed
=============================================================================
