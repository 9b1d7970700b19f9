----------------------------- MODULE LinuxUrbs -----------------------------
(***************************************************************************)
(* One transfer of several URBs in the usbfs backend                       *)
(* (libusb/os/linux_usbfs.c), and the synchronous calls (libusb/sync.c)    *)
(* that own such a transfer.                                               *)
(*                                                                         *)
(* The thread "user" submits the transfer, asynchronously or inside a      *)
(* synchronous call, and cancels it; the thread "handler" reaps URBs and   *)
(* completes it.  itransfer->lock is held over the loops that submit and   *)
(* discard URBs, one URB in each step, so that the kernel and the device   *)
(* go on in between.                                                       *)
(*                                                                         *)
(* Data is counted in units, some of them in each URB.  `bus' is the      *)
(* units that were transferred, in that order: for an IN transfer they are *)
(* numbered as they come, for an OUT transfer as they lie in the buffer.   *)
(***************************************************************************)
EXTENDS Naturals, Sequences, FiniteSets, SequencesExt

CONSTANTS
  Shapes,      \* transfers the program makes: type, direction, number of
               \* URBs and units in each, and whether the kernel knows
               \* BULK_CONTINUATION
  UrbFaults    \* what may go wrong beyond the usual, see below

(* "lone_stall": a URB stalls whose transfer has others that the kernel    *)
(* does not cancel by itself; "early_error": a URB fails before all are    *)
(* submitted; "second_error": handling events fails twice during one       *)
(* synchronous call.                                                       *)
AllUrbFaults == {"lone_stall", "early_error", "second_error"}

ASSUME ShapesAssumption ==
  /\ Shapes \subseteq [type : {"bulk", "interrupt", "control", "iso"}, in : BOOLEAN,
                       urbs : Nat \ {0}, size : Nat \ {0}, continuation : BOOLEAN]
  /\ \A s \in Shapes : s.type = "control" => s.urbs = 1
  /\ \E s \in Shapes : \A r \in Shapes : r.urbs <= s.urbs
  /\ \E s \in Shapes : \A r \in Shapes : r.urbs * r.size <= s.urbs * s.size
  /\ UrbFaults \subseteq AllUrbFaults

VARIABLES
  at,           \* where the two threads are
  xlock,        \* owner of itransfer->lock
  shape,        \* the transfer's type, direction and number of URBs
  cursor, last, \* the URB a loop has reached and the one it ends with
  allocated,    \* whether tpriv->urbs is there
  action,       \* tpriv->reap_action
  retired,      \* tpriv->num_retired
  reapStatus,   \* tpriv->reap_status
  transferred,  \* itransfer->transferred
  expired,      \* USBI_TRANSFER_TIMED_OUT
  filled,       \* iso URBs whose results have been copied in, in that order
  verdict,      \* how the handler is going to report
  urbs,         \* the URBs, as the kernel sees them
  actual,       \* units each has transferred
  reapable,     \* URBs waiting to be reaped, in order
  holding,      \* the URB the handler has reaped, or 0
  endpoint,     \* "running", "halted", or "disabled" for this transfer's URBs
  buffer, bus,  \* see above
  device,       \* "there" or "gone"
  life,         \* the transfer as the program knows it
  told,         \* status of its callback since the last submission
  cancelAsked,  \* whether the program has asked to cancel it
  sync          \* the synchronous call that owns it, if one does

transferVars == <<allocated, action, retired, reapStatus, transferred, expired, filled>>
queueVars    == <<urbs, reapable, endpoint>>
dataVars     == <<actual, buffer, bus>>
programVars  == <<life, told, cancelAsked, sync>>
threadVars   == <<at, xlock, cursor, last>>
urbVars == <<threadVars, shape, transferVars, verdict, queueVars, dataVars, holding, device,
             programVars>>

UrbThreads == {"user", "handler"}
Actions    == {"NORMAL", "SUBMIT_FAILED", "CANCELLED", "COMPLETED_EARLY", "ERROR"}
Statuses   == {"completed", "error", "stall", "overflow", "no_device", "timed_out", "cancelled"}
Ends       == {"ok", "short", "stall", "overflow", "error", "nodev", "killed"}

MaxUrbs  == Max({s.urbs : s \in Shapes})
Units    == 1..Max({s.urbs * s.size : s \in Shapes})
N        == shape.urbs
Capacity == shape.size

UrbsTypeOK ==
  /\ at \in [UrbThreads -> {"idle", "submit", "discard", "reaped", "report", "wait", "rewait"}]
  /\ xlock \in UrbThreads \union {"none"}
  /\ shape \in Shapes /\ cursor \in 0..MaxUrbs /\ last \in 0..MaxUrbs
  /\ allocated \in BOOLEAN /\ action \in Actions /\ retired \in 0..N
  /\ reapStatus \in Statuses /\ transferred \in 0..(N * Capacity)
  /\ expired \in BOOLEAN /\ Range(filled) \subseteq 1..N /\ Len(filled) <= N
  /\ verdict \in {"by_action"} \union Statuses
  /\ urbs \in [1..MaxUrbs -> {"none", "queued"} \union Ends]
  /\ actual \in [1..MaxUrbs -> Units \union {0}]
  /\ Range(reapable) \subseteq 1..N /\ holding \in 0..N
  /\ endpoint \in {"running", "halted", "disabled"}
  /\ buffer \in [Units -> Units \union {0}] /\ Range(bus) \subseteq Units
  /\ device \in {"there", "gone"}
  /\ life \in {"idle", "submitting", "flying"} /\ told \in Statuses \union {"none"}
  /\ cancelAsked \in BOOLEAN /\ sync \in {"none", "waiting", "failed", "dangling"}

UrbsInit ==
  /\ at = [t \in UrbThreads |-> "idle"]
  /\ xlock = "none" /\ cursor = 0 /\ last = 0
  /\ shape \in Shapes
  /\ allocated = FALSE /\ action = "NORMAL" /\ retired = 0 /\ reapStatus = "completed"
  /\ transferred = 0 /\ expired = FALSE /\ filled = <<>>
  /\ verdict = "by_action"
  /\ urbs = [i \in 1..MaxUrbs |-> "none"] /\ reapable = <<>> /\ endpoint = "running"
  /\ actual = [i \in 1..MaxUrbs |-> 0] /\ buffer = [o \in Units |-> 0] /\ bus = <<>>
  /\ holding = 0 /\ device = "there"
  /\ life = "idle" /\ told = "none" /\ cancelAsked = FALSE /\ sync = "none"

-----------------------------------------------------------------------------
(* Loops over the URBs, with the lock held.                                *)
Goto(t, where) == at' = [at EXCEPT ![t] = where]

(* The loop is over: a synchronous call goes on to wait.                   *)
Leave(t) ==
  /\ xlock' = "none"
  /\ Goto(t, IF t = "handler" THEN "idle"
             ELSE CASE sync = "none" -> "idle" [] sync = "waiting" -> "wait" [] OTHER -> "rewait")
  /\ UNCHANGED <<cursor, last>>

DiscardUrbsForwards(t, first, final) ==
  /\ xlock' = t /\ Goto(t, "discard")
  /\ cursor' = first /\ last' = final

(* discard_urbs(first, final): from the final URB down to the first.       *)
DiscardUrbs(t, first, final) ==
  /\ xlock' = t /\ Goto(t, "discard")
  /\ cursor' = final /\ last' = first

(* IOCTL_USBFS_DISCARDURB: the kernel kills a URB that has not ended, the  *)
(* others are there to be reaped.                                          *)
DiscardUrb(t) ==
  /\ at[t] = "discard"
  /\ IF urbs[cursor] = "queued"
     THEN /\ urbs' = [urbs EXCEPT ![cursor] = "killed"]
          /\ reapable' = Append(reapable, cursor)
     ELSE UNCHANGED <<urbs, reapable>>
  /\ IF cursor = last
     THEN Leave(t)
     ELSE /\ cursor' = IF last < cursor THEN cursor - 1 ELSE cursor + 1
          /\ UNCHANGED <<at, xlock, last>>
  /\ UNCHANGED <<shape, transferVars, verdict, dataVars, endpoint, holding, device, programVars>>

-----------------------------------------------------------------------------
(* Submission: libusb_submit_transfer() or a synchronous call.  An         *)
(* endpoint the last transfer left halted has been cleared by the program. *)
Submit(s, by) ==
  /\ at["user"] = "idle" /\ life = "idle" /\ sync = "none" /\ xlock = "none"
  /\ s.type = "iso" => by = "none"
  /\ shape' = s /\ sync' = by
  /\ life' = "submitting" /\ told' = "none" /\ cancelAsked' = FALSE
  /\ xlock' = "user" /\ Goto("user", "submit") /\ cursor' = 1 /\ last' = s.urbs
  /\ allocated' = TRUE /\ action' = "NORMAL" /\ retired' = 0 /\ reapStatus' = "completed"
  /\ transferred' = 0 /\ expired' = FALSE /\ filled' = <<>>
  /\ urbs' = [i \in 1..MaxUrbs |-> "none"] /\ endpoint' = "running"
  /\ actual' = [i \in 1..MaxUrbs |-> 0] /\ buffer' = [o \in Units |-> 0] /\ bus' = <<>>
  /\ UNCHANGED <<verdict, reapable, holding, device>>

AcceptUrb ==
  /\ at["user"] = "submit" /\ device = "there" /\ endpoint # "disabled"
  /\ urbs' = [urbs EXCEPT ![cursor] = "queued"]
  /\ IF cursor = last
     THEN Leave("user") /\ life' = "flying"
     ELSE cursor' = cursor + 1 /\ UNCHANGED <<at, xlock, last, life>>
  /\ UNCHANGED <<shape, transferVars, verdict, dataVars, reapable, endpoint, holding, device,
                 told, cancelAsked, sync>>

(* "First URB failed, easy peasy", or no memory for the URBs.              *)
RefuseFirst ==
  /\ at["user"] = "submit" /\ cursor = 1
  /\ allocated' = FALSE
  /\ xlock' = "none" /\ Goto("user", "idle") /\ life' = "idle" /\ sync' = "none"
  /\ UNCHANGED <<cursor, last, shape, action, retired, reapStatus, transferred, expired, filled,
                 verdict, queueVars, dataVars, holding, device, told, cancelAsked>>

RetireOneMore == retired' = retired + (N - cursor + 2)

RetireNone == retired' = retired

(* The URBs not submitted count as retired.                                *)
RetireUnsubmitted == retired' = retired + (N - cursor + 1)

(* EREMOTEIO: the transfer has ended without needing the other URBs.       *)
RefuseNeedless ==
  /\ at["user"] = "submit" /\ cursor > 1 /\ endpoint = "disabled"
  /\ action' = "COMPLETED_EARLY" /\ RetireUnsubmitted
  /\ Leave("user") /\ life' = "flying"
  /\ UNCHANGED <<shape, allocated, reapStatus, transferred, expired, filled, verdict, queueVars,
                 dataVars, holding, device, told, cancelAsked, sync>>

RefuseLater ==
  /\ at["user"] = "submit" /\ cursor > 1 /\ endpoint # "disabled"
  /\ action' = "SUBMIT_FAILED" /\ RetireUnsubmitted
  /\ DiscardUrbs("user", 1, cursor - 1) /\ life' = "flying"
  /\ UNCHANGED <<shape, allocated, reapStatus, transferred, expired, filled, verdict, queueVars,
                 dataVars, holding, device, told, cancelAsked, sync>>

-----------------------------------------------------------------------------
(* libusb_cancel_transfer(): by the program, by the thread that handles    *)
(* timeouts, or by a synchronous call whose events could not be handled.   *)
Cancel(t) ==
  /\ life = "flying" /\ xlock = "none"
  /\ action' = IF shape.type = "bulk" /\ action = "ERROR" THEN "ERROR" ELSE "CANCELLED"
  /\ IF allocated THEN DiscardUrbs(t, 1, N) ELSE UNCHANGED threadVars
  /\ UNCHANGED <<shape, allocated, retired, reapStatus, transferred, filled, verdict, queueVars,
                 dataVars, holding, device, life, told>>

CancelByProgram ==
  /\ at["user"] = "idle" /\ sync = "none"
  /\ Cancel("user")
  /\ cancelAsked' = TRUE
  /\ UNCHANGED <<expired, sync>>

CancelByTimeout ==
  /\ at["handler"] = "idle"
  /\ ~expired /\ Cancel("handler")
  /\ expired' = TRUE
  /\ UNCHANGED <<cancelAsked, sync>>

(* The loops of libusb_control_transfer() and do_sync_bulk_transfer().     *)
WaitFails ==
  /\ at["user"] = "wait" /\ life = "flying" /\ xlock = "none"
  /\ action' = IF shape.type = "bulk" /\ action = "ERROR" THEN "ERROR" ELSE "CANCELLED"
  /\ IF allocated THEN DiscardUrbs("user", 1, N)
     ELSE Goto("user", "rewait") /\ UNCHANGED <<xlock, cursor, last>>
  /\ cancelAsked' = TRUE /\ sync' = "failed"
  /\ UNCHANGED <<shape, allocated, retired, reapStatus, transferred, expired, filled, verdict,
                 queueVars, dataVars, holding, device, life, told>>

(* The second loop gives up on any error, an interrupted poll() included,  *)
(* and the transfer is freed.                                              *)
RewaitFails ==
  /\ "second_error" \in UrbFaults
  /\ at["user"] = "rewait"
  /\ Goto("user", "idle") /\ sync' = IF life = "flying" THEN "dangling" ELSE "none"
  /\ UNCHANGED <<xlock, cursor, last, shape, transferVars, verdict, queueVars, dataVars, holding,
                 device, life, told, cancelAsked>>

SyncReturns ==
  /\ at["user"] \in {"wait", "rewait"} /\ life = "idle"
  /\ Goto("user", "idle") /\ sync' = "none"
  /\ UNCHANGED <<xlock, cursor, last, shape, transferVars, verdict, queueVars, dataVars, holding,
                 device, life, told, cancelAsked>>

-----------------------------------------------------------------------------
(* The kernel and the device: URBs of an endpoint are served in order.     *)
Queued == {i \in 1..N : urbs[i] = "queued"}
Serves(i) == device = "there" /\ endpoint = "running" /\ Queued # {} /\ i = Min(Queued)

KernelLeaves == UNCHANGED <<threadVars, shape, transferVars, verdict, holding, programVars>>

TransferUnit(i) ==
  /\ Serves(i) /\ shape.type # "iso" /\ actual[i] < Capacity
  /\ LET offset == (i - 1) * Capacity + actual[i] + 1
         unit   == IF shape.in THEN Len(bus) + 1 ELSE offset IN
     /\ bus' = Append(bus, unit)
     /\ buffer' = IF shape.in THEN [buffer EXCEPT ![offset] = unit] ELSE buffer
  /\ actual' = [actual EXCEPT ![i] = @ + 1]
  /\ KernelLeaves /\ UNCHANGED <<queueVars, device>>

(* Those of a set of URBs, the lowest first.                               *)
Ascending(S) ==
  [n \in 1..Cardinality(S) |-> CHOOSE i \in S : Cardinality({j \in S : j < i}) = n - 1]

(* The URB has ended; with BULK_CONTINUATION any other end than success    *)
(* kills the URBs behind it, and no more are accepted.                     *)
End(i, how) ==
  /\ Serves(i)
  /\ LET kills  == shape.continuation /\ how # "ok"
         others == IF kills THEN Queued \ {i} ELSE {} IN
     /\ urbs' = [j \in 1..MaxUrbs |-> IF j = i THEN how
                                      ELSE IF j \in others THEN "killed" ELSE urbs[j]]
     /\ reapable' = reapable \o <<i>> \o Ascending(others)
     /\ endpoint' = IF kills THEN "disabled" ELSE IF how = "stall" THEN "halted" ELSE endpoint
  /\ KernelLeaves /\ UNCHANGED <<dataVars, device>>

CompleteUrb(i) == (shape.type = "iso" \/ actual[i] = Capacity) /\ End(i, "ok")

ShortUrb(i) == shape.in /\ shape.type # "iso" /\ actual[i] < Capacity /\ End(i, "short")

FailUrb(i) ==
  /\ shape.type # "iso"
  /\ shape.continuation /\ at["user"] = "submit" => "early_error" \in UrbFaults
  /\ \/ End(i, "error")
     \/ /\ shape.continuation \/ N <= 2 \/ "lone_stall" \in UrbFaults
        /\ End(i, "stall")
     \/ shape.in /\ i = N /\ actual[i] = Capacity /\ End(i, "overflow")

Vanish ==
  /\ device = "there" /\ device' = "gone"
  /\ urbs' = [j \in 1..MaxUrbs |-> IF j \in Queued THEN "nodev" ELSE urbs[j]]
  /\ reapable' = reapable \o Ascending(Queued)
  /\ KernelLeaves /\ UNCHANGED <<endpoint, dataVars>>

-----------------------------------------------------------------------------
(* The handler: reap_for_handle(), then the handler of the transfer's type *)
(* in one hold of the lock, up to the discards.                            *)
Reap ==
  /\ at["handler"] = "idle" /\ reapable # <<>>
  /\ holding' = Head(reapable) /\ reapable' = Tail(reapable)
  /\ Goto("handler", "reaped")
  /\ UNCHANGED <<xlock, cursor, last, shape, transferVars, verdict, urbs, endpoint, dataVars,
                 device, programVars>>

Handles(types) ==
  /\ at["handler"] = "reaped" /\ xlock = "none" /\ shape.type \in types
  /\ holding' = 0
  /\ UNCHANGED <<shape, expired, queueVars, actual, bus, device, programVars>>

(* The URBs are freed; what to report is kept until the lock is released.  *)
Complete(how) ==
  /\ allocated' = FALSE /\ verdict' = how
  /\ Goto("handler", "report") /\ UNCHANGED <<xlock, cursor, last>>

Retain(where) == Goto("handler", where) /\ UNCHANGED <<allocated, verdict, xlock, cursor, last>>

(* memmove() of what the URB received to the end of what came before.      *)
Closed(i) ==
  [o \in Units |-> IF o - transferred \in 1..actual[i]
                   THEN buffer[(i - 1) * Capacity + o - transferred] ELSE buffer[o]]

HandleBulkAbnormal ==
  /\ Handles({"bulk", "interrupt"}) /\ action # "NORMAL"
  /\ retired' = retired + 1
  /\ buffer' = Closed(holding) /\ transferred' = transferred + actual[holding]
  /\ IF retired' = N
     THEN /\ reapStatus' = IF action # "COMPLETED_EARLY" /\ reapStatus = "completed"
                           THEN "error" ELSE reapStatus
          /\ Complete("by_action")
     ELSE Retain("idle") /\ UNCHANGED reapStatus
  /\ UNCHANGED <<action, filled>>

StatusWithoutError(end) ==
  CASE end = "nodev" -> "no_device"
    [] end \in {"stall", "overflow"} /\ reapStatus = "completed" -> end
    [] OTHER -> reapStatus

(* reap_status after a URB in the normal course of the transfer.           *)
StatusAfter(end) ==
  CASE end = "nodev" -> "no_device"
    [] end \in {"stall", "overflow", "error"} /\ reapStatus = "completed" -> end
    [] OTHER -> reapStatus

(* A URB that ends the transfer, the last one of it, or one in between.   *)
HandleBulkNormal ==
  LET end      == urbs[holding]
      fails    == end \in {"nodev", "stall", "error"}
      short    == ~fails /\ end # "overflow" /\ holding < N /\ actual[holding] < Capacity
      complete == \/ end = "overflow"
                  \/ ~fails /\ holding = N
                  \/ (fails \/ short) /\ retired' = N
  IN
  /\ Handles({"bulk", "interrupt"}) /\ action = "NORMAL"
  /\ retired' = retired + 1
  /\ transferred' = transferred + actual[holding]
  /\ action' = CASE end = "error" -> "ERROR" [] short -> "COMPLETED_EARLY" [] OTHER -> "NORMAL"
  /\ reapStatus' = StatusAfter(end)
  /\ \/ complete /\ Complete("by_action")
     \/ /\ ~complete /\ (fails \/ short)
        /\ DiscardUrbs("handler", holding + 1, N) /\ UNCHANGED <<allocated, verdict>>
     \/ ~complete /\ ~fails /\ ~short /\ Retain("idle")
  /\ UNCHANGED <<buffer, filled>>

(* The results go where iso_packet_offset has got to.                      *)
HandleIso ==
  /\ Handles({"iso"})
  /\ filled' = Append(filled, holding) /\ retired' = retired + 1
  /\ CASE action = "NORMAL" /\ holding = N ->
            Complete(IF urbs[N] = "nodev" THEN "no_device" ELSE "completed")
       [] action # "NORMAL" /\ retired' = N ->
            Complete(IF action = "CANCELLED" THEN "cancelled" ELSE "error")
       [] OTHER -> Retain("idle")
  /\ UNCHANGED <<action, reapStatus, transferred, buffer>>

HandleControl ==
  /\ Handles({"control"})
  /\ transferred' = transferred + actual[holding]
  /\ Complete(IF action = "CANCELLED" THEN "cancelled"
              ELSE CASE urbs[1] \in {"ok", "short"} -> "completed"
                     [] urbs[1] = "killed" -> "cancelled"
                     [] urbs[1] = "nodev" -> "no_device"
                     [] OTHER -> urbs[1])
  /\ UNCHANGED <<action, reapStatus, retired, filled, buffer>>

EndedEarly == verdict = "cancelled" \/ (verdict = "by_action" /\ action = "CANCELLED")

AnswerTimedOut ==
  IF EndedEarly THEN "timed_out" ELSE IF verdict = "by_action" THEN reapStatus ELSE verdict

(* The status the callback is going to see: handle_bulk_completion() reads *)
(* reap_action after it has released the lock.                             *)
Answer ==
  IF EndedEarly THEN IF expired THEN "timed_out" ELSE "cancelled"
  ELSE IF verdict = "by_action" THEN reapStatus ELSE verdict

Report ==
  /\ at["handler"] = "report"
  /\ told' = Answer /\ life' = "idle" /\ verdict' = "by_action"
  /\ Goto("handler", "idle")
  /\ UNCHANGED <<xlock, cursor, last, shape, transferVars, queueVars, dataVars, holding, device,
                 cancelAsked, sync>>

(* POLLERR: the descriptor leaves the poll set, and the transfers of the   *)
(* handle end with op_clear_transfer_priv().                               *)
Disconnect ==
  /\ device = "gone" /\ life = "flying" /\ at["handler"] = "idle" /\ xlock = "none"
  /\ allocated' = FALSE /\ reapable' = <<>>
  /\ told' = "no_device" /\ life' = "idle"
  /\ UNCHANGED <<threadVars, shape, action, retired, reapStatus, transferred, expired, filled,
                 verdict, urbs, endpoint, dataVars, holding, device, cancelAsked, sync>>

-----------------------------------------------------------------------------
UserSteps ==
  \/ AcceptUrb \/ RefuseFirst \/ RefuseNeedless \/ RefuseLater
  \/ DiscardUrb("user") \/ SyncReturns

HandlerSteps ==
  \/ Reap \/ HandleBulkAbnormal \/ HandleBulkNormal \/ HandleIso \/ HandleControl
  \/ Report \/ Disconnect \/ DiscardUrb("handler")

ProgramSteps ==
  \/ \E s \in Shapes, by \in {"none", "waiting"} : Submit(s, by)
  \/ CancelByProgram \/ CancelByTimeout \/ WaitFails \/ RewaitFails

KernelSteps ==
  \/ \E i \in 1..MaxUrbs : TransferUnit(i) \/ CompleteUrb(i) \/ ShortUrb(i) \/ FailUrb(i)
  \/ Vanish

UrbsNext == sync # "dangling" /\ (UserSteps \/ HandlerSteps \/ ProgramSteps \/ KernelSteps)

UrbsSpec ==
  /\ UrbsInit /\ [][UrbsNext]_urbVars
  /\ WF_urbVars(UserSteps) /\ SF_urbVars(HandlerSteps)

-----------------------------------------------------------------------------
(* Once libusb has let go of a transfer's URBs the kernel has none of them *)
(* and none is left to be reaped: they point into memory that is freed.    *)
UrbsOwned == ~allocated => Queued = {} /\ reapable = <<>> /\ holding = 0

(* What the callback is told was transferred is what was, no unit lost or  *)
(* left out between two others: received units lie in the buffer in the    *)
(* order they came, sent ones are the first of the buffer unless a URB     *)
(* failed in between.  The results of a completed isochronous transfer are *)
(* each in its place, and a transfer is reported as completed only if all  *)
(* its URBs ended well or the first that did not ended short.              *)
DataKept ==
  at["handler"] = "report" =>
    /\ shape.type # "iso" => Len(bus) = transferred
    /\ shape.in => \A o \in 1..transferred : buffer[o] = o
    /\ ~shape.in /\ (\A i \in 1..N : urbs[i] # "error") => bus = [o \in 1..transferred |-> o]
    /\ shape.type = "iso" /\ Answer = "completed" => filled = [i \in 1..N |-> i]
    /\ Answer = "completed" =>
         LET bad == {i \in 1..N : urbs[i] # "ok"} IN bad = {} \/ urbs[Min(bad)] = "short"

(* libusb frees no transfer whose URBs are in flight.                      *)
FreedWhenDone == sync # "dangling"

(* A transfer the program has cancelled, or that has expired, comes to an  *)
(* end, whatever the device does.                                          *)
CancelEnds == (cancelAsked \/ expired) /\ life = "flying" ~>
                life = "idle" \/ sync = "dangling"

(* The transfer goes through the life TransferLifecycle promises; what the *)
(* device made of it counts as completed.                                  *)
Lifecycle == INSTANCE TransferLifecycle WITH
  Transfers <- {"transfer"},
  state <- [x \in {"transfer"} |-> life],
  reasons <- [x \in {"transfer"} |->
                (IF device = "gone" THEN {"no_device"} ELSE {})
                \union (IF life # "idle" /\ cancelAsked THEN {"cancelled"} ELSE {})
                \union (IF life # "idle" /\ expired THEN {"timed_out"} ELSE {})],
  outcome <- [x \in {"transfer"} |->
                IF told \in {"stall", "overflow", "error"} THEN "completed" ELSE told]

UrbsImplementLifecycle == Lifecycle!Spec
=============================================================================
