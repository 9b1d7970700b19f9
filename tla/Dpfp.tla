-------------------------------- MODULE Dpfp --------------------------------
(***************************************************************************)
(* The fingerprint scanner examples, examples/dpfp.c and                   *)
(* examples/dpfp_threaded.c.                                               *)
(*                                                                         *)
(* Callbacks drive a state machine: a change of the scanner's mode, the    *)
(* event that mode waits for, the next change.  In dpfp.c main() handles   *)
(* events itself; in dpfp_threaded.c another thread does, and main()       *)
(* waits for a condition that request_exit() signals without its mutex.    *)
(* Transfers end in the order the kernel finishes them.                    *)
(***************************************************************************)
EXTENDS Naturals, Sequences, FiniteSets, SequencesExt

CONSTANT DpFaults  \* see below

(* "early": the scanner sends events before its mode is set; "error": a    *)
(* call or a transfer fails once capture has begun.                        *)
AllDpFaults == {"early", "error"}

ASSUME DpAssumption == DpFaults \subseteq AllDpFaults

VARIABLES
  program,   \* "dpfp" or "threaded"
  dpMain,    \* where main() is
  dpPoller,  \* poll_thread
  dpState,   \* state
  doExit,    \* do_exit
  flying,    \* transfers the kernel has
  finished,  \* those it has finished with, and how, until they are reaped
  nulls,     \* of irq_transfer and img_transfer, those that are NULL
  modeAsked, \* the mode in the last mode change
  mode,      \* the mode the scanner is in
  sent       \* whether it has sent the event of this mode

dpTransfers == <<flying, finished, nulls>>
scanner     == <<mode, sent>>
dpVars      == <<program, dpMain, dpPoller, dpState, doExit, dpTransfers, modeAsked, scanner>>

Setup    == {"open", "f0", "init", "thread", "alloc", "irq", "img", "undo", "state", "first"}
Leaving  == {"join", "join_failed", "cancel_irq", "cancel_img", "drain", "deinit", "release",
             "close", "done", "crashed"}
Modes    == {"finger_on", "capture", "finger_off"}
States   == {<<k, m>> : k \in {"change", "event"}, m \in Modes}
EventOf  == [m \in Modes |-> CASE m = "finger_on"  -> "detected"
                              [] m = "capture"    -> "image"
                              [] m = "finger_off" -> "removed"]

DpTypeOK ==
  /\ program \in {"dpfp", "threaded"} /\ dpPoller \in {"none", "running", "done"}
  /\ dpMain \in Setup \union Leaving \union {"test", "lock", "waiting"}
  /\ dpState \in States \union {<<>>} /\ doExit \in 0..2
  /\ flying \subseteq {"irq", "img", "mode"} /\ nulls \subseteq {"irq", "img"}
  /\ \A e \in Range(finished) : /\ e[1] \in {"irq", "img", "mode"}
                                /\ e[2] \in Range(EventOf) \union {"set", "failed"}
  /\ modeAsked \in Modes /\ mode \in Modes \union {"none"} /\ sent \in BOOLEAN

DpInit ==
  /\ program \in {"dpfp", "threaded"} /\ dpMain = "open" /\ dpPoller = "none"
  /\ dpState = <<>> /\ doExit = 0 /\ flying = {} /\ finished = <<>> /\ nulls = {"irq", "img"}
  /\ modeAsked = "finger_on" /\ mode = "none" /\ sent = FALSE

Go(from, to) == dpMain = from /\ dpMain' = to
Threaded     == program = "threaded"
MayFail      == "error" \in DpFaults

-----------------------------------------------------------------------------
(* main() up to the asynchronous part; every failure leaves by the label   *)
(* of its stage.                                                           *)
OpenScanner == Go("open", "f0") \/ Go("open", "close")
PrintF0     == Go("f0", "init") \/ Go("f0", "release")
DoInit      == Go("init", IF Threaded THEN "thread" ELSE "alloc") \/ Go("init", "deinit")

AllocTransfers ==
  \/ Go("alloc", "irq") /\ nulls' = {} /\ UNCHANGED doExit
  \/ /\ Go("alloc", IF Threaded THEN "join_failed" ELSE "deinit")
     /\ doExit' = (IF Threaded THEN 1 ELSE doExit) /\ UNCHANGED nulls

MainSetsUp ==
  /\ \/ (OpenScanner \/ PrintF0 \/ DoInit) /\ UNCHANGED <<dpPoller, doExit, nulls>>
     \/ Go("thread", "alloc") /\ dpPoller' = "running" /\ UNCHANGED <<doExit, nulls>>
     \/ Go("thread", "deinit") /\ UNCHANGED <<dpPoller, doExit, nulls>>
     \/ AllocTransfers /\ UNCHANGED dpPoller
  /\ UNCHANGED <<program, dpState, flying, finished, modeAsked, scanner>>

(* request_exit(): whoever waits for the condition now is woken.           *)
RequestExit(code) ==
  /\ doExit' = code
  /\ dpMain' = IF dpMain = "waiting" THEN "test" ELSE dpMain

(* What has failed in init_capture() leaves the transfers as they are.     *)
CaptureFails ==
  /\ MayFail /\ dpMain' = IF Threaded THEN "join_failed" ELSE "deinit"
  /\ doExit' = IF Threaded THEN 1 ELSE doExit

SubmitBoth ==
  /\ dpMain \in {"irq", "img"}
  /\ \/ /\ flying' = flying \union {dpMain} /\ UNCHANGED <<doExit, finished>>
        /\ dpMain' = IF dpMain = "irq" THEN "img" ELSE "state"
     \/ dpMain = "irq" /\ CaptureFails /\ UNCHANGED <<flying, finished>>
     \/ /\ MayFail /\ Go("img", "undo") /\ flying' = flying \ {"irq"} /\ UNCHANGED doExit
        /\ finished' = IF "irq" \in flying THEN Append(finished, <<"irq", "failed">>) ELSE finished
  /\ UNCHANGED <<program, dpPoller, dpState, nulls, modeAsked, scanner>>

Undone ==
  /\ dpMain = "undo" /\ "irq" \in nulls /\ CaptureFails
  /\ UNCHANGED <<program, dpPoller, dpState, dpTransfers, modeAsked, scanner>>

Following(s) ==
  CASE s = <<"event", "finger_off">> -> <<"change", "finger_on">>
    [] s = <<"event", "finger_on">>  -> <<"change", "capture">>
    [] s = <<"event", "capture">>    -> <<"change", "finger_off">>
    [] s = <<>>                      -> <<>>
    [] OTHER                         -> <<"event", s[2]>>

(* next_state(), and the transfers submitted with that of a change of mode,*)
(* which frees itself when it has ended.                                   *)
NextState(also) ==
  /\ dpState' = Following(dpState)
  /\ IF dpState # <<>> /\ dpState[1] = "event"
     THEN modeAsked' = Following(dpState)[2] /\ flying' = flying \union also \union {"mode"}
     ELSE flying' = flying \union also /\ UNCHANGED modeAsked

(* The state is set when events may already be handled.                    *)
StartMachine ==
  /\ \/ /\ Go("state", "first") /\ dpState' = <<"event", "finger_off">>
        /\ UNCHANGED <<doExit, flying, modeAsked>>
     \/ Go("first", "test") /\ NextState({}) /\ UNCHANGED doExit
     \/ /\ dpMain = "first" /\ CaptureFails /\ dpState' = Following(dpState)
        /\ UNCHANGED <<flying, modeAsked>>
  /\ UNCHANGED <<program, dpPoller, finished, nulls, scanner>>

-----------------------------------------------------------------------------
(* Who may be inside libusb_handle_events().                               *)
SomebodyHandles ==
  \/ dpPoller = "running"
  \/ dpMain \in {"undo", "drain"}
  \/ ~Threaded /\ dpMain = "test" /\ doExit = 0

EndsWith(t, outcome) ==
  /\ finished # <<>> /\ Head(finished) = <<t, outcome>>
  /\ finished' = Tail(finished)

(* It goes on whether or not the mode was set.                             *)
CbModeChanged ==
  /\ NextState({})
  /\ \/ EndsWith("mode", "set") /\ UNCHANGED <<doExit, dpMain>>
     \/ EndsWith("mode", "failed") /\ RequestExit(2)

ResubmitNothing(t, moves) ==
  IF moves THEN NextState({}) /\ UNCHANGED <<doExit, dpMain>>
  ELSE UNCHANGED <<dpState, modeAsked, flying, doExit, dpMain>>

(* A finished transfer is submitted again, after the state has moved on if *)
(* it brought what the state waits for.  If next_state() fails it is not;  *)
(* if the submission fails, a change of mode may be on its way already.    *)
Resubmit(t, moves) ==
  \/ /\ IF moves THEN NextState({t})
        ELSE flying' = flying \union {t} /\ UNCHANGED <<dpState, modeAsked>>
     /\ UNCHANGED <<doExit, dpMain>>
  \/ /\ MayFail /\ RequestExit(2)
     /\ \/ moves /\ NextState({})
        \/ /\ dpState' = IF moves THEN Following(dpState) ELSE dpState
           /\ UNCHANGED <<flying, modeAsked>>

CbIrq ==
  \/ EndsWith("irq", "detected") /\ Resubmit("irq", dpState = <<"event", "finger_on">>)
  \/ EndsWith("irq", "removed") /\ Resubmit("irq", dpState = <<"event", "finger_off">>)

CbImg == EndsWith("img", "image") /\ Resubmit("img", TRUE)

(* The pointer of a transfer that did not complete is forgotten.           *)
TransferLost(t) ==
  /\ EndsWith(t, "failed") /\ nulls' = nulls \union {t} /\ RequestExit(2)
  /\ UNCHANGED <<flying, dpState, modeAsked>>

Callback ==
  /\ SomebodyHandles
  /\ \/ (CbModeChanged \/ CbIrq \/ CbImg) /\ UNCHANGED nulls
     \/ TransferLost("irq") \/ TransferLost("img")
  /\ UNCHANGED <<program, dpPoller, scanner>>

PollThread ==
  /\ dpPoller = "running"
  /\ \/ doExit # 0 /\ UNCHANGED <<doExit, dpMain>>
     \/ MayFail /\ RequestExit(2)
  /\ dpPoller' = "done"
  /\ UNCHANGED <<program, dpState, dpTransfers, modeAsked, scanner>>

Sighandler ==
  /\ dpMain \in {"test", "lock", "waiting"} \/ dpPoller = "running"
  /\ RequestExit(1)
  /\ UNCHANGED <<program, dpPoller, dpState, dpTransfers, modeAsked, scanner>>

-----------------------------------------------------------------------------
(* The loops of main(): handle events, or wait for the condition.          *)
MainWaits ==
  /\ \/ Threaded /\ doExit = 0 /\ Go("test", "lock")
     \/ Go("lock", "waiting")
     \/ doExit # 0 /\ Go("test", IF Threaded THEN "join" ELSE "cancel_irq")
     \/ ~Threaded /\ MayFail /\ Go("test", "deinit")
     \/ dpPoller = "done" /\ (Go("join", "cancel_irq") \/ Go("join_failed", "deinit"))
  /\ UNCHANGED <<program, dpPoller, dpState, doExit, dpTransfers, modeAsked, scanner>>

(* Only dpfp.c asks whether there is a transfer to cancel.  One that is    *)
(* not in flight cannot be cancelled, and ends the program as it is.       *)
CancelCapture(t, here, next) ==
  /\ dpMain = here
  /\ \/ t \in nulls /\ dpMain' = (IF Threaded THEN "crashed" ELSE next)
        /\ UNCHANGED <<doExit, flying, finished>>
     \/ /\ t \in flying /\ dpMain' = next /\ flying' = flying \ {t}
        /\ finished' = Append(finished, <<t, "failed">>) /\ UNCHANGED doExit
     \/ /\ t \notin flying \union nulls /\ (\E e \in Range(finished) : e[1] = t)
        /\ dpMain' = next /\ UNCHANGED <<doExit, flying, finished>>
     \/ /\ t \notin flying \union nulls /\ ~(\E e \in Range(finished) : e[1] = t)
        /\ dpMain' = "deinit" /\ doExit' = (IF Threaded THEN 1 ELSE doExit)
        /\ UNCHANGED <<flying, finished>>
  /\ UNCHANGED <<program, dpPoller, dpState, nulls, modeAsked, scanner>>

MainLeaves ==
  /\ \/ Go("drain", "deinit") /\ (nulls = {"irq", "img"} \/ MayFail) /\ UNCHANGED nulls
     \/ Go("deinit", "release") /\ nulls' = {"irq", "img"}
     \/ (Go("release", "close") \/ Go("close", "done")) /\ UNCHANGED nulls
  /\ UNCHANGED <<program, dpPoller, dpState, doExit, flying, finished, modeAsked, scanner>>

-----------------------------------------------------------------------------
(* The scanner and the kernel: an event needs the transfer that brings it. *)
ScannerSends ==
  /\ \/ \E m \in Modes : /\ (mode = m /\ ~sent) \/ (mode = "none" /\ "early" \in DpFaults)
                         /\ LET t == IF m = "capture" THEN "img" ELSE "irq" IN
                            /\ t \in flying /\ flying' = flying \ {t}
                            /\ finished' = Append(finished, <<t, EventOf[m]>>)
                         /\ sent' = TRUE /\ UNCHANGED mode
     \/ /\ "mode" \in flying /\ flying' = flying \ {"mode"} /\ mode' = modeAsked /\ sent' = FALSE
        /\ finished' = Append(finished, <<"mode", "set">>)
     \/ /\ MayFail /\ UNCHANGED scanner
        /\ \E t \in flying : /\ flying' = flying \ {t}
                             /\ finished' = Append(finished, <<t, "failed">>)
  /\ UNCHANGED <<program, dpMain, dpPoller, dpState, doExit, nulls, modeAsked>>

-----------------------------------------------------------------------------
DpNext ==
  \/ MainSetsUp \/ SubmitBoth \/ Undone \/ StartMachine
  \/ Callback \/ PollThread \/ Sighandler
  \/ MainWaits \/ CancelCapture("irq", "cancel_irq", "cancel_img")
  \/ CancelCapture("img", "cancel_img", "drain") \/ MainLeaves
  \/ ScannerSends

DpSpec == DpInit /\ [][DpNext]_dpVars

-----------------------------------------------------------------------------
Pending(t) == t \in flying \/ \E e \in Range(finished) : e[1] = t

(* While the program captures and nobody has asked it to end, what its     *)
(* state waits for will come: the change of mode it asked for is on its    *)
(* way, and no other; or the scanner is in the mode of the state, and the  *)
(* event is still to be sent, or on its way, and its transfer is there.    *)
NextEventAwaited ==
  doExit = 0 /\ dpMain \in {"test", "lock", "waiting"} =>
    /\ dpState # <<>> /\ Pending("irq") /\ Pending("img")
    /\ Pending("mode") <=> dpState[1] = "change"
    /\ dpState[1] = "change" => modeAsked = dpState[2]
    /\ dpState[1] = "event" =>
         /\ mode = dpState[2]
         /\ sent => \E e \in Range(finished) : e[2] = EventOf[mode]
=============================================================================
