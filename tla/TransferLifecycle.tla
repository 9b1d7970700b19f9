------------------------- MODULE TransferLifecycle -------------------------
(***************************************************************************)
(* What libusb promises the program about its asynchronous transfers       *)
(* (libusb/io.c, "Asynchronous device I/O"): every accepted submission is  *)
(* answered by exactly one callback, a refused one by none, and a transfer *)
(* that ends early ends for a reason that holds for this submission.       *)
(***************************************************************************)
CONSTANT Transfers

VARIABLES
  state,    \* of each transfer, as the program sees it
  reasons,  \* why the current submission may end early
  outcome   \* status its callback reported since the last submission

vars == <<state, reasons, outcome>>

States   == {"idle", "submitting", "flying"}
Reasons  == {"cancelled", "timed_out", "no_device"}
Outcomes == Reasons \union {"none", "completed"}

TypeOK ==
  /\ state \in [Transfers -> States]
  /\ reasons \in [Transfers -> SUBSET Reasons]
  /\ outcome \in [Transfers -> Outcomes]

Init ==
  /\ state = [T \in Transfers |-> "idle"]
  /\ reasons = [T \in Transfers |-> {}]
  /\ outcome = [T \in Transfers |-> "none"]

Submit(T) ==
  /\ state[T] = "idle"
  /\ state' = [state EXCEPT ![T] = "submitting"]
  /\ outcome' = [outcome EXCEPT ![T] = "none"]
  /\ UNCHANGED reasons

Accept(T) ==
  /\ state[T] = "submitting"
  /\ state' = [state EXCEPT ![T] = "flying"]
  /\ UNCHANGED <<reasons, outcome>>

(* The deadline of this submission and a request to cancel it do not count *)
(* for the next one; a device that is gone stays gone.                     *)
End(T) ==
  /\ state' = [state EXCEPT ![T] = "idle"]
  /\ reasons' = [reasons EXCEPT ![T] = @ \intersect {"no_device"}]

Refuse(T) ==
  /\ state[T] = "submitting"
  /\ End(T)
  /\ UNCHANGED outcome

Callback(T) ==
  /\ state[T] = "flying"
  /\ End(T)
  /\ \E status \in {"completed"} \union reasons[T] :
       outcome' = [outcome EXCEPT ![T] = status]

(* Deadlines pass, the program asks for a cancellation, the device goes.   *)
Arise ==
  /\ reasons' \in [Transfers -> SUBSET Reasons]
  /\ \A T \in Transfers : reasons[T] \subseteq reasons'[T]
  /\ UNCHANGED <<state, outcome>>

Next ==
  \/ \E T \in Transfers : Submit(T) \/ Accept(T) \/ Refuse(T) \/ Callback(T)
  \/ Arise

Spec == Init /\ [][Next]_vars
=============================================================================
