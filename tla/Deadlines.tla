------------------------------ MODULE Deadlines ------------------------------
(***************************************************************************)
(* Timeouts without timerfd (libusb/io.c): whoever handles events asks for *)
(* the next deadline, polls for as long, and looks which have expired.     *)
(*                                                                         *)
(* Time is in nanoseconds, of which few make a second; deadlines are       *)
(* struct timeval, timeouts are in milliseconds.                           *)
(***************************************************************************)
EXTENDS Integers, Sequences, FiniteSets, SequencesExt

CONSTANTS
  Timed,           \* transfers
  Limits,          \* timeouts they are submitted with
  Patience,        \* timeout of libusb_handle_events_timeout()
  LastTick,        \* bound on time
  DeadlineFaults   \* see below

(* "freed": a transfer is completed, and freed by its callback, while      *)
(* libusb_get_next_timeout() has it in hand without a lock.                *)
AllDeadlineFaults == {"freed"}

ASSUME DeadlineAssumption ==
  /\ Limits \subseteq Nat \ {0} /\ Patience \in Nat \ {0} /\ LastTick \in Nat
  /\ DeadlineFaults \subseteq AllDeadlineFaults /\ "nothing" \notin Timed

NsPerUs == 2
NsPerMs == 4
NsPerS  == 8
UsPerMs == NsPerMs \div NsPerUs
UsPerS  == NsPerS \div NsPerUs
MsPerS  == NsPerS \div NsPerMs

VARIABLES
  tick,      \* the monotonic clock
  due,       \* deadline of each transfer, <<seconds, microseconds>>
  listed,    \* ctx->flying_transfers
  marked,    \* those with USBI_TRANSFER_TIMED_OUT
  caller,    \* where the thread that handles events is
  inHand,    \* transfer found by libusb_get_next_timeout()
  until,     \* when poll() gives up
  counted    \* transfers listed when the wait was worked out, and since

deadlineVars == <<tick, due, listed, marked, caller, inHand, until, counted>>

DeadlinesTypeOK ==
  /\ tick \in 0..LastTick /\ due \in [Timed -> Nat \X Nat]
  /\ listed \in Seq(Timed) /\ marked \subseteq Timed /\ counted \subseteq Timed
  /\ caller \in {"away", "asked", "polling", "expired"}
  /\ inHand \in Timed \union {"nothing"} /\ until \in Nat

DeadlinesInit ==
  /\ tick = 0 /\ due = [x \in Timed |-> <<0, 0>>] /\ listed = <<>> /\ marked = {}
  /\ caller = "away" /\ inHand = "nothing" /\ until = 0 /\ counted = {}

(* timercmp(), and the time a deadline stands for.                         *)
Earlier(a, b) == a[1] < b[1] \/ (a[1] = b[1] /\ a[2] < b[2])
InNs(tv) == tv[1] * NsPerS + tv[2] * NsPerUs
ClockTv  == <<tick \div NsPerS, (tick % NsPerS) \div NsPerUs>>

Tick ==
  /\ tick < LastTick /\ tick' = tick + 1
  /\ UNCHANGED <<due, listed, marked, caller, inHand, until, counted>>

-----------------------------------------------------------------------------
(* calculate_timeout(): exactly one second is not carried.                 *)
DeadlineOf(ms) ==
  LET seconds == (tick \div NsPerS) + (ms \div MsPerS)
      ns      == (tick % NsPerS) + (ms % MsPerS) * NsPerMs
  IN  IF ns > NsPerS THEN <<seconds + 1, (ns - NsPerS) \div NsPerUs>>
      ELSE <<seconds, ns \div NsPerUs>>

(* add_to_flying_list()                                                    *)
SubmitTimed(x, ms) ==
  /\ x \notin Range(listed) /\ DeadlineOf(ms)[1] * NsPerS <= LastTick
  /\ due' = [due EXCEPT ![x] = DeadlineOf(ms)] /\ marked' = marked \ {x}
  /\ LET before == {i \in DOMAIN listed : ~Earlier(DeadlineOf(ms), due[listed[i]])}
     IN  listed' = InsertAt(listed, Cardinality(before) + 1, x)
  /\ counted' = counted \ {x}
  /\ UNCHANGED <<tick, caller, inHand, until>>

CompleteTimed(x) ==
  /\ \E i \in DOMAIN listed : listed[i] = x /\ listed' = RemoveAt(listed, i)
  /\ caller = "asked" /\ inHand = x => "freed" \in DeadlineFaults
  /\ counted' = counted \ {x} /\ marked' = marked \ {x} /\ due' = [due EXCEPT ![x] = <<0, 0>>]
  /\ UNCHANGED <<tick, caller, inHand, until>>

-----------------------------------------------------------------------------
Unmarked == {i \in DOMAIN listed : listed[i] \notin marked}

(* handle_events(): poll() takes milliseconds.                             *)
Truncated(tv) == tv[1] * MsPerS + tv[2] \div UsPerMs
PollMs(tv) == tv[1] * MsPerS + tv[2] \div UsPerMs + (IF tv[2] % UsPerMs # 0 THEN 1 ELSE 0)

Poll(tv, from) ==
  /\ caller' = "polling" /\ until' = tick + PollMs(tv) * NsPerMs /\ inHand' = from

PatienceTv == <<Patience \div MsPerS, (Patience % MsPerS) * UsPerMs>>

(* libusb_get_next_timeout(): the first transfer not marked ...            *)
AskNextTimeout ==
  /\ caller = "away" /\ counted' = {listed[i] : i \in Unmarked}
  /\ IF Unmarked = {} THEN Poll(PatienceTv, "nothing")
     ELSE /\ caller' = "asked" /\ UNCHANGED until
          /\ inHand' = listed[CHOOSE i \in Unmarked : \A j \in Unmarked : i <= j]
  /\ UNCHANGED <<tick, due, listed, marked>>

(* ... whose deadline it reads without the lock; timersub() and the lesser *)
(* of get_next_timeout().  What is read of a freed transfer is anything.   *)
Left(tv) ==
  IF tv[2] < ClockTv[2] THEN <<tv[1] - ClockTv[1] - 1, tv[2] + UsPerS - ClockTv[2]>>
  ELSE <<tv[1] - ClockTv[1], tv[2] - ClockTv[2]>>

MayRead(x) == IF x \in Range(listed) THEN {due[x]} ELSE {<<0, 0>>, <<LastTick, 0>>}

ReadDeadline ==
  /\ caller = "asked"
  /\ \E tv \in MayRead(inHand) :
     CASE ~Earlier(ClockTv, tv) -> caller' = "expired" /\ UNCHANGED <<until, inHand>>
       [] Earlier(ClockTv, tv) /\ Earlier(Left(tv), PatienceTv) -> Poll(Left(tv), inHand)
       [] OTHER -> Poll(PatienceTv, "nothing")
  /\ UNCHANGED <<tick, due, listed, marked, counted>>

PollExpires ==
  /\ caller = "polling" /\ tick >= until /\ caller' = "expired" /\ until' = 0
  /\ UNCHANGED <<tick, due, listed, marked, inHand, counted>>

(* Any other event ends the wait.                                          *)
PollReports ==
  /\ caller = "polling" /\ caller' = "away" /\ inHand' = "nothing" /\ until' = 0
  /\ UNCHANGED <<tick, due, listed, marked, counted>>

(* handle_timeouts_locked(), up to the first that has not expired.         *)
Expired == {i \in DOMAIN listed : \A j \in Unmarked : j <= i => ~Earlier(ClockTv, due[listed[j]])}

LookForExpired ==
  /\ caller = "expired" /\ caller' = "away"
  /\ marked' = marked \union {listed[i] : i \in Expired}
  /\ UNCHANGED <<tick, due, listed, inHand, until, counted>>

DeadlinesNext ==
  \/ Tick \/ AskNextTimeout \/ ReadDeadline \/ PollExpires \/ PollReports \/ LookForExpired
  \/ \E x \in Timed : CompleteTimed(x) \/ \E ms \in Limits : SubmitTimed(x, ms)

DeadlinesSpec == DeadlinesInit /\ [][DeadlinesNext]_deadlineVars

-----------------------------------------------------------------------------
(* poll() never outlasts the deadline of a transfer that was listed when   *)
(* its timeout was worked out, by more than the rounding to milliseconds;  *)
(* and once it has waited for a deadline, the transfer is timed out: the   *)
(* thread does not come back empty-handed to ask again.                    *)
DeadlinesMet ==
  \A x \in counted \ marked :
    /\ caller = "polling" => until <= InNs(due[x]) + NsPerMs + NsPerUs
    /\ caller = "away" => inHand # x
=============================================================================
