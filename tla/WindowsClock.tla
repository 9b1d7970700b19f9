---------------------------- MODULE WindowsClock ----------------------------
(***************************************************************************)
(* The monotonic clock of the Windows backend (libusb/os/windows_usb.c):   *)
(* a thread reads the performance counter for all the others, which ask    *)
(* for it with a counter and a manual-reset event and get their answer     *)
(* through a semaphore; and windows_init() and windows_exit(), which start *)
(* and end that thread.  Every access to the shared objects is a step.     *)
(***************************************************************************)
EXTENDS Naturals, Integers, FiniteSets

CONSTANTS
  Clients,             \* threads that ask for the time
  MaxTimerSemaphores,  \* MAX_TIMER_SEMAPHORES
  MaxContexts,         \* bound on the contexts at a time
  MaxRetries           \* bound on the answers that come late

ASSUME ClockAssumption ==
  /\ MaxTimerSemaphores \in Nat \ {0} /\ MaxContexts \in Nat \ {0} /\ MaxRetries \in Nat
  /\ IsFiniteSet(Clients)

VARIABLES
  usage,      \* concurrent_usage
  closing,    \* whether windows_exit() waits for the thread, with the semaphore of init and exit
  timer,      \* where the timer thread is
  request,    \* the event timer_request[0]
  quit,       \* the event timer_request[1]
  count,      \* request_count[0]
  granted,    \* nb_responses
  responses,  \* count of the semaphore timer_response
  client,     \* where each client is
  retries     \* how often a client has given up waiting

clockVars == <<usage, closing, timer, request, quit, count, granted, responses, client, retries>>

ClockTypeOK ==
  /\ usage \in -1..(MaxContexts - 1) /\ closing \in BOOLEAN
  /\ timer \in {"none", "wait", "test", "reset", "retest", "read", "exchange", "release"}
  /\ request \in BOOLEAN /\ quit \in BOOLEAN
  /\ count \in Nat /\ granted \in Nat /\ responses \in 0..MaxTimerSemaphores
  /\ client \in [Clients -> {"idle", "counted", "waiting", "answered"}]
  /\ retries \in 0..MaxRetries

ClockInit ==
  /\ usage = -1 /\ closing = FALSE /\ timer = "none" /\ request = FALSE /\ quit = FALSE
  /\ count = 0 /\ granted = 0 /\ responses = 0
  /\ client = [c \in Clients |-> "idle"] /\ retries = 0

Timer(from, to)     == timer = from /\ timer' = to
Client(c, from, to) == client[c] = from /\ client' = [client EXCEPT ![c] = to]

(* The first context creates events, semaphore and thread; request_count   *)
(* is not reset.                                                           *)
WindowsInit ==
  /\ ~closing /\ usage < MaxContexts - 1
  /\ usage' = usage + 1
  /\ IF usage = -1
     THEN timer' = "wait" /\ request' = FALSE /\ quit' = FALSE /\ responses' = 0
     ELSE UNCHANGED <<timer, request, quit, responses>>
  /\ UNCHANGED <<closing, count, granted, client, retries>>

(* The last context tells the thread to quit, and waits for it.            *)
WindowsExit ==
  /\ ~closing /\ usage >= 0
  /\ usage = 0 => \A c \in Clients : client[c] = "idle"
  /\ usage' = usage - 1 /\ closing' = (usage = 0) /\ quit' = (usage = 0)
  /\ UNCHANGED <<timer, request, count, granted, responses, client, retries>>

ThreadJoined ==
  /\ closing /\ timer = "none" /\ closing' = FALSE
  /\ UNCHANGED <<usage, timer, request, quit, count, granted, responses, client, retries>>

-----------------------------------------------------------------------------
(* windows_clock_gettime_threaded(): requests come before the quit event.  *)
TimerWakes ==
  /\ \/ request /\ Timer("wait", "test")
     \/ ~request /\ quit /\ Timer("wait", "none")
  /\ UNCHANGED <<usage, closing, request, quit, count, granted, responses, client, retries>>

TimerTests ==
  /\ Timer("test", IF count = 0 THEN "reset" ELSE "read")
  /\ UNCHANGED <<usage, closing, request, quit, count, granted, responses, client, retries>>

TimerResets ==
  /\ Timer("reset", "retest") /\ request' = FALSE
  /\ UNCHANGED <<usage, closing, quit, count, granted, responses, client, retries>>

TimerTrusts ==
  /\ Timer("retest", "wait")
  /\ UNCHANGED <<usage, closing, request, quit, count, granted, responses, client, retries>>

(* A request may have come between the test and the reset of the event.    *)
TimerRetests ==
  /\ Timer("retest", IF count = 0 THEN "wait" ELSE "read")
  /\ UNCHANGED <<usage, closing, request, quit, count, granted, responses, client, retries>>

TimerReads ==
  /\ Timer("read", "exchange")
  /\ UNCHANGED <<usage, closing, request, quit, count, granted, responses, client, retries>>

TimerExchanges ==
  /\ Timer("exchange", "release")
  /\ granted' = count /\ count' = 0
  /\ UNCHANGED <<usage, closing, request, quit, responses, client, retries>>

(* ReleaseSemaphore() does nothing if it would exceed the maximum.         *)
TimerReleases ==
  /\ Timer("release", "wait")
  /\ responses' = IF responses + granted > MaxTimerSemaphores THEN responses ELSE responses + granted
  /\ granted' = 0
  /\ UNCHANGED <<usage, closing, request, quit, count, client, retries>>

-----------------------------------------------------------------------------
(* windows_clock_gettime(): count the request, set the event, ...          *)
ClientCounts(c) ==
  /\ usage >= 0 /\ Client(c, "idle", "counted") /\ count' = count + 1
  /\ UNCHANGED <<usage, closing, timer, request, quit, granted, responses, retries>>

ClientSignals(c) ==
  /\ Client(c, "counted", "waiting") /\ request' = TRUE
  /\ UNCHANGED <<usage, closing, timer, quit, count, granted, responses, retries>>

(* ... and take an answer, meant for whom it may be, or ask again; then    *)
(* the time is copied with timer_mutex held.                               *)
ClientTakes(c) ==
  /\ responses > 0 /\ responses' = responses - 1 /\ Client(c, "waiting", "answered")
  /\ UNCHANGED <<usage, closing, timer, request, quit, count, granted, retries>>

ClientRetries(c) ==
  /\ retries < MaxRetries /\ retries' = retries + 1
  /\ Client(c, "waiting", "counted") /\ count' = count + 1
  /\ UNCHANGED <<usage, closing, timer, request, quit, granted, responses>>

ClientCopies(c) ==
  /\ timer # "read" /\ Client(c, "answered", "idle")
  /\ UNCHANGED <<usage, closing, timer, request, quit, count, granted, responses, retries>>

ClientSteps(c) ==
  \/ ClientCounts(c) \/ ClientSignals(c) \/ ClientTakes(c) \/ ClientRetries(c) \/ ClientCopies(c)

TimerSteps ==
  \/ TimerWakes \/ TimerTests \/ TimerResets \/ TimerRetests \/ TimerReads \/ TimerExchanges
  \/ TimerReleases

ClockNext ==
  \/ WindowsInit \/ WindowsExit \/ ThreadJoined \/ TimerSteps
  \/ \E c \in Clients : ClientSteps(c)

ClockSpec == ClockInit /\ [][ClockNext]_clockVars

-----------------------------------------------------------------------------
Asking == {c \in Clients : client[c] \in {"counted", "waiting"}}

(* No request is forgotten: for every client that waits there is an answer,*)
(* or a request that has not been answered, and the timer thread does not  *)
(* sleep on requests unless a client is just about to wake it.  Without    *)
(* that clients would go on only by TIMER_REQUEST_RETRY_MS.                *)
RequestsAttended ==
  /\ Cardinality(Asking) <= responses + granted + count
  /\ timer = "wait" /\ count > 0 /\ (\A c \in Clients : client[c] # "counted") => request
=============================================================================
