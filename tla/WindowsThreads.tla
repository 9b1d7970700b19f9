--------------------------- MODULE WindowsThreads ---------------------------
(***************************************************************************)
(* A mutex and a condition variable of the Windows threads layer           *)
(* (libusb/os/threads_windows.c), used as event_waiters_lock and           *)
(* event_waiters_cond are.                                                 *)
(*                                                                         *)
(* The mutex is a Windows mutex, which its owner may take again.  The      *)
(* condition variable is a list of entries, one for each thread, with an   *)
(* auto-reset event in each: a wait puts the entry on the list, releases   *)
(* the mutex and waits for the event; a broadcast sets the events of all   *)
(* the entries; the entry leaves the list when its thread has the mutex    *)
(* again.                                                                  *)
(***************************************************************************)
EXTENDS Naturals, FiniteSets

CONSTANTS
  Threads,
  MaxDepth   \* how often a thread may hold the mutex

ASSUME ThreadsAssumption == MaxDepth \in Nat \ {0} /\ "nobody" \notin Threads

VARIABLES
  place,     \* where each thread is in usbi_cond_intwait()
  owner,     \* of the mutex
  depth,     \* how often it holds it
  entries,   \* threads that have an entry, on either list
  waiters,   \* those whose entry is on cond->waiters
  event,     \* the auto-reset event in each entry
  called     \* threads a broadcast has found waiting, until they hold the mutex again

condVars == <<place, owner, depth, entries, waiters, event, called>>

ThreadsTypeOK ==
  /\ place \in [Threads -> {"running", "released", "asleep", "woken"}]
  /\ owner \in Threads \union {"nobody"} /\ depth \in 0..MaxDepth
  /\ entries \subseteq Threads /\ waiters \subseteq entries
  /\ event \in [Threads -> BOOLEAN] /\ called \subseteq Threads

ThreadsInit ==
  /\ place = [t \in Threads |-> "running"] /\ owner = "nobody" /\ depth = 0
  /\ entries = {} /\ waiters = {} /\ event = [t \in Threads |-> FALSE] /\ called = {}

Move(t, from, to) == place[t] = from /\ place' = [place EXCEPT ![t] = to]

(* usbi_mutex_lock(), or usbi_mutex_trylock() that succeeds.               *)
Acquire(t) ==
  /\ owner \in {"nobody", t} /\ depth < MaxDepth
  /\ owner' = t /\ depth' = depth + 1

(* usbi_mutex_unlock(): refused to all but the owner.                      *)
Release(t) ==
  /\ owner = t
  /\ depth' = depth - 1 /\ owner' = IF depth = 1 THEN "nobody" ELSE t

MutexLock(t) ==
  /\ place[t] = "running" /\ Acquire(t)
  /\ UNCHANGED <<place, entries, waiters, event, called>>

MutexUnlock(t) ==
  /\ place[t] = "running" /\ Release(t)
  /\ UNCHANGED <<place, entries, waiters, event, called>>

(* The thread's entry, new or from not_waiting, goes on the list before    *)
(* the mutex is released.  An old entry's event may still be set.          *)
CondWait(t) ==
  /\ Move(t, "running", "released") /\ Release(t)
  /\ entries' = entries \union {t} /\ waiters' = waiters \union {t}
  /\ event' = IF t \in entries THEN event ELSE [event EXCEPT ![t] = FALSE]
  /\ UNCHANGED called

FallAsleep(t) ==
  /\ Move(t, "released", "asleep") /\ ~event[t]
  /\ UNCHANGED <<owner, depth, entries, waiters, event, called>>

(* WaitForSingleObject() resets the event as it returns ...                *)
Wake(t) ==
  /\ Move(t, "asleep", "woken") \/ Move(t, "released", "woken")
  /\ event[t] /\ event' = [event EXCEPT ![t] = FALSE]
  /\ UNCHANGED <<owner, depth, entries, waiters, called>>

(* ... or times out, at once if the deadline has passed.                   *)
TimeOut(t) ==
  /\ Move(t, "asleep", "woken")
  /\ UNCHANGED <<owner, depth, entries, waiters, event, called>>

Return(t) ==
  /\ Move(t, "woken", "running") /\ Acquire(t)
  /\ waiters' = waiters \ {t} /\ called' = called \ {t}
  /\ UNCHANGED <<entries, event>>

PulseEvents(S) == event' = [t \in Threads |-> event[t] \/ (t \in S /\ place[t] = "asleep")]

SetEvents(S) == event' = [t \in Threads |-> event[t] \/ t \in S]

CondBroadcast(t) ==
  /\ place[t] = "running" /\ owner = t
  /\ SetEvents(waiters)
  /\ called' = called \union {u \in waiters : place[u] # "woken"}
  /\ UNCHANGED <<place, owner, depth, entries, waiters>>

(* usbi_cond_destroy() frees the entries, unless there are waiters.        *)
CondDestroy ==
  /\ waiters = {} /\ owner = "nobody"
  /\ entries' = {} /\ UNCHANGED <<place, owner, depth, waiters, event, called>>

ThreadSteps(t) ==
  \/ MutexLock(t) \/ MutexUnlock(t) \/ CondWait(t) \/ FallAsleep(t) \/ Wake(t) \/ TimeOut(t)
  \/ Return(t) \/ CondBroadcast(t)

ThreadsNext == CondDestroy \/ \E t \in Threads : ThreadSteps(t)

ThreadsSpec == ThreadsInit /\ [][ThreadsNext]_condVars

-----------------------------------------------------------------------------
(* A broadcast reaches every thread that has begun to wait, even one that  *)
(* has released the mutex and is not asleep yet: it will not sleep on.     *)
BroadcastReaches ==
  \A t \in called : place[t] \in {"released", "asleep"} => event[t]
=============================================================================
