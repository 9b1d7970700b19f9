----------------------------- MODULE WindowsPipe -----------------------------
(***************************************************************************)
(* The pipes of the Windows build (libusb/os/poll_windows.c): an event and *)
(* a count in one place of the table poll_fd[], found by looking for the   *)
(* descriptor without a lock, and then again with that of the place.       *)
(*                                                                         *)
(* The threads of a context signal as usbi_fd_notification() does: each    *)
(* reads what it has written.  One of them, the owner, makes and closes    *)
(* the pipe, and closes it when the others have finished.                  *)
(***************************************************************************)
EXTENDS Naturals, FiniteSets, FiniteSetsExt

CONSTANTS
  PipeThreads,  \* the threads
  Group,        \* the owner of each thread's context
  Places        \* MAX_FDS

ASSUME PipeAssumption ==
  /\ Places \in Nat \ {0} /\ Group \in [PipeThreads -> PipeThreads]
  /\ \A t \in PipeThreads : Group[Group[t]] = Group[t]
  /\ "nobody" \notin PipeThreads /\ IsFiniteSet(PipeThreads)

PlaceSet == 1..Places
PipeFds  == 1..Cardinality(PipeThreads)  \* numbers _open() gives

VARIABLES
  ctrlPipe,  \* of the owner's context, or 0
  numbers,   \* in use
  slot,      \* poll_fd[].fd, or 0 for none
  holder,    \* who stays in the critical section of each place
  eventSet,  \* whether the event of each place is set, and its I/O "completed"
  signals,   \* InternalHigh
  doing,     \* what each thread does
  looksAt,   \* the place it looks at
  entering,  \* whether it is to enter the critical section of that place
  mine,      \* the descriptor it uses
  unread     \* whether it has written what it has not read

tableVars  == <<slot, holder, eventSet, signals>>
pipeThreadVars == <<doing, looksAt, entering, mine, unread>>
pipeVars   == <<ctrlPipe, numbers, tableVars, pipeThreadVars>>

PipeTypeOK ==
  /\ ctrlPipe \in [PipeThreads -> PipeFds \union {0}] /\ numbers \subseteq PipeFds
  /\ slot \in [PlaceSet -> PipeFds \union {0}]
  /\ holder \in [PlaceSet -> PipeThreads \union {"nobody"}]
  /\ eventSet \in [PlaceSet -> BOOLEAN] /\ signals \in [PlaceSet -> Nat]
  /\ doing \in [PipeThreads -> {"idle", "pipe", "write", "read", "wait", "close", "free", "failed"}]
  /\ looksAt \in [PipeThreads -> 1..(Places + 1)] /\ mine \in [PipeThreads -> PipeFds \union {0}]
  /\ entering \in [PipeThreads -> BOOLEAN] /\ unread \in [PipeThreads -> BOOLEAN]

PipeInit ==
  /\ ctrlPipe = [t \in PipeThreads |-> 0] /\ numbers = {}
  /\ slot = [p \in PlaceSet |-> 0] /\ holder = [p \in PlaceSet |-> "nobody"]
  /\ eventSet = [p \in PlaceSet |-> FALSE] /\ signals = [p \in PlaceSet |-> 0]
  /\ doing = [t \in PipeThreads |-> "idle"] /\ looksAt = [t \in PipeThreads |-> 1]
  /\ entering = [t \in PipeThreads |-> FALSE] /\ mine = [t \in PipeThreads |-> 0]
  /\ unread = [t \in PipeThreads |-> FALSE]

Does(t, what) == doing' = [doing EXCEPT ![t] = what]

-----------------------------------------------------------------------------
(* Every call looks for its place from the first on.                       *)
Call(t, what, f) ==
  /\ doing[t] = "idle" /\ Does(t, what)
  /\ looksAt' = [looksAt EXCEPT ![t] = 1] /\ mine' = [mine EXCEPT ![t] = f]
  /\ UNCHANGED <<ctrlPipe, tableVars, entering, unread>>

(* usbi_pipe(): the number first.                                          *)
Pipe(t) ==
  /\ Group[t] = t /\ ctrlPipe[t] = 0 /\ PipeFds \ numbers # {}
  /\ Call(t, "pipe", Min(PipeFds \ numbers)) /\ numbers' = numbers \union {mine'[t]}

(* usbi_write(), usbi_read(), usbi_close().                                *)
Write(t) ==
  /\ ctrlPipe[Group[t]] # 0 /\ ~unread[t] /\ doing[Group[t]] \notin {"close", "free"}
  /\ Call(t, "write", ctrlPipe[Group[t]]) /\ UNCHANGED numbers

Read(t) == unread[t] /\ Call(t, "read", ctrlPipe[Group[t]]) /\ UNCHANGED numbers

ClosePipe(t) ==
  /\ Group[t] = t /\ ctrlPipe[t] # 0
  /\ \A u \in PipeThreads : Group[u] = t => doing[u] = "idle" /\ ~unread[u]
  /\ Call(t, "close", ctrlPipe[t]) /\ UNCHANGED numbers

-----------------------------------------------------------------------------
(* _fd_to_index_and_lock(), and the same for a place that is free: looks,  *)
(* enters and looks again.                                                 *)
Wanted(t)  == IF doing[t] = "pipe" THEN 0 ELSE mine[t]
Looking(t) == doing[t] \in {"pipe", "write", "read", "close"} /\ ~entering[t]

PassBy(t) == looksAt' = [looksAt EXCEPT ![t] = @ + 1]

Look(t) ==
  /\ Looking(t) /\ looksAt[t] <= Places
  /\ IF slot[looksAt[t]] = Wanted(t)
     THEN entering' = [entering EXCEPT ![t] = TRUE] /\ UNCHANGED looksAt
     ELSE PassBy(t) /\ UNCHANGED entering
  /\ UNCHANGED <<ctrlPipe, numbers, tableVars, doing, mine, unread>>

(* usbi_pipe() fails for want of a place, or of an event before it looks.  *)
NotFound(t) ==
  /\ Looking(t) /\ (looksAt[t] > Places \/ (doing[t] = "pipe" /\ looksAt[t] = 1))
  /\ IF doing[t] = "pipe" THEN Does(t, "idle") /\ numbers' = numbers \ {mine[t]}
     ELSE Does(t, "failed") /\ UNCHANGED numbers
  /\ UNCHANGED <<ctrlPipe, tableVars, looksAt, entering, mine, unread>>

Enters(t) ==
  entering[t] /\ holder[looksAt[t]] = "nobody" /\ entering' = [entering EXCEPT ![t] = FALSE]

ChangedBefore(t) ==
  /\ Enters(t) /\ slot[looksAt[t]] # Wanted(t) /\ PassBy(t)
  /\ UNCHANGED <<ctrlPipe, numbers, tableVars, doing, mine, unread>>

(* The place is found and nobody else is in its critical section.          *)
Found(t, what, p) ==
  /\ doing[t] = what /\ Enters(t) /\ p = looksAt[t] /\ slot[p] = Wanted(t)
  /\ UNCHANGED <<looksAt, mine>>

PutPipe(t, p) ==
  /\ Found(t, "pipe", p) /\ Does(t, "idle")
  /\ slot' = [slot EXCEPT ![p] = mine[t]] /\ ctrlPipe' = [ctrlPipe EXCEPT ![t] = mine[t]]
  /\ eventSet' = [eventSet EXCEPT ![p] = FALSE] /\ signals' = [signals EXCEPT ![p] = 0]
  /\ UNCHANGED <<numbers, holder, unread>>

PutSignal(t, p) ==
  /\ Found(t, "write", p) /\ Does(t, "idle") /\ unread' = [unread EXCEPT ![t] = TRUE]
  /\ eventSet' = [eventSet EXCEPT ![p] = TRUE] /\ signals' = [signals EXCEPT ![p] = @ + 1]
  /\ UNCHANGED <<ctrlPipe, numbers, slot, holder>>

(* usbi_read() waits for the event in the critical section, which whoever  *)
(* would set it has to enter.                                              *)
WaitForSignal(t, p) ==
  /\ Found(t, "read", p) /\ Does(t, "wait") /\ holder' = [holder EXCEPT ![p] = t]
  /\ UNCHANGED <<ctrlPipe, numbers, slot, eventSet, signals, unread>>

ResetsAlways(n) == TRUE
ResetsAt(n) == n <= 0

TakeSignal(t) ==
  LET p == looksAt[t] IN
  /\ doing[t] = "wait" /\ eventSet[p] /\ Does(t, "idle") /\ unread' = [unread EXCEPT ![t] = FALSE]
  /\ signals' = [signals EXCEPT ![p] = @ - 1]
  /\ eventSet' = [eventSet EXCEPT ![p] = ~ResetsAt(signals'[p])]
  /\ holder' = [holder EXCEPT ![p] = "nobody"]
  /\ UNCHANGED <<ctrlPipe, numbers, slot, looksAt, entering, mine>>

(* The number can be given again before the place is free.                 *)
CloseNumber(t, p) ==
  /\ Found(t, "close", p) /\ Does(t, "free") /\ holder' = [holder EXCEPT ![p] = t]
  /\ numbers' = numbers \ {mine[t]} /\ ctrlPipe' = [ctrlPipe EXCEPT ![t] = 0]
  /\ UNCHANGED <<slot, eventSet, signals, unread>>

FreePlace(t) ==
  LET p == looksAt[t] IN
  /\ doing[t] = "free" /\ Does(t, "idle") /\ slot' = [slot EXCEPT ![p] = 0]
  /\ holder' = [holder EXCEPT ![p] = "nobody"]
  /\ UNCHANGED <<ctrlPipe, numbers, eventSet, signals, looksAt, entering, mine, unread>>

PipeNext ==
  \E t \in PipeThreads :
    \/ Pipe(t) \/ Write(t) \/ Read(t) \/ ClosePipe(t) \/ Look(t) \/ NotFound(t) \/ ChangedBefore(t)
    \/ TakeSignal(t) \/ FreePlace(t)
    \/ \E p \in PlaceSet :
         PutPipe(t, p) \/ PutSignal(t, p) \/ WaitForSignal(t, p) \/ CloseNumber(t, p)

PipeSpec == PipeInit /\ [][PipeNext]_pipeVars

-----------------------------------------------------------------------------
Unread(f) == {t \in PipeThreads : unread[t] /\ ctrlPipe[Group[t]] = f}

(* No call on an open pipe misses its place in the table, whoever else     *)
(* opens and closes pipes meanwhile.  An event stays set as long as a      *)
(* signal is not read, so that a thread never waits in a critical section  *)
(* that the thread which would wake it has to enter.                       *)
SignalsReachReaders ==
  /\ \A t \in PipeThreads : doing[t] # "failed" /\ (doing[t] = "wait" => eventSet[looksAt[t]])
  /\ \A p \in PlaceSet : slot[p] # 0 /\ holder[p] = "nobody" =>
       /\ signals[p] = Cardinality(Unread(slot[p])) /\ eventSet[p] = (signals[p] > 0)
=============================================================================
