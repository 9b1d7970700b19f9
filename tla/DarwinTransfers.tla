--------------------------- MODULE DarwinTransfers ---------------------------
(***************************************************************************)
(* Handles of one device and their transfers in the Darwin backend         *)
(* (libusb/os/darwin_usb.c).                                               *)
(*                                                                         *)
(* The thread "async" runs a run loop: it is called back when an I/O ends  *)
(* or the device is detached, and writes a message to the pipe of the      *)
(* handle.  The handler of events polls the pipes and reads the messages.  *)
(* The source of the device's callbacks belongs to the handle that was     *)
(* opened first; a claimed interface has one of its own.                   *)
(***************************************************************************)
EXTENDS Naturals, Sequences, FiniteSets, SequencesExt

CONSTANTS
  DarwinHandles,
  Requests, Pipes,  \* transfers: control ones, and those on an interface
  MaxMessages       \* what a pipe holds

ASSUME DarwinAssumption ==
  /\ MaxMessages \in Nat \ {0}
  /\ Requests \intersect Pipes = {}
  /\ {"none", "gone"} \intersect (Requests \union Pipes) = {}
  /\ DarwinHandles # {} /\ "none" \notin DarwinHandles

Orders == Requests \union Pipes

VARIABLES
  runloop,     \* libusb_darwin_acfl: "none", "starting", "running"
  contexts,    \* initCount
  plugged,
  noticed,     \* the run loop has called back for the device's end
  openCount,   \* dpriv->open_count
  isOpen,      \* priv->is_open, handles that have opened the device themselves
  opened,      \* handles that are open
  sources,     \* handles whose device source is in the run loop
  claimedBy,   \* handles that have the interface in their mask
  interface,   \* the handle that has it open, with a source in the run loop
  polled,      \* handles whose pipe is in the poll set
  pipe,        \* messages in the pipe of each handle
  order,       \* whether each transfer is in flight, and its I/O
  user,        \* the handle it was submitted with
  async,       \* what the run loop's thread is doing
  toTell,      \* handles it is still to tell that the device is gone
  handling,    \* whether the handler is in op_handle_events()
  toRead,      \* handles whose message it is still to read
  openDevs     \* owner of open_devs_lock

loopVars   == <<runloop, contexts>>
darwinHandleVars == <<openCount, isOpen, opened, sources, claimedBy, interface>>
darwinDeviceVars == <<plugged, noticed>>
asyncVars  == <<async, toTell>>
readVars   == <<handling, toRead>>
darwinVars == <<loopVars, darwinDeviceVars, darwinHandleVars, polled, pipe, order, user, asyncVars,
                readVars, openDevs>>

DarwinTypeOK ==
  /\ runloop \in {"none", "starting", "running"} /\ contexts \in 0..2
  /\ plugged \in BOOLEAN /\ noticed \in BOOLEAN
  /\ openCount \in 0..Cardinality(DarwinHandles)
  /\ isOpen \subseteq DarwinHandles /\ opened \subseteq DarwinHandles
  /\ sources \subseteq DarwinHandles /\ claimedBy \subseteq DarwinHandles
  /\ interface \in DarwinHandles \union {"none"}
  /\ polled \subseteq DarwinHandles
  /\ \A h \in DarwinHandles : Range(pipe[h]) \subseteq Orders \union {"gone"}
                              /\ Len(pipe[h]) <= MaxMessages
  /\ order \in [Orders -> [flying : BOOLEAN, io : {"none", "pending", "ended"}]]
  /\ user \in [Orders -> DarwinHandles]
  /\ async \in Orders \union {"none", "gone"} /\ toTell \subseteq DarwinHandles
  /\ handling \in BOOLEAN /\ toRead \subseteq DarwinHandles
  /\ openDevs \in {"nobody", "async", "handler"}

DarwinInit ==
  /\ runloop = "none" /\ contexts = 0 /\ plugged = TRUE /\ noticed = FALSE
  /\ openCount = 0 /\ isOpen = {} /\ opened = {} /\ sources = {}
  /\ claimedBy = {} /\ interface = "none"
  /\ polled = {} /\ pipe = [h \in DarwinHandles |-> <<>>]
  /\ order = [x \in Orders |-> [flying |-> FALSE, io |-> "none"]]
  /\ user = [x \in Orders |-> CHOOSE h \in DarwinHandles : TRUE]
  /\ async = "none" /\ toTell = {} /\ handling = FALSE /\ toRead = {} /\ openDevs = "nobody"

InFlight(h) == {x \in Orders : order[x].flying /\ user[x] = h}

-----------------------------------------------------------------------------
(* darwin_init(): the first context starts the thread and waits for it, a  *)
(* second one does not wait.  darwin_exit() stops it with the last.        *)
DarwinStart ==
  /\ contexts < 2 /\ contexts' = contexts + 1
  /\ runloop' = IF contexts = 0 THEN "starting" ELSE runloop
  /\ UNCHANGED <<darwinDeviceVars, darwinHandleVars, polled, pipe, order, user, asyncVars,
                 readVars, openDevs>>

RunLoopReady ==
  /\ runloop = "starting" /\ runloop' = "running"
  /\ UNCHANGED <<contexts, darwinDeviceVars, darwinHandleVars, polled, pipe, order, user,
                 asyncVars, readVars, openDevs>>

DarwinExit ==
  /\ contexts > 0 /\ runloop = "running" /\ opened = {} /\ async = "none"
  /\ contexts' = contexts - 1 /\ runloop' = IF contexts = 1 THEN "none" ELSE runloop
  /\ UNCHANGED <<darwinDeviceVars, darwinHandleVars, polled, pipe, order, user, asyncVars,
                 readVars, openDevs>>

-----------------------------------------------------------------------------
(* darwin_open(), of a device that may be in use by another program.       *)
DarwinOpen(h) ==
  /\ runloop = "running" /\ h \notin opened /\ openDevs = "nobody"
  /\ \/ openCount > 0 /\ UNCHANGED <<isOpen, sources>>
     \/ /\ openCount = 0 /\ plugged
        /\ \/ isOpen' = isOpen \union {h} /\ sources' = sources \union {h}
           \/ UNCHANGED <<isOpen, sources>>
  /\ openCount' = openCount + 1 /\ opened' = opened \union {h}
  /\ polled' = polled \union {h} /\ pipe' = [pipe EXCEPT ![h] = <<>>]
  /\ UNCHANGED <<loopVars, darwinDeviceVars, claimedBy, interface, order, user, asyncVars,
                 readVars, openDevs>>

SourcesAfterOwner(h) == sources \ {h}

(* The source goes when the last handle is closed, if that handle has it.  *)
SourcesAfterClose(h) == IF openCount = 1 /\ h \in isOpen THEN sources \ {h} ELSE sources

(* darwin_close(), with nothing in flight and the handler out of the way.  *)
DarwinClose(h) ==
  /\ h \in opened /\ InFlight(h) = {} /\ ~handling /\ openDevs = "nobody"
  /\ openCount' = openCount - 1 /\ opened' = opened \ {h}
  /\ sources' = SourcesAfterClose(h)
  /\ isOpen' = isOpen \ {h}
  /\ claimedBy' = claimedBy \ {h} /\ interface' = IF interface = h THEN "none" ELSE interface
  /\ polled' = polled \ {h} /\ pipe' = [pipe EXCEPT ![h] = <<>>]
  /\ order' = [x \in Orders |-> IF openCount = 1 THEN [order[x] EXCEPT !.io = "none"] ELSE order[x]]
  /\ async' = IF openCount = 1 /\ async # "gone" THEN "none" ELSE async
  /\ UNCHANGED <<loopVars, darwinDeviceVars, user, toTell, readVars, openDevs>>

(* darwin_claim_interface(): one handle at a time has it open.             *)
DarwinClaim(h) ==
  /\ h \in opened \ claimedBy /\ interface = "none" /\ plugged
  /\ claimedBy' = claimedBy \union {h} /\ interface' = h
  /\ UNCHANGED <<loopVars, darwinDeviceVars, openCount, isOpen, opened, sources, polled, pipe,
                 order, user, asyncVars, readVars, openDevs>>

DarwinRelease(h) ==
  /\ h \in claimedBy /\ \A x \in InFlight(h) : x \in Requests
  /\ claimedBy' = claimedBy \ {h} /\ interface' = IF interface = h THEN "none" ELSE interface
  /\ UNCHANGED <<loopVars, darwinDeviceVars, openCount, isOpen, opened, sources, polled, pipe,
                 order, user, asyncVars, readVars, openDevs>>

(* darwin_set_configuration(): releases and claims again; the mask keeps   *)
(* an interface that is not claimed again because the request failed.      *)
DarwinSetConfiguration(h) ==
  /\ h \in claimedBy /\ \A x \in InFlight(h) : x \in Requests
  /\ \/ plugged /\ interface \in {h, "none"} /\ interface' = h
     \/ interface' = IF interface = h THEN "none" ELSE interface
  /\ UNCHANGED <<loopVars, darwinDeviceVars, openCount, isOpen, opened, sources, claimedBy,
                 polled, pipe, order, user, asyncVars, readVars, openDevs>>

-----------------------------------------------------------------------------
(* darwin_submit_transfer(); without a source there is no async port.      *)
DarwinSubmit(x, h) ==
  /\ h \in opened /\ ~order[x].flying /\ order[x].io = "none" /\ async # x /\ plugged
  /\ IF x \in Requests THEN sources # {} ELSE h \in claimedBy /\ interface = h
  /\ order' = [order EXCEPT ![x] = [flying |-> TRUE, io |-> "pending"]]
  /\ user' = [user EXCEPT ![x] = h]
  /\ UNCHANGED <<loopVars, darwinDeviceVars, darwinHandleVars, polled, pipe, asyncVars, readVars,
                 openDevs>>

EndAll(S) ==
  order' = [x \in Orders |-> IF x \in S /\ order[x].io = "pending"
                             THEN [order[x] EXCEPT !.io = "ended"] ELSE order[x]]

(* Cancelling a transfer ends all the I/O of its pipe, of every handle.    *)
DarwinCancel(x) ==
  /\ order[x].flying /\ EndAll(IF x \in Requests THEN Requests ELSE Pipes)
  /\ UNCHANGED <<loopVars, darwinDeviceVars, darwinHandleVars, polled, pipe, user, asyncVars,
                 readVars, openDevs>>

DarwinEndIo(x) ==
  /\ order[x].io = "pending" /\ EndAll({x})
  /\ UNCHANGED <<loopVars, darwinDeviceVars, darwinHandleVars, polled, pipe, user, asyncVars,
                 readVars, openDevs>>

Unplug ==
  /\ plugged /\ plugged' = FALSE /\ noticed' = FALSE
  /\ UNCHANGED <<loopVars, darwinHandleVars, polled, pipe, order, user, asyncVars, readVars,
                 openDevs>>

-----------------------------------------------------------------------------
(* darwin_async_io_callback(), whatever has become of the transfer: a      *)
(* write to a full pipe blocks the thread.                                 *)
AsyncCallback(x) ==
  /\ async = "none" /\ order[x].io = "ended"
  /\ IF x \in Requests THEN sources # {} ELSE interface = user[x]
  /\ async' = x /\ order' = [order EXCEPT ![x].io = "none"]
  /\ UNCHANGED <<loopVars, darwinDeviceVars, darwinHandleVars, polled, pipe, user, toTell,
                 readVars, openDevs>>

AsyncWrite ==
  /\ async \in Orders /\ Len(pipe[user[async]]) < MaxMessages
  /\ pipe' = [pipe EXCEPT ![user[async]] = Append(@, async)]
  /\ async' = "none"
  /\ UNCHANGED <<loopVars, darwinDeviceVars, darwinHandleVars, polled, order, user, toTell,
                 readVars, openDevs>>

(* darwin_devices_detached(): tells every handle, with open_devs_lock held.*)
DetachBegin ==
  /\ async = "none" /\ ~plugged /\ ~noticed /\ runloop = "running" /\ openDevs = "nobody"
  /\ async' = "gone" /\ toTell' = opened /\ noticed' = TRUE /\ openDevs' = "async"
  /\ UNCHANGED <<loopVars, plugged, darwinHandleVars, polled, pipe, order, user, readVars>>

DetachTell(h) ==
  /\ async = "gone" /\ h \in toTell /\ Len(pipe[h]) < MaxMessages
  /\ toTell' = toTell \ {h} /\ pipe' = [pipe EXCEPT ![h] = Append(@, "gone")]
  /\ UNCHANGED <<loopVars, darwinDeviceVars, darwinHandleVars, polled, order, user, async,
                 readVars, openDevs>>

DetachEnd ==
  /\ async = "gone" /\ toTell = {} /\ async' = "none" /\ openDevs' = "nobody"
  /\ UNCHANGED <<loopVars, darwinDeviceVars, darwinHandleVars, polled, pipe, order, user, toTell,
                 readVars>>

-----------------------------------------------------------------------------
(* op_handle_events(), after poll().                                       *)
HandlePipes ==
  /\ ~handling /\ openDevs = "nobody"
  /\ toRead' = {h \in polled : pipe[h] # <<>>} /\ toRead' # {}
  /\ handling' = TRUE /\ openDevs' = "handler"
  /\ UNCHANGED <<loopVars, darwinDeviceVars, darwinHandleVars, polled, pipe, order, user,
                 asyncVars>>

Finish(S) == order' = [x \in Orders |-> IF x \in S THEN [order[x] EXCEPT !.flying = FALSE]
                                                   ELSE order[x]]

ReadMessage(h) ==
  /\ handling /\ h \in toRead /\ toRead' = toRead \ {h}
  /\ pipe' = [pipe EXCEPT ![h] = Tail(@)]
  /\ \/ /\ Head(pipe[h]) \in Orders /\ Finish({Head(pipe[h])})
        /\ UNCHANGED <<sources, polled>>
     \/ /\ Head(pipe[h]) = "gone" /\ Finish(InFlight(h))
        /\ sources' = IF h \in isOpen THEN sources \ {h} ELSE sources
        /\ polled' = polled \ {h}
  /\ UNCHANGED <<loopVars, darwinDeviceVars, openCount, isOpen, opened, claimedBy, interface,
                 user, asyncVars, handling, openDevs>>

HandleDone ==
  /\ handling /\ toRead = {} /\ handling' = FALSE /\ openDevs' = "nobody"
  /\ UNCHANGED <<loopVars, darwinDeviceVars, darwinHandleVars, polled, pipe, order, user,
                 asyncVars, toRead>>

-----------------------------------------------------------------------------
DarwinProgram ==
  \/ DarwinStart \/ DarwinExit
  \/ \E h \in DarwinHandles : DarwinOpen(h) \/ DarwinClose(h) \/ DarwinClaim(h) \/ DarwinRelease(h)
                              \/ DarwinSetConfiguration(h)
  \/ \E x \in Orders, h \in DarwinHandles : DarwinSubmit(x, h)
  \/ \E x \in Orders : DarwinCancel(x)

DarwinAsync ==
  \/ RunLoopReady \/ AsyncWrite \/ DetachBegin \/ DetachEnd
  \/ \E x \in Orders : AsyncCallback(x)
  \/ \E h \in DarwinHandles : DetachTell(h)

DarwinHandler == HandlePipes \/ HandleDone \/ \E h \in DarwinHandles : ReadMessage(h)

DarwinNext ==
  \/ DarwinProgram \/ DarwinAsync \/ DarwinHandler
  \/ Unplug \/ \E x \in Orders : DarwinEndIo(x)

DarwinSpec == DarwinInit /\ [][DarwinNext]_darwinVars

-----------------------------------------------------------------------------
Messages(x) == Cardinality({n \in 1..Len(pipe[user[x]]) : pipe[user[x]][n] = x})

Answers(x) == Messages(x) + (IF async = x THEN 1 ELSE 0) + (IF order[x].io # "none" THEN 1 ELSE 0)

(* No transfer has two answers to come.  One in flight has one, and        *)
(* somebody will hear it: its handle is polled, and the run loop has the   *)
(* source its callback comes from, or the handle is being told that the    *)
(* device is gone.  One that has ended has none, until the end of the      *)
(* device is noticed.                                                      *)
AnsweredOnce ==
  \A x \in Orders :
    /\ Answers(x) <= 1 /\ (~order[x].flying /\ ~noticed => Answers(x) = 0)
    /\ order[x].flying =>
         /\ Answers(x) = 1 /\ user[x] \in polled
         /\ order[x].io # "none" =>
              \/ IF x \in Requests THEN sources # {} ELSE interface = user[x]
              \/ "gone" \in Range(pipe[user[x]]) \/ user[x] \in toTell

(* The callback of the run loop uses a transfer that is in flight.         *)
CallbacksHaveTransfers == async \in Orders => order[async].flying
=============================================================================
