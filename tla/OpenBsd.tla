------------------------------- MODULE OpenBsd -------------------------------
(***************************************************************************)
(* The OpenBSD backend (libusb/os/openbsd_usb.c): descriptors of one       *)
(* device and its handles, and the pipe that reports finished transfers.   *)
(*                                                                         *)
(* dpriv->fd belongs to the device and so to all of its handles; a handle  *)
(* opens the node of an endpoint when a transfer first needs it.  The      *)
(* transfer is done when submit returns, and a message in the handle's     *)
(* pipe has it completed.  The kernel gives out the lowest free number.    *)
(***************************************************************************)
EXTENDS Integers, Sequences, FiniteSets, SequencesExt, FiniteSetsExt

CONSTANTS
  ObsdHandles,
  Nodes,          \* endpoints, each with a node of its own
  ObsdInterfaces,
  MaxObsdFd,      \* bound on the numbers of descriptors
  ObsdFaults      \* see below

(* "two_handles": the device is opened again; "part_release": one of the   *)
(* interfaces of a handle is released while it has another;                *)
(* "close_claimed": a handle is closed with one; "half_open": pipe() or    *)
(* usbi_add_pollfd() fails; "no_info": the request for the device's info   *)
(* fails.                                                                  *)
AllObsdFaults == {"two_handles", "part_release", "close_claimed", "half_open", "no_info"}

ASSUME ObsdAssumption ==
  /\ MaxObsdFd \in Nat /\ ObsdFaults \subseteq AllObsdFaults
  /\ {"control", "pipe", "free"} \intersect Nodes = {}

ObsdEndpoints == Nodes \union {"control"}
ObsdFds   == 1..MaxObsdFd

VARIABLES
  files,        \* what each open descriptor is of, "free" if it is not open
  deviceFd,     \* dpriv->fd
  obsdOpen,     \* open handles
  eventPipe,    \* hpriv->pipe, as one descriptor
  endpointFd,   \* hpriv->endpoints[]
  obsdClaims,   \* claimed_interfaces of each handle
  messages,     \* in the pipe of each handle: the endpoint a transfer was on
  obsdFlying    \* transfers in flight, as handle and endpoint

obsdVars == <<files, deviceFd, obsdOpen, eventPipe, endpointFd, obsdClaims, messages, obsdFlying>>

ObsdTypeOK ==
  /\ files \in [ObsdFds -> ObsdEndpoints \union {"free", "pipe"}]
  /\ deviceFd \in ObsdFds \union {-1} /\ obsdOpen \subseteq ObsdHandles
  /\ eventPipe \in [ObsdHandles -> 0..MaxObsdFd]
  /\ endpointFd \in [ObsdHandles -> [Nodes -> -1..MaxObsdFd]]
  /\ obsdClaims \in [ObsdHandles -> SUBSET ObsdInterfaces]
  /\ messages \in [ObsdHandles -> Seq(ObsdEndpoints)]
  /\ obsdFlying \subseteq ObsdHandles \X ObsdEndpoints

ObsdInit ==
  /\ files = [f \in ObsdFds |-> "free"] /\ deviceFd = -1 /\ obsdOpen = {}
  /\ eventPipe = [h \in ObsdHandles |-> 0]
  /\ endpointFd = [h \in ObsdHandles |-> [n \in Nodes |-> 0]]
  /\ obsdClaims = [h \in ObsdHandles |-> {}]
  /\ messages = [h \in ObsdHandles |-> <<>>] /\ obsdFlying = {}

FreeObsdFds == {f \in ObsdFds : files[f] = "free"}
LowestObsdFd      == Min(FreeObsdFds)

-----------------------------------------------------------------------------
(* obsd_get_device_list(): every node is opened for a moment, and stays    *)
(* open if it does not tell its device's info.                             *)
ObsdGetDeviceList ==
  /\ FreeObsdFds # {}
  /\ \/ UNCHANGED files
     \/ "no_info" \in ObsdFaults /\ files' = [files EXCEPT ![LowestObsdFd] = "control"]
  /\ UNCHANGED <<deviceFd, obsdOpen, eventPipe, endpointFd, obsdClaims, messages, obsdFlying>>

(* The node is opened, then the pipe; libusb_open() has cleared the        *)
(* handle's endpoints to zero.                                             *)
ObsdOpen(h) ==
  /\ h \notin obsdOpen /\ Cardinality(FreeObsdFds) > 1
  /\ obsdOpen # {} => "two_handles" \in ObsdFaults
  /\ LET p == Min(FreeObsdFds \ {LowestObsdFd}) IN
     \/ /\ files' = [files EXCEPT ![LowestObsdFd] = "control", ![p] = "pipe"]
        /\ eventPipe' = [eventPipe EXCEPT ![h] = p] /\ obsdOpen' = obsdOpen \union {h}
     \/ /\ "half_open" \in ObsdFaults /\ files' = [files EXCEPT ![LowestObsdFd] = "control"]
        /\ UNCHANGED <<eventPipe, obsdOpen>>
  /\ deviceFd' = LowestObsdFd /\ endpointFd' = [endpointFd EXCEPT ![h] = [n \in Nodes |-> 0]]
  /\ messages' = [messages EXCEPT ![h] = <<>>]
  /\ UNCHANGED <<obsdClaims, obsdFlying>>

CloseFds(S) == [f \in ObsdFds |-> IF f \in S THEN "free" ELSE files[f]]

ObsdClose(h) ==
  /\ h \in obsdOpen /\ \A n \in ObsdEndpoints : <<h, n>> \notin obsdFlying
  /\ obsdClaims[h] # {} => "close_claimed" \in ObsdFaults
  /\ files' = CloseFds({deviceFd, eventPipe[h]}) /\ deviceFd' = -1
  /\ obsdOpen' = obsdOpen \ {h} /\ eventPipe' = [eventPipe EXCEPT ![h] = 0]
  /\ obsdClaims' = [obsdClaims EXCEPT ![h] = {}] /\ messages' = [messages EXCEPT ![h] = <<>>]
  /\ UNCHANGED <<endpointFd, obsdFlying>>

KeepEndpoints(h)  == endpointFd' = endpointFd
ResetEndpoints(h) == endpointFd' = [endpointFd EXCEPT ![h] = [n \in Nodes |-> -1]]

(* obsd_claim_interface(): of all the interface's endpoints and all others.*)
ObsdClaim(h, i) ==
  /\ h \in obsdOpen /\ i \notin obsdClaims[h]
  /\ ResetEndpoints(h) /\ obsdClaims' = [obsdClaims EXCEPT ![h] = @ \union {i}]
  /\ UNCHANGED <<files, deviceFd, obsdOpen, eventPipe, messages, obsdFlying>>

(* obsd_release_interface(): closes the endpoints' nodes, and keeps their  *)
(* numbers.                                                                *)
ObsdRelease(h, i) ==
  /\ i \in obsdClaims[h] /\ obsdClaims' = [obsdClaims EXCEPT ![h] = @ \ {i}]
  /\ obsdClaims[h] # {i} => "part_release" \in ObsdFaults
  /\ files' = CloseFds({endpointFd[h][n] : n \in Nodes})
  /\ UNCHANGED <<deviceFd, obsdOpen, eventPipe, endpointFd, messages, obsdFlying>>

-----------------------------------------------------------------------------
(* _access_endpoint()                                                      *)
AccessEndpoint(h, n) ==
  IF endpointFd[h][n] < 0
  THEN /\ FreeObsdFds # {} /\ files' = [files EXCEPT ![LowestObsdFd] = n]
       /\ endpointFd' = [endpointFd EXCEPT ![h][n] = LowestObsdFd]
  ELSE UNCHANGED <<files, endpointFd>>

SyncControlTransfer   == UNCHANGED <<files, endpointFd>>
SyncGenTransfer(h, n) == obsdClaims[h] # {} /\ AccessEndpoint(h, n)

(* obsd_submit_transfer(): the transfer is done before it returns; it      *)
(* reports a transfer that fails by its result, and one that does not in   *)
(* the pipe.                                                               *)
ObsdSubmit(h, n) ==
  /\ h \in obsdOpen /\ <<h, n>> \notin obsdFlying
  /\ IF n = "control" THEN SyncControlTransfer ELSE SyncGenTransfer(h, n)
  /\ \/ UNCHANGED <<messages, obsdFlying>>
     \/ /\ messages' = [messages EXCEPT ![h] = Append(@, n)]
        /\ obsdFlying' = obsdFlying \union {<<h, n>>}
  /\ UNCHANGED <<deviceFd, obsdOpen, eventPipe, obsdClaims>>

(* obsd_handle_events(): one message of each pipe; the poll set keeps the  *)
(* others for the next call.  Cancelling is not supported.                 *)
ObsdHandleEvents(h) ==
  /\ messages[h] # <<>> /\ messages' = [messages EXCEPT ![h] = Tail(@)]
  /\ obsdFlying' = obsdFlying \ {<<h, Head(messages[h])>>}
  /\ UNCHANGED <<files, deviceFd, obsdOpen, eventPipe, endpointFd, obsdClaims>>

-----------------------------------------------------------------------------
ObsdNext ==
  \/ ObsdGetDeviceList
  \/ \E h \in ObsdHandles :
       \/ ObsdOpen(h) \/ ObsdClose(h) \/ ObsdHandleEvents(h)
       \/ \E i \in ObsdInterfaces : ObsdClaim(h, i) \/ ObsdRelease(h, i)
       \/ \E n \in ObsdEndpoints : ObsdSubmit(h, n)

ObsdSpec == ObsdInit /\ [][ObsdNext]_obsdVars

-----------------------------------------------------------------------------
(* The numbers the backend would use, of what, and by whom: the device's,  *)
(* a pipe of each open handle, the nodes opened for a handle's endpoints   *)
(* while it has an interface.                                              *)
ObsdReferences ==
  LET Used(h) == {n \in Nodes : obsdClaims[h] # {} /\ endpointFd[h][n] # -1}
  IN  {<<deviceFd, "control", "device">> : f \in {deviceFd} \ {-1}}
      \union {<<eventPipe[h], "pipe", h>> : h \in obsdOpen}
      \union UNION {{<<endpointFd[h][n], n, h>> : n \in Used(h)} : h \in ObsdHandles}

(* Every number the backend would use is that of an open descriptor of the *)
(* right node, and of nothing else it would use.  A transfer in flight has *)
(* one message in its handle's pipe.                                       *)
ObsdDescriptorsOwned ==
  /\ \A r \in ObsdReferences : r[1] \in ObsdFds /\ files[r[1]] = r[2]
  /\ \A r, q \in ObsdReferences : r[1] = q[1] => r = q
  /\ \A h \in ObsdHandles :
       /\ Range(messages[h]) = {n \in ObsdEndpoints : <<h, n>> \in obsdFlying}
       /\ IsInjective(messages[h])

(* A handle that is open can be used: its device's node is open.           *)
OpenHandlesServed == obsdOpen # {} => deviceFd # -1

(* A claimed interface can be used: the number the backend has for an      *)
(* endpoint is that of its node.                                           *)
ClaimsServed ==
  \A h \in obsdOpen, n \in Nodes :
    obsdClaims[h] # {} /\ endpointFd[h][n] # -1 => files[endpointFd[h][n]] = n
=============================================================================
