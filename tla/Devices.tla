------------------------------ MODULE Devices ------------------------------
(***************************************************************************)
(* Device objects: enumeration, reference counts, open and close           *)
(* (libusb/core.c and the enumeration of libusb/os/linux_usbfs.c).         *)
(*                                                                         *)
(* A device on the bus is known by its address, of which enumerate_device()*)
(* makes the session id; the object libusb keeps for it is looked up in    *)
(* ctx->usb_devs and lives as long as somebody counts a reference to it.   *)
(* dev->lock and usb_devs_lock are only held inside one step.  What open   *)
(* and close do to the event handler is in EventHandling.                  *)
(***************************************************************************)
EXTENDS Naturals, Sequences, FiniteSets, SequencesExt, FiniteSetsExt

CONSTANTS
  Addresses,   \* of devices on the bus
  Objects,     \* memory for struct libusb_device
  Callers,     \* threads of the program
  MaxHeld,     \* bound on the program's references, and its handles, per object
  DeviceRaces  \* interleavings and failures the instance allows, see below

(* "enumerate": two threads list devices at the same time; "dying": the    *)
(* last reference to an object goes while another thread has looked it up, *)
(* or does before it leaves ctx->usb_devs; "no memory": usbi_add_pollfd()  *)
(* fails in op_open().                                                     *)
AllDeviceRaces == {"enumerate", "dying", "no memory"}

ASSUME DevicesAssumption ==
  /\ Addresses # {} /\ Callers # {} /\ IsFiniteSet(Callers)
  /\ MaxHeld \in Nat \ {0} /\ DeviceRaces \subseteq AllDeviceRaces

VARIABLES
  attached,     \* devices on the bus
  devs,         \* ctx->usb_devs, newest first
  session,      \* session id of each object
  refcnt,
  ready,        \* whether initialize_device() is done with it
  used,         \* whether its memory is allocated
  step,         \* where each thread is
  visited,      \* addresses its enumeration has come to
  current,      \* the address or object it works on
  fresh,        \* need_unref
  discovered,   \* its struct discovered_devs
  held,         \* references the program holds to each object
  handles,      \* open handles of it
  descriptors   \* file descriptors opened for it and not closed

objectVars  == <<devs, session, refcnt, ready, used>>
callerVars  == <<step, visited, current, fresh, discovered>>
holderVars  == <<held, handles, descriptors>>
deviceVars  == <<attached, objectVars, callerVars, holderVars>>

Enumerating == {"scan", "alloc", "init", "append", "drop", "destroy", "convert", "free",
                "destroy found"}

DevicesTypeOK ==
  /\ attached \subseteq Addresses
  /\ Range(devs) \subseteq Objects /\ session \in [Objects -> Addresses]
  /\ refcnt \in [Objects -> Nat] /\ ready \in [Objects -> BOOLEAN] /\ used \in [Objects -> BOOLEAN]
  /\ step \in [Callers -> Enumerating \union {"idle", "open", "unref", "destroy held"}]
  /\ visited \in [Callers -> SUBSET Addresses]
  /\ current \in [Callers -> Objects \union Addresses \union {0}]
  /\ fresh \in [Callers -> BOOLEAN] /\ \A t \in Callers : Range(discovered[t]) \subseteq Objects
  /\ held \in [Objects -> 0..MaxHeld] /\ handles \in [Objects -> 0..MaxHeld]
  /\ descriptors \in [Objects -> Nat]

DevicesInit ==
  /\ attached \in SUBSET Addresses
  /\ devs = <<>> /\ session \in [Objects -> {CHOOSE a \in Addresses : TRUE}]
  /\ refcnt = [o \in Objects |-> 0]
  /\ ready = [o \in Objects |-> FALSE] /\ used = [o \in Objects |-> FALSE]
  /\ step = [t \in Callers |-> "idle"] /\ visited = [t \in Callers |-> {}]
  /\ current = [t \in Callers |-> 0] /\ fresh = [t \in Callers |-> FALSE]
  /\ discovered = [t \in Callers |-> <<>>]
  /\ held = [o \in Objects |-> 0] /\ handles = [o \in Objects |-> 0]
  /\ descriptors = [o \in Objects |-> 0]

-----------------------------------------------------------------------------
(* libusb_ref_device(), and the two parts of libusb_unref_device().        *)
Ref(o) == refcnt' = [refcnt EXCEPT ![o] = @ + 1]

At(t, where) == step[t] = where
To(t, where) == step' = [step EXCEPT ![t] = where]

UnrefDevice(t, o, destroys, otherwise) ==
  /\ refcnt' = [refcnt EXCEPT ![o] = @ - 1]
  /\ To(t, IF refcnt'[o] = 0 THEN destroys ELSE otherwise)

DestroyDevice(t, o, otherwise) ==
  /\ \/ o \notin Range(devs) /\ UNCHANGED devs
     \/ \E i \in DOMAIN devs : devs[i] = o /\ devs' = RemoveAt(devs, i)
  /\ used' = [used EXCEPT ![o] = FALSE] /\ ready' = [ready EXCEPT ![o] = FALSE]
  /\ To(t, otherwise)
  /\ UNCHANGED <<session, refcnt>>

-----------------------------------------------------------------------------
(* libusb_get_device_list(): the backend walks the directory...            *)
GetDeviceList(t) ==
  /\ At(t, "idle")
  /\ "enumerate" \in DeviceRaces \/ \A u \in Callers : step[u] \notin Enumerating
  /\ To(t, "scan") /\ visited' = [visited EXCEPT ![t] = {}]
  /\ discovered' = [discovered EXCEPT ![t] = <<>>]
  /\ UNCHANGED <<attached, objectVars, current, fresh, holderVars>>

Known(a, i) == session[devs[i]] = a /\ \A j \in 1..(i - 1) : session[devs[j]] # a

(* ... and enumerates what it finds: a known object or a new one.          *)
Scan(t, a) ==
  /\ At(t, "scan") /\ a \in attached \ visited[t]
  /\ visited' = [visited EXCEPT ![t] = @ \union {a}]
  /\ \/ /\ \A o \in Range(devs) : session[o] # a
        /\ To(t, "alloc") /\ current' = [current EXCEPT ![t] = a] /\ UNCHANGED fresh
     \/ \E i \in DOMAIN devs :
          /\ Known(a, i) /\ (refcnt[devs[i]] > 0 \/ "dying" \in DeviceRaces)
          /\ To(t, "append") /\ current' = [current EXCEPT ![t] = devs[i]]
          /\ fresh' = [fresh EXCEPT ![t] = FALSE]
  /\ UNCHANGED <<attached, objectVars, discovered, holderVars>>

(* usbi_alloc_device(): the object is listed before it is initialized.     *)
AllocDevice(t) ==
  /\ At(t, "alloc")
  /\ \/ \E o \in Objects :
          /\ ~used[o]
          /\ used' = [used EXCEPT ![o] = TRUE] /\ ready' = [ready EXCEPT ![o] = FALSE]
          /\ session' = [session EXCEPT ![o] = current[t]]
          /\ refcnt' = [refcnt EXCEPT ![o] = 1] /\ devs' = <<o>> \o devs
          /\ current' = [current EXCEPT ![t] = o] /\ fresh' = [fresh EXCEPT ![t] = TRUE]
          /\ To(t, "init")
     \/ To(t, "scan") /\ UNCHANGED <<objectVars, current, fresh>>
  /\ UNCHANGED <<attached, visited, discovered, holderVars>>

(* initialize_device() and usbi_sanitize_device() read the descriptors.    *)
InitializeDevice(t) ==
  /\ At(t, "init")
  /\ \/ /\ session[current[t]] \in attached
        /\ ready' = [ready EXCEPT ![current[t]] = TRUE] /\ To(t, "append")
     \/ To(t, "drop") /\ UNCHANGED ready
  /\ UNCHANGED <<attached, devs, session, refcnt, used, visited, current, fresh, discovered,
                 holderVars>>

AppendUncounted(t) ==
  /\ At(t, "append")
  /\ discovered' = [discovered EXCEPT ![t] = Append(@, current[t])]
  /\ To(t, IF fresh[t] THEN "drop" ELSE "scan")
  /\ UNCHANGED <<attached, objectVars, visited, current, fresh, holderVars>>

(* discovered_devs_append(): fails if the collection cannot grow.          *)
AppendDevice(t) ==
  /\ At(t, "append")
  /\ \/ Ref(current[t]) /\ discovered' = [discovered EXCEPT ![t] = Append(@, current[t])]
     \/ UNCHANGED <<refcnt, discovered>>
  /\ To(t, IF fresh[t] THEN "drop" ELSE "scan")
  /\ UNCHANGED <<attached, devs, session, ready, used, visited, current, fresh, holderVars>>

(* The reference a new object was born with.                               *)
DropFresh(t) ==
  /\ At(t, "drop")
  /\ UnrefDevice(t, current[t], "destroy", "scan") /\ fresh' = [fresh EXCEPT ![t] = FALSE]
  /\ UNCHANGED <<attached, devs, session, ready, used, visited, current, discovered, holderVars>>

DestroyFresh(t) ==
  /\ At(t, "destroy") /\ DestroyDevice(t, current[t], "scan")
  /\ UNCHANGED <<attached, visited, current, fresh, discovered, holderVars>>

(* The walk is over.  If it found nothing, or there is no memory, the      *)
(* program gets an error; otherwise the list it gets counts each device.   *)
EndScan(t) ==
  /\ At(t, "scan")
  /\ \/ \A o \in Range(discovered[t]) : held[o] < MaxHeld
     \/ discovered[t] = <<>>
  /\ To(t, "free")
  /\ \/ /\ refcnt' = [o \in Objects |-> IF o \in Range(discovered[t]) THEN refcnt[o] + 1
                                                                     ELSE refcnt[o]]
        /\ held' = [o \in Objects |-> IF o \in Range(discovered[t]) THEN held[o] + 1 ELSE held[o]]
     \/ UNCHANGED <<refcnt, held>>
  /\ UNCHANGED <<attached, devs, session, ready, used, visited, current, fresh, discovered,
                 handles, descriptors>>

(* discovered_devs_free().                                                 *)
FreeDiscovered(t) ==
  /\ At(t, "free")
  /\ IF discovered[t] = <<>>
     THEN /\ To(t, "idle") /\ visited' = [visited EXCEPT ![t] = {}]
          /\ current' = [current EXCEPT ![t] = 0] /\ UNCHANGED <<refcnt, discovered>>
     ELSE /\ UnrefDevice(t, Head(discovered[t]), "destroy found", "free")
          /\ current' = [current EXCEPT ![t] = Head(discovered[t])]
          /\ discovered' = [discovered EXCEPT ![t] = Tail(@)] /\ UNCHANGED visited
  /\ UNCHANGED <<attached, devs, session, ready, used, fresh, holderVars>>

DestroyDiscovered(t) ==
  /\ At(t, "destroy found") /\ DestroyDevice(t, current[t], "free")
  /\ UNCHANGED <<attached, visited, current, fresh, discovered, holderVars>>

-----------------------------------------------------------------------------
(* The program: libusb_ref_device(), libusb_unref_device() and             *)
(* libusb_free_device_list(), libusb_open(), libusb_close().               *)
RefHeld(o) ==
  /\ held[o] \in 1..(MaxHeld - 1)
  /\ Ref(o) /\ held' = [held EXCEPT ![o] = @ + 1]
  /\ UNCHANGED <<attached, devs, session, ready, used, callerVars, handles, descriptors>>

UnrefHeld(t, o) ==
  /\ At(t, "idle") /\ held[o] > 0 /\ \A u \in Callers : At(u, "open") => current[u] # o
  /\ held' = [held EXCEPT ![o] = @ - 1]
  /\ To(t, "unref") /\ current' = [current EXCEPT ![t] = o]
  /\ UNCHANGED <<attached, objectVars, visited, fresh, discovered, handles, descriptors>>

Unref(t) ==
  /\ At(t, "unref")
  /\ \/ "dying" \in DeviceRaces \/ refcnt[current[t]] > 1
     \/ \A u \in Callers : At(u, "append") => current[u] # current[t]
  /\ UnrefDevice(t, current[t], "destroy held", "idle")
  /\ UNCHANGED <<attached, devs, session, ready, used, visited, current, fresh, discovered,
                 holderVars>>

DestroyHeld(t) ==
  /\ At(t, "destroy held") /\ DestroyDevice(t, current[t], "idle")
  /\ UNCHANGED <<attached, visited, current, fresh, discovered, holderVars>>

(* libusb_open() counts the handle's reference before the backend opens.   *)
OpenRef(t, o) ==
  /\ At(t, "idle") /\ held[o] > 0 /\ handles[o] < MaxHeld
  /\ Ref(o) /\ To(t, "open") /\ current' = [current EXCEPT ![t] = o]
  /\ UNCHANGED <<attached, devs, session, ready, used, visited, fresh, discovered, holderVars>>

OpenDevice(t) ==
  /\ At(t, "open")
  /\ LET o == current[t] IN
     \/ /\ session[o] \in attached /\ handles[o] < MaxHeld
        /\ handles' = [handles EXCEPT ![o] = @ + 1]
        /\ descriptors' = [descriptors EXCEPT ![o] = @ + 1] /\ To(t, "idle")
     \/ To(t, "unref") /\ UNCHANGED <<handles, descriptors>>
     \/ /\ "no memory" \in DeviceRaces /\ session[o] \in attached /\ descriptors[o] < MaxHeld
        /\ descriptors' = [descriptors EXCEPT ![o] = @ + 1] /\ To(t, "unref")
        /\ UNCHANGED handles
  /\ UNCHANGED <<attached, objectVars, visited, current, fresh, discovered, held>>

CloseDevice(t, o) ==
  /\ At(t, "idle") /\ handles[o] > 0
  /\ handles' = [handles EXCEPT ![o] = @ - 1]
  /\ descriptors' = [descriptors EXCEPT ![o] = @ - 1]
  /\ To(t, "unref") /\ current' = [current EXCEPT ![t] = o]
  /\ UNCHANGED <<attached, objectVars, visited, fresh, discovered, held>>

(* Devices come and go.                                                    *)
Plug(a) ==
  /\ attached' = (attached \ {a}) \union ({a} \ attached)
  /\ UNCHANGED <<objectVars, callerVars, holderVars>>

-----------------------------------------------------------------------------
Enumerate(t) ==
  \/ GetDeviceList(t) \/ (\E a \in Addresses : Scan(t, a)) \/ AllocDevice(t)
  \/ InitializeDevice(t) \/ AppendDevice(t) \/ DropFresh(t) \/ DestroyFresh(t)
  \/ EndScan(t) \/ FreeDiscovered(t) \/ DestroyDiscovered(t)

UseObject(t, o) == UnrefHeld(t, o) \/ OpenRef(t, o) \/ CloseDevice(t, o)

DevicesNext ==
  \/ \E t \in Callers : Enumerate(t) \/ Unref(t) \/ DestroyHeld(t) \/ OpenDevice(t)
  \/ \E t \in Callers, o \in Objects : UseObject(t, o)
  \/ \E o \in Objects : RefHeld(o)
  \/ \E a \in Addresses : Plug(a)

DevicesSpec == DevicesInit /\ [][DevicesNext]_deviceVars

-----------------------------------------------------------------------------
(* References that are counted: the program's, its handles', those of the  *)
(* lists being made, and those a thread is about to hand on or drop.       *)
References(o) ==
  held[o] + handles[o]
  + Cardinality({t \in Callers : o \in Range(discovered[t])})
  + Cardinality({t \in Callers : current[t] = o /\ (step[t] \in {"unref", "open"} \/ fresh[t])})

(* The count of an object is the number of references to it, and an object *)
(* is destroyed only when there is none: whoever holds one may use it, and *)
(* gets nothing from an enumeration that is not initialized.               *)
ReferencesCounted == \A o \in Objects : used[o] => refcnt[o] = References(o)

HeldAreAlive ==
  \A o \in Objects :
    /\ References(o) > 0 => used[o]
    /\ held[o] + handles[o] > 0 => ready[o]

(* An object is destroyed when the last reference to it goes, not before.  *)
CountedAreAlive == \A o \in Objects : References(o) > 0 => used[o]

(* At most one object stands for a device: two would be opened as two.     *)
OneObjectPerDevice ==
  \A o, p \in Range(devs) : session[o] = session[p] => o = p

(* Every file descriptor belongs to a handle that will close it.           *)
DescriptorsOwned == descriptors = handles
=============================================================================
