--------------------------- MODULE WindowsDevices ---------------------------
(***************************************************************************)
(* windows_get_device_list() (libusb/os/windows_usb.c): host controllers,  *)
(* hubs, all devices, those with an interface of their own and the parts of*)
(* composite devices are looked for in as many passes, each in the order   *)
(* Windows lists them, while devices come and go.                          *)
(*                                                                         *)
(* A node is a place in the tree of devices: its device id path, and so the*)
(* session id made of it, stay what they are.                              *)
(***************************************************************************)
EXTENDS Naturals, Sequences, FiniteSets, SequencesExt, FiniteSetsExt, Functions, TLC

CONSTANTS
  HostControllers,  \* the sequence of host controllers
  NodeKind,         \* every other node is a "hub", "composite" or "plain"
  NodeParent,       \* what it is attached to
  NodePort,         \* and where
  Parts,            \* numbers of the interfaces of composite devices
  MaxAddress,       \* bound on the addresses given
  WinDevFaults      \* see below

(* "hub_moves": a hub is plugged in or unplugged during an enumeration;    *)
(* "replug": a device is plugged in where another was that the program     *)
(* still has; "controller": a host controller comes or goes; "no_access":  *)
(* a hub cannot be opened; "io": descriptors cannot be read.               *)
AllWinDevFaults == {"hub_moves", "replug", "controller", "no_access", "io"}

TreeNodes == DOMAIN NodeKind
HcdNodes  == Range(HostControllers)

(* Controllers are no more than HCD_PASS numbers.  Devices are attached to  *)
(* controllers and hubs, in at most seven tiers (USB specification), each  *)
(* to a port of its own; what is attached to a controller is a root hub.   *)
ASSUME WinDevAssumption ==
  /\ HostControllers \in Seq(HcdNodes) /\ Len(HostControllers) <= 255 /\ IsInjective(HostControllers)
  /\ NodeKind \in [TreeNodes -> {"hub", "composite", "plain"}] /\ HcdNodes \cap TreeNodes = {}
  /\ NodeParent \in [TreeNodes -> TreeNodes \union HcdNodes] /\ NodePort \in [TreeNodes -> Nat]
  /\ \A m, n \in TreeNodes :
       NodeParent[m] = NodeParent[n] /\ NodePort[m] = NodePort[n] => m = n
  /\ \E tier \in [TreeNodes -> 0..6] : \A n \in TreeNodes :
       \/ NodeParent[n] \in HcdNodes /\ NodeKind[n] = "hub" /\ tier[n] = 0
       \/ /\ NodeParent[n] \in TreeNodes /\ NodeKind[NodeParent[n]] = "hub"
          /\ tier[n] = tier[NodeParent[n]] + 1
  /\ IsFiniteSet(TreeNodes)
  /\ Parts \subseteq Nat /\ MaxAddress \in Cardinality(TreeNodes)..254 /\ WinDevFaults \subseteq AllWinDevFaults

(* From the nearest on.                                                    *)
Ancestors[n \in TreeNodes \union HcdNodes] ==
  IF n \in HcdNodes THEN <<>> ELSE <<NodeParent[n]>> \o Ancestors[NodeParent[n]]

Below(n) == {n} \union {m \in TreeNodes : n \in Range(Ancestors[m])}
RootHub(n) == NodeParent[n] \in HcdNodes
HcdHubDepth == 255  \* overflows to 0 for root hubs

VARIABLES
  present,     \* what Windows has
  addressOf,   \* address each device has, or had last
  objects,     \* the devices of the context
  pass,        \* of the enumeration
  todo,        \* what Windows listed for the pass and is still to come
  unrefList,   \* unref_list
  discdevs,    \* discdevs
  status,      \* r
  lists,       \* what the program has of libusb_get_device_list(), oldest first
  steady       \* what was present all through the enumeration

busVars    == <<present, addressOf, steady>>
winDevVars == <<busVars, objects, pass, todo, unrefList, discdevs, status, lists>>

WinObject == [busNumber : Nat, address : 0..255, depth : 0..255, path : BOOLEAN,
              api : {"none", "hub", "composite", "plain"}, configs : BOOLEAN, parts : SUBSET Parts]

WinDevTypeOK ==
  /\ present \subseteq TreeNodes \union HcdNodes /\ steady \subseteq present
  /\ addressOf \in [TreeNodes -> 0..MaxAddress]
  /\ DOMAIN objects \subseteq TreeNodes \union HcdNodes
  /\ objects \in [DOMAIN objects -> WinObject]
  /\ pass \in {"none", "hcd", "hub", "gen", "dev", "ext", "end"}
  /\ unrefList \subseteq DOMAIN objects /\ discdevs \subseteq DOMAIN objects \cap TreeNodes
  /\ status \in {"ok", "error"}
  /\ lists \in Seq(SUBSET TreeNodes) /\ Len(lists) <= 2 /\ UNION Range(lists) \subseteq DOMAIN objects

WinDevInit ==
  /\ present = HcdNodes \union {n \in TreeNodes : RootHub(n)} /\ steady = {}
  /\ addressOf = [n \in TreeNodes |-> 0] /\ objects = <<>> /\ pass = "none" /\ todo = {}
  /\ unrefList = {} /\ discdevs = {} /\ status = "ok" /\ lists = <<>>

-----------------------------------------------------------------------------
InUse == present \cap TreeNodes

(* A root hub comes with its controller and goes with it.                  *)
PlugNode(n) ==
  /\ n \notin present
  /\ n \in HcdNodes => "controller" \in WinDevFaults
  /\ n \in TreeNodes => NodeParent[n] \in present /\ ~RootHub(n)
  /\ n \in TreeNodes /\ NodeKind[n] = "hub" /\ pass # "none" => "hub_moves" \in WinDevFaults
  /\ n \in DOMAIN objects => "replug" \in WinDevFaults
  /\ present' = present \union {n} \union {m \in TreeNodes : RootHub(m) /\ NodeParent[m] = n}
  /\ addressOf' = IF n \in HcdNodes THEN addressOf
                  ELSE [addressOf EXCEPT ![n] = Min(1..MaxAddress \ {addressOf[m] : m \in InUse})]
  /\ UNCHANGED <<steady, objects, pass, todo, unrefList, discdevs, status, lists>>

UnplugNode(n) ==
  /\ n \in present
  /\ n \in HcdNodes => "controller" \in WinDevFaults
  /\ n \in TreeNodes => ~RootHub(n)
  /\ n \in TreeNodes /\ NodeKind[n] = "hub" /\ pass # "none" => "hub_moves" \in WinDevFaults
  /\ present' = present \ Below(n) /\ steady' = steady \ Below(n)
  /\ UNCHANGED <<addressOf, objects, pass, todo, unrefList, discdevs, status, lists>>

-----------------------------------------------------------------------------
(* Devices are kept by the list of those to unreference, by that of those  *)
(* discovered, and by the program.                                         *)
Keep(set) == objects' = Restrict(objects, DOMAIN objects \cap set)

(* What Windows lists for a pass: for the last one, the parts of devices.  *)
OfPass(p) ==
  CASE p = "hcd" -> present \cap HcdNodes
    [] p = "hub" -> {n \in present \cap TreeNodes : NodeKind[n] = "hub"}
    [] p = "gen" -> present \cap TreeNodes
    [] p = "dev" -> {n \in present \cap TreeNodes : NodeKind[n] # "hub"}
    [] p = "ext" -> {n \in present \cap TreeNodes : NodeKind[n] = "composite"} \X Parts
    [] OTHER     -> {}

After == [hcd |-> "hub", hub |-> "gen", gen |-> "dev", dev |-> "ext", ext |-> "end"]

GetWinDeviceList ==
  /\ pass = "none" /\ Len(lists) < 2
  /\ pass' = "hcd" /\ todo' = OfPass("hcd") /\ steady' = present
  /\ UNCHANGED <<present, addressOf, objects, unrefList, discdevs, status, lists>>

NextPass ==
  /\ pass \in DOMAIN After /\ todo = {} /\ status = "ok"
  /\ pass' = After[pass] /\ todo' = OfPass(pass')
  /\ UNCHANGED <<busVars, objects, unrefList, discdevs, status, lists>>

(* windows_device_priv_init(), and the session id is looked up before.     *)
NewObject == [busNumber |-> 0, address |-> 0, depth |-> 0, api |-> "none", path |-> FALSE,
              configs |-> FALSE, parts |-> {}]

Visit(p, n) ==
  /\ pass = p /\ status = "ok" /\ n \in todo /\ todo' = todo \ {n}
  /\ UNCHANGED <<busVars, pass, lists>>

With(n) == [m \in DOMAIN objects \union {n} |-> IF m \in DOMAIN objects THEN objects[m] ELSE NewObject]

Allocate(n) == unrefList' = IF n \in DOMAIN objects THEN unrefList ELSE unrefList \union {n}

Ignored == UNCHANGED <<objects, unrefList, discdevs, status>>

(* HCD_PASS: buses are numbered in the order of the list.                  *)
BusOf(c) == CHOOSE i \in DOMAIN HostControllers : HostControllers[i] = c

HcdPass(c) ==
  /\ Visit("hcd", c) /\ Allocate(c) /\ UNCHANGED <<discdevs, status>>
  /\ \A other \in todo \ {c} : BusOf(c) < BusOf(other)
  /\ objects' = [With(c) EXCEPT ![c].busNumber = 1 + Cardinality(unrefList), ![c].address = 0,
                                ![c].depth = HcdHubDepth, ![c].api = "hub", ![c].path = TRUE]

(* HUB_PASS and DEV_PASS: what is already set up stays as it is.  The api  *)
(* is that of the driver, see get_api_type().                              *)
SetUp(objs, n) ==
  IF objs[n].path THEN objs ELSE [objs EXCEPT ![n].path = TRUE, ![n].api = NodeKind[n]]

HubPass(n) ==
  /\ Visit("hub", n) /\ Allocate(n) /\ objects' = SetUp(With(n), n)
  /\ UNCHANGED <<discdevs, status>>

DevPass(n) ==
  /\ Visit("dev", n)
  /\ objects' = IF n \in DOMAIN objects THEN SetUp(objects, n) ELSE objects
  /\ UNCHANGED <<unrefList, discdevs, status>>

-----------------------------------------------------------------------------
(* Which of the ancestors are known.                                       *)
KnownAncestors(n) == {i \in DOMAIN Ancestors[n] : Ancestors[n][i] \in DOMAIN objects}

(* init_device(): the hub may not have its bus number yet; the ancestors   *)
(* are asked, from the second on, as long as they are known.               *)
SecondAncestor(objs, n) ==
  LET a == Ancestors[n] IN
  IF Len(a) > 1 /\ a[2] \in DOMAIN objs THEN objs[a[2]].busNumber ELSE 0
AncestorBus(objs, n) ==
  LET a     == Ancestors[n]
      found == {i \in 2..Len(a) : /\ \A j \in 2..i : a[j] \in DOMAIN objs
                                  /\ objs[a[i]].busNumber # 0}
  IN  IF found = {} THEN 0 ELSE objs[a[Min(found)]].busNumber

(* What is connected to a port of a hub.                                   *)
Connected(hub, port) == {m \in present \cap TreeNodes : NodeParent[m] = hub /\ NodePort[m] = port}

Discovers(n) == discdevs' = discdevs \union {n} /\ UNCHANGED status
GenFails(objs) == objects' = objs /\ status' = "error" /\ UNCHANGED discdevs

(* cache_config_descriptors(): all of them or none.                        *)
ConfigsCached == IF "io" \in WinDevFaults THEN BOOLEAN ELSE {TRUE}

(* init_device() once the bus number is known.  A device that has an       *)
(* address keeps it, and its descriptors.                                  *)
Connect(n, p, objs) ==
  CASE objs[n].address # 0 -> objects' = objs /\ Discovers(n)
    [] objs[n].address = 0 /\ objs[n].depth = 0 ->
         objects' = [objs EXCEPT ![n].address = 255] /\ Discovers(n)
    [] OTHER ->
         \/ /\ p \notin present \/ "no_access" \in WinDevFaults
            /\ GenFails(objs)
         \/ /\ p \in present /\ Connected(p, NodePort[n]) = {}
            /\ objects' = objs /\ UNCHANGED <<discdevs, status>>
         \/ \E m \in Connected(p, NodePort[n]), read \in ConfigsCached :
              /\ objects' = [objs EXCEPT ![n].address = addressOf[m], ![n].configs = read]
              /\ Discovers(n)

InitDevice(n, p) ==
  LET objs   == With(n)
      number == IF objs[p].busNumber # 0 THEN objs[p].busNumber ELSE AncestorBus(objs, n)
  IN  IF number = 0 THEN GenFails(objs)
      ELSE Connect(n, p, [objs EXCEPT ![p].busNumber = number, ![n].busNumber = number,
                                      ![n].depth = (objs[p].depth + 1) % 256])

(* GEN_PASS: the device is one of the nearest ancestor that is known, if   *)
(* that is a hub.  Windows may not tell the ancestors of one just gone.    *)
GenPass(n) ==
  /\ Visit("gen", n)
  /\ LET faces  == KnownAncestors(n)
         face   == Ancestors[n][Min(faces)]
         hasHub == faces # {} /\ objects[face].api = "hub"
     IN  \/ hasHub /\ Allocate(n) /\ InitDevice(n, face)
         \/ (~hasHub \/ n \notin present) /\ Ignored

(* Later passes: set_composite_interface(), which keeps what is set.       *)
ExtPass(n, i) ==
  /\ Visit("ext", <<n, i>>) /\ UNCHANGED <<unrefList, discdevs, status>>
  /\ objects' = IF n \in DOMAIN objects /\ objects[n].api = "composite"
                THEN [objects EXCEPT ![n].parts = @ \union {i}] ELSE objects

-----------------------------------------------------------------------------
(* The new devices are unreferenced; libusb_get_device_list() hands the    *)
(* list over, or drops it after an error.                                  *)
EndEnumeration ==
  /\ pass = "end" \/ status = "error"
  /\ pass' = "none" /\ todo' = {} /\ unrefList' = {} /\ discdevs' = {} /\ status' = "ok"
  /\ lists' = IF status = "ok" THEN Append(lists, discdevs) ELSE lists
  /\ Keep(UNION Range(lists')) /\ UNCHANGED busVars

FreeWinDeviceList ==
  /\ pass = "none" /\ lists # <<>> /\ lists' = Tail(lists) /\ Keep(UNION Range(lists'))
  /\ UNCHANGED <<busVars, pass, todo, unrefList, discdevs, status>>

WinDevNext ==
  \/ GetWinDeviceList \/ NextPass \/ EndEnumeration \/ FreeWinDeviceList
  \/ \E n \in TreeNodes \union HcdNodes : PlugNode(n) \/ UnplugNode(n)
  \/ \E c \in HcdNodes : HcdPass(c)
  \/ \E n \in TreeNodes :
       HubPass(n) \/ GenPass(n) \/ DevPass(n) \/ \E i \in Parts : ExtPass(n, i)

WinDevSpec == WinDevInit /\ [][WinDevNext]_winDevVars

-----------------------------------------------------------------------------
(* In whatever order Windows lists hubs and devices, and though devices    *)
(* come and go meanwhile: no enumeration fails; every device of the list   *)
(* has the bus and the address of the one it stands for, and descriptors;  *)
(* none that was there all the time is missing, and it has its driver and  *)
(* all its parts.                                                          *)
ListedAsTheyAre ==
  /\ status = "ok"
  /\ pass = "none" /\ lists # <<>> =>
       /\ steady \cap TreeNodes \subseteq Last(lists)
       /\ \A n \in Last(lists) :
            LET o == objects[n] IN
            /\ o.busNumber = BusOf(Last(Ancestors[n])) /\ (o.configs \/ RootHub(n))
            /\ o.address = IF RootHub(n) THEN 255 ELSE addressOf[n]
            /\ n \in steady => /\ o.path /\ o.api = NodeKind[n]
                               /\ NodeKind[n] = "composite" => o.parts = Parts
=============================================================================
