---------------------------- MODULE MCComponents ----------------------------
(***************************************************************************)
(* Finite instances of the components that share no state with each other. *)
(* A behaviour is one of a single component, the others stay as they begin;*)
(* one run checks them all.                                                *)
(***************************************************************************)
EXTENDS LinuxUrbs, Devices, Interfaces, WindowsThreads, WindowsClock, WindowsTransfers,
        DarwinTransfers, OpenBsd, Dpfp, Descriptors, ActiveConfig, WindowsPipe, Deadlines,
        WindowsDevices

VARIABLE component  \* the one that runs

allVars == <<component, urbVars, deviceVars, ifaceVars, condVars, clockVars, winVars,
             darwinVars, obsdVars, dpVars, descVars, configAllVars, pipeVars, deadlineVars,
             winDevVars>>

Names == {"urbs", "devices", "interfaces", "threads", "clock", "windows", "darwin", "openbsd",
          "dpfp", "descriptors", "active", "pipe", "deadlines", "tree"}

(* Bulk transfers whose URBs the kernel cancels after a short one, and     *)
(* others; several URBs of one unit, and few of two.                       *)
MCShapes ==
  LET Shape(type, in, n, size, continuation) ==
        [type |-> type, in |-> in, urbs |-> n, size |-> size, continuation |-> continuation]
  IN  {Shape("bulk", TRUE, 3, 1, TRUE), Shape("bulk", TRUE, 2, 2, FALSE),
       Shape("bulk", FALSE, 2, 2, TRUE), Shape("interrupt", FALSE, 2, 1, FALSE),
       Shape("control", TRUE, 1, 2, FALSE), Shape("iso", TRUE, 2, 1, FALSE)}

(* Every short list of descriptors of five kinds, complete or cut short,   *)
(* some that are too much or broken, and some longer ones, most of them    *)
(* well-formed.                                                            *)
MCConfigurations ==
  LET Token(kind, length, alternate, endpoints) ==
        [kind |-> kind, length |-> length, alternate |-> alternate, endpoints |-> endpoints]
      I(a, n) == Token("interface", 9, a, n)
      E       == Token("endpoint", 7, 0, 0)
      C       == Token("class", 3, 0, 0)
      Lists   == UNION {[1..k -> {I(0, 0), I(0, 1), I(1, 1), E, C}] : k \in 0..3}
      Shorter == UNION {[1..k -> {I(0, 3), E, Token("config", 9, 0, 0), Token("class", 1, 0, 0)}] :
                          k \in 1..2}
      Longer  == {a \o b \o c : a \in {<<I(0, 1), C, E>>, <<C, I(0, 0)>>, <<I(0, 2), E, E, C>>},
                                b \in {<<>>, <<C, I(1, 1), E>>},
                                c \in {<<>>, <<I(0, 1), E>>, <<I(0, 0), C, I(1, 1), E>>}}
  IN  [interfaces : 1..2, list : Lists, cut : {0}] \union [interfaces : {1}, list : Lists, cut : {3}]
      \union [interfaces : {1, 3}, list : Shorter, cut : {0}]
      \union [interfaces : 0..2, list : Longer, cut : {0}]

(* Three configurations of a device, and what the kernels offer of it.     *)
MCValues == <<1, 2, 7>>
MCKernels ==
  {k \in [tree : BOOLEAN, busnum : BOOLEAN, descriptors : {"none", "active", "all"}] :
     ~k.tree => ~k.busnum /\ k.descriptors = "none"}

(* Two threads of one context and one of another.                          *)
MCGroup == [t \in PipeThreads |-> IF t = "u" THEN "t" ELSE t]

(* A controller without devices, and one whose root hub has a hub with a   *)
(* device on its second port, and a composite device on its own second.    *)
MCHostControllers == <<"hcd1", "hcd2">>
MCNodeKind   == [root |-> "hub", hub |-> "hub", deep |-> "plain", part |-> "composite"]
MCNodeParent == [root |-> "hcd2", hub |-> "root", deep |-> "hub", part |-> "root"]
MCNodePort   == [root |-> 0, hub |-> 1, deep |-> 2, part |-> 2]

(* What a component begins with is chosen only if it is the one that runs. *)
Init ==
  /\ component \in Names
  /\ component # "urbs" => shape = CHOOSE s \in Shapes : TRUE
  /\ component # "devices" => attached = {}
  /\ component # "interfaces" => /\ bound = [i \in Ifaces |-> "none"]
                                 /\ config = CHOOSE c \in Configs : TRUE
  /\ component # "dpfp" => program = "dpfp"
  /\ component # "descriptors" => given = CHOOSE c \in Configurations : TRUE
  /\ component # "active" => kernel = (CHOOSE k \in Kernels : TRUE) /\ active = 0
  /\ UrbsInit /\ DevicesInit /\ InterfacesInit /\ ThreadsInit /\ ClockInit /\ WinInit
  /\ DarwinInit /\ ObsdInit /\ DpInit /\ DescInit /\ ActiveInit /\ PipeInit /\ DeadlinesInit
  /\ WinDevInit

Urbs ==
  /\ component = "urbs" /\ UrbsNext
  /\ UNCHANGED <<component, deviceVars, ifaceVars, condVars, clockVars, winVars, darwinVars,
                 obsdVars, dpVars, descVars, configAllVars, pipeVars, deadlineVars, winDevVars>>

DeviceObjects ==
  /\ component = "devices" /\ DevicesNext
  /\ UNCHANGED <<component, urbVars, ifaceVars, condVars, clockVars, winVars, darwinVars,
                 obsdVars, dpVars, descVars, configAllVars, pipeVars, deadlineVars, winDevVars>>

InterfaceCalls ==
  /\ component = "interfaces" /\ InterfacesNext
  /\ UNCHANGED <<component, urbVars, deviceVars, condVars, clockVars, winVars, darwinVars,
                 obsdVars, dpVars, descVars, configAllVars, pipeVars, deadlineVars, winDevVars>>

CondThreads ==
  /\ component = "threads" /\ ThreadsNext
  /\ UNCHANGED <<component, urbVars, deviceVars, ifaceVars, clockVars, winVars, darwinVars,
                 obsdVars, dpVars, descVars, configAllVars, pipeVars, deadlineVars, winDevVars>>

ClockThreads ==
  /\ component = "clock" /\ ClockNext
  /\ UNCHANGED <<component, urbVars, deviceVars, ifaceVars, condVars, winVars, darwinVars,
                 obsdVars, dpVars, descVars, configAllVars, pipeVars, deadlineVars, winDevVars>>

Windows ==
  /\ component = "windows" /\ WinNext
  /\ UNCHANGED <<component, urbVars, deviceVars, ifaceVars, condVars, clockVars, darwinVars,
                 obsdVars, dpVars, descVars, configAllVars, pipeVars, deadlineVars, winDevVars>>

Darwin ==
  /\ component = "darwin" /\ DarwinNext
  /\ UNCHANGED <<component, urbVars, deviceVars, ifaceVars, condVars, clockVars, winVars,
                 obsdVars, dpVars, descVars, configAllVars, pipeVars, deadlineVars, winDevVars>>

ObsdCalls ==
  /\ component = "openbsd" /\ ObsdNext
  /\ UNCHANGED <<component, urbVars, deviceVars, ifaceVars, condVars, clockVars, winVars,
                 darwinVars, dpVars, descVars, configAllVars, pipeVars, deadlineVars,
                 winDevVars>>

Scanners ==
  /\ component = "dpfp" /\ DpNext
  /\ UNCHANGED <<component, urbVars, deviceVars, ifaceVars, condVars, clockVars, winVars,
                 darwinVars, obsdVars, descVars, configAllVars, pipeVars, deadlineVars,
                 winDevVars>>

DescriptorReads ==
  /\ component = "descriptors" /\ DescNext
  /\ UNCHANGED <<component, urbVars, deviceVars, ifaceVars, condVars, clockVars, winVars,
                 darwinVars, obsdVars, dpVars, configAllVars, pipeVars, deadlineVars,
                 winDevVars>>

ActiveConfiguration ==
  /\ component = "active" /\ ActiveNext
  /\ UNCHANGED <<component, urbVars, deviceVars, ifaceVars, condVars, clockVars, winVars,
                 darwinVars, obsdVars, dpVars, descVars, pipeVars, deadlineVars, winDevVars>>

PipeCalls ==
  /\ component = "pipe" /\ PipeNext
  /\ UNCHANGED <<component, urbVars, deviceVars, ifaceVars, condVars, clockVars, winVars,
                 darwinVars, obsdVars, dpVars, descVars, configAllVars, deadlineVars,
                 winDevVars>>

Timing ==
  /\ component = "deadlines" /\ DeadlinesNext
  /\ UNCHANGED <<component, urbVars, deviceVars, ifaceVars, condVars, clockVars, winVars,
                 darwinVars, obsdVars, dpVars, descVars, configAllVars, pipeVars, winDevVars>>

DeviceTree ==
  /\ component = "tree" /\ WinDevNext
  /\ UNCHANGED <<component, urbVars, deviceVars, ifaceVars, condVars, clockVars, winVars,
                 darwinVars, obsdVars, dpVars, descVars, configAllVars, pipeVars, deadlineVars>>

Next ==
  \/ Urbs \/ DeviceObjects \/ InterfaceCalls \/ CondThreads \/ ClockThreads \/ Windows \/ Darwin
  \/ ObsdCalls \/ Scanners \/ DescriptorReads \/ ActiveConfiguration \/ PipeCalls \/ Timing
  \/ DeviceTree

Spec ==
  /\ Init /\ [][Next]_allVars
  /\ component = "urbs" => WF_urbVars(UserSteps) /\ SF_urbVars(HandlerSteps)

(* Every component has its types.                                          *)
TypesOK ==
  /\ UrbsTypeOK /\ DevicesTypeOK /\ InterfacesTypeOK /\ ThreadsTypeOK /\ ClockTypeOK /\ WinTypeOK
  /\ DarwinTypeOK /\ ObsdTypeOK /\ DpTypeOK /\ DescTypeOK /\ ActiveTypeOK /\ PipeTypeOK
  /\ DeadlinesTypeOK /\ WinDevTypeOK
=============================================================================
