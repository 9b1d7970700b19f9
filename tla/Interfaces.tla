----------------------------- MODULE Interfaces -----------------------------
(***************************************************************************)
(* Interfaces, configurations and kernel drivers of one device, used       *)
(* through several handles (libusb/core.c, libusb/os/linux_usbfs.c), and   *)
(* the sessions of HID_Open() and HID_Close() that use them                *)
(* (msdk/hidcomm.c), with the count of the default context they share.     *)
(*                                                                         *)
(* Each handle is used by several threads: handle->lock is held inside a   *)
(* step wherever the code takes it, and what a call does without it, the   *)
(* first loop of op_reset_device() and the request that follows the check  *)
(* in libusb_set_interface_alt_setting(), is a step of its own.            *)
(***************************************************************************)
EXTENDS Naturals, FiniteSets

CONSTANTS
  Sessions,     \* of HID_Open(), one handle each
  Ifaces,       \* interfaces of the device, 0 among them
  Configs,      \* its configurations
  IfaceFaults   \* what else may go wrong, see below

(* "reset": the reset request fails; "theft": a driver is detached from an *)
(* interface though it is usbfs, on behalf of another handle; "late": an   *)
(* alternate setting is selected while another thread releases the         *)
(* interface or resets the device; "cache": the descriptor of the new      *)
(* configuration cannot be read.                                           *)
AllIfaceFaults == {"reset", "theft", "late", "cache"}

ASSUME InterfacesAssumption ==
  /\ 0 \in Ifaces /\ Ifaces \subseteq 0..31
  /\ Sessions \intersect {"none", "kernel"} = {} /\ IfaceFaults \subseteq AllIfaceFaults

VARIABLES
  users,       \* default_context_refcnt
  stage,       \* how far HID_Open() has got in each session
  claimed,     \* handle->claimed_interfaces
  bound,       \* the driver the kernel has bound to each interface: "kernel"
               \* for one of its own, or the handle that claimed it
  resetting,   \* interfaces op_reset_device() is still to release
  inReset,     \* whether a reset is under way
  selecting,   \* the interface an alternate setting is about to be selected of
  config,      \* active configuration
  cached       \* the one whose descriptor libusb has cached

handleVars == <<claimed, bound>>
resetVars  == <<resetting, inReset, selecting>>
configVars == <<config, cached>>
ifaceVars  == <<users, stage, handleVars, resetVars, configVars>>

Stages == {"closed", "initialized", "opened", "attached", "free", "claimed"}

InterfacesTypeOK ==
  /\ users \in 0..Cardinality(Sessions) /\ stage \in [Sessions -> Stages]
  /\ claimed \in [Sessions -> SUBSET Ifaces]
  /\ bound \in [Ifaces -> Sessions \union {"none", "kernel"}]
  /\ resetting \in [Sessions -> SUBSET Ifaces] /\ inReset \in [Sessions -> BOOLEAN]
  /\ selecting \in [Sessions -> SUBSET Ifaces]
  /\ config \in Configs /\ cached \in Configs

InterfacesInit ==
  /\ users = 0 /\ stage = [h \in Sessions |-> "closed"]
  /\ claimed = [h \in Sessions |-> {}] /\ bound \in [Ifaces -> {"none", "kernel"}]
  /\ resetting = [h \in Sessions |-> {}] /\ inReset = [h \in Sessions |-> FALSE]
  /\ selecting = [h \in Sessions |-> {}]
  /\ config \in Configs /\ cached = config

-----------------------------------------------------------------------------
(* The kernel's side.  Closing a descriptor releases what it has claimed.  *)
BoundTo(h) == {i \in Ifaces : bound[i] = h}
Unbind(S)  == bound' = [i \in Ifaces |-> IF i \in S THEN "none" ELSE bound[i]]

Stage(h, from, to) == stage[h] = from /\ stage' = [stage EXCEPT ![h] = to]

(* libusb_init(NULL) creates or reuses the default context, libusb_exit()  *)
(* destroys it with its last user.                                         *)
InitContext == users' = users + 1
ExitContext == users' = users - 1

HidInit(h) ==
  /\ Stage(h, "closed", "initialized") /\ InitContext
  /\ UNCHANGED <<handleVars, resetVars, configVars>>

(* libusb_open_device_with_vid_pid(), or its failure.                      *)
HidOpenDevice(h) ==
  /\ \/ Stage(h, "initialized", "opened") /\ UNCHANGED users
     \/ Stage(h, "initialized", "closed") /\ ExitContext
  /\ UNCHANGED <<handleVars, resetVars, configVars>>

HidKernelDriver(h) ==
  /\ Stage(h, "opened", IF bound[0] = "none" THEN "free" ELSE "attached")
  /\ UNCHANGED <<users, handleVars, resetVars, configVars>>

(* libusb_close() and libusb_exit(), as HID_Close() and the error paths    *)
(* of HID_Open() call them.                                                *)
HidGiveUp(h, from) ==
  /\ Stage(h, from, "closed") /\ ExitContext
  /\ ~inReset[h] /\ selecting[h] = {}
  /\ claimed' = [claimed EXCEPT ![h] = {}] /\ Unbind(BoundTo(h))

(* libusb_detach_kernel_driver(): the kernel unbinds whatever is bound.    *)
HidDetach(h) ==
  /\ \/ /\ bound[0] \notin Sessions \/ "theft" \in IfaceFaults
        /\ bound[0] # "none" /\ Stage(h, "attached", "free") /\ Unbind({0})
        /\ UNCHANGED <<users, claimed>>
     \/ (bound[0] = "none" \/ bound[0] \in Sessions) /\ HidGiveUp(h, "attached")
  /\ UNCHANGED <<resetVars, configVars>>

(* IOCTL_USBFS_CLAIMINTF: busy while any other driver is bound.            *)
Claimable(h, i) == bound[i] \in {"none", h}

HidClaim(h) ==
  /\ \/ /\ Claimable(h, 0) /\ Stage(h, "free", "claimed") /\ UNCHANGED users
        /\ claimed' = [claimed EXCEPT ![h] = @ \union {0}]
        /\ bound' = [bound EXCEPT ![0] = h]
     \/ ~Claimable(h, 0) /\ HidGiveUp(h, "free")
  /\ UNCHANGED <<resetVars, configVars>>

HidClose(h) ==
  /\ HidGiveUp(h, "claimed")
  /\ UNCHANGED <<resetVars, configVars>>

-----------------------------------------------------------------------------
(* Calls a program may make with the handle.                               *)
Usable(h) == stage[h] = "claimed"

(* libusb_claim_interface(): nothing to do if the mask has it already.     *)
ClaimInterface(h, i) ==
  /\ Usable(h) /\ i \notin claimed[h] /\ Claimable(h, i)
  /\ claimed' = [claimed EXCEPT ![h] = @ \union {i}] /\ bound' = [bound EXCEPT ![i] = h]
  /\ UNCHANGED <<users, stage, resetVars, configVars>>

(* libusb_release_interface(): refused by the kernel if the interface is   *)
(* not claimed there.                                                      *)
ReleaseInterface(h, i) ==
  /\ Usable(h) /\ i \in claimed[h] /\ bound[i] = h
  /\ "late" \in IfaceFaults \/ i \notin selecting[h]
  /\ claimed' = [claimed EXCEPT ![h] = @ \ {i}] /\ Unbind({i})
  /\ UNCHANGED <<users, stage, resetVars, configVars>>

(* libusb_set_interface_alt_setting(): the check, under the lock, ...      *)
CheckInterface(h, i) ==
  /\ Usable(h) /\ selecting[h] = {} /\ i \in claimed[h]
  /\ "late" \in IfaceFaults \/ ~inReset[h]
  /\ selecting' = [selecting EXCEPT ![h] = {i}]
  /\ UNCHANGED <<users, stage, handleVars, resetting, inReset, configVars>>

(* ... and the request: usbfs claims an interface that is not claimed.     *)
SelectSetting(h) ==
  /\ selecting[h] # {}
  /\ selecting' = [selecting EXCEPT ![h] = {}]
  /\ bound' = [i \in Ifaces |-> IF i \in selecting[h] /\ Claimable(h, i) THEN h ELSE bound[i]]
  /\ UNCHANGED <<users, stage, claimed, resetting, inReset, configVars>>

(* op_reset_device(): release what is claimed, without the lock, ...       *)
ResetDevice(h) ==
  /\ Usable(h) /\ ~inReset[h]
  /\ "late" \in IfaceFaults \/ selecting[h] = {}
  /\ inReset' = [inReset EXCEPT ![h] = TRUE]
  /\ resetting' = [resetting EXCEPT ![h] = Ifaces]
  /\ UNCHANGED <<users, stage, handleVars, selecting, configVars>>

NextToReset(h) == CHOOSE i \in resetting[h] : \A j \in resetting[h] : i <= j

ResetReleases(h) ==
  /\ inReset[h] /\ resetting[h] # {}
  /\ resetting' = [resetting EXCEPT ![h] = @ \ {NextToReset(h)}]
  /\ Unbind(IF NextToReset(h) \in claimed[h] THEN BoundTo(h) \intersect {NextToReset(h)} ELSE {})
  /\ UNCHANGED <<users, stage, claimed, inReset, selecting, configVars>>

ReclaimsAll(h) ==
  /\ claimed' = claimed
  /\ bound' = [i \in Ifaces |-> IF i \in claimed[h] /\ Claimable(h, i) THEN h ELSE bound[i]]

(* ... reset the device, and claim it again, forgetting what another has   *)
(* claimed in the meantime.                                                *)
Reclaims(h) ==
  LET kept == {i \in claimed[h] : Claimable(h, i)} IN
  /\ claimed' = [claimed EXCEPT ![h] = kept]
  /\ bound' = [i \in Ifaces |-> IF i \in kept THEN h ELSE bound[i]]

ResetReclaims(h) ==
  /\ inReset[h] /\ resetting[h] = {}
  /\ inReset' = [inReset EXCEPT ![h] = FALSE]
  /\ Reclaims(h) \/ ("reset" \in IfaceFaults /\ UNCHANGED handleVars)
  /\ UNCHANGED <<users, stage, resetting, selecting, configVars>>

(* libusb_set_configuration(): busy while any interface has a driver; the  *)
(* kernel then binds its own drivers to the new configuration.             *)
SetConfiguration(h, c) ==
  /\ stage[h] \in {"opened", "free", "claimed"} /\ \A i \in Ifaces : bound[i] = "none"
  /\ config' = c /\ cached' \in {c} \union (IF "cache" \in IfaceFaults THEN {cached} ELSE {})
  /\ bound' \in [Ifaces -> {"none", "kernel"}]
  /\ UNCHANGED <<users, stage, claimed, resetVars>>

(* libusb_attach_kernel_driver(), or another program's driver.             *)
AttachKernelDriver(i) ==
  /\ bound[i] = "none" /\ bound' = [bound EXCEPT ![i] = "kernel"]
  /\ UNCHANGED <<users, stage, claimed, resetVars, configVars>>

-----------------------------------------------------------------------------
HidSession(h) ==
  HidInit(h) \/ HidOpenDevice(h) \/ HidKernelDriver(h) \/ HidDetach(h) \/ HidClaim(h) \/ HidClose(h)

HandleCall(h) ==
  \/ \E i \in Ifaces :
       ClaimInterface(h, i) \/ ReleaseInterface(h, i) \/ CheckInterface(h, i)
  \/ SelectSetting(h) \/ ResetDevice(h) \/ ResetReleases(h) \/ ResetReclaims(h)
  \/ \E c \in Configs : SetConfiguration(h, c)

InterfacesNext ==
  \/ \E h \in Sessions : HidSession(h) \/ HandleCall(h)
  \/ \E i \in Ifaces : AttachKernelDriver(i)

InterfacesSpec == InterfacesInit /\ [][InterfacesNext]_ifaceVars

-----------------------------------------------------------------------------
(* What libusb takes for claimed the kernel has bound to the handle, and   *)
(* nothing else is: otherwise libusb_claim_interface() succeeds without    *)
(* effect, or an interface stays busy that nobody can release.  A reset    *)
(* under way has let go of its interfaces for a while.                     *)
ClaimsAgree ==
  \A h \in Sessions :
    /\ BoundTo(h) \subseteq claimed[h]
    /\ ~inReset[h] => claimed[h] = BoundTo(h)

(* The default context lives as long as a session uses it.                 *)
ContextCounted == users = Cardinality({h \in Sessions : stage[h] # "closed"})

(* The cached configuration descriptor is that of the active one.          *)
CachedIsActive == cached = config
=============================================================================
