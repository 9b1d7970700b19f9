---------------------------- MODULE ActiveConfig ----------------------------
(***************************************************************************)
(* Where libusb on Linux learns which configuration of a device is active: *)
(* from sysfs, whose files it reads one after the other while any program  *)
(* may choose another configuration, or from a copy taken when the device  *)
(* was first seen (libusb/os/linux_usbfs.c).                               *)
(*                                                                         *)
(* A configuration is its bConfigurationValue, 0 stands for none.          *)
(***************************************************************************)
EXTENDS Integers, Sequences, FiniteSets, SequencesExt, Functions

CONSTANTS
  ConfigValues,   \* the configurations of the device
  Kernels,        \* what the kernel may offer, see KernelsAssumption
  ConfigFaults    \* see below

(* "read_only": the program may read the device's node but not write it;   *)
(* "silent": the device does not answer which configuration is active;     *)
(* "no_memory": the copy cannot be made; "old_kernel": the configuration   *)
(* changes while sysfs is read though it has only the active one;          *)
(* "big_endian": the host is.                                              *)
AllConfigFaults == {"read_only", "silent", "no_memory", "old_kernel", "big_endian"}

(* tree: sysfs is mounted; busnum: its directories have a busnum;          *)
(* descriptors: which configurations its descriptors files contain.        *)
ASSUME KernelsAssumption ==
  /\ ConfigValues \in Seq(1..255) /\ ConfigValues # <<>> /\ IsInjective(ConfigValues)
  /\ Kernels \subseteq [tree : BOOLEAN, busnum : BOOLEAN, descriptors : {"none", "active", "all"}]
  /\ ConfigFaults \subseteq AllConfigFaults

VARIABLES
  kernel,     \* what it offers
  active,     \* configuration of the device
  relate,     \* sysfs_can_relate_devices
  described,  \* sysfs_has_descriptors
  known,      \* whether op_init() was called, and the device initialized
  sysfsDir,   \* whether sysfs_dir is known
  copy,       \* config_descriptor
  reading,    \* where the call is
  asks,       \* "number" of libusb_get_configuration(), "descriptor"
  wanted,     \* the value read
  nth,        \* descriptor the file is at
  openFiles,  \* how many
  answer,     \* of the call
  seen        \* configurations active during the call

callVars   == <<reading, asks, wanted, nth, openFiles, answer, seen>>
sourceVars == <<kernel, relate, described, known, sysfsDir>>
configAllVars == <<active, copy, sourceVars, callVars>>

Values  == Range(ConfigValues)
Config(value) == <<"config", value>>
PossibleAnswers == {<<"none">>, <<"not_found">>, <<"io">>, <<"torn">>}
                   \union {Config(value) : value \in Values \union {0}}

ActiveTypeOK ==
  /\ kernel \in Kernels /\ active \in Values \union {0} /\ copy \in Values \union {0}
  /\ relate \in BOOLEAN /\ described \in BOOLEAN /\ sysfsDir \in BOOLEAN
  /\ known \in {"nothing", "sources", "device"}
  /\ reading \in {"idle", "value", "open", "size", "header", "rest"}
  /\ asks \in {"number", "descriptor"} /\ wanted \in Values \union {0}
  /\ nth \in 1..(Len(ConfigValues) + 1) /\ openFiles \in Nat /\ answer \in PossibleAnswers
  /\ seen \subseteq Values \union {0}

ActiveInit ==
  /\ kernel \in Kernels /\ active \in Values \union {0} /\ copy = 0
  /\ relate = FALSE /\ described = FALSE /\ known = "nothing" /\ sysfsDir = FALSE
  /\ reading = "idle" /\ asks = "number" /\ wanted = 0 /\ nth = 1 /\ openFiles = 0
  /\ answer = <<"none">> /\ seen = {}

-----------------------------------------------------------------------------
(* op_init(): what can be read of sysfs.                                   *)
HasDescriptors(found, related) == found
DescriptorsUsable(found, related) == found /\ related

OpInit ==
  /\ known = "nothing" /\ known' = "sources"
  /\ relate' = (kernel.tree /\ kernel.busnum)
  /\ described' = DescriptorsUsable(kernel.tree /\ kernel.descriptors # "none", relate')
  /\ UNCHANGED <<kernel, active, copy, sysfsDir, callVars>>

(* get_config_descriptor(): the i-th, from the device's node.              *)
ConfigAt(i) == IF i > 1 /\ "big_endian" \in ConfigFaults THEN 0 ELSE ConfigValues[i]

(* cache_active_config()                                                   *)
CacheActiveConfig(value) ==
  \/ /\ \E i \in DOMAIN ConfigValues : ConfigAt(i) = value
     /\ copy' = value
  \/ /\ \/ \A i \in DOMAIN ConfigValues : ConfigAt(i) # value
        \/ "no_memory" \in ConfigFaults
     /\ UNCHANGED copy

(* sysfs_get_active_config() has room for two digits and the end of line.  *)
FitsBuffer(value) == value < 100

(* initialize_device(), which op_get_device_list() calls with the name of a*)
(* directory in sysfs if it can.  Who may only read takes the first        *)
(* configuration to be the active one.                                     *)
InitializeUsbfsDevice ==
  /\ known = "sources" /\ sysfsDir' = relate
  /\ IF described THEN UNCHANGED copy ELSE
     \E readOnly \in BOOLEAN, silent \in BOOLEAN :
       /\ readOnly => "read_only" \in ConfigFaults
       /\ silent => "silent" \in ConfigFaults /\ ~relate /\ ~readOnly
       /\ relate => FitsBuffer(active)
       /\ IF (active = 0 /\ (relate \/ ~readOnly)) \/ silent
          THEN copy' = 0
          ELSE CacheActiveConfig(IF readOnly THEN ConfigValues[1] ELSE active)
  /\ known' = "device" /\ UNCHANGED <<kernel, active, relate, described, callVars>>

-----------------------------------------------------------------------------
(* op_set_configuration().  The copy is this library's own and does not    *)
(* follow what others choose.                                              *)
ChooseConfiguration(value) ==
  /\ known = "device" /\ ~described /\ reading = "idle"
  /\ active' = value /\ answer' = <<"none">> /\ seen' = {}
  /\ IF value = 0 THEN copy' = 0 ELSE CacheActiveConfig(value)
  /\ UNCHANGED <<sourceVars, reading, asks, wanted, nth, openFiles>>

(* Any program chooses a configuration, this one included, where none is   *)
(* copied.                                                                 *)
Reconfigure(value) ==
  /\ known = "device" /\ described
  /\ reading # "idle" => kernel.descriptors = "all" \/ "old_kernel" \in ConfigFaults
  /\ value # active /\ active' = value
  /\ seen' = IF reading = "idle" THEN {} ELSE seen \union {value}
  /\ answer' = <<"none">> /\ UNCHANGED <<copy, sourceVars, reading, asks, wanted, nth, openFiles>>

-----------------------------------------------------------------------------
Continue(where) == reading' = where /\ UNCHANGED <<active, copy, sourceVars, asks, seen>>

Yield(said) == answer' = said /\ Continue("idle")

(* op_get_active_config_descriptor(), op_get_configuration().              *)
GetActive(what) ==
  /\ known = "device" /\ reading = "idle"
  /\ what = "number" => relate
  /\ asks' = what /\ seen' = {active} /\ wanted' = 0 /\ nth' = 1
  /\ IF what = "number" \/ described
     THEN reading' = "value" /\ answer' = <<"none">>
     ELSE reading' = "idle" /\ answer' = IF copy = 0 THEN <<"not_found">> ELSE Config(copy)
  /\ UNCHANGED <<active, copy, sourceVars, openFiles>>

(* sysfs_get_active_config(); without a directory the file's name is none. *)
ReadValue ==
  /\ reading = "value" /\ UNCHANGED <<nth, openFiles>>
  /\ CASE ~sysfsDir \/ ~FitsBuffer(active) -> Yield(<<"io">>) /\ UNCHANGED wanted
       [] sysfsDir /\ FitsBuffer(active) /\ asks = "number" ->
            Yield(Config(active)) /\ wanted' = active
       [] OTHER -> /\ wanted' = active
                   /\ IF active = 0 THEN Yield(<<"not_found">>)
                      ELSE Continue("open") /\ UNCHANGED answer

(* What the descriptors file of sysfs contains now.                        *)
Contents ==
  CASE kernel.descriptors = "all"    -> ConfigValues
    [] kernel.descriptors = "active" -> IF active = 0 THEN <<>> ELSE <<active>>
    [] OTHER                         -> <<>>

(* sysfs_get_active_config_descriptor()                                    *)
OpenDescriptors ==
  /\ reading = "open" /\ openFiles' = openFiles + 1 /\ Continue("size")
  /\ UNCHANGED <<wanted, nth, answer>>

CheckSize ==
  /\ reading = "size" /\ UNCHANGED <<wanted, nth>>
  /\ IF Contents = <<>> THEN openFiles' = openFiles - 1 /\ Yield(<<"not_found">>)
     ELSE Continue("header") /\ UNCHANGED <<openFiles, answer>>

(* The error paths of the loop leave the file open.                        *)
ReadHeader ==
  /\ reading = "header" /\ UNCHANGED <<wanted, openFiles>>
  /\ IF nth > Len(Contents) THEN Yield(<<"io">>) /\ UNCHANGED nth
     ELSE /\ nth' = IF Contents[nth] = wanted THEN nth ELSE nth + 1
          /\ Continue(IF Contents[nth] = wanted THEN "rest" ELSE "header")
          /\ UNCHANGED answer

ReadRest ==
  /\ reading = "rest" /\ openFiles' = openFiles - 1 /\ UNCHANGED <<wanted, nth>>
  /\ Yield(CASE nth > Len(Contents)      -> <<"not_found">>
             [] nth \in DOMAIN Contents   -> IF Contents[nth] = wanted THEN Config(wanted)
                                            ELSE <<"torn">>)

ActiveNext ==
  \/ OpInit \/ InitializeUsbfsDevice
  \/ \E v \in Values \union {0} : ChooseConfiguration(v) \/ Reconfigure(v)
  \/ \E what \in {"number", "descriptor"} : GetActive(what)
  \/ ReadValue \/ OpenDescriptors \/ CheckSize \/ ReadHeader \/ ReadRest

ActiveSpec == ActiveInit /\ [][ActiveNext]_configAllVars

-----------------------------------------------------------------------------
(* Whatever the kernel offers, and though the configuration may change     *)
(* between any two reads of sysfs: the answer is a configuration, or that  *)
(* there is none, which was the truth at some moment of the call; no call  *)
(* fails, and none leaves a file open.                                     *)
ActiveReported ==
  reading = "idle" =>
    /\ openFiles = 0
    /\ answer \notin {<<"io">>, <<"torn">>}
    /\ answer = <<"not_found">> => 0 \in seen
    /\ answer \in {Config(value) : value \in Values \union {0}} => answer[2] \in seen
=============================================================================
