--------------------------- MODULE PlatformProofs ---------------------------
(***************************************************************************)
(* Proofs about the parts that depend on the platform, each for any value  *)
(* of its constants: the interfaces of a device, the threads, the clock,   *)
(* the transfers and the pipes of the Windows backend, the OpenBSD backend *)
(* and the Darwin backend, and deadlines where there is no timerfd; and    *)
(* about the fingerprint scanner examples.  They share no variables.       *)
(***************************************************************************)
EXTENDS Interfaces, WindowsThreads, WindowsClock, WindowsTransfers, WindowsPipe,
        OpenBsd, DarwinTransfers, Deadlines, Dpfp, SequenceLemmas

-----------------------------------------------------------------------------
(* Interfaces (Interfaces.tla): claims agree with the kernel               *)

(* What of the type the proof needs.                                       *)
BindingsType ==
  /\ claimed \in [Sessions -> SUBSET Ifaces]
  /\ bound \in [Ifaces -> Sessions \union {"none", "kernel"}]
  /\ inReset \in [Sessions -> BOOLEAN] /\ selecting \in [Sessions -> SUBSET Ifaces]

(* An interface whose alternate setting is about to be selected stays      *)
(* claimed until it is, and no reset takes it away.                        *)
SelectingInv ==
  \A h \in Sessions :
    selecting[h] \subseteq claimed[h] /\ (selecting[h] # {} => ~inReset[h])

InterfacesInv == BindingsType /\ SelectingInv /\ ClaimsAgree

(* Claims and bindings as they are: whatever else a step does.             *)
LEMMA BindingsKept ==
  ASSUME InterfacesInv, UNCHANGED <<claimed, bound, inReset, selecting>>
  PROVE  InterfacesInv'
  BY DEF InterfacesInv, BindingsType, SelectingInv, ClaimsAgree, BoundTo

(* What has a driver of the kernel, or none, is no handle's.               *)
LEMMA NotBound ==
  ASSUME NEW b, b \in [Ifaces -> {"none", "kernel"}]
  PROVE  /\ b \in [Ifaces -> Sessions \union {"none", "kernel"}]
         /\ \A h \in Sessions : {i \in Ifaces : b[i] = h} = {}
<1>1. \A i \in Ifaces : b[i] \in {"none", "kernel"}
  OBVIOUS
<1>2. \A h \in Sessions : h \notin {"none", "kernel"}
  BY InterfacesAssumption
<1> QED
  BY <1>1, <1>2

LEMMA InterfacesInitInv == InterfacesInit => InterfacesInv
<1> SUFFICES ASSUME InterfacesInit PROVE InterfacesInv
  OBVIOUS
<1>1. BindingsType /\ \A h \in Sessions : BoundTo(h) = {}
  BY NotBound DEF InterfacesInit, BindingsType, BoundTo
<1>2. SelectingInv /\ ClaimsAgree
  BY <1>1 DEF InterfacesInit, SelectingInv, ClaimsAgree
<1> QED
  BY <1>1, <1>2 DEF InterfacesInv

(* A handle that is closed loses all its claims, and nobody else any.      *)
LEMMA GiveUpInv ==
  ASSUME InterfacesInv, NEW h \in Sessions, NEW from, HidGiveUp(h, from), UNCHANGED resetVars
  PROVE  InterfacesInv'
  BY InterfacesAssumption
  DEF InterfacesInv, BindingsType, SelectingInv, ClaimsAgree, BoundTo, HidGiveUp, Unbind, resetVars

(* An interface that is free, or the handle's own, becomes the handle's.   *)
LEMMA TakesInv ==
  ASSUME InterfacesInv, NEW h \in Sessions, NEW i \in Ifaces, Claimable(h, i),
         claimed' = [claimed EXCEPT ![h] = @ \union {i}], bound' = [bound EXCEPT ![i] = h],
         UNCHANGED resetVars
  PROVE  InterfacesInv'
  BY InterfacesAssumption
  DEF InterfacesInv, BindingsType, SelectingInv, ClaimsAgree, BoundTo, Claimable, resetVars

LEMMA SessionInv ==
  ASSUME InterfacesInv, IfaceFaults = {}, NEW h \in Sessions, HidSession(h)
  PROVE  InterfacesInv'
<1>1. CASE HidInit(h) \/ HidOpenDevice(h) \/ HidKernelDriver(h)
  BY <1>1, BindingsKept DEF HidInit, HidOpenDevice, HidKernelDriver, handleVars, resetVars
<1>2. CASE HidDetach(h)
  <2>1. CASE HidGiveUp(h, "attached")
    BY <1>2, <2>1, GiveUpInv DEF HidDetach
  <2>2. CASE bound[0] \notin Sessions /\ Unbind({0}) /\ UNCHANGED claimed
    BY <1>2, <2>2, InterfacesAssumption
    DEF HidDetach, InterfacesInv, BindingsType, SelectingInv, ClaimsAgree, BoundTo, Unbind, resetVars
  <2> QED
    BY <1>2, <2>1, <2>2 DEF HidDetach
<1>3. CASE HidClaim(h)
  <2>1. CASE HidGiveUp(h, "free")
    BY <1>3, <2>1, GiveUpInv DEF HidClaim
  <2>2. CASE Claimable(h, 0) /\ claimed' = [claimed EXCEPT ![h] = @ \union {0}]
             /\ bound' = [bound EXCEPT ![0] = h]
    BY <1>3, <2>2, TakesInv, InterfacesAssumption DEF HidClaim
  <2> QED
    BY <1>3, <2>1, <2>2 DEF HidClaim
<1>4. CASE HidClose(h)
  BY <1>4, GiveUpInv DEF HidClose
<1> QED
  BY <1>1, <1>2, <1>3, <1>4 DEF HidSession

LEMMA SettingInv ==
  ASSUME InterfacesInv, IfaceFaults = {}, NEW h \in Sessions,
         SelectSetting(h) \/ \E i \in Ifaces : CheckInterface(h, i)
  PROVE  InterfacesInv'
<1>1. ASSUME NEW i \in Ifaces, CheckInterface(h, i) PROVE InterfacesInv'
  BY <1>1 DEF CheckInterface, InterfacesInv, BindingsType, SelectingInv, ClaimsAgree, BoundTo, handleVars
<1>2. CASE SelectSetting(h)
  <2>1. \A i \in selecting[h] : i \in Ifaces /\ bound[i] = h
    BY <1>2 DEF SelectSetting, InterfacesInv, BindingsType, SelectingInv, ClaimsAgree, BoundTo
  <2>2. bound' = bound
    BY <1>2, <2>1 DEF SelectSetting, InterfacesInv, BindingsType
  <2> QED
    BY <1>2, <2>2 DEF SelectSetting, InterfacesInv, BindingsType, SelectingInv, ClaimsAgree, BoundTo
<1> QED
  BY <1>1, <1>2

(* Between release and claim only the mask keeps a handle's interfaces;    *)
(* what another has claimed meanwhile is not taken back.                   *)
LEMMA DeviceResetInv ==
  ASSUME InterfacesInv, IfaceFaults = {}, NEW h \in Sessions,
         ResetDevice(h) \/ ResetReleases(h) \/ ResetReclaims(h)
  PROVE  InterfacesInv'
<1>1. CASE ResetDevice(h)
  BY <1>1 DEF ResetDevice, InterfacesInv, BindingsType, SelectingInv, ClaimsAgree, BoundTo, handleVars
<1>2. CASE ResetReleases(h)
  BY <1>2, InterfacesAssumption
  DEF ResetReleases, InterfacesInv, BindingsType, SelectingInv, ClaimsAgree, BoundTo, Unbind
<1>3. CASE ResetReclaims(h)
  <2> DEFINE kept == {i \in claimed[h] : Claimable(h, i)}
  <2>1. /\ claimed' = [claimed EXCEPT ![h] = kept]
        /\ bound' = [i \in Ifaces |-> IF i \in kept THEN h ELSE bound[i]]
        /\ inReset[h] /\ inReset' = [inReset EXCEPT ![h] = FALSE] /\ selecting' = selecting
    BY <1>3 DEF ResetReclaims, Reclaims
  <2>2. selecting[h] = {}
    BY <2>1 DEF InterfacesInv, SelectingInv
  <2>3. BoundTo(h)' = kept
    BY <2>1, InterfacesAssumption DEF InterfacesInv, BindingsType, ClaimsAgree, BoundTo, Claimable
  <2>4. \A g \in Sessions \ {h} : BoundTo(g)' = BoundTo(g)
    BY <2>1, InterfacesAssumption DEF InterfacesInv, BindingsType, BoundTo, Claimable
  <2>5. BindingsType'
    BY <2>1 DEF InterfacesInv, BindingsType
  <2>6. SelectingInv'
    BY <2>1, <2>2 DEF InterfacesInv, BindingsType, SelectingInv
  <2>7. ClaimsAgree'
    BY <2>1, <2>3, <2>4 DEF InterfacesInv, BindingsType, ClaimsAgree
  <2> QED
    BY <2>5, <2>6, <2>7 DEF InterfacesInv
<1> QED
  BY <1>1, <1>2, <1>3

LEMMA HandleCallInv ==
  ASSUME InterfacesInv, IfaceFaults = {}, NEW h \in Sessions, HandleCall(h)
  PROVE  InterfacesInv'
<1>1. ASSUME NEW i \in Ifaces, ClaimInterface(h, i) PROVE InterfacesInv'
  BY <1>1, TakesInv DEF ClaimInterface
<1>2. ASSUME NEW i \in Ifaces, ReleaseInterface(h, i) PROVE InterfacesInv'
  BY <1>2, InterfacesAssumption
  DEF ReleaseInterface, InterfacesInv, BindingsType, SelectingInv, ClaimsAgree, BoundTo, Unbind, resetVars
<1>3. ASSUME NEW c \in Configs, SetConfiguration(h, c) PROVE InterfacesInv'
  <2>1. bound \in [Ifaces -> {"none", "kernel"}]
    BY <1>3 DEF SetConfiguration, InterfacesInv, BindingsType
  <2>2. bound' \in [Ifaces -> {"none", "kernel"}] /\ UNCHANGED <<claimed, inReset, selecting>>
    BY <1>3 DEF SetConfiguration, resetVars
  <2>3. \A g \in Sessions : BoundTo(g) = {} /\ BoundTo(g)' = {}
    BY <2>1, <2>2, NotBound DEF BoundTo
  <2>4. BindingsType'
    BY <2>2, NotBound DEF InterfacesInv, BindingsType
  <2> QED
    BY <2>2, <2>3, <2>4 DEF InterfacesInv, SelectingInv, ClaimsAgree
<1> QED
  BY <1>1, <1>2, <1>3, SettingInv, DeviceResetInv DEF HandleCall

LEMMA InterfacesStepInv ==
  ASSUME IfaceFaults = {}
  PROVE  InterfacesInv /\ [InterfacesNext]_ifaceVars => InterfacesInv'
<1> SUFFICES ASSUME InterfacesInv, [InterfacesNext]_ifaceVars PROVE InterfacesInv'
  OBVIOUS
<1>1. ASSUME NEW i \in Ifaces, AttachKernelDriver(i) PROVE InterfacesInv'
  BY <1>1, InterfacesAssumption
  DEF AttachKernelDriver, InterfacesInv, BindingsType, SelectingInv, ClaimsAgree, BoundTo, resetVars
<1>2. CASE UNCHANGED ifaceVars
  BY <1>2, BindingsKept DEF ifaceVars, handleVars, resetVars
<1> QED
  BY <1>1, <1>2, SessionInv, HandleCallInv DEF InterfacesNext

(* For any handles, interfaces and configurations: an interface libusb     *)
(* takes for claimed is one the kernel has bound to the handle, and the    *)
(* other way round, through claims, releases, resets by several handles,   *)
(* drivers that come and go and the sessions of HID_Open(); if no reset    *)
(* request fails, and no other fault of Interfaces happens.                *)
THEOREM ClaimsAlwaysAgree == IfaceFaults = {} => (InterfacesSpec => []ClaimsAgree)
<1> SUFFICES ASSUME IfaceFaults = {} PROVE InterfacesSpec => []ClaimsAgree
  OBVIOUS
<1>1. InterfacesInv /\ [InterfacesNext]_ifaceVars => InterfacesInv'
  BY InterfacesStepInv
<1>2. InterfacesInv => ClaimsAgree
  BY DEF InterfacesInv
<1> QED
  BY InterfacesInitInv, <1>1, <1>2, PTL DEF InterfacesSpec

(* The types need the count of the default context: each session adds one  *)
(* to it and takes it away again.                                          *)
SessionsType == IsFiniteSet(Sessions) /\ InterfacesTypeOK /\ ContextCounted

SessionsOpen == {h \in Sessions : stage[h] # "closed"}

LEMMA StageCounted ==
  ASSUME SessionsType, NEW h \in Sessions, NEW from \in Stages, NEW to \in Stages,
         Stage(h, from, to),
         \/ from = "closed" /\ to # "closed" /\ InitContext
         \/ from # "closed" /\ to = "closed" /\ ExitContext
         \/ from # "closed" /\ to # "closed" /\ UNCHANGED users
  PROVE  /\ users' \in 0..Cardinality(Sessions) /\ stage' \in [Sessions -> Stages]
         /\ ContextCounted'
<1> DEFINE rest == {g \in Sessions \ {h} : stage[g] # "closed"}
<1>1. stage \in [Sessions -> Stages] /\ IsFiniteSet(Sessions) /\ users = Cardinality(SessionsOpen)
  BY DEF SessionsType, InterfacesTypeOK, ContextCounted, SessionsOpen
<1>2. IsFiniteSet(rest) /\ h \notin rest
  BY <1>1, FS_Subset
<1>3. /\ SessionsOpen = IF stage[h] = "closed" THEN rest ELSE rest \union {h}
      /\ SessionsOpen' = IF to = "closed" THEN rest ELSE rest \union {h}
  BY <1>1 DEF SessionsOpen, Stage
<1> HIDE DEF rest
<1>4. Cardinality(rest) \in Nat /\ Cardinality(rest \union {h}) = Cardinality(rest) + 1
  BY <1>2, FS_AddElement, FS_CardinalityType
<1>5. users' = Cardinality(SessionsOpen')
  BY <1>1, <1>3, <1>4 DEF Stage, InitContext, ExitContext
<1>6. stage' \in [Sessions -> Stages]
  BY <1>1 DEF Stage
<1>7. SessionsOpen' \subseteq Sessions
  BY DEF SessionsOpen
<1>8. users' \in 0..Cardinality(Sessions)
  BY <1>1, <1>5, <1>7, FS_Subset, FS_CardinalityType
<1> QED
  BY <1>5, <1>6, <1>8 DEF ContextCounted, SessionsOpen

LEMMA SessionsInitType == IsFiniteSet(Sessions) /\ InterfacesInit => SessionsType
<1> SUFFICES ASSUME IsFiniteSet(Sessions), InterfacesInit PROVE SessionsType
  OBVIOUS
<1>1. bound \in [Ifaces -> Sessions \union {"none", "kernel"}]
  BY NotBound DEF InterfacesInit
<1>2. SessionsOpen = {} /\ Cardinality({}) = 0
  BY FS_EmptySet DEF InterfacesInit, SessionsOpen
<1>3. 0 \in 0..Cardinality(Sessions)
  BY FS_CardinalityType
<1> QED
  BY <1>1, <1>2, <1>3 DEF InterfacesInit, SessionsType, InterfacesTypeOK, ContextCounted, SessionsOpen, Stages

LEMMA StageType ==
  ASSUME SessionsType, NEW h \in Sessions, HidSession(h)
  PROVE  SessionsType'
<1>1. CASE HidInit(h)
  <2>1. /\ users' \in 0..Cardinality(Sessions) /\ stage' \in [Sessions -> Stages]
        /\ ContextCounted'
    BY <1>1, StageCounted DEF HidInit, Stages
  <2> QED
    BY <1>1, <2>1 DEF HidInit, SessionsType, InterfacesTypeOK, handleVars, resetVars, configVars
<1>2. CASE HidOpenDevice(h)
  <2>1. /\ users' \in 0..Cardinality(Sessions) /\ stage' \in [Sessions -> Stages]
        /\ ContextCounted'
    BY <1>2, StageCounted DEF HidOpenDevice, Stages
  <2> QED
    BY <1>2, <2>1 DEF HidOpenDevice, SessionsType, InterfacesTypeOK, handleVars, resetVars, configVars
<1>3. CASE HidKernelDriver(h)
  <2>1. /\ users' \in 0..Cardinality(Sessions) /\ stage' \in [Sessions -> Stages]
        /\ ContextCounted'
    <3>1. Stage(h, "opened", "free") \/ Stage(h, "opened", "attached")
      BY <1>3 DEF HidKernelDriver
    <3> QED
      BY <1>3, <3>1, StageCounted DEF HidKernelDriver, Stages
  <2> QED
    BY <1>3, <2>1 DEF HidKernelDriver, SessionsType, InterfacesTypeOK, handleVars, resetVars, configVars
<1>4. ASSUME NEW from \in {"attached", "free", "claimed"}, HidGiveUp(h, from),
             UNCHANGED <<resetVars, configVars>>
      PROVE  SessionsType'
  <2>1. /\ users' \in 0..Cardinality(Sessions) /\ stage' \in [Sessions -> Stages]
        /\ ContextCounted'
    BY <1>4, StageCounted DEF HidGiveUp, Stages
  <2> QED
    BY <1>4, <2>1 DEF HidGiveUp, Unbind, SessionsType, InterfacesTypeOK, resetVars, configVars
<1>5. CASE HidDetach(h)
  <2>1. CASE HidGiveUp(h, "attached")
    BY <1>4, <1>5, <2>1 DEF HidDetach
  <2>2. CASE Stage(h, "attached", "free") /\ Unbind({0}) /\ UNCHANGED <<users, claimed>>
    <3>1. /\ users' \in 0..Cardinality(Sessions) /\ stage' \in [Sessions -> Stages]
          /\ ContextCounted'
      BY <2>2, StageCounted DEF Stages
    <3> QED
      BY <1>5, <2>2, <3>1 DEF HidDetach, Unbind, SessionsType, InterfacesTypeOK, resetVars, configVars
  <2> QED
    BY <1>5, <2>1, <2>2 DEF HidDetach
<1>6. CASE HidClaim(h)
  <2>1. CASE HidGiveUp(h, "free")
    BY <1>4, <1>6, <2>1 DEF HidClaim
  <2>2. CASE /\ Stage(h, "free", "claimed") /\ UNCHANGED users
             /\ claimed' = [claimed EXCEPT ![h] = @ \union {0}]
             /\ bound' = [bound EXCEPT ![0] = h]
    <3>1. /\ users' \in 0..Cardinality(Sessions) /\ stage' \in [Sessions -> Stages]
          /\ ContextCounted'
      BY <2>2, StageCounted DEF Stages
    <3> QED
      BY <1>6, <2>2, <3>1, InterfacesAssumption
      DEF HidClaim, SessionsType, InterfacesTypeOK, resetVars, configVars
  <2> QED
    BY <1>6, <2>1, <2>2 DEF HidClaim
<1>7. CASE HidClose(h)
  BY <1>4, <1>7 DEF HidClose
<1> QED
  BY <1>1, <1>2, <1>3, <1>5, <1>6, <1>7 DEF HidSession

LEMMA HandleCallType ==
  ASSUME SessionsType, NEW h \in Sessions, HandleCall(h)
  PROVE  SessionsType'
<1> USE DEF SessionsType, InterfacesTypeOK, ContextCounted
<1>1. ASSUME NEW i \in Ifaces, ClaimInterface(h, i) PROVE SessionsType'
  BY <1>1 DEF ClaimInterface, resetVars, configVars
<1>2. ASSUME NEW i \in Ifaces, ReleaseInterface(h, i) PROVE SessionsType'
  BY <1>2 DEF ReleaseInterface, Unbind, resetVars, configVars
<1>3. ASSUME NEW i \in Ifaces, CheckInterface(h, i) PROVE SessionsType'
  BY <1>3 DEF CheckInterface, handleVars, configVars
<1>4. CASE SelectSetting(h)
  BY <1>4 DEF SelectSetting, configVars
<1>5. CASE ResetDevice(h)
  BY <1>5 DEF ResetDevice, handleVars, configVars
<1>6. CASE ResetReleases(h)
  BY <1>6 DEF ResetReleases, Unbind, configVars
<1>7. CASE ResetReclaims(h)
  BY <1>7 DEF ResetReclaims, Reclaims, handleVars, configVars
<1>8. ASSUME NEW c \in Configs, SetConfiguration(h, c) PROVE SessionsType'
  <2>1. bound' \in [Ifaces -> Sessions \union {"none", "kernel"}]
    BY <1>8, NotBound DEF SetConfiguration
  <2> QED
    BY <1>8, <2>1 DEF SetConfiguration, resetVars
<1> QED
  BY <1>1, <1>2, <1>3, <1>4, <1>5, <1>6, <1>7, <1>8 DEF HandleCall

(* For any finite set of sessions, whatever goes wrong: the default context *)
(* has as many users as there are sessions between HID_Open() and           *)
(* HID_Close(), on every path through them, and all else keeps its type.    *)
THEOREM InterfacesTyped ==
  IsFiniteSet(Sessions) => (InterfacesSpec => [](InterfacesTypeOK /\ ContextCounted))
<1> SUFFICES ASSUME IsFiniteSet(Sessions)
             PROVE  InterfacesSpec => [](InterfacesTypeOK /\ ContextCounted)
  OBVIOUS
<1>1. InterfacesInit => SessionsType
  BY SessionsInitType
<1>2. SessionsType /\ [InterfacesNext]_ifaceVars => SessionsType'
  <2> SUFFICES ASSUME SessionsType, [InterfacesNext]_ifaceVars PROVE SessionsType'
    OBVIOUS
  <2>1. ASSUME NEW i \in Ifaces, AttachKernelDriver(i) PROVE SessionsType'
    BY <2>1 DEF AttachKernelDriver, resetVars, configVars, SessionsType, InterfacesTypeOK, ContextCounted
  <2>2. CASE UNCHANGED ifaceVars
    BY <2>2 DEF ifaceVars, handleVars, resetVars, configVars, SessionsType, InterfacesTypeOK, ContextCounted
  <2> QED
    BY <2>1, <2>2, StageType, HandleCallType DEF InterfacesNext
<1>3. SessionsType => InterfacesTypeOK /\ ContextCounted
  BY DEF SessionsType
<1> QED
  BY <1>1, <1>2, <1>3, PTL DEF InterfacesSpec

-----------------------------------------------------------------------------
(* The condition variable of the Windows threads layer (WindowsThreads.tla) *)

(* The mutex has an owner exactly while it is held.                        *)
MutexInv == owner = "nobody" <=> depth = 0

(* The entries on cond->waiters are those of the threads inside            *)
(* usbi_cond_intwait(), and a broadcast has only called such threads.      *)
WaitersInv ==
  /\ waiters = {t \in Threads : place[t] # "running"}
  /\ called \subseteq waiters

ThreadsInv == ThreadsTypeOK /\ MutexInv /\ WaitersInv /\ BroadcastReaches

LEMMA ThreadsInitInv == ThreadsInit => ThreadsInv
  BY ThreadsAssumption DEF ThreadsInit, ThreadsInv, ThreadsTypeOK, MutexInv, WaitersInv, BroadcastReaches

LEMMA MutexCalls ==
  ASSUME ThreadsInv, NEW t \in Threads, MutexLock(t) \/ MutexUnlock(t)
  PROVE  ThreadsInv'
  BY ThreadsAssumption
  DEF ThreadsInv, ThreadsTypeOK, MutexInv, WaitersInv, BroadcastReaches, MutexLock, MutexUnlock, Acquire, Release

(* Around the wait itself the mutex is not touched.                        *)
LEMMA EventCalls ==
  ASSUME ThreadsInv, NEW t \in Threads, FallAsleep(t) \/ Wake(t) \/ TimeOut(t)
  PROVE  ThreadsInv'
  BY ThreadsAssumption
  DEF ThreadsInv, ThreadsTypeOK, MutexInv, WaitersInv, BroadcastReaches, FallAsleep, Wake, TimeOut, Move

LEMMA CondWaitInv ==
  ASSUME ThreadsInv, NEW t \in Threads, CondWait(t)
  PROVE  ThreadsInv'
  BY ThreadsAssumption
  DEF ThreadsInv, ThreadsTypeOK, MutexInv, WaitersInv, BroadcastReaches, CondWait, Release, Move

LEMMA ReturnInv ==
  ASSUME ThreadsInv, NEW t \in Threads, Return(t)
  PROVE  ThreadsInv'
  BY ThreadsAssumption
  DEF ThreadsInv, ThreadsTypeOK, MutexInv, WaitersInv, BroadcastReaches, Return, Acquire, Move

LEMMA BroadcastInv ==
  ASSUME ThreadsInv, NEW t \in Threads, CondBroadcast(t)
  PROVE  ThreadsInv'
  BY ThreadsAssumption
  DEF ThreadsInv, ThreadsTypeOK, MutexInv, WaitersInv, BroadcastReaches, CondBroadcast, SetEvents

LEMMA ThreadsStepInv == ThreadsInv /\ [ThreadsNext]_condVars => ThreadsInv'
<1> SUFFICES ASSUME ThreadsInv, [ThreadsNext]_condVars PROVE ThreadsInv'
  OBVIOUS
<1>1. CASE CondDestroy
  BY <1>1 DEF CondDestroy, ThreadsInv, ThreadsTypeOK, MutexInv, WaitersInv, BroadcastReaches
<1>2. CASE \E t \in Threads : ThreadSteps(t)
  <2> PICK t \in Threads : ThreadSteps(t)
    BY <1>2
  <2> QED
    BY MutexCalls, EventCalls, CondWaitInv, ReturnInv, BroadcastInv DEF ThreadSteps
<1>3. CASE UNCHANGED condVars
  BY <1>3 DEF condVars, ThreadsInv, ThreadsTypeOK, MutexInv, WaitersInv, BroadcastReaches
<1> QED
  BY <1>1, <1>2, <1>3 DEF ThreadsNext

LEMMA ThreadsInvariant == ThreadsSpec => []ThreadsInv
<1>1. ThreadsInv /\ [ThreadsNext]_condVars => ThreadsInv'
  BY ThreadsStepInv
<1> QED
  BY ThreadsInitInv, <1>1, PTL DEF ThreadsSpec

(* A broadcast reaches every thread that has begun to wait, also between   *)
(* its release of the mutex and its sleep (usbi_cond_broadcast() and       *)
(* usbi_cond_intwait()).                                                   *)
THEOREM BroadcastsReach == ThreadsSpec => []BroadcastReaches
<1>1. ThreadsInv => BroadcastReaches
  BY DEF ThreadsInv
<1> QED
  BY ThreadsInvariant, <1>1, PTL

(* The state of the mutex and the condition variable has its type.         *)
THEOREM ThreadsTypeCorrect == ThreadsSpec => []ThreadsTypeOK
<1>1. ThreadsInv => ThreadsTypeOK
  BY DEF ThreadsInv
<1> QED
  BY ThreadsInvariant, <1>1, PTL

-----------------------------------------------------------------------------
(* The timer thread (WindowsClock.tla)                                     *)

(* Without a context nobody asks for the time, and the timer thread runs   *)
(* only until it has been joined; it ends with no request left.            *)
StoppedInv ==
  /\ usage = -1 => \A c \in Clients : client[c] = "idle"
  /\ usage = -1 /\ ~closing => timer = "none"
  /\ timer = "none" => usage = -1 /\ count = 0
  /\ quit => usage = -1

GrantedInv == timer # "release" => granted = 0

(* There is an answer to come for each client that asks, and at most one   *)
(* more for each time one has asked again.                                 *)
AnswersInv ==
  /\ Cardinality(Asking) <= responses + granted + count
  /\ responses + granted + count <= Cardinality(Asking) + retries

(* The request event is reset only before the count is tested again.       *)
WakesInv ==
  timer \in {"wait", "release"} /\ count > 0 =>
    request \/ \E c \in Clients : client[c] = "counted"

ClockInv == ClockTypeOK /\ StoppedInv /\ GrantedInv /\ AnswersInv /\ WakesInv

-----------------------------------------------------------------------------
LEMMA ClientsCounted ==
  ASSUME NEW S \in SUBSET Clients
  PROVE  /\ IsFiniteSet(S) /\ Cardinality(S) \in Nat
         /\ Cardinality(Clients) \in Nat /\ Cardinality(S) <= Cardinality(Clients)
  BY ClockAssumption, FS_Subset, FS_CardinalityType

(* One client begins to ask, or has its answer.                            *)
LEMMA OneMore ==
  ASSUME NEW S \in SUBSET Clients, NEW T \in SUBSET Clients, NEW c \in Clients \ S, T = S \union {c}
  PROVE  Cardinality(T) = Cardinality(S) + 1
  BY ClientsCounted, FS_AddElement

LEMMA OneLess ==
  ASSUME NEW S \in SUBSET Clients, NEW T \in SUBSET Clients, NEW c \in S, T = S \ {c}
  PROVE  Cardinality(T) = Cardinality(S) - 1
  BY ClientsCounted, FS_RemoveElement

LEMMA ClockInitInv == ClockInit => ClockInv
<1> SUFFICES ASSUME ClockInit PROVE ClockInv
  OBVIOUS
<1>1. Asking = {}
  BY DEF ClockInit, Asking
<1>2. Cardinality(Asking) = 0
  BY <1>1, FS_EmptySet
<1>3. count = 0 /\ granted = 0 /\ responses = 0 /\ retries = 0
  BY DEF ClockInit
<1>4. AnswersInv
  BY <1>2, <1>3 DEF AnswersInv
<1>5. ClockTypeOK
  <2>1. /\ MaxContexts \in Nat \ {0} /\ MaxTimerSemaphores \in Nat /\ MaxRetries \in Nat
    BY ClockAssumption
  <2>2. -1 \in -1..(MaxContexts - 1) /\ 0 \in 0..MaxTimerSemaphores /\ 0 \in 0..MaxRetries
    BY <2>1
  <2> QED
    BY <2>2 DEF ClockInit, ClockTypeOK
<1>6. StoppedInv /\ GrantedInv /\ WakesInv
  BY DEF ClockInit, StoppedInv, GrantedInv, WakesInv
<1> QED
  BY <1>4, <1>5, <1>6 DEF ClockInv

LEMMA ContextsInv ==
  ASSUME ClockInv, WindowsInit \/ WindowsExit \/ ThreadJoined
  PROVE  ClockInv'
<1>1. ClockTypeOK /\ StoppedInv /\ GrantedInv /\ AnswersInv /\ WakesInv
  BY DEF ClockInv
<1>2. Asking' = Asking
  BY DEF Asking, WindowsInit, WindowsExit, ThreadJoined
<1>3. Cardinality(Asking)' = Cardinality(Asking) /\ Cardinality(Asking) \in Nat
  BY <1>2, ClientsCounted DEF Asking
<1>4. ClockTypeOK'
  <2>1. MaxContexts \in Nat \ {0} /\ MaxTimerSemaphores \in Nat /\ usage \in -1..(MaxContexts - 1)
    BY <1>1, ClockAssumption DEF ClockTypeOK
  <2>2. usage' \in -1..(MaxContexts - 1) /\ 0 \in 0..MaxTimerSemaphores
    BY <2>1 DEF WindowsInit, WindowsExit, ThreadJoined
  <2> QED
    BY <1>1, <2>2 DEF ClockTypeOK, WindowsInit, WindowsExit, ThreadJoined
<1>5. StoppedInv' /\ GrantedInv' /\ WakesInv'
  <2>1. usage \in Int
    BY <1>1 DEF ClockTypeOK
  <2>2. CASE WindowsInit
    <3>1. usage' # -1
      BY <2>1, <2>2, <1>1, ClockAssumption DEF WindowsInit, ClockTypeOK
    <3>2. timer' # "none"
      BY <1>1, <2>2, <3>1 DEF WindowsInit, StoppedInv
    <3>3. ~quit'
      BY <1>1, <2>2 DEF WindowsInit, StoppedInv
    <3>4. StoppedInv' /\ GrantedInv'
      BY <1>1, <2>2, <3>1, <3>2, <3>3 DEF WindowsInit, StoppedInv, GrantedInv
    <3>5. WakesInv'
      BY <1>1, <2>2 DEF WindowsInit, StoppedInv, WakesInv
    <3> QED
      BY <3>4, <3>5
  <2>3. CASE WindowsExit
    <3>1. (usage = 0 <=> usage' = -1) /\ usage # -1
      BY <2>1, <2>3 DEF WindowsExit
    <3>2. StoppedInv' /\ GrantedInv' /\ WakesInv'
      BY <1>1, <2>3, <3>1 DEF WindowsExit, StoppedInv, GrantedInv, WakesInv
    <3> QED
      BY <3>2
  <2>4. CASE ThreadJoined
    BY <1>1, <2>4 DEF ThreadJoined, StoppedInv, GrantedInv, WakesInv
  <2> QED
    BY <2>2, <2>3, <2>4
<1>6. \/ UNCHANGED <<count, granted, responses, retries>>
      \/ /\ UNCHANGED <<count, granted, retries>> /\ responses' = 0
         /\ usage = -1 /\ ~closing
  BY DEF WindowsInit, WindowsExit, ThreadJoined
<1>7. usage = -1 /\ ~closing => Cardinality(Asking) = 0 /\ count = 0 /\ granted = 0
  <2> SUFFICES ASSUME usage = -1, ~closing PROVE Cardinality(Asking) = 0 /\ count = 0 /\ granted = 0
    OBVIOUS
  <2>1. Asking = {} /\ count = 0 /\ granted = 0
    BY <1>1 DEF StoppedInv, GrantedInv, Asking
  <2> QED
    BY <2>1, FS_EmptySet
<1>8. count \in Nat /\ granted \in Nat /\ responses \in Nat /\ retries \in Nat
  BY <1>1 DEF ClockTypeOK
<1>9. AnswersInv'
  <2>1. CASE UNCHANGED <<count, granted, responses, retries>>
    BY <1>1, <1>3, <2>1 DEF AnswersInv
  <2>2. CASE /\ UNCHANGED <<count, granted, retries>> /\ responses' = 0
             /\ usage = -1 /\ ~closing
    BY <1>3, <1>7, <1>8, <2>2 DEF AnswersInv
  <2> QED
    BY <1>6, <2>1, <2>2
<1> QED
  BY <1>4, <1>5, <1>9 DEF ClockInv

(* MAX_TIMER_SEMAPHORES is enough for every client, and for each answer    *)
(* that came late.                                                         *)
RoomForAnswers == Cardinality(Clients) + MaxRetries <= MaxTimerSemaphores

LEMMA TimerInv ==
  ASSUME RoomForAnswers, ClockInv, TimerSteps
  PROVE  ClockInv'
<1>1. ClockTypeOK /\ StoppedInv /\ GrantedInv /\ AnswersInv /\ WakesInv
  BY DEF ClockInv
<1>2. Asking' = Asking /\ UNCHANGED <<usage, closing, quit, client, retries>>
  BY DEF Asking, TimerSteps, TimerWakes, TimerTests, TimerResets, TimerRetests, TimerReads,
         TimerExchanges, TimerReleases
<1>3. Cardinality(Asking)' = Cardinality(Asking) /\ Cardinality(Asking) \in Nat
      /\ Cardinality(Clients) \in Nat /\ Cardinality(Asking) <= Cardinality(Clients)
  BY <1>2, ClientsCounted DEF Asking
<1>4. /\ count \in Nat /\ granted \in Nat /\ responses \in Nat /\ retries \in 0..MaxRetries
      /\ MaxRetries \in Nat /\ MaxTimerSemaphores \in Nat
  BY <1>1, ClockAssumption DEF ClockTypeOK
<1>5. responses + granted <= MaxTimerSemaphores
  BY <1>1, <1>3, <1>4 DEF RoomForAnswers, AnswersInv
<1>6. CASE TimerWakes
  <2>1. UNCHANGED <<count, granted, responses, request>>
    BY <1>6 DEF TimerWakes
  <2>2. AnswersInv'
    BY <1>1, <1>2, <1>3, <2>1 DEF AnswersInv
  <2>3. ClockTypeOK' /\ StoppedInv' /\ GrantedInv' /\ WakesInv'
    BY <1>1, <1>2, <1>6 DEF ClockTypeOK, StoppedInv, GrantedInv, WakesInv, TimerWakes, Timer
  <2> QED
    BY <2>2, <2>3 DEF ClockInv
<1>7. CASE TimerTests \/ TimerResets \/ TimerRetests \/ TimerReads
  <2>1. UNCHANGED <<count, granted, responses>>
    BY <1>7 DEF TimerTests, TimerResets, TimerRetests, TimerReads
  <2>2. AnswersInv'
    BY <1>1, <1>2, <1>3, <2>1 DEF AnswersInv
  <2>3. timer # "none" /\ timer \notin {"wait", "release"}
    BY <1>7 DEF TimerTests, TimerResets, TimerRetests, TimerReads, Timer
  <2>4. timer' \in {"wait", "reset", "retest", "read", "exchange"} /\ (timer' = "wait" => count = 0)
    BY <1>7 DEF TimerTests, TimerResets, TimerRetests, TimerReads, Timer
  <2>5. request' \in BOOLEAN
    BY <1>1, <1>7 DEF ClockTypeOK, TimerTests, TimerResets, TimerRetests, TimerReads
  <2>6. ClockTypeOK'
    BY <1>1, <1>2, <2>1, <2>4, <2>5 DEF ClockTypeOK
  <2>7. StoppedInv' /\ GrantedInv'
    BY <1>1, <1>2, <2>1, <2>3, <2>4 DEF StoppedInv, GrantedInv
  <2>8. ~(timer' \in {"wait", "release"} /\ count' > 0)
    <3>1. timer' = "wait" => ~(count' > 0)
      BY <1>4, <2>1, <2>4
    <3> QED
      BY <2>4, <3>1
  <2>9. WakesInv'
    BY <2>8 DEF WakesInv
  <2> QED
    BY <2>2, <2>6, <2>7, <2>9 DEF ClockInv
<1>8. CASE TimerExchanges
  <2>1. granted = 0 /\ granted' = count /\ count' = 0 /\ responses' = responses
    BY <1>1, <1>8 DEF GrantedInv, TimerExchanges, Timer
  <2>2. AnswersInv'
    BY <1>1, <1>2, <1>3, <1>4, <2>1 DEF AnswersInv
  <2>3. ClockTypeOK' /\ StoppedInv' /\ GrantedInv' /\ WakesInv'
    BY <1>1, <1>2, <1>8 DEF ClockTypeOK, StoppedInv, GrantedInv, WakesInv, TimerExchanges, Timer
  <2> QED
    BY <2>2, <2>3 DEF ClockInv
<1>9. CASE TimerReleases
  <2>1. responses' = responses + granted /\ granted' = 0 /\ count' = count
    BY <1>4, <1>5, <1>9 DEF TimerReleases
  <2>2. AnswersInv'
    BY <1>1, <1>2, <1>3, <1>4, <2>1 DEF AnswersInv
  <2>3. responses' \in 0..MaxTimerSemaphores
    BY <1>4, <1>5, <2>1
  <2>4. ClockTypeOK' /\ StoppedInv' /\ GrantedInv' /\ WakesInv'
    BY <1>1, <1>2, <1>9, <2>1, <2>3
    DEF ClockTypeOK, StoppedInv, GrantedInv, WakesInv, TimerReleases, Timer
  <2> QED
    BY <2>2, <2>4 DEF ClockInv
<1> QED
  BY <1>6, <1>7, <1>8, <1>9 DEF TimerSteps

LEMMA ClientInv ==
  ASSUME ClockInv, NEW c \in Clients, ClientSteps(c)
  PROVE  ClockInv'
<1>1. ClockTypeOK /\ StoppedInv /\ GrantedInv /\ AnswersInv /\ WakesInv
  BY DEF ClockInv
<1>2. Asking \in SUBSET Clients /\ Asking' \in SUBSET Clients
  BY DEF Asking
<1>3. Cardinality(Asking) \in Nat /\ Cardinality(Asking') \in Nat
  BY <1>2, ClientsCounted
<1>4. /\ count \in Nat /\ granted \in Nat /\ responses \in Nat /\ retries \in Nat
      /\ MaxRetries \in Nat /\ MaxTimerSemaphores \in Nat
  BY <1>1, ClockAssumption DEF ClockTypeOK
<1>5. CASE ClientCounts(c)
  <2>1. Asking' = Asking \union {c} /\ c \notin Asking
    BY <1>1, <1>5 DEF ClientCounts, Client, Asking, ClockTypeOK
  <2>2. Cardinality(Asking') = Cardinality(Asking) + 1
    BY <1>2, <2>1, OneMore
  <2>3. count' = count + 1 /\ UNCHANGED <<granted, responses, retries>>
    BY <1>5 DEF ClientCounts
  <2>4. AnswersInv'
    BY <1>1, <1>3, <1>4, <2>2, <2>3 DEF AnswersInv
  <2>5. ClockTypeOK' /\ StoppedInv' /\ GrantedInv' /\ WakesInv'
    BY <1>1, <1>5, <2>3
    DEF ClockTypeOK, StoppedInv, GrantedInv, WakesInv, ClientCounts, Client
  <2> QED
    BY <2>4, <2>5 DEF ClockInv
<1>6. CASE ClientSignals(c)
  <2>1. Asking' = Asking /\ UNCHANGED <<count, granted, responses, retries>>
    BY <1>1, <1>6 DEF ClientSignals, Client, Asking, ClockTypeOK
  <2>2. AnswersInv'
    BY <1>1, <2>1 DEF AnswersInv
  <2>3. ClockTypeOK' /\ StoppedInv' /\ GrantedInv' /\ WakesInv'
    BY <1>1, <1>6
    DEF ClockTypeOK, StoppedInv, GrantedInv, WakesInv, ClientSignals, Client
  <2> QED
    BY <2>2, <2>3 DEF ClockInv
<1>7. CASE ClientTakes(c)
  <2>1. Asking' = Asking \ {c} /\ c \in Asking
    BY <1>1, <1>7 DEF ClientTakes, Client, Asking, ClockTypeOK
  <2>2. Cardinality(Asking') = Cardinality(Asking) - 1
    BY <1>2, <2>1, OneLess
  <2>3. responses > 0 /\ responses' = responses - 1 /\ UNCHANGED <<count, granted, retries>>
    BY <1>7 DEF ClientTakes
  <2>4. AnswersInv'
    BY <1>1, <1>3, <1>4, <2>2, <2>3 DEF AnswersInv
  <2>5. responses' \in 0..MaxTimerSemaphores
    BY <1>1, <1>4, <2>3 DEF ClockTypeOK
  <2>6. ClockTypeOK' /\ StoppedInv' /\ GrantedInv' /\ WakesInv'
    BY <1>1, <1>7, <2>3, <2>5
    DEF ClockTypeOK, StoppedInv, GrantedInv, WakesInv, ClientTakes, Client
  <2> QED
    BY <2>4, <2>6 DEF ClockInv
<1>8. CASE ClientRetries(c)
  <2>1. Asking' = Asking
    BY <1>1, <1>8 DEF ClientRetries, Client, Asking, ClockTypeOK
  <2>2. /\ retries < MaxRetries /\ retries' = retries + 1 /\ count' = count + 1
        /\ UNCHANGED <<granted, responses>>
    BY <1>8 DEF ClientRetries
  <2>3. AnswersInv'
    BY <1>1, <1>3, <1>4, <2>1, <2>2 DEF AnswersInv
  <2>4. retries' \in 0..MaxRetries
    BY <1>4, <2>2
  <2>5. ClockTypeOK' /\ StoppedInv' /\ GrantedInv' /\ WakesInv'
    BY <1>1, <1>8, <2>2, <2>4
    DEF ClockTypeOK, StoppedInv, GrantedInv, WakesInv, ClientRetries, Client
  <2> QED
    BY <2>3, <2>5 DEF ClockInv
<1>9. CASE ClientCopies(c)
  <2>1. Asking' = Asking /\ UNCHANGED <<count, granted, responses, retries>>
    BY <1>1, <1>9 DEF ClientCopies, Client, Asking, ClockTypeOK
  <2>2. AnswersInv'
    BY <1>1, <2>1 DEF AnswersInv
  <2>3. ClockTypeOK' /\ StoppedInv' /\ GrantedInv' /\ WakesInv'
    BY <1>1, <1>9
    DEF ClockTypeOK, StoppedInv, GrantedInv, WakesInv, ClientCopies, Client
  <2> QED
    BY <2>2, <2>3 DEF ClockInv
<1> QED
  BY <1>5, <1>6, <1>7, <1>8, <1>9 DEF ClientSteps

LEMMA ClockStepInv == RoomForAnswers /\ ClockInv /\ [ClockNext]_clockVars => ClockInv'
<1> SUFFICES ASSUME RoomForAnswers, ClockInv, [ClockNext]_clockVars PROVE ClockInv'
  OBVIOUS
<1>1. CASE WindowsInit \/ WindowsExit \/ ThreadJoined
  BY <1>1, ContextsInv
<1>2. CASE TimerSteps
  BY <1>2, TimerInv
<1>3. CASE \E c \in Clients : ClientSteps(c)
  BY <1>3, ClientInv
<1>4. CASE UNCHANGED clockVars
  BY <1>4
  DEF clockVars, ClockInv, ClockTypeOK, StoppedInv, GrantedInv, AnswersInv, WakesInv, Asking
<1> QED
  BY <1>1, <1>2, <1>3, <1>4 DEF ClockNext

LEMMA ClockInvImplies == ClockInv => RequestsAttended
<1> SUFFICES ASSUME ClockInv PROVE RequestsAttended
  OBVIOUS
<1>1. AnswersInv /\ WakesInv
  BY DEF ClockInv
<1>2. timer = "wait" /\ count > 0 /\ (\A c \in Clients : client[c] # "counted") => request
  BY <1>1 DEF WakesInv
<1> QED
  BY <1>1, <1>2 DEF RequestsAttended, AnswersInv

(* For any number of clients of the clock: every client that waits in      *)
(* windows_clock_gettime_threaded() has an answer given or to come from    *)
(* the timer thread, and a timer thread asleep is about to be woken for    *)
(* it, through late answers, retries and contexts that come and go.        *)
THEOREM RequestsAreAttended ==
  ASSUME RoomForAnswers
  PROVE  ClockSpec => []RequestsAttended
<1>1. ClockInit => ClockInv
  BY ClockInitInv
<1>2. ClockInv /\ [ClockNext]_clockVars => ClockInv'
  BY ClockStepInv
<1>3. ClockInv => RequestsAttended
  BY ClockInvImplies
<1> QED
  BY <1>1, <1>2, <1>3, PTL DEF ClockSpec

(* The timer thread and its clients: the semaphore counts no more answers  *)
(* than MAX_TIMER_SEMAPHORES, and all else keeps its type.                 *)
THEOREM ClockTyped ==
  ASSUME RoomForAnswers
  PROVE  ClockSpec => []ClockTypeOK
<1>1. ClockInit => ClockInv
  BY ClockInitInv
<1>2. ClockInv /\ [ClockNext]_clockVars => ClockInv'
  BY ClockStepInv
<1>3. ClockInv => ClockTypeOK
  BY DEF ClockInv
<1> QED
  BY <1>1, <1>2, <1>3, PTL DEF ClockSpec

-----------------------------------------------------------------------------
(* The poll set of the Windows backend (WindowsTransfers.tla)              *)

(* What of the type the proof needs.                                       *)
WinTypes ==
  /\ winLife \in [Flights -> {"idle", "listed", "creating", "started", "flying"}]
  /\ fd \in [Flights -> 0..MaxFds]
  /\ io \in [Fds -> Results \union {"free", "pending"}]
  /\ purpose \in [Fds -> Flights \union {"none"}]
  /\ pollset \in Seq(Fds)
  /\ handler \in {"idle", "polling", "handling", "freeing", "completing"}

(* The transfer has a descriptor: it has been created and not yet freed.   *)
Busy(x) == winLife[x] \in {"started", "flying"} /\ ~(matched = x /\ handler = "completing")

(* A descriptor in use and the transfer that has it name each other; the   *)
(* number a transfer was left with from an earlier submission is forgotten *)
(* before it is given one.                                                 *)
OwnersInv ==
  /\ \A f \in Fds : io[f] = "free" <=> purpose[f] = "none"
  /\ \A x \in Flights : Busy(x) => fd[x] \in Fds /\ purpose[fd[x]] = x
  /\ \A f \in Fds : \A x \in Flights : purpose[f] = x => Busy(x) /\ fd[x] = f
  /\ \A x \in Flights : winLife[x] = "creating" => fd[x] \notin Fds

(* Polled are, once each, the descriptors of the transfers in flight.      *)
PolledInv ==
  /\ IsInjective(pollset)
  /\ \A f \in Fds : f \in Range(pollset) <=>
       \E x \in Flights : purpose[f] = x /\ winLife[x] = "flying" /\ ~Handled(x)

(* The handler's copies name descriptors that are still polled: nobody     *)
(* else takes one out.                                                     *)
WinHandlerInv ==
  /\ handler = "polling" => watched \subseteq Range(pollset)
  /\ handler \in {"handling", "freeing", "completing"} => signalled \subseteq Range(pollset)
  /\ handler \in {"freeing", "completing"} => matched \in Flights /\ winLife[matched] = "flying"
  /\ ~lost

WinInv == WinTypes /\ OwnersInv /\ PolledInv /\ WinHandlerInv

-----------------------------------------------------------------------------
LEMMA WinNames ==
  /\ 0 \notin Fds /\ 0 \in 0..MaxFds /\ Fds \subseteq 0..MaxFds
  /\ "none" \notin Flights /\ Results = {"done", "stalled", "aborted"}
<1>1. MaxFds \in Nat /\ "none" \notin Flights
  BY WinAssumption DEF Flights
<1>2. 0 \notin 1..MaxFds /\ 0 \in 0..MaxFds /\ 1..MaxFds \subseteq 0..MaxFds
  BY <1>1
<1> QED
  BY <1>1, <1>2 DEF Fds, Results

LEMMA WinInitInv == WinInit => WinInv
<1> SUFFICES ASSUME WinInit PROVE WinInv
  OBVIOUS
<1>1. <<>> \in Seq(Fds) /\ Range(<<>>) = {} /\ IsInjective(<<>>)
  BY DEF Range, IsInjective
<1>2. WinTypes
  BY <1>1, WinNames DEF WinInit, WinTypes
<1>3. OwnersInv /\ PolledInv /\ WinHandlerInv
  BY <1>1, WinNames DEF WinInit, OwnersInv, PolledInv, WinHandlerInv, Busy
<1> QED
  BY <1>2, <1>3 DEF WinInv

(* Steps that change neither who has a descriptor nor what is polled.      *)
LEMMA OwnersKept ==
  ASSUME WinInv, UNCHANGED <<purpose, pollset, matched, handler, signalled, watched, lost>>,
         io' \in [Fds -> Results \union {"free", "pending"}],
         \A f \in Fds : io'[f] = "free" <=> io[f] = "free",
         winLife' \in [Flights -> {"idle", "listed", "creating", "started", "flying"}],
         fd' \in [Flights -> 0..MaxFds],
         \A x \in Flights :
           \/ winLife'[x] = winLife[x] /\ fd'[x] = fd[x]
           \/ /\ winLife[x] \in {"idle", "listed", "creating"}
              /\ winLife'[x] \in {"idle", "listed"} \/ (winLife'[x] = "creating" /\ fd'[x] = 0)
  PROVE  WinInv'
<1>1. WinTypes /\ OwnersInv /\ PolledInv /\ WinHandlerInv
  BY DEF WinInv
<1>2. WinTypes'
  BY <1>1 DEF WinTypes
<1>3. \A x \in Flights : /\ Busy(x)' = Busy(x) /\ (Busy(x) => fd'[x] = fd[x])
                         /\ winLife'[x] = "flying" <=> winLife[x] = "flying"
                         /\ Handled(x)' = Handled(x)
  BY DEF Busy, Handled
<1>4. OwnersInv'
  BY <1>1, <1>3, WinNames DEF OwnersInv
<1>5. PolledInv'
  BY <1>1, <1>3 DEF PolledInv
<1>6. WinHandlerInv'
  BY <1>1, <1>3 DEF WinHandlerInv
<1> QED
  BY <1>2, <1>4, <1>5, <1>6 DEF WinInv

LEMMA SubmitBeginsInv ==
  ASSUME WinInv, NEW x \in Flights, List(x) \/ Begin(x) \/ StartFails(x)
  PROVE  WinInv'
<1>1. WinTypes
  BY DEF WinInv
<1>2. UNCHANGED <<io, purpose, pollset, matched, handler, signalled, watched, lost>>
  BY DEF List, Begin, StartFails, fdVars, pollVars
<1>3. winLife' \in [Flights -> {"idle", "listed", "creating", "started", "flying"}]
  BY <1>1 DEF WinTypes, List, Begin, StartFails, Step
<1>4. fd' \in [Flights -> 0..MaxFds]
  BY <1>1, WinNames DEF WinTypes, List, Begin, StartFails, ResetFd
<1>5. \A y \in Flights :
        \/ winLife'[y] = winLife[y] /\ fd'[y] = fd[y]
        \/ /\ winLife[y] \in {"idle", "listed", "creating"}
           /\ winLife'[y] \in {"idle", "listed"} \/ (winLife'[y] = "creating" /\ fd'[y] = 0)
  <2>1. CASE List(x)
    BY <1>1, <2>1 DEF WinTypes, List, Step
  <2>2. CASE Begin(x)
    <3>1. fd' = [fd EXCEPT ![x] = 0] /\ winLife[x] = "listed"
          /\ \/ winLife' = [winLife EXCEPT ![x] = "creating"]
             \/ winLife' = [winLife EXCEPT ![x] = "idle"]
      BY <2>2 DEF Begin, ResetFd, Step
    <3> QED
      BY <1>1, <3>1 DEF WinTypes
  <2>3. CASE StartFails(x)
    BY <1>1, <2>3 DEF WinTypes, StartFails, Step
  <2> QED
    BY <2>1, <2>2, <2>3
<1>6. io' \in [Fds -> Results \union {"free", "pending"}] /\ \A f \in Fds : io'[f] = io[f]
  BY <1>1, <1>2 DEF WinTypes
<1> QED
  BY <1>2, <1>3, <1>4, <1>5, <1>6, OwnersKept

(* I/O that ends or is aborted keeps its descriptor.                       *)
LEMMA IoEndsInv ==
  ASSUME WinInv, \/ \E x \in Flights : CancelTransfer(x) \/ ExpireTransfer(x)
                 \/ \E f \in Fds : EndIo(f)
  PROVE  WinInv'
<1>1. WinTypes
  BY DEF WinInv
<1>2. UNCHANGED <<winLife, fd, purpose, pollset, matched, handler, signalled, watched, lost>>
  BY DEF CancelTransfer, ExpireTransfer, EndIo, submitVars, pollVars
<1>3. io' \in [Fds -> Results \union {"free", "pending"}] /\ \A f \in Fds : io'[f] = "free" <=> io[f] = "free"
  <2>1. CASE \E x \in Flights : CancelTransfer(x) \/ ExpireTransfer(x)
    BY <1>1, <2>1, WinNames DEF CancelTransfer, ExpireTransfer, Abort, WinTypes
  <2>2. CASE \E f \in Fds : EndIo(f)
    BY <1>1, <2>2, WinNames DEF EndIo, WinTypes
  <2> QED
    BY <2>1, <2>2
<1> QED
  BY <1>1, <1>2, <1>3, OwnersKept DEF WinTypes

LEMMA StartIoInv ==
  ASSUME WinInv, NEW x \in Flights, StartIo(x)
  PROVE  WinInv'
<1>1. WinTypes /\ OwnersInv /\ PolledInv /\ WinHandlerInv
  BY DEF WinInv
<1>2. PICK f : f = Min(FreeFds)
  OBVIOUS
<1>3. f \in Fds /\ io[f] = "free"
  <2>1. FreeFds # {} /\ FreeFds \in SUBSET Nat
    <3>1. MaxFds \in Nat
      BY WinAssumption
    <3>2. \A g \in 1..MaxFds : g \in Nat
      BY <3>1
    <3> QED
      BY <3>2 DEF StartIo, FreeFds, Fds
  <2>2. f \in FreeFds
    BY <1>2, <2>1, LeastElement
  <2> QED
    BY <2>2 DEF FreeFds
<1>4. /\ winLife[x] = "creating" /\ winLife' = [winLife EXCEPT ![x] = "started"]
      /\ io' \in {[io EXCEPT ![f] = "pending"], [io EXCEPT ![f] = "done"]}
      /\ purpose' = [purpose EXCEPT ![f] = x] /\ fd' = [fd EXCEPT ![x] = f]
      /\ UNCHANGED <<pollset, matched, handler, signalled, watched, lost>>
  BY <1>2 DEF StartIo, pollVars
<1>5. WinTypes'
  BY <1>1, <1>3, <1>4, WinNames DEF WinTypes
<1>6. /\ io'[f] # "free" /\ purpose'[f] = x /\ fd'[x] = f /\ winLife'[x] = "started"
      /\ \A g \in Fds : g # f => io'[g] = io[g] /\ purpose'[g] = purpose[g]
      /\ \A y \in Flights : y # x => fd'[y] = fd[y] /\ winLife'[y] = winLife[y]
  BY <1>1, <1>3, <1>4 DEF WinTypes
<1>7. ~(handler \in {"freeing", "completing"} /\ matched = x)
  BY <1>1, <1>4 DEF WinHandlerInv
<1>8. /\ Busy(x)' /\ ~Busy(x)
      /\ \A y \in Flights : y # x => Busy(y)' = Busy(y)
      /\ \A y \in Flights : Handled(y)' = Handled(y)
  BY <1>4, <1>6, <1>7 DEF Busy, Handled
<1>9. purpose[f] = "none" /\ \A g \in Fds : purpose[g] # x /\ purpose[g] \in Flights \union {"none"}
  BY <1>1, <1>3, <1>8, WinNames DEF OwnersInv, WinTypes
<1>10. OwnersInv'
  <2>1. \A g \in Fds : io'[g] = "free" <=> purpose'[g] = "none"
    BY <1>1, <1>6, WinNames DEF OwnersInv
  <2>2. ASSUME NEW y \in Flights, Busy(y)' PROVE fd'[y] \in Fds /\ purpose'[fd'[y]] = y
    <3>1. CASE y = x
      BY <1>3, <1>6, <3>1
    <3>2. CASE y # x
      <4>1. fd'[y] = fd[y] /\ fd[y] \in Fds /\ purpose[fd[y]] = y
        BY <1>1, <1>6, <1>8, <2>2, <3>2 DEF OwnersInv
      <4>2. fd[y] # f
        BY <1>9, <4>1, WinNames
      <4> QED
        BY <1>6, <4>1, <4>2
    <3> QED
      BY <3>1, <3>2
  <2>3. ASSUME NEW g \in Fds, NEW y \in Flights, purpose'[g] = y PROVE Busy(y)' /\ fd'[y] = g
    <3>1. CASE g = f
      BY <1>6, <1>8, <2>3, <3>1
    <3>2. CASE g # f
      <4>1. purpose[g] = y /\ y # x
        BY <1>6, <1>9, <2>3, <3>2
      <4> QED
        BY <1>1, <1>6, <1>8, <4>1 DEF OwnersInv
    <3> QED
      BY <3>1, <3>2
  <2>4. \A y \in Flights : winLife'[y] = "creating" => fd'[y] \notin Fds
    BY <1>1, <1>6 DEF OwnersInv
  <2> QED
    BY <2>1, <2>2, <2>3, <2>4 DEF OwnersInv
<1>11. PolledInv'
  <2> SUFFICES ASSUME NEW g \in Fds
               PROVE  g \in Range(pollset) <=>
                        \E y \in Flights : purpose'[g] = y /\ winLife'[y] = "flying" /\ ~Handled(y)'
    BY <1>1, <1>4 DEF PolledInv
  <2>1. CASE g = f
    BY <1>1, <1>6, <1>9, <2>1, WinNames DEF PolledInv
  <2>2. CASE g # f
    <3>1. \A y \in Flights : purpose'[g] = y => purpose[g] = y /\ winLife'[y] = winLife[y]
      BY <1>6, <1>9, <2>2
    <3>2. \A y \in Flights : purpose[g] = y => purpose'[g] = y /\ winLife'[y] = winLife[y]
      BY <1>6, <1>9, <2>2
    <3> QED
      BY <1>1, <1>8, <3>1, <3>2 DEF PolledInv
  <2> QED
    BY <2>1, <2>2
<1>12. WinHandlerInv'
  BY <1>1, <1>4, <1>6, <1>7 DEF WinHandlerInv
<1> QED
  BY <1>5, <1>10, <1>11, <1>12 DEF WinInv

LEMMA AddPollFdInv ==
  ASSUME WinInv, NEW x \in Flights, AddPollFd(x)
  PROVE  WinInv'
<1>1. WinTypes /\ OwnersInv /\ PolledInv /\ WinHandlerInv
  BY DEF WinInv
<1>2. PICK f : f = fd[x]
  OBVIOUS
<1>3. /\ winLife[x] = "started" /\ winLife' = [winLife EXCEPT ![x] = "flying"]
      /\ pollset' = Append(pollset, f)
      /\ UNCHANGED <<fd, io, purpose, matched, handler, signalled, watched, lost>>
  BY <1>2 DEF AddPollFd, Step, fdVars, pollVars
<1>4. ~(handler \in {"freeing", "completing"} /\ matched = x)
  BY <1>1, <1>3 DEF WinHandlerInv
<1>5. Busy(x) /\ f \in Fds /\ purpose[f] = x
  BY <1>1, <1>2, <1>3, <1>4 DEF Busy, OwnersInv
<1>6. f \notin Range(pollset)
  BY <1>1, <1>3, <1>5 DEF PolledInv
<1>7. pollset' \in Seq(Fds) /\ Range(pollset') = Range(pollset) \union {f} /\ IsInjective(pollset')
  BY <1>1, <1>3, <1>5, <1>6, AppendOnce DEF WinTypes, PolledInv
<1>8. winLife'[x] = "flying" /\ \A y \in Flights : y # x => winLife'[y] = winLife[y]
  BY <1>1, <1>3 DEF WinTypes
<1>9. WinTypes'
  BY <1>1, <1>3, <1>7 DEF WinTypes
<1>10. /\ \A y \in Flights : Busy(y)' = Busy(y)
       /\ \A y \in Flights : Handled(y)' = Handled(y)
  BY <1>3, <1>4, <1>8 DEF Busy, Handled
<1>11. OwnersInv'
  BY <1>1, <1>3, <1>8, <1>10 DEF OwnersInv
<1>12. \A g \in Fds : purpose[g] = x => g = f
  BY <1>1, <1>2, WinNames DEF OwnersInv
<1>13. ~Handled(x)
  BY <1>4 DEF Handled
<1>14. ASSUME NEW g \in Fds
       PROVE  g \in Range(pollset') <=>
                \E y \in Flights : purpose[g] = y /\ winLife'[y] = "flying" /\ ~Handled(y)
  <2>1. CASE g = f
    BY <1>5, <1>7, <1>8, <1>13, <2>1
  <2>2. CASE g # f
    <3>1. g \in Range(pollset') <=> g \in Range(pollset)
      BY <1>7, <2>2
    <3>2. \A y \in Flights : purpose[g] = y => winLife'[y] = winLife[y]
      BY <1>8, <1>12, <2>2
    <3> QED
      BY <1>1, <3>1, <3>2 DEF PolledInv
  <2> QED
    BY <2>1, <2>2
<1>15. PolledInv'
  BY <1>3, <1>7, <1>10, <1>14 DEF PolledInv
<1>16. WinHandlerInv'
  BY <1>1, <1>3, <1>7, <1>8 DEF WinHandlerInv
<1> QED
  BY <1>9, <1>11, <1>15, <1>16 DEF WinInv

-----------------------------------------------------------------------------
(* Before a transfer has been found the handler may look away and back.    *)
LEMMA WinPollInv ==
  ASSUME WinInv, PollStart \/ PollWakes \/ PollTimesOut
  PROVE  WinInv'
<1>1. WinTypes /\ OwnersInv /\ PolledInv /\ WinHandlerInv
  BY DEF WinInv
<1>2. UNCHANGED <<winLife, fd, io, purpose, pollset, lost>>
  BY DEF PollStart, PollWakes, PollTimesOut, submitVars, fdVars
<1>3. handler \in {"idle", "polling"} /\ handler' \in {"idle", "polling", "handling"}
  BY DEF PollStart, PollWakes, PollTimesOut
<1>4. \A x : Busy(x)' = Busy(x) /\ ~Handled(x) /\ ~Handled(x)'
  BY <1>2, <1>3 DEF Busy, Handled
<1>5. WinTypes' /\ OwnersInv' /\ PolledInv'
  BY <1>1, <1>2, <1>3, <1>4 DEF WinTypes, OwnersInv, PolledInv
<1>6. WinHandlerInv'
  <2>1. handler' = "polling" => watched' \subseteq Range(pollset)
    BY <1>1 DEF PollStart, PollWakes, PollTimesOut, WinHandlerInv
  <2>2. handler' = "handling" => signalled' \subseteq Range(pollset)
    BY <1>1 DEF PollStart, PollWakes, PollTimesOut, WinHandlerInv
  <2> QED
    BY <1>1, <1>2, <1>3, <2>1, <2>2 DEF WinHandlerInv
<1> QED
  BY <1>5, <1>6 DEF WinInv

(* No event is handled while a transfer is listed that has the number of   *)
(* its last submission, and no device is reset with transfers in flight.   *)
NothingStale == WinFaults = {}

(* An event finds the transfer whose descriptor it is of.                  *)
LEMMA MatchInv ==
  ASSUME NothingStale, WinInv, NEW f \in Fds, MatchTransfer(f)
  PROVE  WinInv'
<1>1. WinTypes /\ OwnersInv /\ PolledInv /\ WinHandlerInv
  BY DEF WinInv
<1>2. /\ handler = "handling" /\ f \in signalled /\ signalled' = signalled \ {f}
      /\ \A y \in Holders(f) : winLife[y] # "listed"
      /\ UNCHANGED <<watched, winLife, fd, io, purpose>>
  BY DEF MatchTransfer, NothingStale, submitVars, fdVars
<1>3. f \in Range(pollset) /\ purpose[f] \in Flights /\ winLife[purpose[f]] = "flying"
  BY <1>1, <1>2 DEF WinHandlerInv, PolledInv, WinTypes
<1>4. Busy(purpose[f]) /\ fd[purpose[f]] = f
  BY <1>1, <1>3, WinNames DEF OwnersInv
<1>5. purpose[f] \in Holders(f)
  BY <1>3, <1>4 DEF Holders
<1>6. PICK x : x \in Holders(f) /\ matched' = x /\ handler' = "freeing" /\ pollset' = Without(f)
               /\ lost' = lost
  BY <1>5 DEF MatchTransfer
<1>7. x \in Flights /\ fd[x] = f /\ winLife[x] \in {"creating", "started", "flying"}
  BY <1>1, <1>2, <1>6 DEF Holders, WinTypes
<1>8. purpose[f] = x
  BY <1>1, <1>2, <1>7 DEF OwnersInv, Busy
<1>9. pollset' \in Seq(Fds) /\ Range(pollset') = Range(pollset) \ {f} /\ IsInjective(pollset')
  <2>1. PICK n : n = Min(PollPlaces(f))
    OBVIOUS
  <2>2. DOMAIN pollset = 1..Len(pollset) /\ Len(pollset) \in Nat
    BY <1>1, LenProperties DEF WinTypes
  <2>3. PollPlaces(f) # {} /\ PollPlaces(f) \in SUBSET Nat
    <3>1. \A m \in 1..Len(pollset) : m \in Nat
      BY <2>2
    <3> QED
      BY <1>3, <2>2, <3>1 DEF PollPlaces, Range
  <2>4. n \in DOMAIN pollset /\ pollset[n] = f
    BY <2>1, <2>2, <2>3, LeastElement DEF PollPlaces
  <2>5. pollset' = RemoveAt(pollset, n)
    BY <1>6, <2>1, <2>3 DEF Without
  <2> QED
    BY <1>1, <2>4, <2>5, RemoveOnce DEF WinTypes, PolledInv
<1>10. WinTypes'
  BY <1>1, <1>2, <1>6, <1>9 DEF WinTypes
<1>11. /\ \A y : Busy(y)' = Busy(y)
       /\ \A y : ~Handled(y) /\ Handled(y)' = (y = x)
  BY <1>2, <1>6 DEF Busy, Handled
<1>12. OwnersInv'
  BY <1>1, <1>2, <1>11 DEF OwnersInv
<1>13. \A g \in Fds : purpose[g] = x => g = f
  BY <1>1, <1>7, WinNames DEF OwnersInv
<1>14. PolledInv'
  BY <1>1, <1>2, <1>8, <1>9, <1>11, <1>13 DEF PolledInv
<1>15. WinHandlerInv'
  BY <1>1, <1>2, <1>3, <1>6, <1>7, <1>8, <1>9 DEF WinHandlerInv
<1> QED
  BY <1>10, <1>12, <1>14, <1>15 DEF WinInv

(* usbi_free_fd(): from here on another transfer may get the number.       *)
LEMMA FreeFdInv ==
  ASSUME WinInv, FreeFd
  PROVE  WinInv'
<1>1. WinTypes /\ OwnersInv /\ PolledInv /\ WinHandlerInv
  BY DEF WinInv
<1>2. PICK x, f : x = matched /\ f = fd[matched]
  OBVIOUS
<1>3. /\ handler = "freeing" /\ handler' = "completing"
      /\ io' = [g \in Fds |-> IF g = f THEN "free" ELSE io[g]]
      /\ purpose' = [g \in Fds |-> IF g = f THEN "none" ELSE purpose[g]]
      /\ UNCHANGED <<watched, signalled, matched, winLife, fd, pollset, lost>>
  BY <1>2 DEF FreeFd, submitVars
<1>4. x \in Flights /\ winLife[x] = "flying"
  BY <1>1, <1>2, <1>3 DEF WinHandlerInv
<1>5. Busy(x) /\ f \in Fds /\ purpose[f] = x
  BY <1>1, <1>2, <1>3, <1>4 DEF Busy, OwnersInv
<1>6. WinTypes'
  BY <1>1, <1>3 DEF WinTypes
<1>7. /\ ~Busy(x)' /\ \A y : y # x => Busy(y)' = Busy(y)
      /\ \A y : Handled(y)' = Handled(y)
  BY <1>2, <1>3 DEF Busy, Handled
<1>8. \A g \in Fds : purpose[g] = x => g = f
  BY <1>1, <1>2, <1>4, WinNames DEF OwnersInv
<1>9. /\ io'[f] = "free" /\ purpose'[f] = "none"
      /\ \A g \in Fds : g # f => io'[g] = io[g] /\ purpose'[g] = purpose[g] /\ purpose[g] # x
  BY <1>3, <1>5, <1>8
<1>10. \A y \in Flights : y # x /\ Busy(y) => fd[y] # f
  BY <1>1, <1>5 DEF OwnersInv
<1>11. OwnersInv'
  <2>1. \A g \in Fds : io'[g] = "free" <=> purpose'[g] = "none"
    BY <1>1, <1>9 DEF OwnersInv
  <2>2. \A y \in Flights : Busy(y)' => fd[y] \in Fds /\ purpose'[fd[y]] = y
    BY <1>1, <1>7, <1>9, <1>10 DEF OwnersInv
  <2>3. ASSUME NEW g \in Fds, NEW y \in Flights, purpose'[g] = y PROVE Busy(y)' /\ fd[y] = g
    <3>1. g # f
      BY <1>9, <2>3, WinNames
    <3>2. purpose[g] = y /\ y # x
      BY <1>9, <2>3, <3>1
    <3> QED
      BY <1>1, <1>7, <3>2 DEF OwnersInv
  <2> QED
    BY <1>1, <1>3, <2>1, <2>2, <2>3 DEF OwnersInv
<1>12. f \notin Range(pollset)
  BY <1>1, <1>2, <1>3, <1>5 DEF PolledInv, Handled
<1>13. PolledInv'
  <2> SUFFICES ASSUME NEW g \in Fds
               PROVE  g \in Range(pollset) <=>
                        \E y \in Flights : purpose'[g] = y /\ winLife[y] = "flying" /\ ~Handled(y)'
    BY <1>1, <1>3 DEF PolledInv
  <2>1. CASE g = f
    BY <1>9, <1>12, <2>1, WinNames
  <2>2. CASE g # f
    BY <1>1, <1>7, <1>9, <2>2 DEF PolledInv
  <2> QED
    BY <2>1, <2>2
<1>14. WinHandlerInv'
  BY <1>1, <1>3 DEF WinHandlerInv
<1> QED
  BY <1>6, <1>11, <1>13, <1>14 DEF WinInv

LEMMA CompleteInv ==
  ASSUME WinInv, CompleteFlight
  PROVE  WinInv'
<1>1. WinTypes /\ OwnersInv /\ PolledInv /\ WinHandlerInv
  BY DEF WinInv
<1>2. PICK x : x = matched
  OBVIOUS
<1>3. /\ handler = "completing" /\ handler' \in {"idle", "handling"}
      /\ winLife' = [winLife EXCEPT ![x] = "idle"]
      /\ UNCHANGED <<watched, signalled, matched, fd, io, purpose, pollset, lost>>
  BY <1>2 DEF CompleteFlight, fdVars
<1>4. x \in Flights /\ ~Busy(x)
  BY <1>1, <1>2, <1>3 DEF WinHandlerInv, Busy
<1>5. winLife'[x] = "idle" /\ \A y \in Flights : y # x => winLife'[y] = winLife[y]
  BY <1>1, <1>3, <1>4 DEF WinTypes
<1>6. WinTypes'
  BY <1>1, <1>3 DEF WinTypes
<1>7. /\ ~Busy(x)' /\ \A y \in Flights : y # x => Busy(y)' = Busy(y)
      /\ \A y : y # x => ~Handled(y)
      /\ \A y : ~Handled(y)'
  BY <1>2, <1>3, <1>5 DEF Busy, Handled
<1>8. \A g \in Fds : purpose[g] # x /\ (purpose[g] # "none" => purpose[g] \in Flights)
  BY <1>1, <1>4, WinNames DEF OwnersInv, WinTypes
<1>9. OwnersInv'
  BY <1>1, <1>3, <1>4, <1>5, <1>7, <1>8 DEF OwnersInv
<1>10. PolledInv'
  BY <1>1, <1>3, <1>5, <1>7, <1>8 DEF PolledInv
<1>11. WinHandlerInv'
  BY <1>1, <1>3 DEF WinHandlerInv
<1> QED
  BY <1>6, <1>9, <1>10, <1>11 DEF WinInv

-----------------------------------------------------------------------------
LEMMA WinClaimsInv ==
  ASSUME WinInv, ClaimByProgram \/ ReleaseByProgram \/ UNCHANGED winVars
  PROVE  WinInv'
<1>1. UNCHANGED <<winLife, fd, io, purpose, pollset, handler, watched, signalled, matched, lost>>
  BY DEF ClaimByProgram, ReleaseByProgram, winVars, submitVars, fdVars, pollVars
<1>2. \A x : Busy(x)' = Busy(x) /\ Handled(x)' = Handled(x)
  BY <1>1 DEF Busy, Handled
<1> QED
  BY <1>1, <1>2 DEF WinInv, WinTypes, OwnersInv, PolledInv, WinHandlerInv

(* With nothing in flight there is no descriptor to free.                  *)
LEMMA WinResetInv ==
  ASSUME NothingStale, WinInv, ResetPipes
  PROVE  WinInv'
<1>1. WinTypes /\ OwnersInv /\ PolledInv /\ WinHandlerInv
  BY DEF WinInv
<1>2. /\ \A x \in Flights : winLife[x] = "idle" /\ ~Busy(x)
      /\ pollset' = <<>> /\ io' = [f \in Fds |-> "free"] /\ purpose' = [f \in Fds |-> "none"]
      /\ UNCHANGED <<winLife, fd, handler, watched, signalled, matched, lost>>
  BY DEF ResetPipes, NothingStale, Busy, submitVars, pollVars
<1>3. \A f \in Fds : purpose[f] = "none"
  BY <1>1, <1>2 DEF OwnersInv, WinTypes
<1>4. Range(pollset) = {}
  <2>1. Range(pollset) \in SUBSET Fds
    BY <1>1, RangeOfSeq DEF WinTypes
  <2> QED
    BY <1>1, <1>3, <2>1, WinNames DEF PolledInv
<1>5. <<>> \in Seq(Fds) /\ Range(<<>>) = {} /\ IsInjective(<<>>)
  BY DEF Range, IsInjective
<1>6. WinTypes'
  BY <1>1, <1>2, <1>5 DEF WinTypes
<1>7. \A x \in Flights : ~Busy(x)'
  BY <1>2 DEF Busy
<1>8. OwnersInv'
  BY <1>1, <1>2, <1>7, WinNames DEF OwnersInv
<1>9. PolledInv'
  BY <1>2, <1>5, WinNames DEF PolledInv
<1>10. WinHandlerInv'
  BY <1>1, <1>2, <1>4, <1>5 DEF WinHandlerInv
<1> QED
  BY <1>6, <1>8, <1>9, <1>10 DEF WinInv

LEMMA WinStepInv == NothingStale /\ WinInv /\ [WinNext]_winVars => WinInv'
<1> SUFFICES ASSUME NothingStale, WinInv, [WinNext]_winVars PROVE WinInv'
  OBVIOUS
<1>1. ASSUME NEW x \in Flights, SubmitSteps(x) PROVE WinInv'
  BY <1>1, SubmitBeginsInv, StartIoInv, AddPollFdInv DEF SubmitSteps
<1>2. ASSUME \/ \E x \in Flights : CancelTransfer(x) \/ ExpireTransfer(x)
             \/ \E f \in Fds : EndIo(f)
      PROVE  WinInv'
  BY <1>2, IoEndsInv
<1>3. ASSUME HandleSteps PROVE WinInv'
  BY <1>3, WinPollInv, MatchInv, FreeFdInv, CompleteInv DEF HandleSteps
<1>4. ASSUME ClaimByProgram \/ ReleaseByProgram \/ UNCHANGED winVars PROVE WinInv'
  BY <1>4, WinClaimsInv
<1>5. ASSUME ResetPipes PROVE WinInv'
  BY <1>5, WinResetInv
<1> QED
  BY <1>1, <1>2, <1>3, <1>4, <1>5 DEF WinNext

LEMMA WinInvImplies == WinInv => FlightsArePolled
<1> SUFFICES ASSUME WinInv PROVE FlightsArePolled
  OBVIOUS
<1>1. WinTypes /\ OwnersInv /\ PolledInv /\ WinHandlerInv
  BY DEF WinInv
<1>2. ASSUME NEW x \in Flights, winLife[x] = "flying", ~Handled(x)
      PROVE  /\ Cardinality(PollPlaces(fd[x])) = 1
             /\ io[fd[x]] # "free" /\ purpose[fd[x]] = x
  <2>1. fd[x] \in Fds /\ purpose[fd[x]] = x
    BY <1>1, <1>2 DEF OwnersInv, Busy, Handled
  <2>2. io[fd[x]] # "free"
    <3>1. purpose[fd[x]] # "none"
      BY <2>1, WinNames
    <3> QED
      BY <1>1, <2>1, <3>1 DEF OwnersInv
  <2>3. fd[x] \in Range(pollset)
    BY <1>1, <1>2, <2>1, WinNames DEF PolledInv
  <2>4. pollset \in Seq(Fds) /\ IsInjective(pollset)
    BY <1>1 DEF WinTypes, PolledInv
  <2>5. Cardinality(PollPlaces(fd[x])) = 1
    BY <2>3, <2>4, OnePlace DEF PollPlaces
  <2> QED
    BY <2>1, <2>2, <2>5
<1>3. ASSUME NEW f \in Range(pollset)
      PROVE  \E x \in Flights : winLife[x] = "flying" /\ fd[x] = f
  <2>1. f \in Fds
    BY <1>1, RangeOfSeq DEF WinTypes
  <2>2. purpose[f] \in Flights /\ winLife[purpose[f]] = "flying"
    BY <1>1, <2>1 DEF PolledInv, WinTypes
  <2>3. fd[purpose[f]] = f
    BY <1>1, <2>1, <2>2, WinNames DEF OwnersInv
  <2> QED
    BY <2>2, <2>3
<1>4. ~lost
  BY <1>1 DEF WinHandlerInv
<1> QED
  BY <1>2, <1>3, <1>4 DEF FlightsArePolled

(* Each transfer in flight has a descriptor of its own, which the poll set *)
(* of windows_handle_events() names once until it is handled, if no event  *)
(* is handled while a transfer is listed that is yet to be given one.  The *)
(* code does not see to that.                                              *)
LEMMA AllFlightsPolled ==
  ASSUME NothingStale
  PROVE  WinSpec => []FlightsArePolled
<1>1. WinInit => WinInv
  BY WinInitInv
<1>2. WinInv /\ [WinNext]_winVars => WinInv'
  BY WinStepInv
<1>3. WinInv => FlightsArePolled
  BY WinInvImplies
<1> QED
  BY <1>1, <1>2, <1>3, PTL DEF WinSpec

(* The rest of the types.                                                  *)
ReportTypes ==
  /\ watched \subseteq Fds /\ signalled \subseteq Fds
  /\ matched \in Flights \union {"none"} /\ result \in Results
  /\ pastDeadline \in [Flights -> BOOLEAN]
  /\ reported \in [Flights -> {"none", "completed", "stall", "timed_out", "cancelled"}]
  /\ winClaimed \in BOOLEAN /\ autoclaim \in 0..MaxAutoclaim /\ lost \in BOOLEAN

LEMMA WinReportTypes ==
  ASSUME WinInv, ReportTypes, [WinNext]_winVars
  PROVE  ReportTypes'
<1>1. WinTypes /\ Range(pollset) \subseteq Fds
  BY RangeOfSeq DEF WinInv, WinTypes
<1>2. MaxAutoclaim \in Nat /\ autoclaim \in 0..MaxAutoclaim
  BY WinAssumption DEF ReportTypes
<1>3. ASSUME UNCHANGED <<pollVars, pastDeadline, reported, claimVars, lost>> PROVE ReportTypes'
  BY <1>3 DEF ReportTypes, pollVars, claimVars
<1>4. ASSUME NEW x \in Flights, SubmitSteps(x) PROVE ReportTypes'
  <2>1. CASE List(x)
    <3>1. pastDeadline' \in [Flights -> BOOLEAN]
      BY <2>1 DEF List, ReportTypes
    <3>2. reported' \in [Flights -> {"none", "completed", "stall", "timed_out", "cancelled"}]
      BY <2>1 DEF List, ReportTypes
    <3> QED
      BY <2>1, <3>1, <3>2 DEF List, ReportTypes, pollVars, claimVars
  <2>2. CASE Begin(x)
    <3>1. UNCHANGED <<pollVars, pastDeadline, reported, lost>>
      BY <2>2 DEF Begin
    <3>2. UNCHANGED claimVars \/ (autoclaim < MaxAutoclaim /\ winClaimed' = TRUE /\ autoclaim' = autoclaim + 1)
      BY <2>2 DEF Begin
    <3>3. autoclaim' \in 0..MaxAutoclaim
      BY <1>2, <3>2 DEF claimVars
    <3>4. winClaimed' \in BOOLEAN
      BY <3>2 DEF claimVars, ReportTypes
    <3> QED
      BY <3>1, <3>3, <3>4 DEF ReportTypes, pollVars
  <2>3. CASE StartIo(x) \/ StartFails(x) \/ AddPollFd(x)
    BY <1>3, <2>3 DEF StartIo, StartFails, AddPollFd
  <2> QED
    BY <1>4, <2>1, <2>2, <2>3 DEF SubmitSteps
<1>5. ASSUME NEW x \in Flights, CancelTransfer(x) PROVE ReportTypes'
  BY <1>3, <1>5 DEF CancelTransfer, submitVars
<1>6. ASSUME NEW x \in Flights, ExpireTransfer(x) PROVE ReportTypes'
  <2>1. pastDeadline' \in [Flights -> BOOLEAN]
    BY <1>6 DEF ExpireTransfer, ReportTypes
  <2> QED
    BY <1>6, <2>1 DEF ExpireTransfer, ReportTypes, pollVars, claimVars
<1>7. ASSUME NEW f \in Fds, EndIo(f) PROVE ReportTypes'
  BY <1>3, <1>7 DEF EndIo, submitVars
<1>8. ASSUME HandleSteps PROVE ReportTypes'
  <2>1. CASE PollStart
    <3>1. watched' \subseteq Fds /\ signalled' \subseteq Fds
      BY <1>1, <2>1 DEF PollStart
    <3> QED
      BY <2>1, <3>1 DEF PollStart, ReportTypes, submitVars, claimVars
  <2>2. CASE PollWakes \/ PollTimesOut
    <3>1. watched' \subseteq Fds /\ signalled' \subseteq Fds
      BY <2>2 DEF PollWakes, PollTimesOut, ReportTypes
    <3> QED
      BY <2>2, <3>1 DEF PollWakes, PollTimesOut, ReportTypes, submitVars, claimVars
  <2>3. CASE FreeFd
    <3>1. autoclaim' \in 0..MaxAutoclaim
      BY <1>2, <2>3 DEF FreeFd
    <3>2. winClaimed' \in BOOLEAN
      BY <2>3 DEF FreeFd
    <3> QED
      BY <2>3, <3>1, <3>2 DEF FreeFd, ReportTypes, submitVars
  <2>4. CASE CompleteFlight
    <3>1. Outcome(matched) \in {"completed", "stall", "timed_out", "cancelled"}
      BY DEF Outcome
    <3>2. reported' \in [Flights -> {"none", "completed", "stall", "timed_out", "cancelled"}]
      BY <2>4, <3>1 DEF CompleteFlight, ReportTypes
    <3> QED
      BY <2>4, <3>2 DEF CompleteFlight, ReportTypes, claimVars
  <2>5. ASSUME NEW f \in Fds, MatchTransfer(f) PROVE ReportTypes'
    <3>1. io[f] \in Results \/ ~Ended(f)
      BY DEF Ended
    <3>2. Holders(f) \subseteq Flights /\ "done" \in Results
      BY DEF Holders, Results
    <3>3. matched' \in Flights \union {"none"}
      BY <2>5, <3>2 DEF MatchTransfer, ReportTypes
    <3>4. result' \in Results
      BY <2>5, <3>1, <3>2 DEF MatchTransfer, ReportTypes
    <3>5. lost' \in BOOLEAN
      BY <2>5 DEF MatchTransfer, ReportTypes
    <3>6. signalled' \subseteq Fds /\ watched' \subseteq Fds
      BY <2>5 DEF MatchTransfer, ReportTypes
    <3> QED
      BY <2>5, <3>3, <3>4, <3>5, <3>6 DEF MatchTransfer, ReportTypes, submitVars, claimVars
  <2> QED
    BY <1>8, <2>1, <2>2, <2>3, <2>4, <2>5 DEF HandleSteps
<1>9. ASSUME ClaimByProgram \/ ReleaseByProgram PROVE ReportTypes'
  <2>1. winClaimed' \in BOOLEAN
    BY <1>9 DEF ClaimByProgram, ReleaseByProgram
  <2> QED
    BY <1>9, <2>1 DEF ClaimByProgram, ReleaseByProgram, ReportTypes, submitVars, pollVars
<1>10. ASSUME ResetPipes PROVE ReportTypes'
  BY <1>3, <1>10 DEF ResetPipes, submitVars
<1>11. CASE UNCHANGED winVars
  BY <1>3, <1>11 DEF winVars, submitVars
<1> QED
  BY <1>4, <1>5, <1>6, <1>7, <1>8, <1>9, <1>10, <1>11 DEF WinNext

(* Under the same assumption all keeps its type, autoclaim_count among it. *)
THEOREM WinTyped ==
  ASSUME NothingStale
  PROVE  WinSpec => []WinTypeOK
<1>1. WinInit => WinInv /\ ReportTypes
  <2> SUFFICES ASSUME WinInit PROVE ReportTypes
    BY WinInitInv
  <2>1. 0 \in 0..MaxAutoclaim
    BY WinAssumption
  <2>2. winClaimed \in BOOLEAN /\ lost \in BOOLEAN
    BY Zenon DEF WinInit
  <2> QED
    BY <2>1, <2>2 DEF WinInit, ReportTypes, Results
<1>2. WinInv /\ ReportTypes /\ [WinNext]_winVars => WinInv' /\ ReportTypes'
  BY WinStepInv, WinReportTypes
<1>3. WinInv /\ ReportTypes => WinTypeOK
  BY DEF WinInv, WinTypes, ReportTypes, WinTypeOK
<1> QED
  BY <1>1, <1>2, <1>3, PTL DEF WinSpec

-----------------------------------------------------------------------------
(* Pipes of the Windows build (WindowsPipe.tla)                            *)

Owners == {t \in PipeThreads : Group[t] = t}

(* A place with a pipe in it that is not being closed.                     *)
Live(p) == slot[p] # 0 /\ \A t \in PipeThreads : ~(doing[t] = "free" /\ looksAt[t] = p)

(* The numbers of open pipes and of those being made are distinct.         *)
NumbersInv ==
  /\ \A t \in PipeThreads : ctrlPipe[t] # 0 => Group[t] = t /\ ctrlPipe[t] \in numbers
  /\ \A t \in PipeThreads : doing[t] = "pipe" =>
       Group[t] = t /\ ctrlPipe[t] = 0 /\ mine[t] \in numbers
  /\ \A t, u \in PipeThreads :
       /\ ctrlPipe[t] = ctrlPipe[u] /\ ctrlPipe[t] # 0 => t = u
       /\ doing[t] = "pipe" => ctrlPipe[u] # mine[t]
       /\ doing[t] = "pipe" /\ doing[u] = "pipe" /\ mine[t] = mine[u] => t = u

(* An open pipe has one place.                                             *)
PlacesInv ==
  /\ \A t \in PipeThreads : ctrlPipe[t] # 0 => \E p \in PlaceSet : Live(p) /\ slot[p] = ctrlPipe[t]
  /\ \A p \in PlaceSet : Live(p) => \E t \in PipeThreads : ctrlPipe[t] = slot[p]
  /\ \A p, q \in PlaceSet : Live(p) /\ Live(q) /\ slot[p] = slot[q] => p = q

(* Who waits for a signal or frees a place is in its critical section.     *)
HoldersInv ==
  \A t \in PipeThreads : \A p \in PlaceSet :
    holder[p] = t <=> doing[t] \in {"wait", "free"} /\ looksAt[t] = p

(* The pipe of a call is open, and its place is still ahead.  Who waits is *)
(* at the place.                                                           *)
CallsInv ==
  \A t \in PipeThreads :
    /\ doing[t] \in {"write", "read", "wait", "close"} =>
         /\ mine[t] = ctrlPipe[Group[t]] /\ mine[t] # 0
         /\ \A p \in PlaceSet : Live(p) /\ slot[p] = mine[t] =>
              looksAt[t] <= p /\ (doing[t] = "wait" => looksAt[t] = p)
    /\ doing[t] \in {"wait", "free"} => looksAt[t] \in PlaceSet
    /\ doing[t] \in {"read", "wait"} => unread[t]
    /\ doing[t] = "write" => ~unread[t]
    /\ doing[t] \in {"close", "free"} => Group[t] = t
    /\ doing[t] = "free" => ctrlPipe[t] = 0 /\ slot[looksAt[t]] # 0
    /\ doing[t] # "failed"
    /\ entering[t] => doing[t] \in {"pipe", "write", "read", "close"} /\ looksAt[t] \in PlaceSet

(* A pipe is closed when the threads of its context have finished.         *)
GroupInv ==
  \A t \in PipeThreads :
    /\ unread[t] => ctrlPipe[Group[t]] # 0
    /\ doing[Group[t]] \in {"close", "free"} => ~unread[t] /\ (t # Group[t] => doing[t] = "idle")

SignalsInv ==
  \A p \in PlaceSet : \A f \in PipeFds : Live(p) /\ slot[p] = f =>
    signals[p] = Cardinality(Unread(f)) /\ eventSet[p] = (signals[p] > 0)

PipeInv ==
  PipeTypeOK /\ NumbersInv /\ PlacesInv /\ HoldersInv /\ CallsInv /\ GroupInv /\ SignalsInv

-----------------------------------------------------------------------------
LEMMA PipeNumbers ==
  /\ PlaceSet \subseteq Nat /\ PipeFds \subseteq Nat /\ 0 \notin PipeFds /\ 0 \notin PlaceSet
  /\ \A i \in 1..(Places + 1) : i <= Places => i \in PlaceSet /\ i + 1 \in 1..(Places + 1)
  /\ \A i \in PlaceSet : i \in 1..(Places + 1) /\ i + 1 \in 1..(Places + 1)
  /\ 1 \in 1..(Places + 1) /\ \A i \in 1..(Places + 1) : i \in Nat
<1>1. Places \in Nat \ {0} /\ Cardinality(PipeThreads) \in Nat
  BY PipeAssumption, FS_CardinalityType
<1>2. PlaceSet \subseteq Nat /\ 0 \notin PlaceSet
  BY <1>1 DEF PlaceSet
<1>3. PipeFds \subseteq Nat /\ 0 \notin PipeFds
  <2> PICK k \in Nat : k = Cardinality(PipeThreads)
    BY <1>1
  <2>1. \A j \in 1..k : j \in Nat /\ j # 0
    OBVIOUS
  <2> QED
    BY <2>1 DEF PipeFds
<1> QED
  BY <1>1, <1>2, <1>3 DEF PlaceSet

LEMMA PipeNames ==
  /\ \A t \in PipeThreads : t # "nobody" /\ Group[t] \in PipeThreads /\ Group[Group[t]] = Group[t]
  /\ IsFiniteSet(PipeThreads)
  BY PipeAssumption

LEMMA UnreadFinite == \A f : IsFiniteSet(Unread(f)) /\ Cardinality(Unread(f)) \in Nat
<1> TAKE f
<1>1. Unread(f) \subseteq PipeThreads
  BY DEF Unread
<1> QED
  BY <1>1, PipeNames, FS_Subset, FS_CardinalityType

LEMMA PipeInitInv == PipeInit => PipeInv
<1> SUFFICES ASSUME PipeInit PROVE PipeInv
  OBVIOUS
<1>1. PipeTypeOK
  BY PipeNumbers DEF PipeInit, PipeTypeOK
<1>2. NumbersInv /\ HoldersInv /\ CallsInv /\ GroupInv
  BY PipeNames DEF PipeInit, NumbersInv, HoldersInv, CallsInv, GroupInv
<1>3. PlacesInv /\ SignalsInv
  BY PipeNames DEF PipeInit, PlacesInv, SignalsInv, Live
<1> QED
  BY <1>1, <1>2, <1>3 DEF PipeInv

-----------------------------------------------------------------------------
(* A step that leaves the table and the pipes as they are.                 *)
LEMMA TableKept ==
  ASSUME PipeInv, NEW t \in PipeThreads, UNCHANGED <<ctrlPipe, tableVars, unread>>,
         \A u \in PipeThreads : (doing'[u] = "free" <=> doing[u] = "free")
                                /\ (doing[u] = "free" => looksAt'[u] = looksAt[u])
  PROVE  PlacesInv' /\ SignalsInv'
<1>1. \A p \in PlaceSet : Live(p)' = Live(p)
  BY DEF Live, tableVars
<1>2. \A f : Unread(f)' = Unread(f)
  BY DEF Unread
<1>3. PlacesInv'
  BY <1>1 DEF PipeInv, PlacesInv, tableVars
<1>4. SignalsInv'
  BY <1>1, <1>2 DEF PipeInv, SignalsInv, tableVars
<1> QED
  BY <1>3, <1>4

LEMMA CallInv ==
  ASSUME PipeInv, NEW t \in PipeThreads, Pipe(t) \/ Write(t) \/ Read(t) \/ ClosePipe(t)
  PROVE  PipeInv'
<1>1. PipeTypeOK /\ NumbersInv /\ PlacesInv /\ HoldersInv /\ CallsInv /\ GroupInv /\ SignalsInv
  BY DEF PipeInv
<1> DEFINE Begins(what, f) ==
             /\ doing[t] = "idle" /\ doing' = [doing EXCEPT ![t] = what]
             /\ looksAt' = [looksAt EXCEPT ![t] = 1] /\ mine' = [mine EXCEPT ![t] = f]
             /\ UNCHANGED <<ctrlPipe, tableVars, entering, unread>>
             /\ \/ /\ what = "pipe" /\ Group[t] = t /\ ctrlPipe[t] = 0
                   /\ f \in PipeFds \ numbers /\ numbers' = numbers \union {f}
                \/ /\ what \in {"write", "read", "close"} /\ f = ctrlPipe[Group[t]] /\ f # 0
                   /\ numbers' = numbers
                   /\ what = "write" => ~unread[t] /\ doing[Group[t]] \notin {"close", "free"}
                   /\ what = "read" => unread[t]
                   /\ what = "close" =>
                        /\ Group[t] = t
                        /\ \A u \in PipeThreads : Group[u] = t => doing[u] = "idle" /\ ~unread[u]
<1>2. PICK what, f : Begins(what, f)
  <2>1. CASE Pipe(t)
    <3>1. Min(PipeFds \ numbers) \in PipeFds \ numbers
      BY <2>1, PipeNumbers, LeastElement DEF Pipe
    <3>2. mine'[t] = Min(PipeFds \ numbers)
      BY <1>1, <2>1 DEF Pipe, Call, PipeTypeOK
    <3>3. Begins("pipe", Min(PipeFds \ numbers))
      BY <2>1, <3>1, <3>2 DEF Pipe, Call, Does
    <3> QED
      BY <3>3
  <2>2. CASE Write(t)
    <3>1. Begins("write", ctrlPipe[Group[t]])
      BY <2>2 DEF Write, Call, Does
    <3> QED
      BY <3>1
  <2>3. CASE Read(t)
    <3>1. Begins("read", ctrlPipe[Group[t]])
      BY <1>1, <2>3 DEF Read, Call, Does, GroupInv
    <3> QED
      BY <3>1
  <2>4. CASE ClosePipe(t)
    <3>1. Begins("close", ctrlPipe[Group[t]])
      BY <2>4 DEF ClosePipe, Call, Does
    <3> QED
      BY <3>1
  <2> QED
    BY <2>1, <2>2, <2>3, <2>4
<1>3. /\ doing'[t] = what /\ looksAt'[t] = 1 /\ mine'[t] = f
      /\ \A u \in PipeThreads : u # t => doing'[u] = doing[u] /\ looksAt'[u] = looksAt[u]
                                         /\ mine'[u] = mine[u]
  BY <1>1, <1>2 DEF PipeTypeOK
<1>4. what \in {"pipe", "write", "read", "close"} /\ ~entering[t]
  BY <1>1, <1>2 DEF CallsInv
<1>5. PipeTypeOK'
  <2>1. f \in PipeFds \union {0} /\ numbers' \subseteq PipeFds
    BY <1>1, <1>2, PipeNames DEF PipeTypeOK
  <2> QED
    BY <1>1, <1>2, <1>4, <2>1, PipeNumbers DEF PipeTypeOK, tableVars
<1>6. PlacesInv' /\ SignalsInv'
  BY <1>2, <1>3, <1>4, TableKept
<1>7. HoldersInv'
  BY <1>1, <1>2, <1>3, <1>4 DEF HoldersInv, tableVars
<1>8. NumbersInv'
  <2>1. \A u \in PipeThreads : doing'[u] = "pipe" =>
          Group[u] = u /\ ctrlPipe[u] = 0 /\ mine'[u] \in numbers'
    BY <1>1, <1>2, <1>3 DEF NumbersInv
  <2>2. \A u \in PipeThreads : ctrlPipe[u] # 0 => Group[u] = u /\ ctrlPipe[u] \in numbers'
    BY <1>1, <1>2 DEF NumbersInv
  <2>3. \A u, v \in PipeThreads :
          /\ ctrlPipe[u] = ctrlPipe[v] /\ ctrlPipe[u] # 0 => u = v
          /\ doing'[u] = "pipe" => ctrlPipe[v] # mine'[u]
          /\ doing'[u] = "pipe" /\ doing'[v] = "pipe" /\ mine'[u] = mine'[v] => u = v
    <3>1. what = "pipe" => f \notin numbers /\ f # 0
      BY <1>2, PipeNumbers
    <3>2. what = "pipe" => \A v \in PipeThreads : ctrlPipe[v] # f
                                                  /\ (doing[v] = "pipe" => mine[v] # f)
      BY <1>1, <3>1 DEF NumbersInv
    <3> QED
      BY <1>1, <1>3, <3>2 DEF NumbersInv
  <2> QED
    BY <1>2, <2>1, <2>2, <2>3 DEF NumbersInv
<1>9. \A p \in PlaceSet : Live(p)' = Live(p)
  BY <1>2, <1>3, <1>4 DEF Live, tableVars
<1>10. CallsInv'
  <2>1. \A p \in PlaceSet : 1 <= p
    BY PipeNumbers DEF PlaceSet
  <2>2. slot' = slot
    BY <1>2 DEF tableVars
  <2> SUFFICES ASSUME NEW u \in PipeThreads
      PROVE  /\ doing'[u] \in {"write", "read", "wait", "close"} =>
                  /\ mine'[u] = ctrlPipe[Group[u]] /\ mine'[u] # 0
                  /\ \A p \in PlaceSet : Live(p)' /\ slot[p] = mine'[u] =>
                       looksAt'[u] <= p /\ (doing'[u] = "wait" => looksAt'[u] = p)
             /\ doing'[u] \in {"wait", "free"} => looksAt'[u] \in PlaceSet
             /\ doing'[u] \in {"read", "wait"} => unread[u]
             /\ doing'[u] = "write" => ~unread[u]
             /\ doing'[u] \in {"close", "free"} => Group[u] = u
             /\ doing'[u] = "free" => ctrlPipe[u] = 0 /\ slot[looksAt'[u]] # 0
             /\ doing'[u] # "failed"
             /\ entering[u] => doing'[u] \in {"pipe", "write", "read", "close"}
                               /\ looksAt'[u] \in PlaceSet
    BY <1>2, <2>2 DEF CallsInv
  <2>3. CASE u = t
    BY <1>2, <1>3, <1>4, <2>1, <2>3
  <2>4. CASE u # t
    BY <1>1, <1>3, <1>9, <2>4 DEF CallsInv
  <2> QED
    BY <2>3, <2>4
<1>11. GroupInv'
  <2> SUFFICES ASSUME NEW u \in PipeThreads
               PROVE  /\ unread[u] => ctrlPipe[Group[u]] # 0
                      /\ doing'[Group[u]] \in {"close", "free"} =>
                           ~unread[u] /\ (u # Group[u] => doing'[u] = "idle")
    BY <1>2 DEF GroupInv
  <2>1. Group[u] \in PipeThreads
    BY PipeNames
  <2>2. CASE Group[u] = t
    BY <1>1, <1>2, <1>3, <2>2 DEF GroupInv
  <2>3. CASE Group[u] # t
    <3>1. doing'[Group[u]] = doing[Group[u]]
      BY <1>3, <2>1, <2>3
    <3>2. u = t /\ doing[Group[u]] \in {"close", "free"} => FALSE
      BY <1>1, <1>2, <1>3, <2>1, <2>3 DEF GroupInv, CallsInv, NumbersInv
    <3> QED
      BY <1>1, <1>3, <3>1, <3>2 DEF GroupInv
  <2> QED
    BY <2>2, <2>3
<1> QED
  BY <1>5, <1>6, <1>7, <1>8, <1>10, <1>11 DEF PipeInv

(* Looking on: a call never passes by the place of its pipe.               *)
LEMMA LookInv ==
  ASSUME PipeInv, NEW t \in PipeThreads, Look(t) \/ NotFound(t) \/ ChangedBefore(t)
  PROVE  PipeInv'
<1>1. PipeTypeOK /\ NumbersInv /\ PlacesInv /\ HoldersInv /\ CallsInv /\ GroupInv /\ SignalsInv
  BY DEF PipeInv
<1>2. /\ doing[t] \in {"pipe", "write", "read", "close"}
      /\ UNCHANGED <<ctrlPipe, tableVars, mine, unread>>
  BY <1>1 DEF Look, NotFound, ChangedBefore, Looking, Enters, CallsInv
<1>3. doing[t] # "pipe" => \E p \in PlaceSet : Live(p) /\ slot[p] = mine[t] /\ looksAt[t] <= p
  BY <1>1, <1>2, PipeNames DEF CallsInv, PlacesInv
<1>4. looksAt[t] \in 1..(Places + 1)
  BY <1>1 DEF PipeTypeOK
<1>5. CASE Look(t) \/ ChangedBefore(t)
  <2>1. /\ UNCHANGED <<doing, numbers>>
        /\ looksAt[t] \in PlaceSet
        /\ \/ looksAt' = looksAt /\ entering' = [entering EXCEPT ![t] = TRUE]
           \/ /\ slot[looksAt[t]] # Wanted(t) /\ looksAt' = [looksAt EXCEPT ![t] = looksAt[t] + 1]
              /\ \/ entering' = [entering EXCEPT ![t] = FALSE]
                 \/ entering' = entering /\ ~entering[t]
    <3>1. CASE Look(t)
      <4>1. looksAt[t] \in PlaceSet
        BY <1>4, <3>1, PipeNumbers DEF Look
      <4> QED
        BY <3>1, <4>1 DEF Look, PassBy, Looking
    <3>2. CASE ChangedBefore(t)
      <4>1. looksAt[t] \in PlaceSet
        BY <1>1, <3>2 DEF ChangedBefore, Enters, CallsInv
      <4>2. /\ UNCHANGED <<doing, numbers>> /\ entering' = [entering EXCEPT ![t] = FALSE]
            /\ slot[looksAt[t]] # Wanted(t) /\ PassBy(t)
        BY <3>2 DEF ChangedBefore, Enters
      <4> QED
        BY <4>1, <4>2 DEF PassBy
    <3> QED
      BY <1>5, <3>1, <3>2
  <2>2. \A u \in PipeThreads : u # t => looksAt'[u] = looksAt[u] /\ entering'[u] = entering[u]
    BY <1>1, <2>1 DEF PipeTypeOK
  <2>3. \/ looksAt'[t] = looksAt[t]
        \/ slot[looksAt[t]] # Wanted(t) /\ looksAt'[t] = looksAt[t] + 1 /\ ~entering'[t]
    BY <1>1, <2>1 DEF PipeTypeOK
  <2>4. looksAt'[t] \in 1..(Places + 1)
    BY <1>4, <2>1, <2>3, PipeNumbers
  <2>5. PipeTypeOK'
    BY <1>1, <1>2, <2>1, <2>4, PipeNumbers DEF PipeTypeOK, tableVars
  <2>6. NumbersInv' /\ GroupInv'
    BY <1>1, <1>2, <2>1 DEF NumbersInv, GroupInv
  <2>7. PlacesInv' /\ SignalsInv'
    <3>1. \A u \in PipeThreads : (doing'[u] = "free" <=> doing[u] = "free")
                                 /\ (doing[u] = "free" => looksAt'[u] = looksAt[u])
      BY <1>2, <2>1, <2>2
    <3> QED
      BY <1>2, <3>1, TableKept
  <2>8. HoldersInv'
    BY <1>1, <1>2, <2>1, <2>2 DEF HoldersInv, tableVars
  <2>9. \A p \in PlaceSet : Live(p)' = Live(p)
    BY <1>2, <2>1, <2>2 DEF Live, tableVars
  <2>10. ASSUME doing[t] # "pipe", NEW p \in PlaceSet, Live(p), slot[p] = mine[t]
         PROVE  looksAt'[t] <= p
    <3>1. looksAt[t] <= p
      BY <1>1, <1>2, <2>10 DEF CallsInv
    <3>2. CASE looksAt'[t] = looksAt[t]
      BY <3>1, <3>2
    <3>3. CASE slot[looksAt[t]] # Wanted(t) /\ looksAt'[t] = looksAt[t] + 1
      <4>1. looksAt[t] # p
        BY <2>10, <3>3 DEF Wanted
      <4>2. looksAt[t] \in Nat /\ p \in Nat
        BY <2>1, PipeNumbers
      <4> QED
        BY <3>1, <3>3, <4>1, <4>2
    <3> QED
      BY <2>3, <3>2, <3>3
  <2>11. CallsInv'
    <3> SUFFICES ASSUME NEW u \in PipeThreads
        PROVE  /\ doing[u] \in {"write", "read", "wait", "close"} =>
                    /\ mine[u] = ctrlPipe[Group[u]] /\ mine[u] # 0
                    /\ \A p \in PlaceSet : Live(p)' /\ slot[p] = mine[u] =>
                         looksAt'[u] <= p /\ (doing[u] = "wait" => looksAt'[u] = p)
               /\ doing[u] \in {"wait", "free"} => looksAt'[u] \in PlaceSet
               /\ doing[u] \in {"read", "wait"} => unread[u]
               /\ doing[u] = "write" => ~unread[u]
               /\ doing[u] \in {"close", "free"} => Group[u] = u
               /\ doing[u] = "free" => ctrlPipe[u] = 0 /\ slot[looksAt'[u]] # 0
               /\ doing[u] # "failed"
               /\ entering'[u] => doing[u] \in {"pipe", "write", "read", "close"}
                                  /\ looksAt'[u] \in PlaceSet
      BY <1>2, <2>1 DEF CallsInv, tableVars
    <3>1. CASE u = t
      BY <1>1, <1>2, <2>1, <2>3, <2>9, <2>10, <3>1 DEF CallsInv
    <3>2. CASE u # t
      BY <1>1, <2>2, <2>9, <3>2 DEF CallsInv
    <3> QED
      BY <3>1, <3>2
  <2> QED
    BY <2>5, <2>6, <2>7, <2>8, <2>11 DEF PipeInv
<1>6. CASE NotFound(t)
  <2>1. doing[t] = "pipe"
    <3> SUFFICES ASSUME doing[t] # "pipe" PROVE FALSE
      OBVIOUS
    <3>1. PICK p \in PlaceSet : looksAt[t] <= p
      BY <1>3
    <3>2. looksAt[t] > Places
      BY <1>6 DEF NotFound
    <3>3. Places \in Nat
      BY PipeAssumption
    <3> QED
      BY <1>4, <3>1, <3>2, <3>3 DEF PlaceSet
  <2>2. /\ doing' = [doing EXCEPT ![t] = "idle"] /\ numbers' = numbers \ {mine[t]}
        /\ UNCHANGED <<looksAt, entering>> /\ ~entering[t]
    BY <1>6, <2>1 DEF NotFound, Does, Looking
  <2>3. doing'[t] = "idle" /\ \A u \in PipeThreads : u # t => doing'[u] = doing[u]
    BY <1>1, <2>2 DEF PipeTypeOK
  <2>4. PipeTypeOK'
    BY <1>1, <1>2, <2>2 DEF PipeTypeOK, tableVars
  <2>5. NumbersInv'
    <3>1. \A u \in PipeThreads : ctrlPipe[u] # mine[t] /\ (doing[u] = "pipe" /\ u # t => mine[u] # mine[t])
      BY <1>1, <2>1 DEF NumbersInv
    <3>2. \A u \in PipeThreads : doing'[u] = "pipe" => doing[u] = "pipe" /\ u # t
      BY <2>3
    <3> QED
      BY <1>1, <1>2, <2>2, <3>1, <3>2 DEF NumbersInv
  <2>6. PlacesInv' /\ SignalsInv'
    <3>1. \A u \in PipeThreads : (doing'[u] = "free" <=> doing[u] = "free")
                                 /\ (doing[u] = "free" => looksAt'[u] = looksAt[u])
      BY <2>1, <2>2, <2>3
    <3> QED
      BY <1>2, <3>1, TableKept
  <2>7. HoldersInv'
    BY <1>1, <1>2, <2>1, <2>2, <2>3 DEF HoldersInv, tableVars
  <2>8. \A p \in PlaceSet : Live(p)' = Live(p)
    BY <1>2, <2>1, <2>2, <2>3 DEF Live, tableVars
  <2>9. CallsInv'
    BY <1>1, <1>2, <2>2, <2>3, <2>8 DEF CallsInv, tableVars
  <2>10. GroupInv'
    <3>1. \A u \in PipeThreads : doing'[Group[u]] \in {"close", "free"} =>
            doing[Group[u]] \in {"close", "free"}
      BY <2>3, PipeNames
    <3> QED
      BY <1>1, <1>2, <2>3, <3>1 DEF GroupInv
  <2> QED
    BY <2>4, <2>5, <2>6, <2>7, <2>9, <2>10 DEF PipeInv
<1> QED
  BY <1>5, <1>6

-----------------------------------------------------------------------------
(* The place that is found is the one of the pipe.                         *)
LEMMA FoundLive ==
  ASSUME PipeInv, NEW t \in PipeThreads, NEW p \in PlaceSet, NEW what \in {"write", "read", "close"},
         Found(t, what, p)
  PROVE  /\ Live(p) /\ slot[p] = mine[t] /\ holder[p] = "nobody" /\ looksAt[t] = p /\ doing[t] = what
         /\ mine[t] = ctrlPipe[Group[t]] /\ mine[t] # 0 /\ UNCHANGED <<looksAt, mine>>
         /\ entering' = [entering EXCEPT ![t] = FALSE]
<1>1. HoldersInv /\ CallsInv
  BY DEF PipeInv
<1>2. slot[p] = mine[t] /\ holder[p] = "nobody" /\ looksAt[t] = p /\ doing[t] = what
  BY DEF Found, Enters, Wanted
<1>3. mine[t] = ctrlPipe[Group[t]] /\ mine[t] # 0
  BY <1>1, <1>2 DEF CallsInv
<1>4. \A u \in PipeThreads : ~(doing[u] = "free" /\ looksAt[u] = p)
  BY <1>1, <1>2, PipeNames DEF HoldersInv
<1> QED
  BY <1>2, <1>3, <1>4 DEF Live, Found, Enters

(* A signal written or taken changes the count of one pipe.                *)
LEMMA SignalsChange ==
  ASSUME PipeInv, NEW t \in PipeThreads, NEW p \in PlaceSet, NEW n,
         Live(p), slot[p] = ctrlPipe[Group[t]], UNCHANGED <<ctrlPipe, slot>>,
         \A q \in PlaceSet : Live(q)' = Live(q),
         signals' = [signals EXCEPT ![p] = n], eventSet'[p] = (n > 0),
         \A q \in PlaceSet : q # p => eventSet'[q] = eventSet[q],
         unread' \in [PipeThreads -> BOOLEAN],
         \A u \in PipeThreads : u # t => unread'[u] = unread[u],
         \A f \in PipeFds : f = slot[p] => n = Cardinality(Unread(f)')
  PROVE  SignalsInv'
<1>1. PipeTypeOK /\ PlacesInv /\ SignalsInv
  BY DEF PipeInv
<1> SUFFICES ASSUME NEW q \in PlaceSet, NEW f \in PipeFds, Live(q), slot[q] = f
             PROVE  signals'[q] = Cardinality(Unread(f)') /\ eventSet'[q] = (signals'[q] > 0)
  BY DEF SignalsInv
<1>2. CASE q = p
  <2>1. signals'[p] = n
    BY <1>1 DEF PipeTypeOK
  <2> QED
    BY <1>2, <2>1
<1>3. CASE q # p
  <2>1. signals'[q] = signals[q] /\ eventSet'[q] = eventSet[q]
    BY <1>1, <1>3 DEF PipeTypeOK
  <2>2. f # slot[p]
    BY <1>1, <1>3 DEF PlacesInv
  <2>3. Unread(f)' = Unread(f)
    BY <2>2 DEF Unread
  <2> QED
    BY <1>1, <2>1, <2>3 DEF SignalsInv
<1> QED
  BY <1>2, <1>3

LEMMA PutSignalInv ==
  ASSUME PipeInv, NEW t \in PipeThreads, NEW p \in PlaceSet, PutSignal(t, p)
  PROVE  PipeInv'
<1>1. PipeTypeOK /\ NumbersInv /\ PlacesInv /\ HoldersInv /\ CallsInv /\ GroupInv /\ SignalsInv
  BY DEF PipeInv
<1>2. Found(t, "write", p)
  BY DEF PutSignal
<1>3. /\ Live(p) /\ slot[p] = mine[t] /\ looksAt[t] = p /\ doing[t] = "write"
      /\ mine[t] = ctrlPipe[Group[t]] /\ mine[t] # 0 /\ UNCHANGED <<looksAt, mine>>
      /\ entering' = [entering EXCEPT ![t] = FALSE]
  BY <1>2, FoundLive
<1>4. /\ doing' = [doing EXCEPT ![t] = "idle"] /\ unread' = [unread EXCEPT ![t] = TRUE]
      /\ eventSet' = [eventSet EXCEPT ![p] = TRUE]
      /\ UNCHANGED <<ctrlPipe, numbers, slot, holder>>
  BY DEF PutSignal, Does
<1>5. signals' = [signals EXCEPT ![p] = signals[p] + 1]
  BY DEF PutSignal
<1>6. /\ doing'[t] = "idle" /\ unread'[t] /\ ~entering'[t]
      /\ \A u \in PipeThreads : u # t => doing'[u] = doing[u] /\ unread'[u] = unread[u]
                                         /\ entering'[u] = entering[u]
      /\ unread' \in [PipeThreads -> BOOLEAN]
  BY <1>1, <1>3, <1>4 DEF PipeTypeOK
<1>7. \A q \in PlaceSet : Live(q)' = Live(q)
  BY <1>3, <1>4, <1>6 DEF Live
<1>8. signals[p] \in Nat /\ ~unread[t] /\ slot[p] \in PipeFds
  <2>1. slot[p] \in PipeFds
    BY <1>1, <1>3 DEF PipeTypeOK
  <2> QED
    BY <1>1, <1>3, <2>1 DEF PipeTypeOK, CallsInv
<1>9. signals' \in [PlaceSet -> Nat]
  BY <1>1, <1>5, <1>8 DEF PipeTypeOK
<1>10. PipeTypeOK'
  BY <1>1, <1>3, <1>4, <1>9 DEF PipeTypeOK
<1>11. SignalsInv'
  <2>1. ASSUME NEW f \in PipeFds, f = slot[p]
        PROVE  signals[p] + 1 = Cardinality(Unread(f)')
    <3>1. Unread(f)' = Unread(f) \union {t} /\ t \notin Unread(f)
      BY <1>3, <1>4, <1>6, <1>8, <2>1 DEF Unread
    <3>2. signals[p] = Cardinality(Unread(f))
      BY <1>1, <1>3, <2>1 DEF SignalsInv
    <3>3. Cardinality(Unread(f) \union {t}) = Cardinality(Unread(f)) + 1
      BY <3>1, UnreadFinite, FS_AddElement
    <3> QED
      BY <3>1, <3>2, <3>3
  <2>2. PICK n : n = signals[p] + 1
    OBVIOUS
  <2>3. (n > 0) = TRUE
    BY <1>8, <2>2
  <2>4. /\ signals' = [signals EXCEPT ![p] = n]
        /\ \A f \in PipeFds : f = slot[p] => n = Cardinality(Unread(f)')
    BY <1>5, <2>1, <2>2
  <2>5. eventSet'[p] = TRUE
    BY <1>1, <1>4 DEF PipeTypeOK
  <2>6. \A q \in PlaceSet : q # p => eventSet'[q] = eventSet[q]
    BY <1>1, <1>4 DEF PipeTypeOK
  <2>7. eventSet'[p] = (n > 0)
    BY <2>3, <2>5
  <2>8. slot[p] = ctrlPipe[Group[t]] /\ UNCHANGED <<ctrlPipe, slot>>
    BY <1>3, <1>4
  <2>9. \A u \in PipeThreads : u # t => unread'[u] = unread[u]
    BY <1>6
  <2>10. Live(p) /\ unread' \in [PipeThreads -> BOOLEAN]
    BY <1>3, <1>6
  <2> QED
    BY <2>10, <1>7, <2>4, <2>6, <2>7, <2>8, <2>9, SignalsChange, ZenonT(60)
<1>12. NumbersInv' /\ PlacesInv'
  BY <1>1, <1>3, <1>4, <1>6, <1>7 DEF NumbersInv, PlacesInv
<1>13. HoldersInv'
  BY <1>1, <1>3, <1>4, <1>6 DEF HoldersInv
<1>14. CallsInv'
  BY <1>1, <1>3, <1>4, <1>6, <1>7 DEF CallsInv
<1>15. GroupInv'
  <2>1. doing[Group[t]] \notin {"close", "free"}
    BY <1>1, <1>3 DEF GroupInv
  <2> QED
    BY <1>1, <1>3, <1>4, <1>6, <2>1, PipeNames DEF GroupInv
<1> QED
  BY <1>10, <1>11, <1>12, <1>13, <1>14, <1>15 DEF PipeInv

LEMMA WaitInv ==
  ASSUME PipeInv, NEW t \in PipeThreads, NEW p \in PlaceSet, WaitForSignal(t, p)
  PROVE  PipeInv'
<1>1. PipeTypeOK /\ NumbersInv /\ PlacesInv /\ HoldersInv /\ CallsInv /\ GroupInv /\ SignalsInv
  BY DEF PipeInv
<1>2. Found(t, "read", p)
  BY DEF WaitForSignal
<1>3. /\ Live(p) /\ slot[p] = mine[t] /\ looksAt[t] = p /\ doing[t] = "read" /\ holder[p] = "nobody"
      /\ mine[t] = ctrlPipe[Group[t]] /\ mine[t] # 0 /\ UNCHANGED <<looksAt, mine>>
      /\ entering' = [entering EXCEPT ![t] = FALSE]
  BY <1>2, FoundLive
<1>4. /\ doing' = [doing EXCEPT ![t] = "wait"] /\ holder' = [holder EXCEPT ![p] = t]
      /\ UNCHANGED <<ctrlPipe, numbers, slot, eventSet, signals, unread>>
  BY DEF WaitForSignal, Does
<1>5. /\ doing'[t] = "wait" /\ ~entering'[t] /\ holder'[p] = t
      /\ \A u \in PipeThreads : u # t => doing'[u] = doing[u] /\ entering'[u] = entering[u]
      /\ \A q \in PlaceSet : q # p => holder'[q] = holder[q]
  BY <1>1, <1>3, <1>4 DEF PipeTypeOK
<1>6. \A q \in PlaceSet : Live(q)' = Live(q)
  BY <1>3, <1>4, <1>5 DEF Live
<1>7. PlacesInv' /\ SignalsInv'
  <2>1. \A u \in PipeThreads : (doing'[u] = "free" <=> doing[u] = "free")
                               /\ (doing[u] = "free" => looksAt'[u] = looksAt[u])
    BY <1>3, <1>5
  <2>2. PlacesInv'
    BY <1>1, <1>4, <1>6 DEF PlacesInv
  <2>3. \A f : Unread(f)' = Unread(f)
    BY <1>4 DEF Unread
  <2> QED
    BY <1>1, <1>4, <1>6, <2>2, <2>3 DEF SignalsInv
<1>8. PipeTypeOK'
  BY <1>1, <1>3, <1>4 DEF PipeTypeOK
<1>9. NumbersInv'
  BY <1>1, <1>3, <1>4, <1>5 DEF NumbersInv
<1>10. HoldersInv'
  <2> SUFFICES ASSUME NEW u \in PipeThreads, NEW q \in PlaceSet
               PROVE  holder'[q] = u <=> doing'[u] \in {"wait", "free"} /\ looksAt[u] = q
    BY <1>3 DEF HoldersInv
  <2>1. CASE u = t
    BY <1>1, <1>3, <1>5, <2>1 DEF HoldersInv
  <2>2. CASE u # t
    BY <1>1, <1>3, <1>5, <2>2, PipeNames DEF HoldersInv
  <2> QED
    BY <2>1, <2>2
<1>11. CallsInv'
  <2>1. \A q \in PlaceSet : Live(q) /\ slot[q] = mine[t] => q = p
    BY <1>1, <1>3 DEF PlacesInv
  <2>2. \A q \in PlaceSet : q <= q
    BY PipeNumbers
  <2> SUFFICES ASSUME NEW u \in PipeThreads
      PROVE  /\ doing'[u] \in {"write", "read", "wait", "close"} =>
                  /\ mine[u] = ctrlPipe[Group[u]] /\ mine[u] # 0
                  /\ \A q \in PlaceSet : Live(q)' /\ slot[q] = mine[u] =>
                       looksAt[u] <= q /\ (doing'[u] = "wait" => looksAt[u] = q)
             /\ doing'[u] \in {"wait", "free"} => looksAt[u] \in PlaceSet
             /\ doing'[u] \in {"read", "wait"} => unread[u]
             /\ doing'[u] = "write" => ~unread[u]
             /\ doing'[u] \in {"close", "free"} => Group[u] = u
             /\ doing'[u] = "free" => ctrlPipe[u] = 0 /\ slot[looksAt[u]] # 0
             /\ doing'[u] # "failed"
             /\ entering'[u] => doing'[u] \in {"pipe", "write", "read", "close"}
                                /\ looksAt[u] \in PlaceSet
    BY <1>3, <1>4 DEF CallsInv
  <2>3. CASE u = t
    BY <1>1, <1>3, <1>4, <1>5, <1>6, <2>1, <2>2, <2>3 DEF CallsInv
  <2>4. CASE u # t
    BY <1>1, <1>5, <1>6, <2>4 DEF CallsInv
  <2> QED
    BY <2>3, <2>4
<1>12. GroupInv'
  <2>1. doing[Group[t]] \notin {"close", "free"}
    BY <1>1, <1>3 DEF GroupInv, CallsInv
  <2> QED
    BY <1>1, <1>3, <1>4, <1>5, <2>1, PipeNames DEF GroupInv
<1> QED
  BY <1>7, <1>8, <1>9, <1>10, <1>11, <1>12 DEF PipeInv

LEMMA TakeInv ==
  ASSUME PipeInv, NEW t \in PipeThreads, TakeSignal(t)
  PROVE  PipeInv'
<1>1. PipeTypeOK /\ NumbersInv /\ PlacesInv /\ HoldersInv /\ CallsInv /\ GroupInv /\ SignalsInv
  BY DEF PipeInv
<1>2. PICK p : p = looksAt[t]
  OBVIOUS
<1>3. doing[t] = "wait" /\ p \in PlaceSet /\ unread[t] /\ mine[t] = ctrlPipe[Group[t]] /\ mine[t] # 0
      /\ ~entering[t]
  BY <1>1, <1>2 DEF TakeSignal, CallsInv
<1>4. Live(p) /\ slot[p] = mine[t]
  <2>1. PICK q \in PlaceSet : Live(q) /\ slot[q] = mine[t]
    BY <1>1, <1>3, PipeNames DEF PlacesInv
  <2>2. p = q
    BY <1>1, <1>2, <1>3, <2>1 DEF CallsInv
  <2> QED
    BY <2>1, <2>2
<1>5. /\ doing' = [doing EXCEPT ![t] = "idle"] /\ unread' = [unread EXCEPT ![t] = FALSE]
      /\ holder' = [holder EXCEPT ![p] = "nobody"]
      /\ UNCHANGED <<ctrlPipe, numbers, slot, looksAt, entering, mine>>
  BY <1>2 DEF TakeSignal, Does
<1>6. PICK n : n = signals[p] - 1
  OBVIOUS
<1>7. signals[p] \in Nat /\ slot[p] \in PipeFds
  BY <1>1, <1>3, <1>4 DEF PipeTypeOK
<1>8. signals' = [signals EXCEPT ![p] = n]
  BY <1>2, <1>6 DEF TakeSignal
<1>9. /\ doing'[t] = "idle" /\ ~unread'[t] /\ holder'[p] = "nobody"
      /\ \A u \in PipeThreads : u # t => doing'[u] = doing[u] /\ unread'[u] = unread[u]
      /\ \A q \in PlaceSet : q # p => holder'[q] = holder[q]
      /\ unread' \in [PipeThreads -> BOOLEAN]
  BY <1>1, <1>3, <1>5 DEF PipeTypeOK
<1>10. \A f \in PipeFds : f = slot[p] => n = Cardinality(Unread(f)') /\ n \in Nat
  <2> SUFFICES ASSUME NEW f \in PipeFds, f = slot[p] PROVE n = Cardinality(Unread(f)') /\ n \in Nat
    OBVIOUS
  <2>1. Unread(f)' = Unread(f) \ {t} /\ t \in Unread(f)
    BY <1>3, <1>4, <1>5, <1>9 DEF Unread
  <2>2. signals[p] = Cardinality(Unread(f))
    BY <1>1, <1>3, <1>4 DEF SignalsInv
  <2>3. Cardinality(Unread(f) \ {t}) = Cardinality(Unread(f)) - 1
    BY <2>1, UnreadFinite, FS_RemoveElement
  <2>4. IsFiniteSet(Unread(f) \ {t})
    BY UnreadFinite, FS_Subset
  <2>5. Cardinality(Unread(f) \ {t}) \in Nat
    BY <2>4, FS_CardinalityType
  <2> QED
    BY <1>6, <2>1, <2>2, <2>3, <2>5
<1>11. n \in Nat
  BY <1>7, <1>10
<1>12. /\ eventSet' \in [PlaceSet -> BOOLEAN] /\ eventSet'[p] = (n > 0)
       /\ \A q \in PlaceSet : q # p => eventSet'[q] = eventSet[q]
  <2>1. signals'[p] = n
    BY <1>1, <1>3, <1>8 DEF PipeTypeOK
  <2>2. PICK b \in BOOLEAN : b = ~ResetsAt(n)
    BY <1>11 DEF ResetsAt
  <2>3. b = (n > 0)
    BY <1>11, <2>2 DEF ResetsAt
  <2>4. eventSet' = [eventSet EXCEPT ![p] = b]
    BY <1>2, <2>1, <2>2 DEF TakeSignal
  <2>5. eventSet' \in [PlaceSet -> BOOLEAN] /\ eventSet'[p] = b
        /\ \A q \in PlaceSet : q # p => eventSet'[q] = eventSet[q]
    BY <1>1, <1>3, <2>4 DEF PipeTypeOK
  <2> QED
    BY <2>3, <2>5
<1>13. PipeTypeOK'
  <2>1. signals' \in [PlaceSet -> Nat]
    BY <1>1, <1>8, <1>11 DEF PipeTypeOK
  <2> QED
    BY <1>1, <1>5, <1>12, <2>1 DEF PipeTypeOK
<1>14. \A q \in PlaceSet : Live(q)' = Live(q)
  BY <1>3, <1>5, <1>9 DEF Live
<1>15. SignalsInv'
  <2>1. slot[p] = ctrlPipe[Group[t]] /\ UNCHANGED <<ctrlPipe, slot>>
    BY <1>3, <1>4, <1>5
  <2>2. \A f \in PipeFds : f = slot[p] => n = Cardinality(Unread(f)')
    BY <1>10
  <2> QED
    BY <1>3, <1>4, <1>8, <1>9, <1>12, <1>14, <2>1, <2>2, SignalsChange, ZenonT(60)
<1>16. NumbersInv' /\ PlacesInv'
  BY <1>1, <1>3, <1>5, <1>9, <1>14 DEF NumbersInv, PlacesInv
<1>17. HoldersInv'
  <2> SUFFICES ASSUME NEW u \in PipeThreads, NEW q \in PlaceSet
               PROVE  holder'[q] = u <=> doing'[u] \in {"wait", "free"} /\ looksAt[u] = q
    BY <1>5 DEF HoldersInv
  <2>1. holder[p] = t
    BY <1>1, <1>2, <1>3 DEF HoldersInv
  <2>2. CASE u = t
    BY <1>1, <1>2, <1>3, <1>9, <2>1, <2>2, PipeNames DEF HoldersInv
  <2>3. CASE u # t
    BY <1>1, <1>3, <1>9, <2>1, <2>3, PipeNames DEF HoldersInv
  <2> QED
    BY <2>2, <2>3
<1>18. CallsInv'
  BY <1>1, <1>3, <1>5, <1>9, <1>14 DEF CallsInv
<1>19. GroupInv'
  <2>1. doing[Group[t]] \notin {"close", "free"}
    BY <1>1, <1>3 DEF GroupInv
  <2>2. \A u \in PipeThreads : doing'[Group[u]] \in {"close", "free"} =>
          doing[Group[u]] \in {"close", "free"} /\ u # t
    BY <1>9, <2>1, PipeNames
  <2>3. \A u \in PipeThreads : unread'[u] => unread[u]
    BY <1>9
  <2> QED
    BY <1>1, <1>5, <1>9, <2>2, <2>3 DEF GroupInv
<1> QED
  BY <1>13, <1>15, <1>16, <1>17, <1>18, <1>19 DEF PipeInv

LEMMA PutPipeInv ==
  ASSUME PipeInv, NEW t \in PipeThreads, NEW p \in PlaceSet, PutPipe(t, p)
  PROVE  PipeInv'
<1>1. PipeTypeOK /\ NumbersInv /\ PlacesInv /\ HoldersInv /\ CallsInv /\ GroupInv /\ SignalsInv
  BY DEF PipeInv
<1>2. PICK f : f = mine[t]
  OBVIOUS
<1>3. /\ doing[t] = "pipe" /\ p = looksAt[t] /\ slot[p] = 0 /\ holder[p] = "nobody"
      /\ doing' = [doing EXCEPT ![t] = "idle"] /\ entering' = [entering EXCEPT ![t] = FALSE]
      /\ slot' = [slot EXCEPT ![p] = f] /\ ctrlPipe' = [ctrlPipe EXCEPT ![t] = f]
      /\ eventSet' = [eventSet EXCEPT ![p] = FALSE] /\ signals' = [signals EXCEPT ![p] = 0]
      /\ UNCHANGED <<numbers, holder, unread, looksAt, mine>>
  BY <1>2 DEF PutPipe, Found, Enters, Wanted, Does
<1>4. Group[t] = t /\ ctrlPipe[t] = 0 /\ f \in numbers /\ f \in PipeFds /\ f # 0
  <2>1. Group[t] = t /\ ctrlPipe[t] = 0 /\ f \in numbers
    BY <1>1, <1>2, <1>3 DEF NumbersInv
  <2> QED
    BY <1>1, <2>1, PipeNumbers DEF PipeTypeOK
<1>5. /\ doing'[t] = "idle" /\ ~entering'[t] /\ ctrlPipe'[t] = f
      /\ \A u \in PipeThreads : u # t => doing'[u] = doing[u] /\ entering'[u] = entering[u]
                                         /\ ctrlPipe'[u] = ctrlPipe[u]
      /\ slot'[p] = f /\ signals'[p] = 0 /\ eventSet'[p] = FALSE
      /\ \A q \in PlaceSet : q # p => slot'[q] = slot[q] /\ signals'[q] = signals[q]
                                      /\ eventSet'[q] = eventSet[q]
  BY <1>1, <1>3 DEF PipeTypeOK
<1>6. PipeTypeOK'
  BY <1>1, <1>3, <1>4 DEF PipeTypeOK
<1>7. \A u \in PipeThreads : ctrlPipe[u] # f
  BY <1>1, <1>2, <1>3 DEF NumbersInv
<1>8. \A q \in PlaceSet : Live(q) => slot[q] # f
  BY <1>1, <1>7 DEF PlacesInv
<1>9. ~Live(p) /\ Live(p)' /\ \A q \in PlaceSet : q # p => Live(q)' = Live(q)
  <2>1. \A u \in PipeThreads : ~(doing[u] = "free" /\ looksAt[u] = p)
    BY <1>1, <1>3, PipeNames DEF HoldersInv
  <2>2. \A u \in PipeThreads : doing'[u] = "free" <=> doing[u] = "free"
    BY <1>3, <1>5
  <2> QED
    BY <1>3, <1>4, <1>5, <2>1, <2>2 DEF Live
<1>10. NumbersInv'
  <2>1. \A u \in PipeThreads : doing'[u] = "pipe" => doing[u] = "pipe" /\ u # t
    BY <1>5
  <2>2. \A u \in PipeThreads : doing[u] = "pipe" /\ u # t => mine[u] # f
    BY <1>1, <1>2, <1>3 DEF NumbersInv
  <2> QED
    BY <1>1, <1>3, <1>4, <1>5, <1>7, <2>1, <2>2 DEF NumbersInv
<1>11. PlacesInv'
  <2>1. \A u \in PipeThreads : ctrlPipe'[u] # 0 =>
          \E q \in PlaceSet : Live(q)' /\ slot'[q] = ctrlPipe'[u]
    <3> SUFFICES ASSUME NEW u \in PipeThreads, ctrlPipe'[u] # 0
                 PROVE  \E q \in PlaceSet : Live(q)' /\ slot'[q] = ctrlPipe'[u]
      OBVIOUS
    <3>1. CASE u = t
      BY <1>5, <1>9, <3>1
    <3>2. CASE u # t
      <4>1. PICK q \in PlaceSet : Live(q) /\ slot[q] = ctrlPipe[u]
        BY <1>1, <1>5, <3>2 DEF PlacesInv
      <4> QED
        BY <1>5, <1>9, <3>2, <4>1
    <3> QED
      BY <3>1, <3>2
  <2>2. \A q \in PlaceSet : Live(q)' => \E u \in PipeThreads : ctrlPipe'[u] = slot'[q]
    <3> SUFFICES ASSUME NEW q \in PlaceSet, Live(q)'
                 PROVE  \E u \in PipeThreads : ctrlPipe'[u] = slot'[q]
      OBVIOUS
    <3>1. CASE q = p
      BY <1>5, <3>1
    <3>2. CASE q # p
      <4>1. Live(q) /\ slot'[q] = slot[q]
        BY <1>5, <1>9, <3>2
      <4>2. PICK u \in PipeThreads : ctrlPipe[u] = slot[q]
        BY <1>1, <4>1 DEF PlacesInv
      <4>3. u # t
        BY <1>4, <4>1, <4>2 DEF Live
      <4> QED
        BY <1>5, <4>1, <4>2, <4>3
    <3> QED
      BY <3>1, <3>2
  <2>3. \A q, r \in PlaceSet : Live(q)' /\ Live(r)' /\ slot'[q] = slot'[r] => q = r
    BY <1>1, <1>5, <1>8, <1>9 DEF PlacesInv
  <2> QED
    BY <2>1, <2>2, <2>3 DEF PlacesInv
<1>12. HoldersInv'
  BY <1>1, <1>3, <1>5 DEF HoldersInv
<1>13. ASSUME NEW u \in PipeThreads
       PROVE  /\ Group[u] = t => ~unread[u] /\ doing[u] \notin {"write", "read", "wait", "close"}
              /\ Group[u] # t => ctrlPipe'[Group[u]] = ctrlPipe[Group[u]]
  <2>1. Group[u] = t => ~unread[u]
    BY <1>1, <1>4 DEF GroupInv
  <2>2. Group[u] = t => doing[u] \notin {"write", "read", "wait", "close"}
    BY <1>1, <1>4 DEF CallsInv
  <2> QED
    BY <1>5, <2>1, <2>2, PipeNames
<1>14. CallsInv'
  <2> SUFFICES ASSUME NEW u \in PipeThreads
      PROVE  /\ doing'[u] \in {"write", "read", "wait", "close"} =>
                  /\ mine[u] = ctrlPipe'[Group[u]] /\ mine[u] # 0
                  /\ \A q \in PlaceSet : Live(q)' /\ slot'[q] = mine[u] =>
                       looksAt[u] <= q /\ (doing'[u] = "wait" => looksAt[u] = q)
             /\ doing'[u] \in {"wait", "free"} => looksAt[u] \in PlaceSet
             /\ doing'[u] \in {"read", "wait"} => unread[u]
             /\ doing'[u] = "write" => ~unread[u]
             /\ doing'[u] \in {"close", "free"} => Group[u] = u
             /\ doing'[u] = "free" => ctrlPipe'[u] = 0 /\ slot'[looksAt[u]] # 0
             /\ doing'[u] # "failed"
             /\ entering'[u] => doing'[u] \in {"pipe", "write", "read", "close"}
                                /\ looksAt[u] \in PlaceSet
    BY <1>3 DEF CallsInv
  <2>1. CASE u = t
    BY <1>5, <2>1
  <2>2. CASE u # t
    <3>1. doing'[u] = doing[u] /\ entering'[u] = entering[u] /\ ctrlPipe'[u] = ctrlPipe[u]
      BY <1>5, <2>2
    <3>2. ASSUME doing[u] \in {"write", "read", "wait", "close"}
          PROVE  /\ mine[u] = ctrlPipe'[Group[u]] /\ mine[u] # 0
                 /\ \A q \in PlaceSet : Live(q)' /\ slot'[q] = mine[u] =>
                      looksAt[u] <= q /\ (doing[u] = "wait" => looksAt[u] = q)
      <4>1. Group[u] # t /\ mine[u] = ctrlPipe[Group[u]] /\ mine[u] # 0
        BY <1>1, <1>13, <3>2 DEF CallsInv
      <4>2. mine[u] # f
        BY <1>7, <4>1, PipeNames
      <4> QED
        BY <1>1, <1>5, <1>9, <1>13, <3>2, <4>1, <4>2 DEF CallsInv
    <3>3. doing[u] = "free" => slot'[looksAt[u]] # 0
      BY <1>1, <1>4, <1>5 DEF CallsInv
    <3> QED
      BY <1>1, <3>1, <3>2, <3>3 DEF CallsInv
  <2> QED
    BY <2>1, <2>2
<1>15. GroupInv'
  <2>1. \A u \in PipeThreads : doing'[Group[u]] \in {"close", "free"} =>
          doing[Group[u]] \in {"close", "free"} /\ Group[u] # t
    BY <1>5, PipeNames
  <2>2. \A u \in PipeThreads : doing[u] = "idle" => doing'[u] = "idle"
    BY <1>5
  <2>3. \A u \in PipeThreads : unread[u] => ctrlPipe'[Group[u]] # 0
    BY <1>1, <1>13 DEF GroupInv
  <2> QED
    BY <1>1, <1>3, <2>1, <2>2, <2>3 DEF GroupInv
<1>16. SignalsInv'
  <2> SUFFICES ASSUME NEW q \in PlaceSet, NEW g \in PipeFds, Live(q)', slot'[q] = g
               PROVE  signals'[q] = Cardinality(Unread(g)') /\ eventSet'[q] = (signals'[q] > 0)
    BY DEF SignalsInv
  <2>1. CASE q = p
    <3>1. Unread(g)' = {}
      BY <1>1, <1>3, <1>4, <1>5, <1>7, <1>13, <2>1, PipeNames DEF Unread
    <3>2. signals'[q] = 0 /\ eventSet'[q] = FALSE
      BY <1>5, <2>1
    <3>3. (0 > 0) = FALSE
      OBVIOUS
    <3>4. Cardinality(Unread(g)') = 0
      BY <3>1, FS_EmptySet
    <3> QED
      BY <3>2, <3>3, <3>4
  <2>2. CASE q # p
    <3>1. Live(q) /\ slot[q] = g
      BY <1>5, <1>9, <2>2
    <3>2. g # f /\ g # 0
      BY <1>8, <3>1 DEF Live
    <3>3. Unread(g)' = Unread(g)
      BY <1>3, <1>4, <1>5, <1>13, <3>2 DEF Unread
    <3> QED
      BY <1>1, <1>5, <2>2, <3>1, <3>3 DEF SignalsInv
  <2> QED
    BY <2>1, <2>2
<1> QED
  BY <1>6, <1>10, <1>11, <1>12, <1>14, <1>15, <1>16 DEF PipeInv

(* The number of a pipe that is closed may be given again while its place  *)
(* is not yet free.                                                        *)
LEMMA CloseNumberInv ==
  ASSUME PipeInv, NEW t \in PipeThreads, NEW p \in PlaceSet, CloseNumber(t, p)
  PROVE  PipeInv'
<1>1. PipeTypeOK /\ NumbersInv /\ PlacesInv /\ HoldersInv /\ CallsInv /\ GroupInv /\ SignalsInv
  BY DEF PipeInv
<1>2. Found(t, "close", p)
  BY DEF CloseNumber
<1>3. /\ Live(p) /\ slot[p] = mine[t] /\ looksAt[t] = p /\ doing[t] = "close" /\ holder[p] = "nobody"
      /\ mine[t] = ctrlPipe[Group[t]] /\ mine[t] # 0 /\ UNCHANGED <<looksAt, mine>>
      /\ entering' = [entering EXCEPT ![t] = FALSE]
  BY <1>2, FoundLive
<1>4. /\ doing' = [doing EXCEPT ![t] = "free"] /\ holder' = [holder EXCEPT ![p] = t]
      /\ numbers' = numbers \ {mine[t]} /\ ctrlPipe' = [ctrlPipe EXCEPT ![t] = 0]
      /\ UNCHANGED <<slot, eventSet, signals, unread>>
  BY DEF CloseNumber, Does
<1>5. Group[t] = t /\ \A u \in PipeThreads : Group[u] = t => ~unread[u] /\ (u # t => doing[u] = "idle")
  BY <1>1, <1>3 DEF CallsInv, GroupInv
<1>6. /\ doing'[t] = "free" /\ ~entering'[t] /\ holder'[p] = t /\ ctrlPipe'[t] = 0
      /\ \A u \in PipeThreads : u # t => doing'[u] = doing[u] /\ entering'[u] = entering[u]
                                         /\ ctrlPipe'[u] = ctrlPipe[u]
      /\ \A q \in PlaceSet : q # p => holder'[q] = holder[q]
  BY <1>1, <1>3, <1>4 DEF PipeTypeOK
<1>7. PipeTypeOK'
  BY <1>1, <1>3, <1>4 DEF PipeTypeOK
<1>8. ~Live(p)' /\ \A q \in PlaceSet : q # p => Live(q)' = Live(q)
  <2>1. ~Live(p)'
    BY <1>3, <1>6 DEF Live
  <2>2. \A q \in PlaceSet : q # p => Live(q)' = Live(q)
    BY <1>3, <1>4, <1>6 DEF Live
  <2> QED
    BY <2>1, <2>2
<1>9. \A u \in PipeThreads : u # t => ctrlPipe[u] # mine[t] /\ (doing[u] = "pipe" => mine[u] # mine[t])
  BY <1>1, <1>3, <1>5 DEF NumbersInv
<1>10. NumbersInv'
  <2>1. \A u \in PipeThreads : ctrlPipe'[u] # 0 => u # t /\ ctrlPipe'[u] = ctrlPipe[u]
    BY <1>6
  <2>2. \A u \in PipeThreads : doing'[u] = "pipe" => u # t /\ doing[u] = "pipe"
    BY <1>6
  <2>3. \A u \in PipeThreads : doing[u] = "pipe" => mine[u] # 0
    BY <1>1, PipeNumbers DEF NumbersInv, PipeTypeOK
  <2> QED
    BY <1>1, <1>3, <1>4, <1>6, <1>9, <2>1, <2>2, <2>3 DEF NumbersInv
<1>11. PlacesInv'
  <2>1. \A q \in PlaceSet : q # p /\ Live(q) => slot[q] # mine[t]
    BY <1>1, <1>3 DEF PlacesInv
  <2>2. ASSUME NEW u \in PipeThreads, ctrlPipe'[u] # 0
        PROVE  \E q \in PlaceSet : Live(q)' /\ slot[q] = ctrlPipe'[u]
    <3>1. u # t /\ ctrlPipe'[u] = ctrlPipe[u] /\ ctrlPipe[u] # mine[t]
      BY <1>6, <1>9, <2>2
    <3>2. PICK q \in PlaceSet : Live(q) /\ slot[q] = ctrlPipe[u]
      BY <1>1, <2>2, <3>1 DEF PlacesInv
    <3>3. q # p
      BY <1>3, <3>1, <3>2
    <3> QED
      BY <1>8, <3>1, <3>2, <3>3
  <2>3. ASSUME NEW q \in PlaceSet, Live(q)'
        PROVE  \E u \in PipeThreads : ctrlPipe'[u] = slot[q]
    <3>1. q # p /\ Live(q)
      BY <1>8, <2>3
    <3>2. PICK u \in PipeThreads : ctrlPipe[u] = slot[q]
      BY <1>1, <3>1 DEF PlacesInv
    <3>3. u # t
      BY <1>3, <1>5, <2>1, <3>1, <3>2
    <3> QED
      BY <1>6, <3>2, <3>3
  <2>4. \A q, r \in PlaceSet : Live(q)' /\ Live(r)' /\ slot[q] = slot[r] => q = r
    BY <1>1, <1>8 DEF PlacesInv
  <2> QED
    BY <1>4, <2>2, <2>3, <2>4 DEF PlacesInv
<1>12. HoldersInv'
  <2> SUFFICES ASSUME NEW u \in PipeThreads, NEW q \in PlaceSet
               PROVE  holder'[q] = u <=> doing'[u] \in {"wait", "free"} /\ looksAt[u] = q
    BY <1>3 DEF HoldersInv
  <2>1. CASE u = t
    BY <1>1, <1>3, <1>6, <2>1 DEF HoldersInv
  <2>2. CASE u # t
    BY <1>1, <1>3, <1>6, <2>2, PipeNames DEF HoldersInv
  <2> QED
    BY <2>1, <2>2
<1>13. \A u \in PipeThreads : Group[u] # t => ctrlPipe'[Group[u]] = ctrlPipe[Group[u]]
  BY <1>6, PipeNames
<1>14. CallsInv'
  <2> SUFFICES ASSUME NEW u \in PipeThreads
      PROVE  /\ doing'[u] \in {"write", "read", "wait", "close"} =>
                  /\ mine[u] = ctrlPipe'[Group[u]] /\ mine[u] # 0
                  /\ \A q \in PlaceSet : Live(q)' /\ slot[q] = mine[u] =>
                       looksAt[u] <= q /\ (doing'[u] = "wait" => looksAt[u] = q)
             /\ doing'[u] \in {"wait", "free"} => looksAt[u] \in PlaceSet
             /\ doing'[u] \in {"read", "wait"} => unread[u]
             /\ doing'[u] = "write" => ~unread[u]
             /\ doing'[u] \in {"close", "free"} => Group[u] = u
             /\ doing'[u] = "free" => ctrlPipe'[u] = 0 /\ slot[looksAt[u]] # 0
             /\ doing'[u] # "failed"
             /\ entering'[u] => doing'[u] \in {"pipe", "write", "read", "close"}
                                /\ looksAt[u] \in PlaceSet
    BY <1>3, <1>4 DEF CallsInv
  <2>1. CASE u = t
    BY <1>3, <1>5, <1>6, <2>1
  <2>2. CASE u # t
    <3>1. doing'[u] = doing[u] /\ entering'[u] = entering[u] /\ ctrlPipe'[u] = ctrlPipe[u]
      BY <1>6, <2>2
    <3>2. doing[u] \in {"write", "read", "wait", "close"} => Group[u] # t
      BY <1>5, <2>2
    <3>3. \A q \in PlaceSet : Live(q)' => Live(q)
      BY <1>8
    <3> QED
      BY <1>1, <1>13, <3>1, <3>2, <3>3 DEF CallsInv
  <2> QED
    BY <2>1, <2>2
<1>15. GroupInv'
  <2> SUFFICES ASSUME NEW u \in PipeThreads
               PROVE  /\ unread[u] => ctrlPipe'[Group[u]] # 0
                      /\ doing'[Group[u]] \in {"close", "free"} =>
                           ~unread[u] /\ (u # Group[u] => doing'[u] = "idle")
    BY <1>4 DEF GroupInv
  <2>1. CASE Group[u] = t
    BY <1>5, <1>6, <2>1
  <2>2. CASE Group[u] # t
    <3>1. doing'[Group[u]] = doing[Group[u]] /\ u # t
      BY <1>5, <1>6, <2>2, PipeNames
    <3> QED
      BY <1>1, <1>6, <1>13, <2>2, <3>1 DEF GroupInv
  <2> QED
    BY <2>1, <2>2
<1>16. SignalsInv'
  <2> SUFFICES ASSUME NEW q \in PlaceSet, NEW f \in PipeFds, Live(q)', slot[q] = f
               PROVE  signals[q] = Cardinality(Unread(f)') /\ eventSet[q] = (signals[q] > 0)
    BY <1>4 DEF SignalsInv
  <2>1. Live(q) /\ q # p
    BY <1>8
  <2>2. Unread(f)' = Unread(f)
    <3>1. f # mine[t] /\ f # 0
      BY <1>1, <1>3, <2>1, PipeNumbers DEF PlacesInv
    <3>2. \A u \in PipeThreads : unread[u] => Group[u] # t
      BY <1>5
    <3> QED
      BY <1>4, <1>13, <3>1, <3>2 DEF Unread
  <2> QED
    BY <1>1, <2>1, <2>2 DEF SignalsInv
<1> QED
  BY <1>7, <1>10, <1>11, <1>12, <1>14, <1>15, <1>16 DEF PipeInv

LEMMA FreePlaceInv ==
  ASSUME PipeInv, NEW t \in PipeThreads, FreePlace(t)
  PROVE  PipeInv'
<1>1. PipeTypeOK /\ NumbersInv /\ PlacesInv /\ HoldersInv /\ CallsInv /\ GroupInv /\ SignalsInv
  BY DEF PipeInv
<1>2. PICK p : p = looksAt[t]
  OBVIOUS
<1>3. /\ doing[t] = "free" /\ doing' = [doing EXCEPT ![t] = "idle"]
      /\ slot' = [slot EXCEPT ![p] = 0] /\ holder' = [holder EXCEPT ![p] = "nobody"]
      /\ UNCHANGED <<ctrlPipe, numbers, eventSet, signals, looksAt, entering, mine, unread>>
  BY <1>2 DEF FreePlace, Does
<1>4. p \in PlaceSet /\ Group[t] = t /\ holder[p] = t /\ ~entering[t]
  BY <1>1, <1>2, <1>3 DEF CallsInv, HoldersInv
<1>5. /\ doing'[t] = "idle" /\ slot'[p] = 0 /\ holder'[p] = "nobody"
      /\ \A u \in PipeThreads : u # t => doing'[u] = doing[u]
      /\ \A q \in PlaceSet : q # p => holder'[q] = holder[q] /\ slot'[q] = slot[q]
  BY <1>1, <1>3, <1>4 DEF PipeTypeOK
<1>6. PipeTypeOK'
  BY <1>1, <1>3, <1>4 DEF PipeTypeOK
<1>7. \A q \in PlaceSet : Live(q)' = Live(q) /\ (Live(q) => q # p /\ slot'[q] = slot[q])
  <2> SUFFICES ASSUME NEW q \in PlaceSet
               PROVE  Live(q)' = Live(q) /\ (Live(q) => q # p /\ slot'[q] = slot[q])
    OBVIOUS
  <2>1. CASE q = p
    BY <1>2, <1>3, <1>5, <2>1 DEF Live
  <2>2. CASE q # p
    BY <1>2, <1>3, <1>5, <2>2 DEF Live
  <2> QED
    BY <2>1, <2>2
<1>8. NumbersInv'
  BY <1>1, <1>3, <1>5 DEF NumbersInv
<1>9. PlacesInv'
  BY <1>1, <1>3, <1>7 DEF PlacesInv
<1>10. HoldersInv'
  <2> SUFFICES ASSUME NEW u \in PipeThreads, NEW q \in PlaceSet
               PROVE  holder'[q] = u <=> doing'[u] \in {"wait", "free"} /\ looksAt[u] = q
    BY <1>3 DEF HoldersInv
  <2>1. CASE u = t
    BY <1>1, <1>2, <1>4, <1>5, <2>1, PipeNames DEF HoldersInv
  <2>2. CASE u # t
    BY <1>1, <1>4, <1>5, <2>2, PipeNames DEF HoldersInv
  <2> QED
    BY <2>1, <2>2
<1>11. CallsInv'
  <2> SUFFICES ASSUME NEW u \in PipeThreads
      PROVE  /\ doing'[u] \in {"write", "read", "wait", "close"} =>
                  /\ mine[u] = ctrlPipe[Group[u]] /\ mine[u] # 0
                  /\ \A q \in PlaceSet : Live(q)' /\ slot'[q] = mine[u] =>
                       looksAt[u] <= q /\ (doing'[u] = "wait" => looksAt[u] = q)
             /\ doing'[u] \in {"wait", "free"} => looksAt[u] \in PlaceSet
             /\ doing'[u] \in {"read", "wait"} => unread[u]
             /\ doing'[u] = "write" => ~unread[u]
             /\ doing'[u] \in {"close", "free"} => Group[u] = u
             /\ doing'[u] = "free" => ctrlPipe[u] = 0 /\ slot'[looksAt[u]] # 0
             /\ doing'[u] # "failed"
             /\ entering[u] => doing'[u] \in {"pipe", "write", "read", "close"}
                               /\ looksAt[u] \in PlaceSet
    BY <1>3 DEF CallsInv
  <2>1. CASE u = t
    BY <1>4, <1>5, <2>1
  <2>2. CASE u # t
    <3>1. doing'[u] = doing[u]
      BY <1>5, <2>2
    <3>2. doing[u] = "free" => looksAt[u] # p /\ looksAt[u] \in PlaceSet
      BY <1>1, <1>4, <2>2 DEF HoldersInv, CallsInv
    <3>3. doing[u] = "free" => slot'[looksAt[u]] # 0
      BY <1>1, <1>5, <3>2 DEF CallsInv
    <3> QED
      BY <1>1, <1>7, <3>1, <3>3 DEF CallsInv
  <2> QED
    BY <2>1, <2>2
<1>12. GroupInv'
  <2>1. \A u \in PipeThreads : doing'[Group[u]] \in {"close", "free"} =>
          doing[Group[u]] \in {"close", "free"} /\ Group[u] # t
    BY <1>5, PipeNames
  <2>2. \A u \in PipeThreads : doing[u] = "idle" => doing'[u] = "idle"
    BY <1>5
  <2> QED
    BY <1>1, <1>3, <2>1, <2>2 DEF GroupInv
<1>13. SignalsInv'
  <2>1. \A f : Unread(f)' = Unread(f)
    BY <1>3 DEF Unread
  <2> QED
    BY <1>1, <1>3, <1>7, <2>1 DEF SignalsInv
<1> QED
  BY <1>6, <1>8, <1>9, <1>10, <1>11, <1>12, <1>13 DEF PipeInv

-----------------------------------------------------------------------------
LEMMA PipeStepInv == PipeInv /\ [PipeNext]_pipeVars => PipeInv'
<1> SUFFICES ASSUME PipeInv, [PipeNext]_pipeVars PROVE PipeInv'
  OBVIOUS
<1>1. CASE PipeNext
  BY <1>1, CallInv, LookInv, TakeInv, FreePlaceInv, PutPipeInv, PutSignalInv, WaitInv, CloseNumberInv
  DEF PipeNext
<1>2. CASE UNCHANGED pipeVars
  <2>1. \A p : Live(p)' = Live(p)
    BY <1>2 DEF Live, pipeVars, tableVars, pipeThreadVars
  <2>2. \A f : Unread(f)' = Unread(f)
    BY <1>2 DEF Unread, pipeVars, pipeThreadVars
  <2>3. /\ PipeTypeOK' /\ NumbersInv' /\ HoldersInv' /\ GroupInv'
    BY <1>2 DEF PipeInv, PipeTypeOK, NumbersInv, HoldersInv, GroupInv, pipeVars, tableVars, pipeThreadVars
  <2>4. PlacesInv' /\ CallsInv' /\ SignalsInv'
    BY <1>2, <2>1, <2>2
    DEF PipeInv, PlacesInv, CallsInv, SignalsInv, pipeVars, tableVars, pipeThreadVars
  <2> QED
    BY <2>3, <2>4 DEF PipeInv
<1> QED
  BY <1>1, <1>2

LEMMA PipeInvImplies == PipeInv => SignalsReachReaders
<1> SUFFICES ASSUME PipeInv PROVE SignalsReachReaders
  OBVIOUS
<1>1. PipeTypeOK /\ NumbersInv /\ PlacesInv /\ HoldersInv /\ CallsInv /\ GroupInv /\ SignalsInv
  BY DEF PipeInv
<1>2. ASSUME NEW t \in PipeThreads
      PROVE  doing[t] # "failed" /\ (doing[t] = "wait" => eventSet[looksAt[t]])
  <2> SUFFICES ASSUME doing[t] = "wait" PROVE eventSet[looksAt[t]]
    BY <1>1 DEF CallsInv
  <2>1. unread[t] /\ mine[t] = ctrlPipe[Group[t]] /\ mine[t] # 0
    BY <1>1 DEF CallsInv
  <2>2. PICK p \in PlaceSet : Live(p) /\ slot[p] = mine[t]
    BY <1>1, <2>1, PipeNames DEF PlacesInv
  <2>3. looksAt[t] = p /\ slot[p] \in PipeFds
    BY <1>1, <2>1, <2>2 DEF CallsInv, PipeTypeOK
  <2>4. PICK k \in Nat : k = Cardinality(Unread(slot[p]))
    BY UnreadFinite
  <2>5. signals[p] = k /\ eventSet[p] = (k > 0)
    BY <1>1, <2>2, <2>3, <2>4 DEF SignalsInv
  <2>6. Unread(slot[p]) # {}
    BY <2>1, <2>2 DEF Unread
  <2>7. k # 0
    BY <2>4, <2>6, UnreadFinite, FS_EmptySet
  <2>8. (k > 0) = TRUE
    BY <2>7
  <2>9. eventSet[p] = TRUE
    BY <2>5, <2>8
  <2> QED
    BY <2>3, <2>9
<1>3. ASSUME NEW p \in PlaceSet, slot[p] # 0, holder[p] = "nobody"
      PROVE  signals[p] = Cardinality(Unread(slot[p])) /\ eventSet[p] = (signals[p] > 0)
  <2>1. Live(p)
    BY <1>1, <1>3, PipeNames DEF HoldersInv, Live
  <2>2. slot[p] \in PipeFds
    BY <1>1, <1>3 DEF PipeTypeOK
  <2> QED
    BY <1>1, <2>1, <2>2 DEF SignalsInv
<1> QED
  BY <1>2, <1>3 DEF SignalsReachReaders

(* For any number of threads, contexts and places: a call on an open pipe  *)
(* finds its place in poll_fd[], whatever pipes are opened and closed in   *)
(* between, and its event is set exactly while a signal is unread, so that *)
(* usbi_read() never waits with the critical section of the place.         *)
THEOREM SignalsAlwaysReach == PipeSpec => []SignalsReachReaders
<1>1. PipeInit => PipeInv
  BY PipeInitInv
<1>2. PipeInv /\ [PipeNext]_pipeVars => PipeInv'
  BY PipeStepInv
<1>3. PipeInv => SignalsReachReaders
  BY PipeInvImplies
<1> QED
  BY <1>1, <1>2, <1>3, PTL DEF PipeSpec

(* The pipes and the overlapped structures of the poll emulation keep      *)
(* their types, whatever threads write, read and wait.                     *)
THEOREM PipeTyped == PipeSpec => []PipeTypeOK
<1>1. PipeInit => PipeInv
  BY PipeInitInv
<1>2. PipeInv /\ [PipeNext]_pipeVars => PipeInv'
  BY PipeStepInv
<1>3. PipeInv => PipeTypeOK
  BY DEF PipeInv
<1> QED
  BY <1>1, <1>2, <1>3, PTL DEF PipeSpec

-----------------------------------------------------------------------------
(* Descriptors of the OpenBSD backend (OpenBsd.tla)                        *)

(* The device's number, if it has one, is that of its node.                *)
DeviceInv == deviceFd # -1 => deviceFd \in ObsdFds /\ files[deviceFd] = "control"

(* Each open handle has a pipe of its own.                                 *)
PipesOwned ==
  /\ \A h \in obsdOpen : eventPipe[h] \in ObsdFds /\ files[eventPipe[h]] = "pipe"
  /\ \A g, h \in obsdOpen : eventPipe[g] = eventPipe[h] => g = h

(* A claim forgets the numbers the handle has, the zeros of libusb_open()  *)
(* too; one it gets after that is of the endpoint's node, and its own.     *)
Claimed(h) == obsdClaims[h] # {}

NodesInv ==
  /\ \A h \in ObsdHandles : \A n \in Nodes : Claimed(h) /\ endpointFd[h][n] # -1 =>
       endpointFd[h][n] \in ObsdFds /\ files[endpointFd[h][n]] = n
  /\ \A g, h \in ObsdHandles : \A n \in Nodes :
       Claimed(g) /\ Claimed(h) /\ endpointFd[g][n] # -1 /\ endpointFd[g][n] = endpointFd[h][n] => g = h

(* A closed handle has no claims, and nothing in flight.                   *)
ClosedInv ==
  \A h \in ObsdHandles : h \notin obsdOpen => obsdClaims[h] = {} /\ messages[h] = <<>>

MessagesInv ==
  \A h \in ObsdHandles :
    /\ Range(messages[h]) = {n \in ObsdEndpoints : <<h, n>> \in obsdFlying}
    /\ IsInjective(messages[h])

ObsdInv == ObsdTypeOK /\ DeviceInv /\ PipesOwned /\ NodesInv /\ ClosedInv /\ MessagesInv

-----------------------------------------------------------------------------
LEMMA ObsdStrings ==
  /\ \A n \in Nodes : n # "control" /\ n # "pipe" /\ n # "free"
  /\ 0 \notin ObsdFds /\ -1 \notin ObsdFds
<1>1. \A n \in Nodes : n # "control" /\ n # "pipe" /\ n # "free"
  BY ObsdAssumption
<1>2. MaxObsdFd \in Nat
  BY ObsdAssumption
<1>3. 0 \notin 1..MaxObsdFd /\ -1 \notin 1..MaxObsdFd
  BY <1>2
<1> QED
  BY <1>1, <1>3 DEF ObsdFds

(* The kernel gives out the lowest free number: there is one if any is     *)
(* free.                                                                   *)
LEMMA LowestIsFree ==
  ASSUME FreeObsdFds # {}
  PROVE  LowestObsdFd \in ObsdFds /\ files[LowestObsdFd] = "free"
<1>1. MaxObsdFd \in Nat
  BY ObsdAssumption
<1>2. FreeObsdFds \in SUBSET Nat
  <2>1. \A f \in 1..MaxObsdFd : f \in Nat
    BY <1>1
  <2> QED
    BY <2>1 DEF FreeObsdFds, ObsdFds
<1>3. LowestObsdFd \in FreeObsdFds
  BY <1>2, LeastElement DEF LowestObsdFd
<1> QED
  BY <1>3 DEF FreeObsdFds

(* The second of two free numbers.                                         *)
LEMMA NextIsFree ==
  ASSUME Cardinality(FreeObsdFds) > 1, NEW p, p = Min(FreeObsdFds \ {LowestObsdFd})
  PROVE  /\ LowestObsdFd \in ObsdFds /\ files[LowestObsdFd] = "free"
         /\ p \in ObsdFds /\ files[p] = "free" /\ p # LowestObsdFd
<1>1. MaxObsdFd \in Nat
  BY ObsdAssumption
<1>2. FreeObsdFds \in SUBSET Nat
  <2>1. \A f \in 1..MaxObsdFd : f \in Nat
    BY <1>1
  <2> QED
    BY <2>1 DEF FreeObsdFds, ObsdFds
<1>3. Cardinality({}) = 0
  BY FS_EmptySet
<1>4. FreeObsdFds # {}
  BY <1>3
<1>5. Cardinality({LowestObsdFd}) = 1
  BY FS_Singleton
<1>6. FreeObsdFds \ {LowestObsdFd} # {}
  <2> SUFFICES ASSUME FreeObsdFds \ {LowestObsdFd} = {} PROVE FALSE
    OBVIOUS
  <2>1. LowestObsdFd \in FreeObsdFds
    BY <1>2, <1>4, LeastElement DEF LowestObsdFd
  <2>2. FreeObsdFds = {LowestObsdFd}
    BY <2>1
  <2> QED
    BY <1>5, <2>2
<1>7. p \in FreeObsdFds \ {LowestObsdFd}
  BY <1>2, <1>6, LeastElement
<1>8. LowestObsdFd \in ObsdFds /\ files[LowestObsdFd] = "free"
  BY <1>4, LowestIsFree
<1> QED
  BY <1>7, <1>8 DEF FreeObsdFds

-----------------------------------------------------------------------------
LEMMA ObsdInitInv == ObsdInit => ObsdInv
<1> SUFFICES ASSUME ObsdInit PROVE ObsdInv
  OBVIOUS
<1>1. MaxObsdFd \in Nat
  BY ObsdAssumption
<1>2. 0 \in 0..MaxObsdFd /\ 0 \in -1..MaxObsdFd
  BY <1>1
<1>3. <<>> \in Seq(ObsdEndpoints) /\ Range(<<>>) = {} /\ IsInjective(<<>>)
  BY DEF Range, IsInjective
<1>4. ObsdTypeOK
  BY <1>2, <1>3 DEF ObsdInit, ObsdTypeOK
<1>5. DeviceInv /\ PipesOwned /\ NodesInv /\ ClosedInv
  BY DEF ObsdInit, DeviceInv, PipesOwned, NodesInv, Claimed, ClosedInv
<1>6. MessagesInv
  BY <1>3 DEF ObsdInit, MessagesInv
<1> QED
  BY <1>4, <1>5, <1>6 DEF ObsdInv

(* No interface is released while its handle has another one.              *)
ReleasedTogether == "part_release" \notin ObsdFaults

LEMMA ObsdUnchanged ==
  ASSUME ObsdInv, UNCHANGED obsdVars
  PROVE  ObsdInv'
<1>1. ObsdTypeOK' /\ ClosedInv' /\ MessagesInv'
  BY DEF ObsdInv, obsdVars, ObsdTypeOK, ClosedInv, MessagesInv
<1>2. DeviceInv' /\ PipesOwned' /\ NodesInv'
  BY DEF ObsdInv, obsdVars, DeviceInv, PipesOwned, NodesInv, Claimed
<1> QED
  BY <1>1, <1>2 DEF ObsdInv

(* The endpoints of handles that keep their claims keep their nodes.       *)
LEMMA NodesKept ==
  ASSUME NodesInv,
         \A g \in ObsdHandles : Claimed(g)' => Claimed(g) /\ endpointFd'[g] = endpointFd[g],
         \A f \in ObsdFds : \A n \in Nodes : files[f] = n => files'[f] = n
  PROVE  NodesInv'
<1>1. ASSUME NEW h \in ObsdHandles, NEW n \in Nodes, Claimed(h)', endpointFd'[h][n] # -1
      PROVE  endpointFd'[h][n] \in ObsdFds /\ files'[endpointFd'[h][n]] = n
  <2>1. PICK f : f = endpointFd[h][n]
    OBVIOUS
  <2>2. Claimed(h) /\ endpointFd'[h][n] = f
    BY <1>1, <2>1
  <2>3. f \in ObsdFds /\ files[f] = n
    BY <1>1, <2>1, <2>2 DEF NodesInv
  <2> QED
    BY <2>2, <2>3
<1>2. ASSUME NEW g \in ObsdHandles, NEW h \in ObsdHandles, NEW n \in Nodes, Claimed(g)', Claimed(h)',
             endpointFd'[g][n] # -1, endpointFd'[g][n] = endpointFd'[h][n]
      PROVE  g = h
  <2>1. Claimed(g) /\ Claimed(h) /\ endpointFd[g][n] # -1 /\ endpointFd[g][n] = endpointFd[h][n]
    BY <1>2
  <2> QED
    BY <2>1 DEF NodesInv
<1> QED
  BY <1>1, <1>2 DEF NodesInv

(* A descriptor that was free is given out: nothing that is held changes.  *)
LEMMA GivenOut ==
  ASSUME ObsdInv, NEW d \in ObsdFds, files[d] = "free", NEW kind \in ObsdEndpoints \union {"pipe"},
         files' = [files EXCEPT ![d] = kind],
         UNCHANGED <<deviceFd, obsdOpen, eventPipe, endpointFd, obsdClaims, messages, obsdFlying>>
  PROVE  ObsdInv'
<1>1. ObsdTypeOK /\ DeviceInv /\ PipesOwned /\ NodesInv /\ ClosedInv /\ MessagesInv
  BY DEF ObsdInv
<1>2. \A f \in ObsdFds : files[f] # "free" => files'[f] = files[f]
  BY <1>1 DEF ObsdTypeOK
<1>3. ObsdTypeOK' /\ ClosedInv' /\ MessagesInv'
  BY <1>1 DEF ObsdTypeOK, ClosedInv, MessagesInv
<1>4. DeviceInv' /\ PipesOwned'
  BY <1>1, <1>2 DEF DeviceInv, PipesOwned
<1>5. NodesInv'
  BY <1>1, <1>2, ObsdStrings DEF NodesInv, Claimed
<1> QED
  BY <1>3, <1>4, <1>5 DEF ObsdInv

LEMMA ObsdListInv ==
  ASSUME ObsdInv, ObsdGetDeviceList
  PROVE  ObsdInv'
<1>1. PICK d : d = LowestObsdFd
  OBVIOUS
<1>2. d \in ObsdFds /\ files[d] = "free"
  BY <1>1, LowestIsFree DEF ObsdGetDeviceList
<1>3. CASE UNCHANGED files
  BY <1>3, ObsdUnchanged DEF ObsdGetDeviceList, obsdVars
<1>4. CASE files' = [files EXCEPT ![d] = "control"]
  <2>1. "control" \in ObsdEndpoints \union {"pipe"}
    BY DEF ObsdEndpoints
  <2> QED
    BY <1>2, <1>4, <2>1, GivenOut DEF ObsdGetDeviceList
<1> QED
  BY <1>1, <1>3, <1>4 DEF ObsdGetDeviceList

LEMMA ObsdOpenInv ==
  ASSUME ObsdInv, NEW h \in ObsdHandles, ObsdOpen(h)
  PROVE  ObsdInv'
<1>1. ObsdTypeOK /\ DeviceInv /\ PipesOwned /\ NodesInv /\ ClosedInv /\ MessagesInv
  BY DEF ObsdInv
<1>2. h \notin obsdOpen
  BY DEF ObsdOpen
<1>3. PICK p : p = Min(FreeObsdFds \ {LowestObsdFd})
  OBVIOUS
<1>4. PICK d : d = LowestObsdFd
  OBVIOUS
<1>5. d \in ObsdFds /\ files[d] = "free" /\ p \in ObsdFds /\ files[p] = "free" /\ p # d
  BY <1>3, <1>4, NextIsFree DEF ObsdOpen
<1>6. /\ \/ /\ files' = [files EXCEPT ![d] = "control", ![p] = "pipe"]
            /\ eventPipe' = [eventPipe EXCEPT ![h] = p] /\ obsdOpen' = obsdOpen \union {h}
         \/ files' = [files EXCEPT ![d] = "control"] /\ UNCHANGED <<eventPipe, obsdOpen>>
      /\ deviceFd' = d /\ endpointFd' = [endpointFd EXCEPT ![h] = [n \in Nodes |-> 0]]
      /\ messages' = [messages EXCEPT ![h] = <<>>]
      /\ UNCHANGED <<obsdClaims, obsdFlying>>
  BY <1>3, <1>4 DEF ObsdOpen
<1>7. messages[h] = <<>> /\ obsdClaims[h] = {}
  BY <1>1, <1>2 DEF ClosedInv
<1>8. messages' = messages
  BY <1>1, <1>6, <1>7 DEF ObsdTypeOK
<1>9. p \in 0..MaxObsdFd /\ 0 \in -1..MaxObsdFd
  BY <1>5, ObsdAssumption DEF ObsdFds
<1>10. /\ files' \in [ObsdFds -> ObsdEndpoints \union {"free", "pipe"}]
       /\ eventPipe' \in [ObsdHandles -> 0..MaxObsdFd] /\ obsdOpen' \subseteq ObsdHandles
  BY <1>1, <1>5, <1>6, <1>9 DEF ObsdTypeOK, ObsdEndpoints
<1>11. ObsdTypeOK'
  BY <1>1, <1>5, <1>6, <1>8, <1>9, <1>10 DEF ObsdTypeOK
<1>12. ClosedInv' /\ MessagesInv'
  BY <1>1, <1>6, <1>8 DEF ClosedInv, MessagesInv
<1>13. /\ files'[d] = "control"
       /\ \A f \in ObsdFds : files[f] # "free" => files'[f] = files[f]
  BY <1>1, <1>5, <1>6 DEF ObsdTypeOK
<1>14. DeviceInv'
  BY <1>5, <1>6, <1>13 DEF DeviceInv
<1>15. PipesOwned'
  <2>1. CASE UNCHANGED <<eventPipe, obsdOpen>>
    BY <1>1, <1>13, <2>1 DEF PipesOwned
  <2>2. CASE /\ files' = [files EXCEPT ![d] = "control", ![p] = "pipe"]
             /\ eventPipe' = [eventPipe EXCEPT ![h] = p] /\ obsdOpen' = obsdOpen \union {h}
    <3>1. files'[p] = "pipe" /\ eventPipe'[h] = p
      BY <1>1, <1>5, <2>2 DEF ObsdTypeOK
    <3>2. \A g \in obsdOpen : g # h /\ eventPipe'[g] = eventPipe[g] /\ eventPipe[g] # p
      BY <1>1, <1>2, <1>5, <2>2 DEF ObsdTypeOK, PipesOwned
    <3>3. \A g \in obsdOpen : eventPipe'[g] \in ObsdFds /\ files'[eventPipe'[g]] = "pipe"
      BY <1>1, <1>13, <3>2 DEF PipesOwned
    <3>4. \A g \in obsdOpen' : eventPipe'[g] \in ObsdFds /\ files'[eventPipe'[g]] = "pipe"
      BY <1>5, <2>2, <3>1, <3>3
    <3>5. \A f, g \in obsdOpen' : eventPipe'[f] = eventPipe'[g] => f = g
      BY <1>1, <2>2, <3>1, <3>2 DEF PipesOwned
    <3> QED
      BY <3>4, <3>5 DEF PipesOwned
  <2> QED
    BY <1>6, <2>1, <2>2
<1>16. \A g \in ObsdHandles : Claimed(g) => g # h /\ endpointFd'[g] = endpointFd[g]
  BY <1>1, <1>6, <1>7 DEF ObsdTypeOK, Claimed
<1>17. NodesInv'
  <2>1. \A g \in ObsdHandles : Claimed(g)' <=> Claimed(g)
    BY <1>6 DEF Claimed
  <2>2. \A f \in ObsdFds : \A n \in Nodes : files[f] = n => files'[f] = n
    BY <1>13, ObsdStrings
  <2> QED
    BY <1>1, <1>16, <2>1, <2>2, NodesKept
<1> QED
  BY <1>11, <1>12, <1>14, <1>15, <1>17 DEF ObsdInv

LEMMA ObsdCloseInv ==
  ASSUME ObsdInv, NEW h \in ObsdHandles, ObsdClose(h)
  PROVE  ObsdInv'
<1>1. ObsdTypeOK /\ DeviceInv /\ PipesOwned /\ NodesInv /\ ClosedInv /\ MessagesInv
  BY DEF ObsdInv
<1>2. h \in obsdOpen /\ \A n \in ObsdEndpoints : <<h, n>> \notin obsdFlying
  BY DEF ObsdClose
<1>3. /\ files' = CloseFds({deviceFd, eventPipe[h]}) /\ deviceFd' = -1
      /\ obsdOpen' = obsdOpen \ {h} /\ eventPipe' = [eventPipe EXCEPT ![h] = 0]
      /\ obsdClaims' = [obsdClaims EXCEPT ![h] = {}] /\ messages' = [messages EXCEPT ![h] = <<>>]
      /\ UNCHANGED <<endpointFd, obsdFlying>>
  BY DEF ObsdClose
<1>4. 0 \in 0..MaxObsdFd
  BY ObsdAssumption
<1>5. <<>> \in Seq(ObsdEndpoints) /\ Range(<<>>) = {} /\ IsInjective(<<>>)
  BY DEF Range, IsInjective
<1>6. ObsdTypeOK'
  BY <1>1, <1>3, <1>4, <1>5 DEF ObsdTypeOK, CloseFds
<1>7. /\ messages'[h] = <<>> /\ obsdClaims'[h] = {}
      /\ \A g \in ObsdHandles : g # h => /\ messages'[g] = messages[g] /\ obsdClaims'[g] = obsdClaims[g]
                                       /\ eventPipe'[g] = eventPipe[g]
  BY <1>1, <1>3 DEF ObsdTypeOK
<1>8. ClosedInv'
  BY <1>1, <1>3, <1>7 DEF ClosedInv
<1>9. {n \in ObsdEndpoints : <<h, n>> \in obsdFlying} = {}
  BY <1>2
<1>10. MessagesInv'
  BY <1>1, <1>3, <1>5, <1>7, <1>9 DEF MessagesInv
<1>11. \A f \in ObsdFds : f # deviceFd /\ f # eventPipe[h] => files'[f] = files[f]
  BY <1>3 DEF CloseFds
<1>12. DeviceInv'
  BY <1>3 DEF DeviceInv
<1>13. PipesOwned'
  <2>1. \A g \in obsdOpen' : /\ g \in ObsdHandles /\ g # h /\ g \in obsdOpen
                             /\ eventPipe'[g] = eventPipe[g]
    BY <1>1, <1>3, <1>7 DEF ObsdTypeOK
  <2>2. \A g \in obsdOpen' : eventPipe[g] # eventPipe[h] /\ eventPipe[g] # deviceFd
    BY <1>1, <1>2, <2>1, ObsdStrings DEF PipesOwned, DeviceInv
  <2> QED
    BY <1>1, <1>11, <2>1, <2>2 DEF PipesOwned
<1>14. NodesInv'
  <2>1. \A g \in ObsdHandles : Claimed(g)' => Claimed(g)
    BY <1>7 DEF Claimed
  <2>2. \A f \in ObsdFds : \A n \in Nodes : files[f] = n => files'[f] = n
    BY <1>1, <1>2, <1>11, ObsdStrings DEF PipesOwned, DeviceInv
  <2> QED
    BY <1>1, <1>3, <2>1, <2>2, NodesKept
<1> QED
  BY <1>6, <1>8, <1>10, <1>12, <1>13, <1>14 DEF ObsdInv

LEMMA ObsdClaimInv ==
  ASSUME ObsdInv, NEW h \in ObsdHandles, NEW i \in ObsdInterfaces, ObsdClaim(h, i)
  PROVE  ObsdInv'
<1>1. ObsdTypeOK /\ DeviceInv /\ PipesOwned /\ NodesInv /\ ClosedInv /\ MessagesInv
  BY DEF ObsdInv
<1>2. /\ h \in obsdOpen /\ obsdClaims' = [obsdClaims EXCEPT ![h] = @ \union {i}]
      /\ endpointFd' = [endpointFd EXCEPT ![h] = [n \in Nodes |-> -1]]
      /\ UNCHANGED <<files, deviceFd, obsdOpen, eventPipe, messages, obsdFlying>>
  BY DEF ObsdClaim, ResetEndpoints
<1>3. -1 \in -1..MaxObsdFd
  BY ObsdAssumption
<1>4. ObsdTypeOK'
  BY <1>1, <1>2, <1>3 DEF ObsdTypeOK
<1>5. DeviceInv' /\ PipesOwned' /\ ClosedInv' /\ MessagesInv'
  BY <1>1, <1>2 DEF DeviceInv, PipesOwned, ClosedInv, MessagesInv, ObsdTypeOK
<1>6. /\ \A n \in Nodes : endpointFd'[h][n] = -1
      /\ \A g \in ObsdHandles : g # h => endpointFd'[g] = endpointFd[g] /\ obsdClaims'[g] = obsdClaims[g]
  BY <1>1, <1>2 DEF ObsdTypeOK
<1>7. NodesInv'
  <2>1. ASSUME NEW g \in ObsdHandles, g # h, Claimed(g)'
        PROVE  Claimed(g) /\ \A n \in Nodes : endpointFd'[g][n] = endpointFd[g][n]
    BY <1>6, <2>1 DEF Claimed
  <2>2. ASSUME NEW g \in ObsdHandles, NEW n \in Nodes, Claimed(g)', endpointFd'[g][n] # -1
        PROVE  endpointFd'[g][n] \in ObsdFds /\ files[endpointFd'[g][n]] = n
    <3>1. g # h
      BY <1>6, <2>2
    <3> QED
      BY <1>1, <2>1, <2>2, <3>1 DEF NodesInv
  <2>3. ASSUME NEW f \in ObsdHandles, NEW g \in ObsdHandles, NEW n \in Nodes, Claimed(f)', Claimed(g)',
               endpointFd'[f][n] # -1, endpointFd'[f][n] = endpointFd'[g][n]
        PROVE  f = g
    <3>1. f # h /\ g # h
      BY <1>6, <2>3
    <3> QED
      BY <1>1, <2>1, <2>3, <3>1 DEF NodesInv
  <2> QED
    BY <1>2, <2>2, <2>3 DEF NodesInv
<1> QED
  BY <1>4, <1>5, <1>7 DEF ObsdInv

LEMMA ObsdReleaseInv ==
  ASSUME ReleasedTogether, ObsdInv, NEW h \in ObsdHandles, NEW i \in ObsdInterfaces,
         ObsdRelease(h, i)
  PROVE  ObsdInv'
<1>1. ObsdTypeOK /\ DeviceInv /\ PipesOwned /\ NodesInv /\ ClosedInv /\ MessagesInv
  BY DEF ObsdInv
<1>2. /\ obsdClaims[h] = {i} /\ obsdClaims' = [obsdClaims EXCEPT ![h] = {}]
      /\ files' = CloseFds({endpointFd[h][n] : n \in Nodes})
      /\ UNCHANGED <<deviceFd, obsdOpen, eventPipe, endpointFd, messages, obsdFlying>>
  <2>1. obsdClaims[h] = {i}
    BY DEF ObsdRelease, ReleasedTogether
  <2>2. obsdClaims[h] \ {i} = {}
    BY <2>1
  <2> QED
    BY <1>1, <2>1, <2>2 DEF ObsdRelease, ObsdTypeOK
<1>3. ObsdTypeOK'
  BY <1>1, <1>2 DEF ObsdTypeOK, CloseFds
<1>4. ClosedInv' /\ MessagesInv'
  BY <1>1, <1>2 DEF ClosedInv, MessagesInv, ObsdTypeOK
<1>5. \A f \in ObsdFds : files'[f] = files[f] \/ \E n \in Nodes : f = endpointFd[h][n] /\ files[f] = n
  <2>1. Claimed(h)
    BY <1>2 DEF Claimed
  <2>2. \A f \in ObsdFds : \A n \in Nodes : f = endpointFd[h][n] => files[f] = n
    BY <1>1, <2>1, ObsdStrings DEF NodesInv
  <2> QED
    BY <1>2, <2>2 DEF CloseFds
<1>6. DeviceInv' /\ PipesOwned'
  BY <1>1, <1>2, <1>5, ObsdStrings DEF DeviceInv, PipesOwned
<1>7. \A g \in ObsdHandles : Claimed(g)' => g # h /\ Claimed(g)
  BY <1>1, <1>2 DEF Claimed, ObsdTypeOK
<1>8. ASSUME NEW g \in ObsdHandles, NEW n \in Nodes, Claimed(g)', endpointFd[g][n] # -1
      PROVE  endpointFd[g][n] \in ObsdFds /\ files'[endpointFd[g][n]] = n
  <2>1. PICK f : f = endpointFd[g][n]
    OBVIOUS
  <2>2. Claimed(g) /\ g # h /\ Claimed(h)
    BY <1>2, <1>7, <1>8 DEF Claimed
  <2>3. f \in ObsdFds /\ files[f] = n
    BY <1>1, <1>8, <2>1, <2>2 DEF NodesInv
  <2>4. f # endpointFd[h][n]
    BY <1>1, <1>8, <2>1, <2>2 DEF NodesInv
  <2> QED
    BY <1>5, <2>1, <2>3, <2>4
<1>9. NodesInv'
  BY <1>1, <1>2, <1>7, <1>8 DEF NodesInv
<1> QED
  BY <1>3, <1>4, <1>6, <1>9 DEF ObsdInv

(* The node of an endpoint is opened once.                                 *)
LEMMA AccessInv ==
  ASSUME ObsdTypeOK, DeviceInv, PipesOwned, NodesInv,
         NEW h \in ObsdHandles, NEW n \in Nodes, SyncGenTransfer(h, n),
         UNCHANGED <<deviceFd, obsdOpen, eventPipe, obsdClaims>>
  PROVE  /\ DeviceInv' /\ PipesOwned' /\ NodesInv'
         /\ files' \in [ObsdFds -> ObsdEndpoints \union {"free", "pipe"}]
         /\ endpointFd' \in [ObsdHandles -> [Nodes -> -1..MaxObsdFd]]
<1>1. CASE UNCHANGED <<files, endpointFd>>
  <2>1. DeviceInv' /\ PipesOwned'
    BY <1>1 DEF DeviceInv, PipesOwned
  <2>2. NodesInv'
    BY <1>1 DEF NodesInv, Claimed
  <2> QED
    BY <1>1, <2>1, <2>2 DEF ObsdTypeOK
<1>2. CASE ~UNCHANGED <<files, endpointFd>>
  <2>1. PICK d : d = LowestObsdFd
    OBVIOUS
  <2>2. /\ FreeObsdFds # {} /\ files' = [files EXCEPT ![d] = n]
        /\ endpointFd' = [endpointFd EXCEPT ![h][n] = d] /\ Claimed(h)
    BY <1>2, <2>1 DEF SyncGenTransfer, AccessEndpoint, Claimed
  <2>3. d \in ObsdFds /\ files[d] = "free"
    BY <2>1, <2>2, LowestIsFree
  <2>4. d \in -1..MaxObsdFd
    BY <2>3, ObsdAssumption DEF ObsdFds
  <2>5. files' \in [ObsdFds -> ObsdEndpoints \union {"free", "pipe"}]
        /\ endpointFd' \in [ObsdHandles -> [Nodes -> -1..MaxObsdFd]]
    BY <2>2, <2>4 DEF ObsdTypeOK, ObsdEndpoints
  <2>6. /\ files'[d] = n /\ \A f \in ObsdFds : files[f] # "free" => files'[f] = files[f]
        /\ endpointFd'[h][n] = d
        /\ \A g \in ObsdHandles : \A m \in Nodes :
             g # h \/ m # n => endpointFd'[g][m] = endpointFd[g][m]
    BY <2>2, <2>3 DEF ObsdTypeOK
  <2>7. DeviceInv' /\ PipesOwned'
    BY <2>6 DEF DeviceInv, PipesOwned
  <2>8. \A g \in ObsdHandles : Claimed(g)' <=> Claimed(g)
    BY DEF Claimed
  <2>9. \A g \in ObsdHandles : Claimed(g) => \A m \in Nodes : endpointFd[g][m] # d
    BY <2>3, ObsdStrings DEF NodesInv
  <2>10. NodesInv'
    <3>1. ASSUME NEW g \in ObsdHandles, NEW m \in Nodes, Claimed(g), endpointFd'[g][m] # -1
          PROVE  endpointFd'[g][m] \in ObsdFds /\ files'[endpointFd'[g][m]] = m
      <4>1. CASE g = h /\ m = n
        BY <2>3, <2>6, <4>1
      <4>2. CASE g # h \/ m # n
        <5>1. PICK f : f = endpointFd[g][m]
          OBVIOUS
        <5>2. endpointFd'[g][m] = f
          BY <2>6, <4>2, <5>1
        <5>3. f \in ObsdFds /\ files[f] = m
          BY <3>1, <5>1, <5>2 DEF NodesInv
        <5> QED
          BY <2>6, <5>2, <5>3, ObsdStrings
      <4> QED
        BY <4>1, <4>2
    <3>2. ASSUME NEW f \in ObsdHandles, NEW g \in ObsdHandles, NEW m \in Nodes, Claimed(f), Claimed(g),
                 endpointFd'[f][m] # -1, endpointFd'[f][m] = endpointFd'[g][m]
          PROVE  f = g
      BY <2>6, <2>9, <3>2 DEF NodesInv
    <3> QED
      BY <2>8, <3>1, <3>2 DEF NodesInv
  <2> QED
    BY <2>5, <2>7, <2>10
<1> QED
  BY <1>1, <1>2

LEMMA ObsdSubmitInv ==
  ASSUME ObsdInv, NEW h \in ObsdHandles, NEW n \in ObsdEndpoints, ObsdSubmit(h, n)
  PROVE  ObsdInv'
<1>1. ObsdTypeOK /\ DeviceInv /\ PipesOwned /\ NodesInv /\ ClosedInv /\ MessagesInv
  BY DEF ObsdInv
<1>2. /\ h \in obsdOpen /\ <<h, n>> \notin obsdFlying
      /\ UNCHANGED <<deviceFd, obsdOpen, eventPipe, obsdClaims>>
  BY DEF ObsdSubmit
<1>3. /\ DeviceInv' /\ PipesOwned' /\ NodesInv'
      /\ files' \in [ObsdFds -> ObsdEndpoints \union {"free", "pipe"}]
      /\ endpointFd' \in [ObsdHandles -> [Nodes -> -1..MaxObsdFd]]
  <2>1. CASE n = "control"
    <3>1. UNCHANGED <<files, endpointFd>>
      BY <2>1 DEF ObsdSubmit, SyncControlTransfer
    <3>2. DeviceInv' /\ PipesOwned'
      BY <1>1, <1>2, <3>1 DEF DeviceInv, PipesOwned
    <3>3. NodesInv'
      BY <1>1, <1>2, <3>1 DEF NodesInv, Claimed
    <3> QED
      BY <1>1, <3>1, <3>2, <3>3 DEF ObsdTypeOK
  <2>2. CASE n # "control"
    <3>1. n \in Nodes /\ SyncGenTransfer(h, n)
      BY <2>2 DEF ObsdSubmit, ObsdEndpoints
    <3> QED
      BY <1>1, <1>2, <3>1, AccessInv
  <2> QED
    BY <2>1, <2>2
<1>4. messages[h] \in Seq(ObsdEndpoints) /\ n \notin Range(messages[h]) /\ IsInjective(messages[h])
  BY <1>1, <1>2 DEF ObsdTypeOK, MessagesInv
<1>5. /\ messages' \in [ObsdHandles -> Seq(ObsdEndpoints)] /\ obsdFlying' \subseteq ObsdHandles \X ObsdEndpoints
      /\ MessagesInv'
      /\ \A g \in ObsdHandles : g # h => messages'[g] = messages[g]
  <2>1. CASE UNCHANGED <<messages, obsdFlying>>
    BY <1>1, <2>1 DEF ObsdTypeOK, MessagesInv
  <2>2. CASE /\ messages' = [messages EXCEPT ![h] = Append(messages[h], n)]
             /\ obsdFlying' = obsdFlying \union {<<h, n>>}
    <3>1. PICK s : s = Append(messages[h], n)
      OBVIOUS
    <3>2. s \in Seq(ObsdEndpoints) /\ Range(s) = Range(messages[h]) \union {n} /\ IsInjective(s)
      BY <1>4, <3>1, AppendOnce
    <3>3. messages'[h] = s /\ \A g \in ObsdHandles : g # h => messages'[g] = messages[g]
      BY <1>1, <2>2, <3>1 DEF ObsdTypeOK
    <3>4. messages' \in [ObsdHandles -> Seq(ObsdEndpoints)]
          /\ obsdFlying' \subseteq ObsdHandles \X ObsdEndpoints
      BY <1>1, <2>2, <3>1, <3>2 DEF ObsdTypeOK
    <3>5. Range(messages'[h]) = {m \in ObsdEndpoints : <<h, m>> \in obsdFlying'}
      BY <1>1, <2>2, <3>2, <3>3 DEF MessagesInv
    <3>6. \A g \in ObsdHandles : g # h =>
            {m \in ObsdEndpoints : <<g, m>> \in obsdFlying'} =
            {m \in ObsdEndpoints : <<g, m>> \in obsdFlying}
      BY <2>2
    <3>7. MessagesInv'
      BY <1>1, <3>2, <3>3, <3>5, <3>6 DEF MessagesInv
    <3> QED
      BY <3>3, <3>4, <3>7
  <2> QED
    BY <2>1, <2>2 DEF ObsdSubmit
<1>6. ClosedInv'
  BY <1>1, <1>2, <1>5 DEF ClosedInv
<1>7. ObsdTypeOK'
  BY <1>1, <1>2, <1>3, <1>5 DEF ObsdTypeOK
<1> QED
  BY <1>3, <1>5, <1>6, <1>7 DEF ObsdInv

LEMMA ObsdHandleInv ==
  ASSUME ObsdInv, NEW h \in ObsdHandles, ObsdHandleEvents(h)
  PROVE  ObsdInv'
<1>1. ObsdTypeOK /\ DeviceInv /\ PipesOwned /\ NodesInv /\ ClosedInv /\ MessagesInv
  BY DEF ObsdInv
<1>2. PICK s, e : s = Tail(messages[h]) /\ e = Head(messages[h])
  OBVIOUS
<1>3. /\ messages[h] # <<>> /\ messages' = [messages EXCEPT ![h] = s]
      /\ obsdFlying' = obsdFlying \ {<<h, e>>}
      /\ UNCHANGED <<files, deviceFd, obsdOpen, eventPipe, endpointFd, obsdClaims>>
  BY <1>2 DEF ObsdHandleEvents
<1>4. messages[h] \in Seq(ObsdEndpoints) /\ IsInjective(messages[h])
  BY <1>1 DEF ObsdTypeOK, MessagesInv
<1>5. s \in Seq(ObsdEndpoints) /\ Range(s) = Range(messages[h]) \ {e} /\ IsInjective(s)
  BY <1>2, <1>3, <1>4, TailOnce
<1>6. messages'[h] = s /\ \A g \in ObsdHandles : g # h => messages'[g] = messages[g]
  BY <1>1, <1>3 DEF ObsdTypeOK
<1>7. ObsdTypeOK'
  BY <1>1, <1>3, <1>5 DEF ObsdTypeOK
<1>8. Range(messages'[h]) = {m \in ObsdEndpoints : <<h, m>> \in obsdFlying'}
  BY <1>1, <1>3, <1>5, <1>6 DEF MessagesInv
<1>9. \A g \in ObsdHandles : g # h =>
        {m \in ObsdEndpoints : <<g, m>> \in obsdFlying'} =
        {m \in ObsdEndpoints : <<g, m>> \in obsdFlying}
  BY <1>3
<1>10. MessagesInv'
  BY <1>1, <1>5, <1>6, <1>8, <1>9 DEF MessagesInv
<1>11. DeviceInv' /\ PipesOwned' /\ NodesInv'
  BY <1>1, <1>3 DEF DeviceInv, PipesOwned, NodesInv, Claimed
<1>12. ClosedInv'
  BY <1>1, <1>3, <1>6 DEF ClosedInv
<1> QED
  BY <1>7, <1>10, <1>11, <1>12 DEF ObsdInv

LEMMA ObsdStepInv == ReleasedTogether /\ ObsdInv /\ [ObsdNext]_obsdVars => ObsdInv'
<1> SUFFICES ASSUME ReleasedTogether, ObsdInv, [ObsdNext]_obsdVars PROVE ObsdInv'
  OBVIOUS
<1>1. CASE ObsdGetDeviceList
  BY <1>1, ObsdListInv
<1>2. ASSUME NEW h \in ObsdHandles, ObsdOpen(h) \/ ObsdClose(h) \/ ObsdHandleEvents(h)
      PROVE  ObsdInv'
  BY <1>2, ObsdOpenInv, ObsdCloseInv, ObsdHandleInv
<1>3. ASSUME NEW h \in ObsdHandles, NEW i \in ObsdInterfaces, ObsdClaim(h, i) \/ ObsdRelease(h, i)
      PROVE  ObsdInv'
  BY <1>3, ObsdClaimInv, ObsdReleaseInv
<1>4. ASSUME NEW h \in ObsdHandles, NEW n \in ObsdEndpoints, ObsdSubmit(h, n)
      PROVE  ObsdInv'
  BY <1>4, ObsdSubmitInv
<1>5. CASE UNCHANGED obsdVars
  BY <1>5, ObsdUnchanged
<1> QED
  BY <1>1, <1>2, <1>3, <1>4, <1>5 DEF ObsdNext

(* What is of a different kind has a different number.                     *)
LEMMA ObsdInvImplies == ObsdInv => ObsdDescriptorsOwned
<1> SUFFICES ASSUME ObsdInv PROVE ObsdDescriptorsOwned
  OBVIOUS
<1>1. ObsdTypeOK /\ DeviceInv /\ PipesOwned /\ NodesInv /\ MessagesInv
  BY DEF ObsdInv
<1>2. ASSUME NEW r \in ObsdReferences
      PROVE  \/ r = <<deviceFd, "control", "device">> /\ deviceFd # -1
             \/ \E h \in obsdOpen : r = <<eventPipe[h], "pipe", h>>
             \/ \E h \in ObsdHandles : \E n \in Nodes :
                  r = <<endpointFd[h][n], n, h>> /\ Claimed(h) /\ endpointFd[h][n] # -1
  BY <1>2 DEF ObsdReferences, Claimed
<1>3. \A r \in ObsdReferences : r[1] \in ObsdFds /\ files[r[1]] = r[2]
  <2> SUFFICES ASSUME NEW r \in ObsdReferences
               PROVE  r[1] \in ObsdFds /\ files[r[1]] = r[2]
    OBVIOUS
  <2>1. CASE r = <<deviceFd, "control", "device">> /\ deviceFd # -1
    BY <1>1, <2>1 DEF DeviceInv
  <2>2. CASE \E h \in obsdOpen : r = <<eventPipe[h], "pipe", h>>
    BY <1>1, <2>2 DEF PipesOwned
  <2>3. CASE \E h \in ObsdHandles : \E n \in Nodes :
               r = <<endpointFd[h][n], n, h>> /\ Claimed(h) /\ endpointFd[h][n] # -1
    BY <1>1, <2>3 DEF NodesInv
  <2> QED
    BY <1>2, <2>1, <2>2, <2>3
<1>4. \A r, q \in ObsdReferences : r[1] = q[1] => r = q
  <2> SUFFICES ASSUME NEW r \in ObsdReferences, NEW q \in ObsdReferences, r[1] = q[1]
               PROVE  r = q
    OBVIOUS
  <2>1. r[2] = q[2]
    BY <1>3
  <2>2. CASE r = <<deviceFd, "control", "device">>
    BY <1>2, <2>1, <2>2, ObsdStrings
  <2>3. CASE \E h \in obsdOpen : r = <<eventPipe[h], "pipe", h>>
    <3>1. PICK h \in obsdOpen : r = <<eventPipe[h], "pipe", h>>
      BY <2>3
    <3>2. PICK g \in obsdOpen : q = <<eventPipe[g], "pipe", g>>
      BY <1>2, <2>1, <3>1, ObsdStrings
    <3> QED
      BY <1>1, <3>1, <3>2 DEF PipesOwned
  <2>4. CASE \E h \in ObsdHandles : \E n \in Nodes :
               r = <<endpointFd[h][n], n, h>> /\ Claimed(h) /\ endpointFd[h][n] # -1
    <3>1. PICK h \in ObsdHandles, n \in Nodes :
            r = <<endpointFd[h][n], n, h>> /\ Claimed(h) /\ endpointFd[h][n] # -1
      BY <2>4
    <3>2. PICK g \in ObsdHandles, m \in Nodes : q = <<endpointFd[g][m], m, g>> /\ Claimed(g)
      BY <1>2, <2>1, <3>1, ObsdStrings
    <3> QED
      BY <1>1, <2>1, <3>1, <3>2 DEF NodesInv
  <2> QED
    BY <1>2, <2>2, <2>3, <2>4
<1> QED
  BY <1>1, <1>3, <1>4 DEF ObsdDescriptorsOwned, MessagesInv

(* For any number of handles, interfaces, endpoints and descriptors, and   *)
(* with calls that leave descriptors open: a number the backend would use  *)
(* is that of an open descriptor of the right node, used for nothing else, *)
(* and each transfer in flight has one message in its handle's pipe, until *)
(* obsd_release_interface() releases one interface of several: it closes   *)
(* the nodes of all of them.                                               *)
THEOREM ObsdDescriptorsAreOwned ==
  ASSUME ReleasedTogether
  PROVE  ObsdSpec => []ObsdDescriptorsOwned
<1>1. ObsdInit => ObsdInv
  BY ObsdInitInv
<1>2. ObsdInv /\ [ObsdNext]_obsdVars => ObsdInv'
  BY ObsdStepInv
<1>3. ObsdInv => ObsdDescriptorsOwned
  BY ObsdInvImplies
<1> QED
  BY <1>1, <1>2, <1>3, PTL DEF ObsdSpec

LEMMA ObsdStepType == ObsdTypeOK /\ [ObsdNext]_obsdVars => ObsdTypeOK'
<1> SUFFICES ASSUME ObsdTypeOK, [ObsdNext]_obsdVars PROVE ObsdTypeOK'
  OBVIOUS
<1>1. MaxObsdFd \in Nat
  BY ObsdAssumption
<1>2. 0 \in -1..MaxObsdFd /\ -1 \in -1..MaxObsdFd /\ 0 \in 0..MaxObsdFd
  BY <1>1
<1>3. \A f \in ObsdFds : f \in -1..MaxObsdFd /\ f \in 0..MaxObsdFd
  BY <1>1 DEF ObsdFds
<1>4. <<>> \in Seq(ObsdEndpoints)
  OBVIOUS
<1>5. CASE ObsdGetDeviceList
  <2>1. LowestObsdFd \in ObsdFds
    BY <1>5, LowestIsFree DEF ObsdGetDeviceList
  <2> QED
    BY <1>5, <2>1 DEF ObsdGetDeviceList, ObsdTypeOK, ObsdEndpoints
<1>6. ASSUME NEW h \in ObsdHandles, ObsdOpen(h) PROVE ObsdTypeOK'
  <2>1. PICK d : d = LowestObsdFd
    OBVIOUS
  <2>2. PICK p : p = Min(FreeObsdFds \ {LowestObsdFd})
    OBVIOUS
  <2>3. d \in ObsdFds /\ p \in ObsdFds
    BY <1>6, <2>1, <2>2, NextIsFree DEF ObsdOpen
  <2>4. /\ \/ /\ files' = [files EXCEPT ![d] = "control", ![p] = "pipe"]
              /\ eventPipe' = [eventPipe EXCEPT ![h] = p] /\ obsdOpen' = obsdOpen \union {h}
           \/ files' = [files EXCEPT ![d] = "control"] /\ UNCHANGED <<eventPipe, obsdOpen>>
        /\ deviceFd' = d /\ endpointFd' = [endpointFd EXCEPT ![h] = [n \in Nodes |-> 0]]
        /\ messages' = [messages EXCEPT ![h] = <<>>]
        /\ UNCHANGED <<obsdClaims, obsdFlying>>
    BY <1>6, <2>1, <2>2 DEF ObsdOpen
  <2>5. /\ files' \in [ObsdFds -> ObsdEndpoints \union {"free", "pipe"}]
        /\ eventPipe' \in [ObsdHandles -> 0..MaxObsdFd] /\ obsdOpen' \subseteq ObsdHandles
    BY <1>3, <2>3, <2>4 DEF ObsdTypeOK, ObsdEndpoints
  <2> QED
    BY <1>2, <1>4, <2>3, <2>4, <2>5 DEF ObsdTypeOK
<1>7. ASSUME NEW h \in ObsdHandles, ObsdClose(h) PROVE ObsdTypeOK'
  BY <1>2, <1>4, <1>7 DEF ObsdClose, CloseFds, ObsdTypeOK
<1>8. ASSUME NEW h \in ObsdHandles, ObsdHandleEvents(h) PROVE ObsdTypeOK'
  <2>1. PICK s : s = Tail(messages[h])
    OBVIOUS
  <2>2. messages[h] \in Seq(ObsdEndpoints) /\ messages[h] # <<>>
    BY <1>8 DEF ObsdHandleEvents, ObsdTypeOK
  <2>3. s \in Seq(ObsdEndpoints)
    BY <2>1, <2>2
  <2>4. messages' = [messages EXCEPT ![h] = s]
    BY <1>8, <2>1 DEF ObsdHandleEvents
  <2> QED
    BY <1>8, <2>3, <2>4 DEF ObsdHandleEvents, ObsdTypeOK
<1>9. ASSUME NEW h \in ObsdHandles, NEW i \in ObsdInterfaces, ObsdClaim(h, i) PROVE ObsdTypeOK'
  BY <1>2, <1>9 DEF ObsdClaim, ResetEndpoints, ObsdTypeOK
<1>10. ASSUME NEW h \in ObsdHandles, NEW i \in ObsdInterfaces, ObsdRelease(h, i) PROVE ObsdTypeOK'
  BY <1>10 DEF ObsdRelease, CloseFds, ObsdTypeOK
<1>11. ASSUME NEW h \in ObsdHandles, NEW n \in ObsdEndpoints, ObsdSubmit(h, n) PROVE ObsdTypeOK'
  <2>1. /\ files' \in [ObsdFds -> ObsdEndpoints \union {"free", "pipe"}]
        /\ endpointFd' \in [ObsdHandles -> [Nodes -> -1..MaxObsdFd]]
    <3>1. CASE UNCHANGED <<files, endpointFd>>
      BY <3>1 DEF ObsdTypeOK
    <3>2. CASE ~UNCHANGED <<files, endpointFd>>
      <4>1. PICK d : d = LowestObsdFd
        OBVIOUS
      <4>2. /\ n \in Nodes /\ FreeObsdFds # {} /\ files' = [files EXCEPT ![d] = n]
            /\ endpointFd' = [endpointFd EXCEPT ![h][n] = d]
        BY <1>11, <3>2, <4>1 DEF ObsdSubmit, SyncControlTransfer, SyncGenTransfer, AccessEndpoint,
                               ObsdEndpoints
      <4>3. d \in ObsdFds
        BY <4>1, <4>2, LowestIsFree
      <4> QED
        BY <1>3, <4>2, <4>3 DEF ObsdTypeOK, ObsdEndpoints
    <3> QED
      BY <3>1, <3>2
  <2>2. messages' \in [ObsdHandles -> Seq(ObsdEndpoints)] /\ obsdFlying' \subseteq ObsdHandles \X ObsdEndpoints
    <3>1. CASE UNCHANGED <<messages, obsdFlying>>
      BY <3>1 DEF ObsdTypeOK
    <3>2. CASE /\ messages' = [messages EXCEPT ![h] = Append(messages[h], n)]
               /\ obsdFlying' = obsdFlying \union {<<h, n>>}
      <4>1. messages[h] \in Seq(ObsdEndpoints)
        BY DEF ObsdTypeOK
      <4>2. Append(messages[h], n) \in Seq(ObsdEndpoints)
        BY <4>1
      <4> QED
        BY <3>2, <4>2 DEF ObsdTypeOK
    <3> QED
      BY <1>11, <3>1, <3>2 DEF ObsdSubmit
  <2> QED
    BY <1>11, <2>1, <2>2 DEF ObsdSubmit, ObsdTypeOK
<1>12. CASE UNCHANGED obsdVars
  BY <1>12 DEF obsdVars, ObsdTypeOK
<1> QED
  BY <1>5, <1>6, <1>7, <1>8, <1>9, <1>10, <1>11, <1>12 DEF ObsdNext

(* Handles, endpoints and descriptors keep their types, whatever is        *)
(* claimed and released, and whatever fails.                               *)
THEOREM ObsdTyped == ObsdSpec => []ObsdTypeOK
<1>1. ObsdInit => ObsdTypeOK
  BY ObsdInitInv DEF ObsdInv
<1> QED
  BY <1>1, ObsdStepType, PTL DEF ObsdSpec
-----------------------------------------------------------------------------
(* Messages of the Darwin backend (DarwinTransfers.tla)                    *)

(* What of the type the proof needs.                                       *)
DarwinTypes ==
  /\ order \in [Orders -> [flying : BOOLEAN, io : {"none", "pending", "ended"}]]
  /\ user \in [Orders -> DarwinHandles]
  /\ pipe \in [DarwinHandles -> Seq(Orders \union {"gone"})]
  /\ opened \subseteq DarwinHandles
  /\ handling \in BOOLEAN /\ noticed \in BOOLEAN /\ plugged \in BOOLEAN

(* open_devs_lock keeps those who tell of the device's end from those who  *)
(* read the pipes, and both from those who open and close.                 *)
LocksInv ==
  /\ handling <=> openDevs = "handler"
  /\ async = "gone" <=> openDevs = "async"
  /\ async = "gone" => noticed
  /\ ~handling => toRead = {}
  /\ async # "gone" => toTell = {}
  /\ \A h \in toRead : h \in polled /\ pipe[h] # <<>>

(* Only the message that the device is gone takes a handle out of the poll *)
(* set while it is open; every handle open at that time gets one.          *)
HandlesInv ==
  /\ polled \subseteq opened /\ toTell \subseteq polled
  /\ IsFiniteSet(opened) /\ openCount = Cardinality(opened)
  /\ noticed => ~plugged
  /\ ~noticed => polled = opened
  /\ \A h \in polled : ~noticed \/ h \in toTell => "gone" \notin Range(pipe[h])

(* Messages are of transfers of the handle, one of each.                   *)
PipesInv ==
  \A h \in DarwinHandles :
    /\ IsInjective(pipe[h])
    /\ \A x \in Orders : x \in Range(pipe[h]) => user[x] = h /\ (order[x].flying \/ noticed)

(* The answer to come is with the kernel, with the thread or in the pipe,  *)
(* and with one of them only.                                              *)
OneAnswer(x) ==
  /\ order[x].io # "none" => async # x /\ x \notin Range(pipe[user[x]])
  /\ async = x => x \notin Range(pipe[user[x]])

Answered(x) == order[x].io # "none" \/ async = x \/ x \in Range(pipe[user[x]])

(* Until the end of the device is noticed the run loop has the source of   *)
(* the callback; from then on the handle is told, or has the message.      *)
Heard(x) ==
  /\ noticed => user[x] \in toTell \/ "gone" \in Range(pipe[user[x]])
  /\ ~noticed => IF x \in Requests THEN sources # {} ELSE interface = user[x]

(* A transfer without an answer has ended.  One that has ended has an      *)
(* answer to come only if the end of the device ended it.                  *)
FlightsInv ==
  \A x \in Orders :
    /\ OneAnswer(x)
    /\ order[x].flying => user[x] \in polled /\ Answered(x) /\ Heard(x)
    /\ ~order[x].flying /\ ~noticed => order[x].io = "none" /\ async # x

DarwinInv == DarwinTypes /\ LocksInv /\ HandlesInv /\ PipesInv /\ FlightsInv

-----------------------------------------------------------------------------
LEMMA DarwinNames ==
  /\ \A x \in Orders : x # "none" /\ x # "gone"
  /\ \A h \in DarwinHandles : h # "none"
  BY DarwinAssumption DEF Orders

LEMMA NoMessages == <<>> \in Seq(Orders \union {"gone"}) /\ Range(<<>>) = {} /\ IsInjective(<<>>)
  BY DEF Range, IsInjective

LEMMA DarwinInitInv == DarwinInit => DarwinInv
<1> SUFFICES ASSUME DarwinInit PROVE DarwinInv
  OBVIOUS
<1>1. (CHOOSE h \in DarwinHandles : TRUE) \in DarwinHandles
  BY DarwinAssumption
<1>2. DarwinTypes
  BY <1>1, NoMessages DEF DarwinInit, DarwinTypes
<1>3. Cardinality(opened) = 0 /\ IsFiniteSet(opened)
  BY FS_EmptySet DEF DarwinInit
<1>4. LocksInv /\ HandlesInv
  BY <1>3 DEF DarwinInit, LocksInv, HandlesInv
<1>5. PipesInv
  BY NoMessages DEF DarwinInit, PipesInv
<1>6. FlightsInv
  BY DarwinNames DEF DarwinInit, FlightsInv, OneAnswer
<1> QED
  BY <1>2, <1>4, <1>5, <1>6 DEF DarwinInv

(* The thread, the configuration and the claims: what a transfer needs of  *)
(* them stays as it is.                                                    *)
LEMMA ClaimsKept ==
  ASSUME DarwinInv,
         UNCHANGED <<darwinDeviceVars, openCount, isOpen, opened, sources, polled, pipe, order,
                     user, asyncVars, readVars, openDevs>>,
         \A x \in Orders : order[x].flying /\ x \notin Requests /\ interface = user[x] =>
                             interface' = user[x]
  PROVE  DarwinInv'
<1>1. DarwinTypes' /\ LocksInv' /\ HandlesInv' /\ PipesInv'
  BY DEF DarwinInv, DarwinTypes, LocksInv, HandlesInv, PipesInv, darwinDeviceVars, asyncVars, readVars
<1>2. /\ order' = order /\ noticed' = noticed /\ user' = user /\ polled' = polled
      /\ async' = async /\ pipe' = pipe /\ toTell' = toTell /\ sources' = sources
  BY DEF darwinDeviceVars, asyncVars
<1>3. FlightsInv
  BY DEF DarwinInv
<1>4. ASSUME NEW x \in Orders PROVE OneAnswer(x)'
  BY <1>2, <1>3 DEF FlightsInv, OneAnswer
<1>5. ASSUME NEW x \in Orders, order'[x].flying
      PROVE  user'[x] \in polled' /\ Answered(x)' /\ Heard(x)'
  <2>1. order[x].flying /\ user[x] \in polled /\ Answered(x) /\ Heard(x)
    BY <1>2, <1>3, <1>5 DEF FlightsInv
  <2>2. user'[x] \in polled' /\ Answered(x)'
    BY <1>2, <2>1 DEF Answered
  <2>3. Heard(x)'
    BY <1>2, <2>1 DEF Heard
  <2> QED
    BY <2>2, <2>3
<1>6. ASSUME NEW x \in Orders, ~order'[x].flying, ~noticed'
      PROVE  order'[x].io = "none" /\ async' # x
  BY <1>2, <1>3, <1>6 DEF FlightsInv
<1>7. FlightsInv'
  BY <1>4, <1>5, <1>6 DEF FlightsInv
<1> QED
  BY <1>1, <1>7 DEF DarwinInv

LEMMA RunLoopInv ==
  ASSUME DarwinInv, DarwinStart \/ RunLoopReady \/ DarwinExit \/ UNCHANGED darwinVars
  PROVE  DarwinInv'
<1>1. UNCHANGED <<darwinDeviceVars, openCount, isOpen, opened, sources, polled, pipe, order,
                  user, asyncVars, readVars, openDevs, interface>>
  BY DEF DarwinStart, RunLoopReady, DarwinExit, darwinVars, darwinHandleVars
<1> QED
  BY <1>1, ClaimsKept

LEMMA InterfaceInv ==
  ASSUME DarwinInv, NEW h \in DarwinHandles,
         DarwinClaim(h) \/ DarwinRelease(h) \/ DarwinSetConfiguration(h)
  PROVE  DarwinInv'
<1>1. UNCHANGED <<darwinDeviceVars, openCount, isOpen, opened, sources, polled, pipe, order,
                  user, asyncVars, readVars, openDevs>>
  BY DEF DarwinClaim, DarwinRelease, DarwinSetConfiguration
<1>2. user \in [Orders -> DarwinHandles]
  BY DEF DarwinInv, DarwinTypes
<1>3. ASSUME NEW x \in Orders, order[x].flying, x \notin Requests, interface = user[x]
      PROVE  interface' = user[x]
  <2>1. interface # "none"
    BY <1>2, <1>3, DarwinNames
  <2>2. x \in InFlight(user[x])
    BY <1>3 DEF InFlight
  <2> QED
    BY <1>3, <2>1, <2>2 DEF DarwinClaim, DarwinRelease, DarwinSetConfiguration
<1> QED
  BY <1>1, <1>3, ClaimsKept

(* I/O that ends stays with the kernel until its callback.                 *)
LEMMA EndIoInv ==
  ASSUME DarwinInv, NEW x \in Orders, DarwinCancel(x) \/ DarwinEndIo(x)
  PROVE  DarwinInv'
<1>1. /\ UNCHANGED <<darwinDeviceVars, darwinHandleVars, polled, pipe, user, asyncVars, readVars,
                     openDevs>>
      /\ \E S : EndAll(S)
  BY DEF DarwinCancel, DarwinEndIo
<1>2. /\ order' \in [Orders -> [flying : BOOLEAN, io : {"none", "pending", "ended"}]]
      /\ \A y \in Orders : /\ order'[y].flying = order[y].flying
                           /\ order'[y].io = "none" <=> order[y].io = "none"
  BY <1>1 DEF EndAll, DarwinInv, DarwinTypes
<1>3. DarwinTypes' /\ LocksInv' /\ HandlesInv' /\ PipesInv'
  BY <1>1, <1>2
  DEF DarwinInv, DarwinTypes, LocksInv, HandlesInv, PipesInv, darwinDeviceVars, darwinHandleVars,
      asyncVars, readVars
<1>4. \A y \in Orders : /\ OneAnswer(y)' = OneAnswer(y) /\ Answered(y)' = Answered(y)
                       /\ Heard(y)' = Heard(y)
  BY <1>1, <1>2 DEF OneAnswer, Answered, Heard, darwinDeviceVars, darwinHandleVars, asyncVars
<1>5. FlightsInv'
  BY <1>1, <1>2, <1>4 DEF DarwinInv, FlightsInv, darwinDeviceVars, asyncVars
<1> QED
  BY <1>3, <1>5 DEF DarwinInv

LEMMA UnplugInv ==
  ASSUME DarwinInv, Unplug
  PROVE  DarwinInv'
<1>1. /\ plugged /\ plugged' = FALSE /\ noticed' = noticed
      /\ UNCHANGED <<darwinHandleVars, polled, pipe, order, user, asyncVars, readVars, openDevs>>
  BY DEF Unplug, DarwinInv, HandlesInv, DarwinTypes
<1>2. DarwinTypes' /\ LocksInv' /\ HandlesInv' /\ PipesInv'
  BY <1>1
  DEF DarwinInv, DarwinTypes, LocksInv, HandlesInv, PipesInv, darwinHandleVars, asyncVars, readVars
<1>3. \A x \in Orders : /\ OneAnswer(x)' = OneAnswer(x) /\ Answered(x)' = Answered(x)
                       /\ Heard(x)' = Heard(x)
  BY <1>1 DEF OneAnswer, Answered, Heard, darwinHandleVars, asyncVars
<1>4. FlightsInv'
  BY <1>1, <1>3 DEF DarwinInv, FlightsInv, asyncVars
<1> QED
  BY <1>2, <1>4 DEF DarwinInv

-----------------------------------------------------------------------------
LEMMA DarwinOpenInv ==
  ASSUME DarwinInv, NEW h \in DarwinHandles, DarwinOpen(h)
  PROVE  DarwinInv'
<1>1. DarwinTypes /\ LocksInv /\ HandlesInv /\ PipesInv /\ FlightsInv
  BY DEF DarwinInv
<1>2. /\ h \notin opened /\ openDevs = "nobody"
      /\ sources \subseteq sources' /\ openCount' = openCount + 1 /\ opened' = opened \union {h}
      /\ polled' = polled \union {h} /\ pipe' = [pipe EXCEPT ![h] = <<>>]
      /\ UNCHANGED <<plugged, noticed, interface, order, user, async, toTell, handling, toRead,
                     openDevs>>
  BY DEF DarwinOpen, darwinDeviceVars, asyncVars, readVars
<1>3. h \notin polled /\ toTell = {} /\ toRead = {}
  BY <1>1, <1>2 DEF HandlesInv, LocksInv
<1>4. pipe'[h] = <<>> /\ \A g \in DarwinHandles : g # h => pipe'[g] = pipe[g]
  BY <1>1, <1>2 DEF DarwinTypes
<1>5. DarwinTypes'
  BY <1>1, <1>2, NoMessages DEF DarwinTypes
<1>6. LocksInv'
  BY <1>1, <1>2, <1>3 DEF LocksInv
<1>7. IsFiniteSet(opened') /\ openCount' = Cardinality(opened')
  <2>1. Cardinality(opened \union {h}) = Cardinality(opened) + 1 /\ IsFiniteSet(opened \union {h})
    BY <1>1, <1>2, FS_AddElement DEF HandlesInv
  <2> QED
    BY <1>1, <1>2, <2>1 DEF HandlesInv
<1>8. \A g \in polled : g \in DarwinHandles /\ g # h
  BY <1>1, <1>3 DEF HandlesInv, DarwinTypes
<1>9. HandlesInv'
  BY <1>1, <1>2, <1>3, <1>4, <1>7, <1>8, NoMessages DEF HandlesInv
<1>10. PipesInv'
  BY <1>1, <1>2, <1>4, NoMessages DEF PipesInv
<1>11. ASSUME NEW x \in Orders, order[x].flying
       PROVE  user[x] \in polled' /\ Answered(x)' /\ Heard(x)'
  <2>1. user[x] \in polled /\ Answered(x) /\ Heard(x)
    BY <1>1, <1>11 DEF FlightsInv
  <2>2. pipe'[user[x]] = pipe[user[x]]
    BY <1>4, <1>8, <2>1
  <2> QED
    BY <1>2, <2>1, <2>2 DEF Answered, Heard
<1>12. \A x \in Orders : OneAnswer(x)'
  <2>1. \A x \in Orders : user[x] \in DarwinHandles
    BY <1>1 DEF DarwinTypes
  <2>2. \A g \in DarwinHandles : Range(pipe'[g]) \subseteq Range(pipe[g])
    BY <1>4, NoMessages
  <2> QED
    BY <1>1, <1>2, <2>1, <2>2 DEF FlightsInv, OneAnswer
<1>13. FlightsInv'
  BY <1>1, <1>2, <1>11, <1>12 DEF FlightsInv
<1> QED
  BY <1>5, <1>6, <1>9, <1>10, <1>13 DEF DarwinInv

LEMMA DarwinCloseInv ==
  ASSUME DarwinInv, NEW h \in DarwinHandles, DarwinClose(h)
  PROVE  DarwinInv'
<1>1. DarwinTypes /\ LocksInv /\ HandlesInv /\ PipesInv /\ FlightsInv
  BY DEF DarwinInv
<1>2. /\ h \in opened /\ InFlight(h) = {} /\ ~handling /\ openDevs = "nobody"
      /\ openCount' = openCount - 1 /\ opened' = opened \ {h}
      /\ interface' = IF interface = h THEN "none" ELSE interface
      /\ polled' = polled \ {h} /\ pipe' = [pipe EXCEPT ![h] = <<>>]
      /\ UNCHANGED <<plugged, noticed, user, toTell, handling, toRead, openDevs>>
  BY DEF DarwinClose, darwinDeviceVars, readVars
<1>3. toTell = {} /\ toRead = {} /\ async # "gone"
  BY <1>1, <1>2 DEF LocksInv
<1>4. \A x \in Orders : order[x].flying => user[x] # h /\ user[x] \in polled
  BY <1>1, <1>2 DEF InFlight, FlightsInv
<1>5. openCount = 1 => \A x \in Orders : ~order[x].flying
  <2> SUFFICES ASSUME openCount = 1 PROVE \A x \in Orders : ~order[x].flying
    OBVIOUS
  <2>1. Cardinality(opened) = 1 /\ IsFiniteSet(opened)
    BY <1>1 DEF HandlesInv
  <2>2. opened = {h}
    BY <1>2, <2>1, FS_Singleton
  <2> QED
    BY <1>1, <1>4, <2>2 DEF HandlesInv
<1>6. /\ order' \in [Orders -> [flying : BOOLEAN, io : {"none", "pending", "ended"}]]
      /\ \A x \in Orders : order'[x].flying = order[x].flying
      /\ \A x \in Orders : order[x].flying => order'[x] = order[x] /\ (async' = x <=> async = x)
      /\ \A x \in Orders : /\ order[x].io = "none" => order'[x].io = "none"
                           /\ async' = x => async = x
      /\ async' # "gone"
      /\ (\E x \in Orders : order[x].flying) => sources' = sources
  <2>1. CASE openCount = 1
    <3>1. order' = [x \in Orders |-> [order[x] EXCEPT !.io = "none"]] /\ async' = "none"
      BY <1>3, <2>1 DEF DarwinClose
    <3> QED
      BY <1>1, <1>5, <2>1, <3>1, DarwinNames DEF DarwinTypes
  <2>2. CASE openCount # 1
    <3>1. order' = [x \in Orders |-> order[x]] /\ async' = async /\ sources' = sources
      BY <2>2 DEF DarwinClose, SourcesAfterClose
    <3> QED
      BY <1>1, <1>3, <3>1 DEF DarwinTypes
  <2> QED
    BY <2>1, <2>2
<1>7. \A g \in DarwinHandles : g # h => pipe'[g] = pipe[g]
  BY <1>1, <1>2 DEF DarwinTypes
<1>8. DarwinTypes'
  BY <1>1, <1>2, <1>6, NoMessages DEF DarwinTypes
<1>9. LocksInv'
  BY <1>1, <1>2, <1>3, <1>6 DEF LocksInv
<1>10. IsFiniteSet(opened') /\ openCount' = Cardinality(opened')
  <2>1. Cardinality(opened \ {h}) = Cardinality(opened) - 1 /\ IsFiniteSet(opened \ {h})
    BY <1>1, <1>2, FS_RemoveElement DEF HandlesInv
  <2> QED
    BY <1>1, <1>2, <2>1 DEF HandlesInv
<1>11. \A g \in polled : g \in DarwinHandles
  BY <1>1 DEF HandlesInv, DarwinTypes
<1>12. HandlesInv'
  BY <1>1, <1>2, <1>3, <1>7, <1>10, <1>11 DEF HandlesInv
<1>13. pipe'[h] = <<>>
  BY <1>1, <1>2 DEF DarwinTypes
<1>14. PipesInv'
  BY <1>1, <1>2, <1>6, <1>7, <1>13, NoMessages DEF PipesInv
<1>15. ASSUME NEW x \in Orders, order[x].flying
       PROVE  user[x] \in polled' /\ Answered(x)' /\ Heard(x)'
  <2>1. user[x] \in polled /\ Answered(x) /\ Heard(x) /\ user[x] # h
    BY <1>1, <1>4, <1>15 DEF FlightsInv
  <2>2. pipe'[user[x]] = pipe[user[x]]
    BY <1>7, <1>11, <2>1
  <2>3. Answered(x)'
    BY <1>2, <1>6, <1>15, <2>1, <2>2 DEF Answered
  <2>4. Heard(x)'
    BY <1>2, <1>6, <1>15, <2>1, <2>2 DEF Heard
  <2> QED
    BY <1>2, <2>1, <2>3, <2>4
<1>16. \A x \in Orders : OneAnswer(x)'
  <2>1. \A x \in Orders : user[x] \in DarwinHandles
    BY <1>1 DEF DarwinTypes
  <2>2. \A g \in DarwinHandles : Range(pipe'[g]) \subseteq Range(pipe[g])
    BY <1>7, <1>13, NoMessages
  <2> QED
    BY <1>1, <1>2, <1>6, <2>1, <2>2 DEF FlightsInv, OneAnswer
<1>17. FlightsInv'
  BY <1>1, <1>2, <1>6, <1>15, <1>16 DEF FlightsInv
<1> QED
  BY <1>8, <1>9, <1>12, <1>14, <1>17 DEF DarwinInv

LEMMA DarwinSubmitInv ==
  ASSUME DarwinInv, NEW x \in Orders, NEW h \in DarwinHandles, DarwinSubmit(x, h)
  PROVE  DarwinInv'
<1>1. DarwinTypes /\ LocksInv /\ HandlesInv /\ PipesInv /\ FlightsInv
  BY DEF DarwinInv
<1>2. /\ h \in opened /\ ~order[x].flying /\ order[x].io = "none" /\ async # x /\ plugged
      /\ IF x \in Requests THEN sources # {} ELSE interface = h
      /\ order' = [order EXCEPT ![x] = [flying |-> TRUE, io |-> "pending"]]
      /\ user' = [user EXCEPT ![x] = h]
      /\ UNCHANGED <<darwinDeviceVars, darwinHandleVars, polled, pipe, asyncVars, readVars, openDevs>>
  BY DEF DarwinSubmit
<1>3. ~noticed /\ h \in polled
  BY <1>1, <1>2 DEF HandlesInv
<1>4. /\ order'[x] = [flying |-> TRUE, io |-> "pending"] /\ user'[x] = h
      /\ \A y \in Orders : y # x => order'[y] = order[y] /\ user'[y] = user[y]
  BY <1>1, <1>2 DEF DarwinTypes
<1>5. \A g \in DarwinHandles : x \notin Range(pipe[g])
  BY <1>1, <1>2, <1>3 DEF PipesInv
<1>6. DarwinTypes'
  BY <1>1, <1>2 DEF DarwinTypes, darwinDeviceVars, darwinHandleVars, readVars
<1>7. LocksInv' /\ HandlesInv'
  BY <1>1, <1>2 DEF LocksInv, HandlesInv, darwinDeviceVars, darwinHandleVars, asyncVars, readVars
<1>8. PipesInv'
  BY <1>1, <1>2, <1>4, <1>5 DEF PipesInv, darwinDeviceVars
<1>9. OneAnswer(x)' /\ Answered(x)' /\ Heard(x)'
  BY <1>2, <1>3, <1>4, <1>5
  DEF OneAnswer, Answered, Heard, darwinDeviceVars, darwinHandleVars, asyncVars
<1>10. ASSUME NEW y \in Orders, y # x
       PROVE  /\ OneAnswer(y)' = OneAnswer(y) /\ Answered(y)' = Answered(y)
              /\ Heard(y)' = Heard(y)
  BY <1>2, <1>4, <1>10 DEF OneAnswer, Answered, Heard, darwinDeviceVars, darwinHandleVars, asyncVars
<1>11. FlightsInv'
  BY <1>1, <1>2, <1>3, <1>4, <1>9, <1>10 DEF FlightsInv, darwinDeviceVars, asyncVars
<1> QED
  BY <1>6, <1>7, <1>8, <1>11 DEF DarwinInv

-----------------------------------------------------------------------------
LEMMA CallbackInv ==
  ASSUME DarwinInv, NEW x \in Orders, AsyncCallback(x)
  PROVE  DarwinInv'
<1>1. DarwinTypes /\ LocksInv /\ HandlesInv /\ PipesInv /\ FlightsInv
  BY DEF DarwinInv
<1>2. /\ async = "none" /\ order[x].io = "ended"
      /\ async' = x /\ order' = [order EXCEPT ![x].io = "none"]
      /\ UNCHANGED <<darwinDeviceVars, darwinHandleVars, polled, pipe, user, toTell, readVars, openDevs>>
  BY DEF AsyncCallback
<1>3. /\ order'[x] = [order[x] EXCEPT !.io = "none"] /\ order'[x].flying = order[x].flying
      /\ order'[x].io = "none"
      /\ \A y \in Orders : y # x => order'[y] = order[y]
  BY <1>1, <1>2 DEF DarwinTypes
<1>4. DarwinTypes'
  BY <1>1, <1>2 DEF DarwinTypes, darwinDeviceVars, darwinHandleVars, readVars
<1>5. LocksInv'
  BY <1>1, <1>2, DarwinNames DEF LocksInv, darwinDeviceVars, readVars
<1>6. HandlesInv' /\ PipesInv'
  BY <1>1, <1>2, <1>3 DEF HandlesInv, PipesInv, darwinDeviceVars, darwinHandleVars
<1>7. OneAnswer(x) /\ (order[x].flying \/ noticed)
  BY <1>1, <1>2 DEF FlightsInv
<1>8. OneAnswer(x)' /\ Answered(x)'
  BY <1>2, <1>3, <1>7, DarwinNames DEF OneAnswer, Answered
<1>9. \A y \in Orders : y # x => OneAnswer(y)' = OneAnswer(y) /\ Answered(y)' = Answered(y)
  BY <1>2, <1>3, DarwinNames DEF OneAnswer, Answered
<1>10. \A y \in Orders : Heard(y)' = Heard(y)
  BY <1>2 DEF Heard, darwinDeviceVars, darwinHandleVars
<1>11. FlightsInv'
  BY <1>1, <1>2, <1>3, <1>7, <1>8, <1>9, <1>10, DarwinNames DEF FlightsInv, darwinDeviceVars
<1> QED
  BY <1>4, <1>5, <1>6, <1>11 DEF DarwinInv

LEMMA WriteInv ==
  ASSUME DarwinInv, AsyncWrite
  PROVE  DarwinInv'
<1>1. DarwinTypes /\ LocksInv /\ HandlesInv /\ PipesInv /\ FlightsInv
  BY DEF DarwinInv
<1>2. PICK x, h : x = async /\ h = user[async]
  OBVIOUS
<1>3. /\ x \in Orders /\ pipe' = [pipe EXCEPT ![h] = Append(pipe[h], x)] /\ async' = "none"
      /\ UNCHANGED <<darwinDeviceVars, darwinHandleVars, polled, order, user, toTell, readVars, openDevs>>
  BY <1>2 DEF AsyncWrite
<1>4. (order[x].flying \/ noticed) /\ OneAnswer(x) /\ h \in DarwinHandles
  BY <1>1, <1>2, <1>3 DEF FlightsInv, DarwinTypes
<1>5. x \notin Range(pipe[h]) /\ order[x].io = "none" /\ user[x] = h
  BY <1>2, <1>4 DEF OneAnswer
<1>6. PICK s : s = Append(pipe[h], x)
  OBVIOUS
<1>7. pipe[h] \in Seq(Orders \union {"gone"}) /\ IsInjective(pipe[h])
  BY <1>1, <1>4 DEF DarwinTypes, PipesInv
<1>8. s \in Seq(Orders \union {"gone"}) /\ Range(s) = Range(pipe[h]) \union {x} /\ IsInjective(s)
      /\ s # <<>>
  BY <1>3, <1>5, <1>6, <1>7, AppendOnce, AppendProperties
<1>9. pipe'[h] = s /\ \A g \in DarwinHandles : g # h => pipe'[g] = pipe[g]
  BY <1>1, <1>3, <1>4, <1>6 DEF DarwinTypes
<1>10. DarwinTypes'
  BY <1>1, <1>3, <1>6, <1>8 DEF DarwinTypes, darwinDeviceVars, darwinHandleVars, readVars
<1>11. \A g \in polled : g \in DarwinHandles
  BY <1>1 DEF HandlesInv, DarwinTypes
<1>12. async # "gone" /\ async # "none" /\ x # "gone"
  BY <1>2, <1>3, DarwinNames
<1>13. LocksInv'
  BY <1>1, <1>3, <1>8, <1>9, <1>11, <1>12 DEF LocksInv, darwinDeviceVars, readVars
<1>14. HandlesInv'
  BY <1>1, <1>3, <1>8, <1>9, <1>11, <1>12 DEF HandlesInv, darwinDeviceVars, darwinHandleVars
<1>15. PipesInv'
  <2> SUFFICES ASSUME NEW g \in DarwinHandles
               PROVE  /\ IsInjective(pipe'[g])
                      /\ \A y \in Orders : y \in Range(pipe'[g]) =>
                           user[y] = g /\ (order[y].flying \/ noticed)
    BY <1>3 DEF PipesInv, darwinDeviceVars
  <2>1. CASE g = h
    <3>1. \A y \in Orders : y \in Range(pipe[h]) => user[y] = h /\ (order[y].flying \/ noticed)
      BY <1>1, <1>4 DEF PipesInv
    <3> QED
      BY <1>4, <1>5, <1>8, <1>9, <2>1, <3>1
  <2>2. CASE g # h
    <3>1. pipe'[g] = pipe[g]
      BY <1>9, <2>2
    <3> QED
      BY <1>1, <3>1 DEF PipesInv
  <2> QED
    BY <2>1, <2>2
<1>16. OneAnswer(x)' /\ Answered(x)'
  BY <1>3, <1>4, <1>5, <1>8, <1>9, DarwinNames DEF OneAnswer, Answered
<1>17. \A y \in Orders : Heard(y) => Heard(y)'
  <2> SUFFICES ASSUME NEW y \in Orders, Heard(y) PROVE Heard(y)'
    OBVIOUS
  <2>1. user[y] \in DarwinHandles
    BY <1>1 DEF DarwinTypes
  <2>2. "gone" \in Range(pipe[user[y]]) => "gone" \in Range(pipe'[user[y]])
    BY <1>8, <1>9, <2>1
  <2> QED
    BY <1>3, <2>2 DEF Heard, darwinDeviceVars, darwinHandleVars
<1>18. ASSUME NEW y \in Orders, y # x
       PROVE  OneAnswer(y)' = OneAnswer(y) /\ Answered(y)' = Answered(y)
  <2>1. async # y /\ async' # y
    BY <1>2, <1>3, <1>18, DarwinNames
  <2>2. user[y] \in DarwinHandles
    BY <1>1 DEF DarwinTypes
  <2>3. y \in Range(pipe'[user[y]]) <=> y \in Range(pipe[user[y]])
    BY <1>8, <1>9, <1>18, <2>2
  <2> QED
    BY <1>3, <2>1, <2>3 DEF OneAnswer, Answered
<1>19. FlightsInv'
  BY <1>1, <1>3, <1>5, <1>16, <1>17, <1>18, DarwinNames DEF FlightsInv, darwinDeviceVars
<1> QED
  BY <1>10, <1>13, <1>14, <1>15, <1>19 DEF DarwinInv

(* The end of the device, told to every open handle.                       *)
LEMMA DetachInv ==
  ASSUME DarwinInv, DetachBegin \/ DetachEnd
  PROVE  DarwinInv'
<1>1. DarwinTypes /\ LocksInv /\ HandlesInv /\ PipesInv /\ FlightsInv
  BY DEF DarwinInv
<1>2. UNCHANGED <<plugged, darwinHandleVars, polled, pipe, order, user, readVars>>
  BY DEF DetachBegin, DetachEnd, darwinDeviceVars
<1>3. PipesInv'
  <2>1. noticed => noticed'
    BY DEF DetachBegin, DetachEnd, darwinDeviceVars
  <2> QED
    BY <1>1, <1>2, <2>1 DEF PipesInv
<1>4. \A x \in Orders : async # x /\ async' # x
  BY DarwinNames DEF DetachBegin, DetachEnd
<1>5. \A x \in Orders : OneAnswer(x)' = OneAnswer(x) /\ Answered(x)' = Answered(x)
  BY <1>2, <1>4 DEF OneAnswer, Answered
<1>6. CASE DetachBegin
  <2>1. /\ async = "none" /\ ~plugged /\ ~noticed /\ openDevs = "nobody"
        /\ async' = "gone" /\ toTell' = opened /\ noticed' = TRUE /\ openDevs' = "async"
    BY <1>6 DEF DetachBegin
  <2>2. polled = opened
    BY <1>1, <2>1 DEF HandlesInv
  <2>3. DarwinTypes' /\ LocksInv' /\ HandlesInv'
    BY <1>1, <1>2, <2>1, <2>2 DEF DarwinTypes, LocksInv, HandlesInv, darwinHandleVars, readVars
  <2>4. \A x \in Orders : order[x].flying => Heard(x)'
    BY <1>1, <1>2, <2>1, <2>2 DEF FlightsInv, Heard
  <2>5. FlightsInv'
    BY <1>1, <1>2, <1>4, <1>5, <2>1, <2>4 DEF FlightsInv
  <2> QED
    BY <1>3, <2>3, <2>5 DEF DarwinInv
<1>7. CASE DetachEnd
  <2>1. /\ async = "gone" /\ toTell = {} /\ async' = "none" /\ openDevs' = "nobody"
        /\ UNCHANGED <<noticed, toTell>>
    BY <1>7 DEF DetachEnd, darwinDeviceVars
  <2>2. DarwinTypes' /\ LocksInv' /\ HandlesInv'
    BY <1>1, <1>2, <2>1 DEF DarwinTypes, LocksInv, HandlesInv, darwinHandleVars, readVars
  <2>3. \A x \in Orders : Heard(x)' = Heard(x)
    BY <1>2, <2>1 DEF Heard, darwinHandleVars
  <2>4. FlightsInv'
    BY <1>1, <1>2, <1>4, <1>5, <2>1, <2>3 DEF FlightsInv
  <2> QED
    BY <1>3, <2>2, <2>4 DEF DarwinInv
<1> QED
  BY <1>6, <1>7

LEMMA TellInv ==
  ASSUME DarwinInv, NEW h \in DarwinHandles, DetachTell(h)
  PROVE  DarwinInv'
<1>1. DarwinTypes /\ LocksInv /\ HandlesInv /\ PipesInv /\ FlightsInv
  BY DEF DarwinInv
<1>2. PICK s : s = Append(pipe[h], "gone")
  OBVIOUS
<1>3. /\ async = "gone" /\ h \in toTell /\ toTell' = toTell \ {h} /\ pipe' = [pipe EXCEPT ![h] = s]
      /\ UNCHANGED <<darwinDeviceVars, darwinHandleVars, polled, order, user, async, readVars, openDevs>>
  BY <1>2 DEF DetachTell
<1>4. h \in polled /\ "gone" \notin Range(pipe[h]) /\ noticed
  <2>1. h \in polled /\ "gone" \notin Range(pipe[h])
    BY <1>1, <1>3 DEF HandlesInv
  <2> QED
    BY <1>1, <1>3, <2>1 DEF LocksInv
<1>5. pipe[h] \in Seq(Orders \union {"gone"}) /\ IsInjective(pipe[h])
  BY <1>1, <1>4 DEF DarwinTypes, PipesInv
<1>6. s \in Seq(Orders \union {"gone"}) /\ Range(s) = Range(pipe[h]) \union {"gone"} /\ IsInjective(s)
  BY <1>2, <1>4, <1>5, AppendOnce
<1>7. pipe'[h] = s /\ \A g \in DarwinHandles : g # h => pipe'[g] = pipe[g]
  BY <1>1, <1>3 DEF DarwinTypes
<1>8. DarwinTypes'
  BY <1>1, <1>3, <1>6 DEF DarwinTypes, darwinDeviceVars, darwinHandleVars, readVars
<1>9. toRead = {} /\ toRead' = {}
  BY <1>1, <1>3 DEF LocksInv, darwinDeviceVars, readVars
<1>10. LocksInv'
  BY <1>1, <1>3, <1>9 DEF LocksInv, darwinDeviceVars, readVars
<1>11. \A g \in polled : g \in DarwinHandles
  BY <1>1 DEF HandlesInv, DarwinTypes
<1>12. HandlesInv'
  BY <1>1, <1>3, <1>4, <1>7, <1>11 DEF HandlesInv, darwinDeviceVars, darwinHandleVars
<1>13. \A g \in DarwinHandles : \A x \in Orders : x \in Range(pipe'[g]) <=> x \in Range(pipe[g])
  BY <1>6, <1>7, DarwinNames
<1>14. PipesInv'
  BY <1>1, <1>3, <1>6, <1>7, <1>13 DEF PipesInv, darwinDeviceVars
<1>15. ASSUME NEW x \in Orders, order[x].flying
       PROVE  Heard(x)'
  <2>1. user[x] \in polled /\ Heard(x) /\ user[x] \in DarwinHandles
    BY <1>1, <1>11, <1>15 DEF FlightsInv
  <2>3. user[x] \in toTell' \/ "gone" \in Range(pipe'[user[x]])
    BY <1>3, <1>4, <1>6, <1>7, <2>1 DEF Heard
  <2>4. noticed' /\ user'[x] = user[x]
    BY <1>3, <1>4 DEF darwinDeviceVars
  <2>5. user'[x] \in toTell' \/ "gone" \in Range(pipe'[user'[x]])
    BY <2>3, <2>4
  <2> QED
    BY <2>4, <2>5 DEF Heard
<1>16. \A x \in Orders : OneAnswer(x)' = OneAnswer(x) /\ Answered(x)' = Answered(x)
  <2> SUFFICES ASSUME NEW x \in Orders
               PROVE  OneAnswer(x)' = OneAnswer(x) /\ Answered(x)' = Answered(x)
    OBVIOUS
  <2>1. user[x] \in DarwinHandles
    BY <1>1 DEF DarwinTypes
  <2>2. x \in Range(pipe'[user[x]]) <=> x \in Range(pipe[user[x]])
    BY <1>13, <2>1
  <2> QED
    BY <1>3, <2>2 DEF OneAnswer, Answered
<1>17. FlightsInv'
  BY <1>1, <1>3, <1>15, <1>16 DEF FlightsInv, darwinDeviceVars
<1> QED
  BY <1>8, <1>10, <1>12, <1>14, <1>17 DEF DarwinInv

-----------------------------------------------------------------------------
LEMMA DarwinHandlerInv ==
  ASSUME DarwinInv, HandlePipes \/ HandleDone
  PROVE  DarwinInv'
<1>1. DarwinTypes /\ LocksInv /\ HandlesInv /\ PipesInv /\ FlightsInv
  BY DEF DarwinInv
<1>2. UNCHANGED <<darwinDeviceVars, darwinHandleVars, polled, pipe, order, user, asyncVars>>
  BY DEF HandlePipes, HandleDone
<1>3. handling' \in BOOLEAN
  BY DEF HandlePipes, HandleDone
<1>4. DarwinTypes' /\ HandlesInv' /\ PipesInv'
  BY <1>1, <1>2, <1>3
  DEF DarwinTypes, HandlesInv, PipesInv, darwinDeviceVars, darwinHandleVars, asyncVars
<1>5. LocksInv'
  BY <1>1, <1>2 DEF LocksInv, HandlePipes, HandleDone, asyncVars
<1>6. \A x \in Orders : /\ OneAnswer(x)' = OneAnswer(x) /\ Answered(x)' = Answered(x)
                       /\ Heard(x)' = Heard(x)
  BY <1>2 DEF OneAnswer, Answered, Heard, darwinDeviceVars, darwinHandleVars, asyncVars
<1>7. FlightsInv'
  BY <1>1, <1>2, <1>6 DEF FlightsInv, darwinDeviceVars, asyncVars
<1> QED
  BY <1>4, <1>5, <1>7 DEF DarwinInv

(* A message ends its transfer, or, if the device is gone, all transfers   *)
(* of the handle, which is no longer polled.                               *)
LEMMA ReadInv ==
  ASSUME DarwinInv, NEW h \in DarwinHandles, ReadMessage(h)
  PROVE  DarwinInv'
<1>1. DarwinTypes /\ LocksInv /\ HandlesInv /\ PipesInv /\ FlightsInv
  BY DEF DarwinInv
<1>2. PICK s, e : s = Tail(pipe[h]) /\ e = Head(pipe[h])
  OBVIOUS
<1>3. /\ handling /\ h \in toRead /\ toRead' = toRead \ {h} /\ pipe' = [pipe EXCEPT ![h] = s]
      /\ UNCHANGED <<plugged, noticed, openCount, opened, interface, user, async, toTell, handling,
                     openDevs>>
  BY <1>2 DEF ReadMessage, darwinDeviceVars, asyncVars
<1>4. h \in polled /\ pipe[h] # <<>> /\ toTell = {} /\ async # "gone"
  BY <1>1, <1>3 DEF LocksInv
<1>5. pipe[h] \in Seq(Orders \union {"gone"}) /\ IsInjective(pipe[h])
  BY <1>1, <1>4 DEF DarwinTypes, PipesInv
<1>6. s \in Seq(Orders \union {"gone"}) /\ Range(s) = Range(pipe[h]) \ {e} /\ IsInjective(s)
  BY <1>2, <1>4, <1>5, TailOnce
<1>7. e \in Range(pipe[h])
  <2>1. e = pipe[h][1] /\ 1 \in DOMAIN pipe[h]
    BY <1>2, <1>4, <1>5, LenProperties, EmptySeq DEF Head
  <2> QED
    BY <2>1 DEF Range
<1>8. pipe'[h] = s /\ \A g \in DarwinHandles : g # h => pipe'[g] = pipe[g]
  BY <1>1, <1>3 DEF DarwinTypes
<1>9. \A g \in polled : g \in DarwinHandles
  BY <1>1 DEF HandlesInv, DarwinTypes
<1>10. CASE e \in Orders
  <2>1. /\ order' = [x \in Orders |-> IF x \in {e} THEN [order[x] EXCEPT !.flying = FALSE] ELSE order[x]]
        /\ UNCHANGED <<sources, polled>>
    BY <1>2, <1>10, DarwinNames DEF ReadMessage, Finish
  <2>2. user[e] = h
    BY <1>1, <1>7, <1>10 DEF PipesInv
  <2>3. /\ ~order'[e].flying /\ order'[e].io = order[e].io
        /\ \A x \in Orders : x # e => order'[x] = order[x]
        /\ order' \in [Orders -> [flying : BOOLEAN, io : {"none", "pending", "ended"}]]
    BY <1>1, <1>10, <2>1 DEF DarwinTypes
  <2>4. async # e /\ order[e].io = "none"
    BY <1>1, <1>7, <1>10, <2>2 DEF FlightsInv, OneAnswer
  <2>5. DarwinTypes'
    BY <1>1, <1>3, <1>6, <2>3 DEF DarwinTypes
  <2>6. LocksInv'
    BY <1>1, <1>3, <1>8, <1>9, <2>1 DEF LocksInv
  <2>7. HandlesInv'
    BY <1>1, <1>3, <1>6, <1>8, <1>9, <2>1 DEF HandlesInv
  <2>8. \A g \in DarwinHandles : /\ e \notin Range(pipe'[g]) /\ IsInjective(pipe'[g])
                                /\ Range(pipe'[g]) \subseteq Range(pipe[g])
    BY <1>1, <1>6, <1>8, <1>10, <2>2 DEF PipesInv
  <2>9. PipesInv'
    <3> SUFFICES ASSUME NEW g \in DarwinHandles
                 PROVE  /\ IsInjective(pipe'[g])
                        /\ \A x \in Orders : x \in Range(pipe'[g]) =>
                             user[x] = g /\ (order'[x].flying \/ noticed)
      BY <1>3 DEF PipesInv
    <3> QED
      BY <1>1, <2>3, <2>8 DEF PipesInv
  <2>10. \A x \in Orders : user[x] \in DarwinHandles
    BY <1>1 DEF DarwinTypes
  <2>11. ASSUME NEW x \in Orders, x # e, order[x].flying
         PROVE  user[x] \in polled /\ Answered(x)' /\ Heard(x)'
    <3>1. user[x] \in polled /\ Answered(x) /\ Heard(x)
      BY <1>1, <2>11 DEF FlightsInv
    <3>2. /\ x \in Range(pipe'[user[x]]) <=> x \in Range(pipe[user[x]])
          /\ "gone" \in Range(pipe'[user[x]]) <=> "gone" \in Range(pipe[user[x]])
      BY <1>6, <1>8, <1>10, <2>10, <2>11, <3>1, DarwinNames
    <3> QED
      BY <1>3, <2>1, <2>3, <2>11, <3>1, <3>2 DEF Answered, Heard
  <2>12. \A x \in Orders : OneAnswer(x)'
    BY <1>1, <1>3, <2>3, <2>4, <2>8, <2>10 DEF FlightsInv, OneAnswer
  <2>13. FlightsInv'
    BY <1>1, <1>3, <2>1, <2>3, <2>4, <2>11, <2>12 DEF FlightsInv
  <2> QED
    BY <2>5, <2>6, <2>7, <2>9, <2>13 DEF DarwinInv
<1>11. CASE e = "gone"
  <2>1. /\ order' = [x \in Orders |-> IF x \in InFlight(h) THEN [order[x] EXCEPT !.flying = FALSE]
                                      ELSE order[x]]
        /\ polled' = polled \ {h}
    BY <1>2, <1>11, DarwinNames DEF ReadMessage, Finish
  <2>2. noticed
    BY <1>1, <1>4, <1>7, <1>11 DEF HandlesInv
  <2>3. /\ order' \in [Orders -> [flying : BOOLEAN, io : {"none", "pending", "ended"}]]
        /\ \A x \in Orders : user[x] = h => ~order'[x].flying
        /\ \A x \in Orders : user[x] # h => order'[x] = order[x]
        /\ \A x \in Orders : order'[x].io = order[x].io
        /\ \A x \in Orders : order'[x].flying => order[x].flying /\ user[x] # h
    BY <1>1, <2>1 DEF DarwinTypes, InFlight
  <2>4. \A g \in polled' : g \in polled /\ g # h /\ pipe'[g] = pipe[g]
    BY <1>8, <1>9, <2>1
  <2>5. DarwinTypes'
    BY <1>1, <1>3, <1>6, <2>3 DEF DarwinTypes
  <2>6. LocksInv'
    BY <1>1, <1>3, <2>1, <2>4 DEF LocksInv
  <2>7. HandlesInv'
    BY <1>1, <1>3, <1>4, <2>1, <2>2, <2>4 DEF HandlesInv
  <2>8. \A g \in DarwinHandles : IsInjective(pipe'[g]) /\ Range(pipe'[g]) \subseteq Range(pipe[g])
    BY <1>1, <1>6, <1>8 DEF PipesInv
  <2>9. PipesInv'
    BY <1>1, <1>3, <2>2, <2>8 DEF PipesInv
  <2>10. \A x \in Orders : user[x] \in DarwinHandles
    BY <1>1 DEF DarwinTypes
  <2>11. \A x \in Orders : OneAnswer(x)'
    BY <1>1, <1>3, <2>3, <2>8, <2>10 DEF FlightsInv, OneAnswer
  <2>12. ASSUME NEW x \in Orders, order'[x].flying
         PROVE  user[x] \in polled' /\ Answered(x)' /\ Heard(x)'
    <3>1. user[x] \in polled /\ Answered(x) /\ Heard(x) /\ user[x] # h /\ order'[x] = order[x]
      BY <1>1, <2>3, <2>12 DEF FlightsInv
    <3>2. user[x] \in polled' /\ pipe'[user[x]] = pipe[user[x]]
      BY <2>1, <2>4, <3>1
    <3> QED
      BY <1>3, <2>2, <3>1, <3>2 DEF Answered, Heard
  <2>13. FlightsInv'
    BY <1>3, <2>2, <2>11, <2>12 DEF FlightsInv
  <2> QED
    BY <2>5, <2>6, <2>7, <2>9, <2>13 DEF DarwinInv
<1>12. e \in Orders \union {"gone"}
  BY <1>5, <1>7, RangeOfSeq
<1> QED
  BY <1>10, <1>11, <1>12

LEMMA DarwinStepInv == DarwinInv /\ [DarwinNext]_darwinVars => DarwinInv'
<1> SUFFICES ASSUME DarwinInv, [DarwinNext]_darwinVars PROVE DarwinInv'
  OBVIOUS
<1>1. CASE DarwinProgram
  BY <1>1, RunLoopInv, DarwinOpenInv, DarwinCloseInv, InterfaceInv, DarwinSubmitInv, EndIoInv
  DEF DarwinProgram
<1>2. CASE DarwinAsync
  BY <1>2, RunLoopInv, WriteInv, DetachInv, CallbackInv, TellInv DEF DarwinAsync
<1>3. CASE DarwinHandler
  BY <1>3, DarwinHandlerInv, ReadInv DEF DarwinHandler
<1>4. CASE Unplug
  BY <1>4, UnplugInv
<1>5. CASE \E x \in Orders : DarwinEndIo(x)
  BY <1>5, EndIoInv
<1>6. CASE UNCHANGED darwinVars
  BY <1>6, RunLoopInv
<1> QED
  BY <1>1, <1>2, <1>3, <1>4, <1>5, <1>6 DEF DarwinNext

LEMMA DarwinInvImplies == DarwinInv => AnsweredOnce
<1> SUFFICES ASSUME DarwinInv, NEW x \in Orders
             PROVE  /\ Answers(x) <= 1 /\ (~order[x].flying /\ ~noticed => Answers(x) = 0)
                    /\ order[x].flying =>
                         /\ Answers(x) = 1 /\ user[x] \in polled
                         /\ order[x].io # "none" =>
                              \/ IF x \in Requests THEN sources # {} ELSE interface = user[x]
                              \/ "gone" \in Range(pipe[user[x]]) \/ user[x] \in toTell
  BY DEF AnsweredOnce
<1>1. DarwinTypes /\ PipesInv /\ FlightsInv
  BY DEF DarwinInv
<1>2. PICK s : s = pipe[user[x]]
  OBVIOUS
<1>3. s \in Seq(Orders \union {"gone"}) /\ IsInjective(s) /\ user[x] \in DarwinHandles
  BY <1>1, <1>2 DEF DarwinTypes, PipesInv
<1>4. x \notin Range(s) => Messages(x) = 0
  <2> SUFFICES ASSUME x \notin Range(s) PROVE Messages(x) = 0
    OBVIOUS
  <2>1. {n \in 1..Len(s) : s[n] = x} = {}
    BY <1>3, LenProperties DEF Range
  <2> QED
    BY <1>2, <2>1, FS_EmptySet DEF Messages
<1>5. x \in Range(s) => Messages(x) = 1
  BY <1>2, <1>3, OnePlace DEF Messages
<1> DEFINE a == IF async = x THEN 1 ELSE 0
           b == IF order[x].io # "none" THEN 1 ELSE 0
<1>6. \/ Messages(x) = 0 /\ a = 0 /\ b = 1
      \/ Messages(x) = 0 /\ a = 1 /\ b = 0
      \/ Messages(x) = 1 /\ a = 0 /\ b = 0
      \/ Messages(x) = 0 /\ a = 0 /\ b = 0 /\ ~Answered(x)
  BY <1>1, <1>2, <1>4, <1>5 DEF FlightsInv, OneAnswer, Answered
<1>7. ~order[x].flying /\ ~noticed => Messages(x) = 0 /\ a = 0 /\ b = 0
  BY <1>1, <1>2, <1>3, <1>4 DEF FlightsInv, PipesInv
<1>8. Answers(x) = Messages(x) + a + b
  BY DEF Answers
<1> HIDE DEF a, b
<1>9. Answers(x) <= 1 /\ (Answered(x) => Answers(x) = 1)
  BY <1>6, <1>8
<1>10. ~order[x].flying /\ ~noticed => Answers(x) = 0
  BY <1>7, <1>8
<1>11. order[x].flying => user[x] \in polled /\ Answered(x) /\ Heard(x)
  BY <1>1 DEF FlightsInv
<1> QED
  BY <1>9, <1>10, <1>11 DEF Heard

(* For any number of handles and transfers, and however late the run loop  *)
(* calls back: no transfer has two answers to come, from the kernel, from  *)
(* the run loop's thread or in the pipe of its handle; one in flight has   *)
(* one, and somebody will hear it; one that has ended has none until the   *)
(* end of the device is noticed, so till then op_handle_events() completes *)
(* nothing twice.                                                          *)
THEOREM TransfersAnsweredOnce == DarwinSpec => []AnsweredOnce
<1>1. DarwinInit => DarwinInv
  BY DarwinInitInv
<1>2. DarwinInv /\ [DarwinNext]_darwinVars => DarwinInv'
  BY DarwinStepInv
<1>3. DarwinInv => AnsweredOnce
  BY DarwinInvImplies
<1> QED
  BY <1>1, <1>2, <1>3, PTL DEF DarwinSpec

(* The rest of the types, the room in the pipes among them.                *)
LoopTypes ==
  /\ runloop \in {"none", "starting", "running"} /\ contexts \in 0..2
  /\ isOpen \subseteq DarwinHandles /\ sources \subseteq DarwinHandles
  /\ claimedBy \subseteq DarwinHandles /\ interface \in DarwinHandles \union {"none"}
  /\ async \in Orders \union {"none", "gone"} /\ openDevs \in {"nobody", "async", "handler"}

PipesFit == \A h \in DarwinHandles : Len(pipe[h]) <= MaxMessages

LEMMA LoopStep ==
  ASSUME LoopTypes, [DarwinNext]_darwinVars
  PROVE  LoopTypes'
<1>1. CASE DarwinStart \/ RunLoopReady \/ DarwinExit
  <2>1. contexts \in 0..2
    BY DEF LoopTypes
  <2>2. \/ contexts' = contexts \/ (contexts < 2 /\ contexts' = contexts + 1)
        \/ (contexts > 0 /\ contexts' = contexts - 1)
    BY <1>1 DEF DarwinStart, RunLoopReady, DarwinExit
  <2>3. contexts' \in 0..2
    BY <2>1, <2>2
  <2>4. runloop' \in {"none", "starting", "running"}
    BY <1>1 DEF DarwinStart, RunLoopReady, DarwinExit, LoopTypes
  <2>5. UNCHANGED <<darwinHandleVars, asyncVars, openDevs>>
    BY <1>1 DEF DarwinStart, RunLoopReady, DarwinExit
  <2> QED
    BY <2>3, <2>4, <2>5 DEF LoopTypes, darwinHandleVars, asyncVars
<1>2. ASSUME NEW h \in DarwinHandles,
             DarwinOpen(h) \/ DarwinClose(h) \/ DarwinClaim(h) \/ DarwinRelease(h) \/ DarwinSetConfiguration(h)
      PROVE  LoopTypes'
  <2>1. CASE DarwinOpen(h)
    BY <2>1 DEF DarwinOpen, LoopTypes, loopVars, asyncVars
  <2>2. CASE DarwinClose(h)
    BY <2>2 DEF DarwinClose, LoopTypes, loopVars, SourcesAfterClose
  <2>3. CASE DarwinClaim(h) \/ DarwinRelease(h)
    BY <2>3 DEF DarwinClaim, DarwinRelease, LoopTypes, loopVars, asyncVars
  <2>4. CASE DarwinSetConfiguration(h)
    BY <2>4 DEF DarwinSetConfiguration, LoopTypes, loopVars, asyncVars
  <2> QED
    BY <1>2, <2>1, <2>2, <2>3, <2>4
<1>3. ASSUME NEW x \in Orders,
             (\E h \in DarwinHandles : DarwinSubmit(x, h)) \/ DarwinCancel(x) \/ DarwinEndIo(x)
      PROVE  LoopTypes'
  BY <1>3 DEF DarwinSubmit, DarwinCancel, DarwinEndIo, LoopTypes, loopVars, darwinHandleVars, asyncVars
<1>4. CASE Unplug \/ HandlePipes \/ HandleDone
  BY <1>4 DEF Unplug, HandlePipes, HandleDone, LoopTypes, loopVars, darwinHandleVars, asyncVars
<1>5. CASE AsyncWrite \/ DetachBegin \/ DetachEnd
  BY <1>5 DEF AsyncWrite, DetachBegin, DetachEnd, LoopTypes, loopVars, darwinHandleVars
<1>6. ASSUME NEW x \in Orders, AsyncCallback(x) PROVE LoopTypes'
  BY <1>6 DEF AsyncCallback, LoopTypes, loopVars, darwinHandleVars
<1>7. ASSUME NEW h \in DarwinHandles, DetachTell(h) \/ ReadMessage(h) PROVE LoopTypes'
  BY <1>7 DEF DetachTell, ReadMessage, LoopTypes, loopVars, darwinHandleVars, asyncVars
<1>8. CASE UNCHANGED darwinVars
  BY <1>8 DEF darwinVars, LoopTypes, loopVars, darwinHandleVars, asyncVars
<1> QED
  BY <1>1, <1>2, <1>3, <1>4, <1>5, <1>6, <1>7, <1>8 DEF DarwinNext, DarwinProgram, DarwinAsync, DarwinHandler

(* A pipe is written only when there is room.                              *)
LEMMA PipesFitStep ==
  ASSUME DarwinInv, PipesFit, [DarwinNext]_darwinVars
  PROVE  PipesFit'
<1>1. /\ pipe \in [DarwinHandles -> Seq(Orders \union {"gone"})] /\ user \in [Orders -> DarwinHandles]
      /\ MaxMessages \in Nat /\ MaxMessages > 0
  BY DarwinAssumption DEF DarwinInv, DarwinTypes
<1>2. ASSUME NEW h \in DarwinHandles, NEW q, q = pipe[h],
             \/ pipe' = pipe
             \/ \E g \in DarwinHandles : pipe' = [pipe EXCEPT ![g] = <<>>]
             \/ \E g \in DarwinHandles : pipe' = [pipe EXCEPT ![g] = Tail(pipe[g])] /\ pipe[g] # <<>>
             \/ \E g \in DarwinHandles, m \in Orders \union {"gone"} :
                  pipe' = [pipe EXCEPT ![g] = Append(pipe[g], m)] /\ Len(pipe[g]) < MaxMessages
      PROVE  Len(pipe'[h]) <= MaxMessages
  <2>1. q \in Seq(Orders \union {"gone"}) /\ Len(q) <= MaxMessages /\ Len(q) \in Nat
    BY <1>1, <1>2 DEF PipesFit
  <2>2. \/ pipe'[h] = q
        \/ pipe'[h] = <<>>
        \/ pipe'[h] = Tail(q) /\ q # <<>>
        \/ (\E m \in Orders \union {"gone"} : pipe'[h] = Append(q, m)) /\ Len(q) < MaxMessages
    BY <1>1, <1>2
  <2>3. Len(<<>>) = 0
    OBVIOUS
  <2>4. q # <<>> => Len(Tail(q)) = Len(q) - 1
    BY <2>1
  <2>5. \A m \in Orders \union {"gone"} : Len(Append(q, m)) = Len(q) + 1
    BY <2>1
  <2> QED
    BY <1>1, <2>1, <2>2, <2>3, <2>4, <2>5
<1>3. \/ pipe' = pipe
      \/ \E g \in DarwinHandles : pipe' = [pipe EXCEPT ![g] = <<>>]
      \/ \E g \in DarwinHandles : pipe' = [pipe EXCEPT ![g] = Tail(pipe[g])] /\ pipe[g] # <<>>
      \/ \E g \in DarwinHandles, m \in Orders \union {"gone"} :
           pipe' = [pipe EXCEPT ![g] = Append(pipe[g], m)] /\ Len(pipe[g]) < MaxMessages
  <2>1. CASE \E h \in DarwinHandles : DarwinOpen(h) \/ DarwinClose(h)
    BY <2>1 DEF DarwinOpen, DarwinClose
  <2>2. CASE AsyncWrite
    <3>1. user[async] \in DarwinHandles
      BY <1>1, <2>2 DEF AsyncWrite
    <3> QED
      BY <2>2, <3>1 DEF AsyncWrite
  <2>3. CASE \E h \in DarwinHandles : DetachTell(h)
    BY <2>3 DEF DetachTell
  <2>4. CASE \E h \in DarwinHandles : ReadMessage(h)
    <3>1. PICK h \in DarwinHandles : ReadMessage(h)
      BY <2>4
    <3>2. pipe[h] # <<>>
      BY <3>1 DEF ReadMessage, DarwinInv, LocksInv
    <3> QED
      BY <3>1, <3>2 DEF ReadMessage
  <2>5. ASSUME ~\E h \in DarwinHandles : DarwinOpen(h) \/ DarwinClose(h) \/ DetachTell(h) \/ ReadMessage(h),
               ~AsyncWrite
        PROVE  pipe' = pipe
    BY <2>5 DEF DarwinNext, DarwinProgram, DarwinAsync, DarwinHandler, DarwinStart, RunLoopReady, DarwinExit,
       DarwinClaim, DarwinRelease, DarwinSetConfiguration, DarwinSubmit, DarwinCancel, DarwinEndIo, Unplug,
       HandlePipes, HandleDone, DetachBegin, DetachEnd, AsyncCallback, darwinVars
  <2> QED
    BY <2>1, <2>2, <2>3, <2>4, <2>5
<1> QED
  BY <1>2, <1>3 DEF PipesFit

(* For finitely many handles: types, counts and the room in the pipes are  *)
(* kept.                                                                   *)
THEOREM DarwinTyped ==
  ASSUME IsFiniteSet(DarwinHandles)
  PROVE  DarwinSpec => []DarwinTypeOK
<1>1. DarwinInit => DarwinInv /\ LoopTypes /\ PipesFit
  <2> SUFFICES ASSUME DarwinInit PROVE LoopTypes /\ PipesFit
    BY DarwinInitInv
  <2>1. MaxMessages \in Nat /\ Len(<<>>) = 0
    BY DarwinAssumption
  <2>2. PipesFit
    BY <2>1 DEF DarwinInit, PipesFit
  <2> QED
    BY <2>2 DEF DarwinInit, LoopTypes
<1>2. DarwinInv /\ LoopTypes /\ PipesFit /\ [DarwinNext]_darwinVars => DarwinInv' /\ LoopTypes' /\ PipesFit'
  BY DarwinStepInv, LoopStep, PipesFitStep
<1>3. DarwinInv /\ LoopTypes /\ PipesFit => DarwinTypeOK
  <2> SUFFICES ASSUME DarwinInv, LoopTypes, PipesFit PROVE DarwinTypeOK
    OBVIOUS
  <2>1. DarwinTypes /\ LocksInv /\ HandlesInv
    BY DEF DarwinInv
  <2>2. polled \subseteq DarwinHandles /\ toTell \subseteq DarwinHandles /\ toRead \subseteq DarwinHandles
    BY <2>1 DEF DarwinTypes, LocksInv, HandlesInv
  <2>3. openCount \in 0..Cardinality(DarwinHandles)
    <3>1. /\ Cardinality(opened) <= Cardinality(DarwinHandles) /\ Cardinality(opened) \in Nat
          /\ Cardinality(DarwinHandles) \in Nat
      BY <2>1, FS_Subset, FS_CardinalityType DEF DarwinTypes
    <3> QED
      BY <2>1, <3>1 DEF HandlesInv
  <2>4. \A h \in DarwinHandles : Range(pipe[h]) \subseteq Orders \union {"gone"}
    BY <2>1 DEF DarwinTypes, Range
  <2> QED
    BY <2>1, <2>2, <2>3, <2>4 DEF DarwinTypes, LoopTypes, PipesFit, DarwinTypeOK
<1> QED
  BY <1>1, <1>2, <1>3, PTL DEF DarwinSpec

-----------------------------------------------------------------------------
(* Deadlines in a build without timerfd (Deadlines.tla)                    *)

-----------------------------------------------------------------------------
(* A struct timeval whose microseconds may make a whole second.            *)
Timevals == Nat \X (0..UsPerS)

(* Each transfer listed once, in the order of the deadlines.               *)
InOrder(q, d) ==
  \A i, j \in DOMAIN q : i < j => q[i] # q[j] /\ ~Earlier(d[q[j]], d[q[i]])

FlyingInv ==
  /\ due \in [Timed -> Timevals] /\ listed \in Seq(Timed) /\ marked \subseteq Timed
  /\ counted \subseteq Range(listed) /\ InOrder(listed, due)

(* The transfer in hand is the first of those counted: poll() waits for    *)
(* its deadline at least, and for that of no transfer counted much longer. *)
PollWaitInv ==
  /\ tick \in Nat /\ until \in Nat /\ inHand \in Timed \union {"nothing"}
  /\ caller = "asked" => /\ inHand \in Range(listed)
                         /\ \A x \in counted : ~Earlier(due[x], due[inHand])
  /\ caller = "polling" => /\ \A x \in counted : until <= InNs(due[x]) + NsPerMs + NsPerUs
                           /\ inHand \in counted => InNs(due[inHand]) <= until
  /\ caller = "expired" /\ inHand \in counted => ~Earlier(ClockTv, due[inHand])
  /\ caller = "away" /\ inHand \in counted => inHand \in marked

DeadlineInv == FlyingInv /\ PollWaitInv

-----------------------------------------------------------------------------
(* Times                                                                   *)

LEMMA UnitFacts ==
  NsPerUs = 2 /\ NsPerMs = 4 /\ NsPerS = 8 /\ UsPerMs = 2 /\ UsPerS = 4 /\ MsPerS = 2
BY DEF NsPerUs, NsPerMs, NsPerS, UsPerMs, UsPerS, MsPerS

LEMMA NotEarlierTransitive ==
  ASSUME NEW a \in Timevals, NEW b \in Timevals, NEW c \in Timevals,
         ~Earlier(b, a), ~Earlier(c, b)
  PROVE  ~Earlier(c, a)
BY DEF Timevals, Earlier, UsPerS, NsPerS, NsPerUs

LEMMA NotEarlierInNs ==
  ASSUME NEW a \in Timevals, NEW b \in Timevals, ~Earlier(b, a)
  PROVE  InNs(a) <= InNs(b) /\ InNs(a) \in Nat
<1>1. /\ a[1] \in Nat /\ a[2] \in 0..4 /\ b[1] \in Nat /\ b[2] \in 0..4
      /\ a[1] < b[1] \/ (a[1] = b[1] /\ a[2] <= b[2])
  BY UnitFacts DEF Timevals, Earlier
<1> QED
  BY <1>1, UnitFacts DEF InNs

LEMMA EarlierTotal ==
  ASSUME NEW a \in Timevals, NEW b \in Timevals, Earlier(a, b)
  PROVE  ~Earlier(b, a)
BY DEF Timevals, Earlier, UsPerS, NsPerS, NsPerUs

LEMMA ClockFacts ==
  ASSUME NEW t \in Nat
  PROVE  /\ t \div 8 \in Nat /\ (t % 8) \div 2 \in 0..3
         /\ t - 1 <= (t \div 8) * 8 + ((t % 8) \div 2) * 2
         /\ (t \div 8) * 8 + ((t % 8) \div 2) * 2 <= t
<1>1. t \div 8 \in Nat /\ t % 8 \in 0..7 /\ t = (t \div 8) * 8 + (t % 8)
  OBVIOUS
<1>2. \A r \in 0..7 : /\ r \div 2 \in 0..3 /\ r - 1 <= (r \div 2) * 2 /\ (r \div 2) * 2 <= r
  OBVIOUS
<1> QED
  BY <1>1, <1>2

LEMMA DeadlineIsTimeval ==
  ASSUME tick \in Nat, NEW ms \in Nat
  PROVE  DeadlineOf(ms) \in Timevals
<1> DEFINE seconds == (tick \div NsPerS) + (ms \div MsPerS)
           ns == (tick % NsPerS) + (ms % MsPerS) * NsPerMs
<1>1. seconds \in Nat /\ ns \in 0..11
  <2>1. tick \div 8 \in Nat /\ tick % 8 \in 0..7 /\ ms \div 2 \in Nat /\ ms % 2 \in 0..1
    OBVIOUS
  <2> QED
    BY <2>1, UnitFacts
<1>2. \A n \in 0..11 : (n > 8 => (n - 8) \div 2 \in 0..4) /\ (~(n > 8) => n \div 2 \in 0..4)
  OBVIOUS
<1>3. DeadlineOf(ms) = IF ns > NsPerS THEN <<seconds + 1, (ns - NsPerS) \div NsPerUs>>
                       ELSE <<seconds, ns \div NsPerUs>>
  BY DEF DeadlineOf
<1> HIDE DEF seconds, ns
<1> QED
  BY <1>1, <1>2, <1>3, UnitFacts DEF Timevals

(* A clock that has come to the time of a deadline is not earlier than it. *)
LEMMA ClockReaches ==
  ASSUME NEW t \in Nat, NEW tv \in Timevals
  PROVE  /\ InNs(tv) <= t => ~Earlier(<<t \div NsPerS, (t % NsPerS) \div NsPerUs>>, tv)
         /\ ~Earlier(<<t \div NsPerS, (t % NsPerS) \div NsPerUs>>, tv) =>
              ~Earlier(<<(t + 1) \div NsPerS, ((t + 1) % NsPerS) \div NsPerUs>>, tv)
<1>1. PICK s \in Nat, u \in 0..4 : tv = <<s, u>>
  BY UnitFacts DEF Timevals
<1>2. PICK q \in Nat, r \in 0..7 : t = q * 8 + r /\ t \div 8 = q /\ t % 8 = r
  OBVIOUS
<1>3. r \div 2 \in 0..3 /\ r - 1 <= (r \div 2) * 2 /\ (r \div 2) * 2 <= r
  OBVIOUS
<1>4. ASSUME InNs(tv) <= t
      PROVE  ~(q < s \/ (q = s /\ r \div 2 < u))
  <2>1. s * 8 + u * 2 <= q * 8 + r
    BY <1>1, <1>2, <1>4, UnitFacts DEF InNs
  <2> QED
    BY <2>1, <1>3
<1>5. Earlier(<<q, r \div 2>>, tv) <=> q < s \/ (q = s /\ r \div 2 < u)
  BY <1>1 DEF Earlier
<1>6. CASE r < 7
  <2>1. (t + 1) \div 8 = q /\ (t + 1) % 8 = r + 1
    BY <1>2, <1>6
  <2>2. (r + 1) \div 2 >= r \div 2 /\ (r + 1) \div 2 \in Nat
    BY <1>6
  <2>3. Earlier(<<q, (r + 1) \div 2>>, tv) <=> q < s \/ (q = s /\ (r + 1) \div 2 < u)
    BY <1>1 DEF Earlier
  <2> QED
    BY <2>1, <2>2, <2>3, <1>2, <1>3, <1>4, <1>5, UnitFacts
<1>7. CASE r = 7
  <2>1. (t + 1) \div 8 = q + 1 /\ (t + 1) % 8 = 0
    BY <1>2, <1>7
  <2>2. Earlier(<<q + 1, 0 \div 2>>, tv) <=> q + 1 < s \/ (q + 1 = s /\ 0 \div 2 < u)
    BY <1>1 DEF Earlier
  <2>3. ~(q < s \/ (q = s /\ r \div 2 < u)) => ~(q + 1 < s \/ (q + 1 = s /\ 0 \div 2 < u))
    OBVIOUS
  <2> QED
    BY <2>1, <2>2, <2>3, <1>2, <1>4, <1>5, UnitFacts
<1> QED
  BY <1>6, <1>7

LEMMA LeftFacts ==
  ASSUME tick \in Nat, NEW tv \in Timevals, Earlier(ClockTv, tv)
  PROVE  /\ Left(tv) \in Timevals /\ InNs(tv) - tick <= InNs(Left(tv))
         /\ InNs(Left(tv)) <= InNs(tv) - tick + 1
<1>1. PICK s \in Nat, u \in 0..4 : tv = <<s, u>>
  BY UnitFacts DEF Timevals
<1>2. PICK cs \in Nat, cu \in 0..3 :
        /\ ClockTv = <<cs, cu>> /\ tick - 1 <= cs * 8 + cu * 2 /\ cs * 8 + cu * 2 <= tick
  BY ClockFacts, UnitFacts DEF ClockTv
<1>3. cs < s \/ (cs = s /\ cu < u)
  BY <1>1, <1>2 DEF Earlier
<1>4. Left(tv) = IF u < cu THEN <<s - cs - 1, u + 4 - cu>> ELSE <<s - cs, u - cu>>
  BY <1>1, <1>2, UnitFacts DEF Left
<1>5. CASE u < cu
  <2>1. Left(tv) = <<s - cs - 1, u + 4 - cu>> /\ s - cs - 1 \in Nat /\ u + 4 - cu \in 0..4
    BY <1>3, <1>4, <1>5
  <2>2. InNs(Left(tv)) = (s - cs - 1) * 8 + (u + 4 - cu) * 2 /\ InNs(tv) = s * 8 + u * 2
    BY <1>1, <2>1, UnitFacts DEF InNs
  <2> QED
    BY <2>1, <2>2, <1>2, UnitFacts DEF Timevals
<1>6. CASE ~(u < cu)
  <2>1. Left(tv) = <<s - cs, u - cu>> /\ s - cs \in Nat /\ u - cu \in 0..4
    BY <1>3, <1>4, <1>6
  <2>2. InNs(Left(tv)) = (s - cs) * 8 + (u - cu) * 2 /\ InNs(tv) = s * 8 + u * 2
    BY <1>1, <2>1, UnitFacts DEF InNs
  <2> QED
    BY <2>1, <2>2, <1>2, UnitFacts DEF Timevals
<1> QED
  BY <1>5, <1>6

LEMMA PollFacts ==
  ASSUME NEW tv \in Timevals
  PROVE  /\ PollMs(tv) \in Nat /\ InNs(tv) <= PollMs(tv) * NsPerMs
         /\ PollMs(tv) * NsPerMs <= InNs(tv) + 3
<1>1. PICK s \in Nat, u \in 0..4 : tv = <<s, u>>
  BY UnitFacts DEF Timevals
<1>2. \A n \in 0..4 : /\ n \div 2 + (IF n % 2 # 0 THEN 1 ELSE 0) \in Nat
                      /\ n * 2 <= (n \div 2 + (IF n % 2 # 0 THEN 1 ELSE 0)) * 4
                      /\ (n \div 2 + (IF n % 2 # 0 THEN 1 ELSE 0)) * 4 <= n * 2 + 3
  OBVIOUS
<1> DEFINE part == u \div 2 + (IF u % 2 # 0 THEN 1 ELSE 0)
<1>3. part \in Nat /\ u * 2 <= part * 4 /\ part * 4 <= u * 2 + 3
  BY <1>2
<1>4. PollMs(tv) = s * 2 + u \div 2 + (IF u % 2 # 0 THEN 1 ELSE 0)
  BY <1>1, UnitFacts DEF PollMs
<1>5. PollMs(tv) = s * 2 + part
  BY <1>4
<1>6. InNs(tv) = s * 8 + u * 2
  BY <1>1, UnitFacts DEF InNs
<1> HIDE DEF part
<1> QED
  BY <1>3, <1>5, <1>6, UnitFacts

LEMMA PatienceFacts == DeadlineAssumption => PatienceTv \in Timevals
<1> SUFFICES ASSUME Patience \in Nat \ {0}
             PROVE  PatienceTv \in Timevals
  BY DEF DeadlineAssumption
<1>1. Patience \div 2 \in Nat /\ Patience % 2 \in 0..1
  OBVIOUS
<1>2. (Patience % 2) * 2 \in 0..4
  BY <1>1
<1> QED
  BY <1>1, <1>2, UnitFacts DEF PatienceTv, Timevals

-----------------------------------------------------------------------------
(* add_to_flying_list() keeps the order: those that are not later than the *)
(* new one are the first of the list.                                      *)
LEMMA NotLaterAreFirst ==
  ASSUME NEW q \in Seq(Timed), NEW d \in [Timed -> Timevals], InOrder(q, d), NEW tv \in Timevals
  PROVE  LET before == {i \in DOMAIN q : ~Earlier(tv, d[q[i]])}
         IN  \E k \in 0..Len(q) : before = 1..k /\ Cardinality(before) = k
<1> DEFINE before == {i \in DOMAIN q : ~Earlier(tv, d[q[i]])}
           S == DOMAIN q \ before
<1>1. DOMAIN q = 1..Len(q) /\ Len(q) \in Nat /\ \A i \in DOMAIN q : q[i] \in Timed
  OBVIOUS
<1>2. ASSUME NEW k \in 0..Len(q), before = 1..k
      PROVE  Cardinality(before) = k
  <2>1. Cardinality(1..k) = IF 1 > k THEN 0 ELSE k - 1 + 1
    BY <1>1, FS_Interval
  <2>2. Cardinality(1..k) = k
    BY <2>1, <1>1
  <2> QED
    BY <2>2, <1>2
<1>3. CASE S = {}
  <2>1. before = 1..Len(q)
    BY <1>1, <1>3
  <2> QED
    BY <2>1, <1>1, <1>2
<1>4. CASE S # {}
  <2> DEFINE m == Min(S)
  <2>1. m \in S /\ \A i \in S : m <= i
    <3>1. S \in SUBSET Nat
      BY <1>1
    <3> HIDE DEF S
    <3> QED
      BY <3>1, <1>4, LeastElement
  <2> HIDE DEF m
  <2>2. m \in 1..Len(q) /\ q[m] \in Timed /\ Earlier(tv, d[q[m]])
    BY <2>1, <1>1
  <2>3. ASSUME NEW i \in 1..Len(q), i < m
        PROVE  i \in before
    BY <2>1, <2>2, <2>3, <1>1
  <2>4. ASSUME NEW i \in 1..Len(q), m < i
        PROVE  Earlier(tv, d[q[i]])
    <3>1. ~Earlier(d[q[i]], d[q[m]]) /\ d[q[i]] \in Timevals /\ d[q[m]] \in Timevals
      BY <2>2, <2>4, <1>1 DEF InOrder
    <3> SUFFICES ASSUME ~Earlier(tv, d[q[i]])
                 PROVE  FALSE
      OBVIOUS
    <3>2. ~Earlier(tv, d[q[m]])
      BY <3>1, NotEarlierTransitive
    <3> QED
      BY <3>2, <2>2
  <2>5. before = 1..(m - 1)
    <3>1. \A i \in before : i \in 1..(m - 1)
      BY <2>2, <2>4, <1>1
    <3>2. \A i \in 1..(m - 1) : i \in before
      BY <2>2, <2>3, <1>1
    <3> QED
      BY <3>1, <3>2
  <2>6. m - 1 \in 0..Len(q)
    BY <2>2
  <2> QED
    BY <2>5, <2>6, <1>2
<1> QED
  BY <1>3, <1>4

Placed(q, d, tv, x) == InsertAt(q, Cardinality({i \in DOMAIN q : ~Earlier(tv, d[q[i]])}) + 1, x)

LEMMA PlacedInOrder ==
  ASSUME NEW q \in Seq(Timed), NEW d \in [Timed -> Timevals], InOrder(q, d), NEW tv \in Timevals,
         NEW x \in Timed \ Range(q)
  PROVE  /\ Placed(q, d, tv, x) \in Seq(Timed)
         /\ InOrder(Placed(q, d, tv, x), [d EXCEPT ![x] = tv])
         /\ Range(Placed(q, d, tv, x)) = Range(q) \union {x}
<1> DEFINE before == {i \in DOMAIN q : ~Earlier(tv, d[q[i]])}
           p == Placed(q, d, tv, x)
           e == [d EXCEPT ![x] = tv]
<1>1. PICK k \in 0..Len(q) : before = 1..k /\ Cardinality(before) = k
  BY NotLaterAreFirst
<1>2. /\ DOMAIN q = 1..Len(q) /\ Len(q) \in Nat /\ k \in Nat /\ k + 1 \in 1..(Len(q) + 1)
      /\ \A i \in 1..Len(q) : q[i] \in Timed /\ q[i] # x
  BY DEF Range
<1>3. /\ p \in Seq(Timed) /\ Len(p) = Len(q) + 1
      /\ \A j \in 1..(Len(q) + 1) :
           p[j] = IF j < k + 1 THEN q[j] ELSE IF j = k + 1 THEN x ELSE q[j - 1]
  <2>1. p = InsertAt(q, k + 1, x)
    BY <1>1 DEF Placed
  <2> HIDE DEF p
  <2> QED
    BY <2>1, <1>2, InsertAtProperties, SMTT(30)
<1>4. DOMAIN p = 1..(Len(q) + 1)
  BY <1>3
<1>5. /\ \A i \in 1..k : i \in DOMAIN q /\ ~Earlier(tv, d[q[i]])
      /\ \A i \in 1..Len(q) : i > k => Earlier(tv, d[q[i]])
  BY <1>1, <1>2
<1>6. e[x] = tv /\ \A y \in Timed : y # x => e[y] = d[y]
  OBVIOUS
<1> HIDE DEF p, e, before
<1>7. ASSUME NEW i \in DOMAIN p, NEW j \in DOMAIN p, i < j
      PROVE  p[i] # p[j] /\ ~Earlier(e[p[j]], e[p[i]])
  <2>1. CASE j < k + 1
    <3>1. p[i] = q[i] /\ p[j] = q[j] /\ i \in 1..Len(q) /\ j \in 1..Len(q)
      BY <2>1, <1>2, <1>3, <1>4, <1>7
    <3> QED
      BY <3>1, <1>2, <1>6, <1>7 DEF InOrder
  <2>2. CASE j = k + 1
    <3>1. p[i] = q[i] /\ p[j] = x /\ i \in 1..k
      BY <2>2, <1>2, <1>3, <1>4, <1>7
    <3> QED
      BY <3>1, <1>2, <1>5, <1>6
  <2>3. CASE i = k + 1
    <3>1. p[i] = x /\ p[j] = q[j - 1] /\ j - 1 \in 1..Len(q) /\ j - 1 > k
      BY <2>3, <1>2, <1>3, <1>4, <1>7
    <3>2. Earlier(tv, d[q[j - 1]]) /\ d[q[j - 1]] \in Timevals
      BY <3>1, <1>2, <1>5
    <3>3. ~Earlier(d[q[j - 1]], tv)
      BY <3>2, EarlierTotal
    <3> QED
      BY <3>1, <3>3, <1>2, <1>6
  <2>4. CASE i < k + 1 /\ k + 1 < j
    <3>1. p[i] = q[i] /\ p[j] = q[j - 1] /\ i \in 1..Len(q) /\ j - 1 \in 1..Len(q) /\ i < j - 1
      BY <2>4, <1>2, <1>3, <1>4, <1>7
    <3> QED
      BY <3>1, <1>2, <1>6 DEF InOrder
  <2>5. CASE k + 1 < i
    <3>1. /\ p[i] = q[i - 1] /\ p[j] = q[j - 1] /\ i - 1 \in 1..Len(q) /\ j - 1 \in 1..Len(q)
          /\ i - 1 < j - 1
      BY <2>5, <1>2, <1>3, <1>4, <1>7
    <3> QED
      BY <3>1, <1>2, <1>6 DEF InOrder
  <2> QED
    BY <2>1, <2>2, <2>3, <2>4, <2>5, <1>2, <1>4, <1>7
<1>8. Range(p) = Range(q) \union {x}
  <2>1. \A i \in DOMAIN p : p[i] \in Range(q) \union {x}
    BY <1>2, <1>3, <1>4 DEF Range
  <2>2. p[k + 1] = x /\ k + 1 \in DOMAIN p
    BY <1>2, <1>3, <1>4
  <2>3. ASSUME NEW i \in 1..Len(q)
        PROVE  q[i] \in Range(p)
    <3>1. CASE i < k + 1
      BY <3>1, <1>2, <1>3, <1>4 DEF Range
    <3>2. CASE ~(i < k + 1)
      <4>1. i + 1 \in DOMAIN p /\ p[i + 1] = q[i]
        BY <3>2, <1>2, <1>3, <1>4
      <4> QED
        BY <4>1 DEF Range
    <3> QED
      BY <3>1, <3>2
  <2> QED
    BY <2>1, <2>2, <2>3, <1>2 DEF Range
<1> QED
  BY <1>3, <1>7, <1>8 DEF InOrder, p, e, before

LEMMA TakenInOrder ==
  ASSUME NEW q \in Seq(Timed), NEW d \in [Timed -> Timevals], InOrder(q, d), NEW i \in DOMAIN q,
         NEW tv
  PROVE  LET p == RemoveAt(q, i)
         IN  /\ p \in Seq(Timed) /\ InOrder(p, [d EXCEPT ![q[i]] = tv])
             /\ Range(p) = Range(q) \ {q[i]}
<1> DEFINE p == RemoveAt(q, i)
           e == [d EXCEPT ![q[i]] = tv]
<1>1. /\ DOMAIN q = 1..Len(q) /\ Len(q) \in Nat /\ \A j \in DOMAIN q : q[j] \in Timed
      /\ \A a, b \in DOMAIN q : a # b => q[a] # q[b]
  <2>1. \A a, b \in DOMAIN q : a # b => a < b \/ b < a
    OBVIOUS
  <2> QED
    BY <2>1 DEF InOrder
<1>2. p \in Seq(Timed) /\ Range(p) = Range(q) \ {q[i]}
  BY <1>1, RemoveOnce DEF IsInjective
<1>3. /\ DOMAIN p \subseteq Nat
      /\ \A j \in DOMAIN p : /\ j < i => j \in DOMAIN q /\ p[j] = q[j]
                             /\ ~(j < i) => j + 1 \in DOMAIN q /\ j + 1 # i /\ p[j] = q[j + 1]
  BY TakeOut
<1>4. \A y \in Timed : y # q[i] => e[y] = d[y]
  OBVIOUS
<1> HIDE DEF p, e
<1>5. ASSUME NEW a \in DOMAIN p, NEW b \in DOMAIN p, a < b
      PROVE  p[a] # p[b] /\ ~Earlier(e[p[b]], e[p[a]])
  <2>1. PICK c \in DOMAIN q, f \in DOMAIN q : c < f /\ p[a] = q[c] /\ p[b] = q[f] /\ c # i /\ f # i
    <3>1. a \in Nat /\ b \in Nat /\ i \in Nat
      BY <1>1, <1>3
    <3>2. CASE b < i
      BY <3>1, <3>2, <1>3, <1>5
    <3>3. CASE a < i /\ ~(b < i)
      <4>1. /\ a \in DOMAIN q /\ p[a] = q[a] /\ b + 1 \in DOMAIN q /\ b + 1 # i /\ p[b] = q[b + 1]
            /\ a # i /\ a < b + 1
        BY <3>1, <3>3, <1>3, <1>5
      <4> QED
        BY <4>1
    <3>4. CASE ~(a < i)
      <4>1. /\ a + 1 \in DOMAIN q /\ a + 1 # i /\ p[a] = q[a + 1]
            /\ b + 1 \in DOMAIN q /\ b + 1 # i /\ p[b] = q[b + 1] /\ a + 1 < b + 1
        BY <3>1, <3>4, <1>3, <1>5
      <4> QED
        BY <4>1
    <3> QED
      BY <3>1, <3>2, <3>3, <3>4, <1>5
  <2>2. q[c] # q[i] /\ q[f] # q[i]
    BY <2>1, <1>1
  <2>3. e[q[c]] = d[q[c]] /\ e[q[f]] = d[q[f]]
    BY <2>2, <1>1, <1>4
  <2> QED
    BY <2>1, <2>3 DEF InOrder
<1> QED
  BY <1>2, <1>5 DEF InOrder, p, e

-----------------------------------------------------------------------------
LEMMA DeadlinesBegin == DeadlineAssumption /\ DeadlinesInit => DeadlineInv
<1> SUFFICES ASSUME DeadlineAssumption, DeadlinesInit
             PROVE  DeadlineInv
  OBVIOUS
<1>1. FlyingInv
  <2>1. <<0, 0>> \in Timevals
    BY UnitFacts DEF Timevals
  <2> QED
    BY <2>1 DEF DeadlinesInit, FlyingInv, InOrder, Range
<1>2. PollWaitInv
  BY DEF DeadlinesInit, PollWaitInv
<1> QED
  BY <1>1, <1>2 DEF DeadlineInv

LEMMA TickStep ==
  ASSUME DeadlineInv, Tick
  PROVE  DeadlineInv'
<1>1. FlyingInv'
  BY DEF DeadlineInv, FlyingInv, Tick
<1>2. ASSUME caller = "expired", inHand \in counted
      PROVE  ~Earlier(ClockTv, due[inHand])'
  <2>1. due[inHand] \in Timevals /\ ~Earlier(ClockTv, due[inHand]) /\ tick \in Nat
    BY <1>2 DEF DeadlineInv, FlyingInv, PollWaitInv, Range
  <2>2. ~Earlier(<<(tick + 1) \div NsPerS, ((tick + 1) % NsPerS) \div NsPerUs>>, due[inHand])
    BY <2>1, ClockReaches DEF ClockTv
  <2> QED
    BY <2>2 DEF Tick, ClockTv
<1>3. PollWaitInv'
  <2>1. tick' \in Nat /\ UNCHANGED <<due, listed, marked, caller, inHand, until, counted>>
    BY DEF Tick, DeadlineInv, PollWaitInv
  <2> QED
    BY <2>1, <1>2 DEF DeadlineInv, PollWaitInv
<1> QED
  BY <1>1, <1>3 DEF DeadlineInv

LEMMA SubmitTimedStep ==
  ASSUME DeadlineInv, DeadlineAssumption, NEW x \in Timed, NEW ms \in Limits, SubmitTimed(x, ms)
  PROVE  DeadlineInv'
<1>1. /\ x \notin Range(listed) /\ counted \subseteq Range(listed)
      /\ counted' = counted /\ UNCHANGED <<tick, caller, inHand, until>>
      /\ due' = [due EXCEPT ![x] = DeadlineOf(ms)] /\ marked' = marked \ {x}
  BY DEF SubmitTimed, DeadlineInv, FlyingInv
<1>2. DeadlineOf(ms) \in Timevals
  BY DeadlineIsTimeval DEF DeadlineAssumption, DeadlineInv, PollWaitInv
<1>3. listed' \in Seq(Timed) /\ InOrder(listed', due') /\ Range(listed') = Range(listed) \union {x}
  <2>1. listed \in Seq(Timed) /\ due \in [Timed -> Timevals] /\ InOrder(listed, due)
    BY DEF DeadlineInv, FlyingInv
  <2>2. listed' = Placed(listed, due, DeadlineOf(ms), x)
    BY DEF SubmitTimed, Placed
  <2>3. x \in Timed \ Range(listed)
    BY <1>1
  <2>4. /\ Placed(listed, due, DeadlineOf(ms), x) \in Seq(Timed)
        /\ InOrder(Placed(listed, due, DeadlineOf(ms), x), [due EXCEPT ![x] = DeadlineOf(ms)])
        /\ Range(Placed(listed, due, DeadlineOf(ms), x)) = Range(listed) \union {x}
    BY <2>1, <2>3, <1>2, PlacedInOrder, ZenonT(30)
  <2> QED
    BY <2>2, <2>4, <1>1
<1>4. FlyingInv'
  BY <1>1, <1>2, <1>3 DEF DeadlineInv, FlyingInv
<1>5. \A y \in Range(listed) : y \in Timed /\ due'[y] = due[y] /\ (y \in marked' <=> y \in marked)
  BY <1>1 DEF DeadlineInv, FlyingInv, Range
<1>6. PollWaitInv'
  <2>1. \A y \in counted : due'[y] = due[y] /\ (y \in marked' <=> y \in marked)
    BY <1>1, <1>5
  <2>2. caller = "asked" => inHand \in Range(listed) /\ due'[inHand] = due[inHand]
    BY <1>5 DEF DeadlineInv, PollWaitInv
  <2> QED
    BY <2>1, <2>2, <1>1, <1>3 DEF DeadlineInv, PollWaitInv, ClockTv
<1> QED
  BY <1>4, <1>6 DEF DeadlineInv

LEMMA CompleteTimedStep ==
  ASSUME DeadlineInv, "freed" \notin DeadlineFaults, NEW x \in Timed, CompleteTimed(x)
  PROVE  DeadlineInv'
<1>1. PICK i \in DOMAIN listed : listed[i] = x /\ listed' = RemoveAt(listed, i)
  BY DEF CompleteTimed
<1>2. /\ ~(caller = "asked" /\ inHand = x) /\ UNCHANGED <<tick, caller, inHand, until>>
      /\ counted' = counted \ {x} /\ marked' = marked \ {x} /\ due' = [due EXCEPT ![x] = <<0, 0>>]
  BY DEF CompleteTimed
<1>3. listed' \in Seq(Timed) /\ InOrder(listed', due') /\ Range(listed') = Range(listed) \ {x}
  BY <1>1, <1>2, TakenInOrder DEF DeadlineInv, FlyingInv
<1>4. <<0, 0>> \in Timevals
  BY UnitFacts DEF Timevals
<1>5. FlyingInv'
  BY <1>2, <1>3, <1>4 DEF DeadlineInv, FlyingInv
<1>6. \A y \in Range(listed') : y \in Timed /\ due'[y] = due[y] /\ (y \in marked' <=> y \in marked)
  <2>0. \A y \in Range(listed) : y \in Timed
    BY DEF DeadlineInv, FlyingInv, Range
  <2>1. \A y \in Range(listed') : y \in Timed /\ y # x
    BY <2>0, <1>3
  <2>2. \A y \in Timed : y # x => due'[y] = due[y]
    BY <1>2 DEF DeadlineInv, FlyingInv
  <2>3. \A y \in Timed : y # x => (y \in marked' <=> y \in marked)
    BY <1>2
  <2> QED
    BY <2>1, <2>2, <2>3
<1>7. PollWaitInv'
  <2>1. /\ counted' \subseteq counted /\ counted' \subseteq Range(listed')
        /\ \A y \in counted' : due'[y] = due[y] /\ (y \in marked' <=> y \in marked)
    BY <1>2, <1>3, <1>6 DEF DeadlineInv, FlyingInv
  <2>2. caller = "asked" => inHand \in Range(listed') /\ due'[inHand] = due[inHand]
    BY <1>2, <1>3, <1>6 DEF DeadlineInv, PollWaitInv
  <2> QED
    BY <2>1, <2>2, <1>2 DEF DeadlineInv, PollWaitInv, ClockTv
<1> QED
  BY <1>5, <1>7 DEF DeadlineInv

LEMMA AskStep ==
  ASSUME DeadlineInv, DeadlineAssumption, AskNextTimeout
  PROVE  DeadlineInv'
<1>1. /\ UNCHANGED <<tick, due, listed, marked>> /\ counted' = {listed[i] : i \in Unmarked}
      /\ Unmarked \subseteq DOMAIN listed
  BY DEF AskNextTimeout, Unmarked
<1>2. FlyingInv'
  BY <1>1 DEF DeadlineInv, FlyingInv, Range
<1>3. CASE Unmarked = {}
  <2>1. caller' = "polling" /\ until' = tick + PollMs(PatienceTv) * NsPerMs /\ inHand' = "nothing"
    BY <1>3 DEF AskNextTimeout, Poll
  <2>2. counted' = {} /\ until' \in Nat
    BY <2>1, <1>1, <1>3, PatienceFacts, PollFacts, UnitFacts DEF DeadlineInv, PollWaitInv
  <2>3. PollWaitInv'
    BY <2>1, <2>2, <1>1 DEF PollWaitInv, DeadlineInv
  <2> QED
    BY <2>3, <1>2 DEF DeadlineInv
<1>4. CASE Unmarked # {}
  <2> DEFINE first == CHOOSE i \in Unmarked : \A j \in Unmarked : i <= j
  <2>1. caller' = "asked" /\ until' = until /\ inHand' = listed[first]
    BY <1>4 DEF AskNextTimeout
  <2>2. first \in Unmarked /\ \A j \in Unmarked : first <= j
    <3>1. Unmarked \in SUBSET Nat
      BY DEF Unmarked, DeadlineInv, FlyingInv
    <3>2. Min(Unmarked) \in Unmarked /\ \A j \in Unmarked : Min(Unmarked) <= j
      BY <3>1, <1>4, LeastElement
    <3> QED
      BY <3>2
  <2> HIDE DEF first
  <2>3. first \in DOMAIN listed /\ listed[first] \in Range(listed) /\ listed[first] \in Timed
    BY <2>2, <1>1 DEF DeadlineInv, FlyingInv, Range
  <2>4. ASSUME NEW j \in Unmarked
        PROVE  ~Earlier(due[listed[j]], due[listed[first]])
    <3>1. j \in DOMAIN listed /\ j \in Nat /\ first \in Nat /\ due[listed[first]] \in Timevals
      BY <2>3, <1>1 DEF DeadlineInv, FlyingInv
    <3>2. CASE first < j
      BY <3>1, <3>2, <2>3 DEF DeadlineInv, FlyingInv, InOrder
    <3>3. CASE first = j
      BY <3>1, <3>3, UnitFacts DEF Earlier, Timevals
    <3> QED
      BY <3>1, <3>2, <3>3, <2>2
  <2>5. PollWaitInv'
    BY <2>1, <2>3, <2>4, <1>1 DEF DeadlineInv, PollWaitInv
  <2> QED
    BY <2>5, <1>2 DEF DeadlineInv
<1> QED
  BY <1>3, <1>4

LEMMA ReadDeadlineStep ==
  ASSUME DeadlineInv, DeadlineAssumption, ReadDeadline
  PROVE  DeadlineInv'
<1>1. UNCHANGED <<tick, due, listed, marked, counted>> /\ caller = "asked"
  BY DEF ReadDeadline
<1>2. FlyingInv'
  BY <1>1 DEF DeadlineInv, FlyingInv, Range
<1> DEFINE tv == due[inHand]
<1>3. /\ inHand \in Timed /\ tv \in Timevals /\ tick \in Nat /\ until \in Nat
      /\ \A x \in counted : due[x] \in Timevals /\ ~Earlier(due[x], tv)
  BY <1>1 DEF DeadlineInv, PollWaitInv, FlyingInv, Range
<1>4. \/ ~Earlier(ClockTv, tv) /\ caller' = "expired" /\ UNCHANGED <<until, inHand>>
      \/ Earlier(ClockTv, tv) /\ Earlier(Left(tv), PatienceTv) /\ Poll(Left(tv), inHand)
      \/ Earlier(ClockTv, tv) /\ ~Earlier(Left(tv), PatienceTv) /\ Poll(PatienceTv, "nothing")
  <2>1. MayRead(inHand) = {tv}
    BY <1>1 DEF MayRead, DeadlineInv, PollWaitInv
  <2> HIDE DEF tv
  <2> QED
    BY <2>1 DEF ReadDeadline
<1>5. ASSUME NEW x \in counted
      PROVE  InNs(tv) <= InNs(due[x]) /\ InNs(tv) \in Nat /\ InNs(due[x]) \in Nat
  <2>1. /\ InNs(tv) <= InNs(due[x]) /\ InNs(tv) \in Nat
    BY <1>3, NotEarlierInNs
  <2>2. InNs(due[x]) \in Nat
    BY <1>3, UnitFacts DEF InNs, Timevals
  <2> QED
    BY <2>1, <2>2
<1>6. CASE ~Earlier(ClockTv, tv) /\ caller' = "expired" /\ UNCHANGED <<until, inHand>>
  <2>1. PollWaitInv'
    BY <1>1, <1>3, <1>6 DEF PollWaitInv, ClockTv
  <2> QED
    BY <2>1, <1>2 DEF DeadlineInv
<1>7. InNs(tv) \in Nat
  BY <1>3, UnitFacts DEF InNs, Timevals
<1> HIDE DEF tv
<1>8. ASSUME Earlier(ClockTv, tv), NEW wait \in Timevals, NEW from \in Timed \union {"nothing"},
             Poll(wait, from), InNs(wait) <= InNs(Left(tv)),
             from # "nothing" => from = inHand /\ wait = Left(tv)
      PROVE  DeadlineInv'
  <2>1. caller' = "polling" /\ until' = tick + PollMs(wait) * NsPerMs /\ inHand' = from
    BY <1>8 DEF Poll
  <2>2. /\ PollMs(wait) \in Nat /\ InNs(wait) <= PollMs(wait) * NsPerMs
        /\ PollMs(wait) * NsPerMs <= InNs(wait) + 3
    BY PollFacts
  <2>3. InNs(tv) - tick <= InNs(Left(tv)) /\ InNs(Left(tv)) <= InNs(tv) - tick + 1
    BY <1>3, <1>8, LeftFacts
  <2>4. InNs(Left(tv)) \in Nat /\ InNs(wait) \in Nat
    BY <1>3, <1>8, LeftFacts, UnitFacts DEF InNs, Timevals
  <2>5. until' \in Nat /\ until' <= InNs(tv) + 4
    BY <2>1, <2>2, <2>3, <2>4, <1>3, <1>7, <1>8, UnitFacts
  <2>6. \A x \in counted : until' <= InNs(due[x]) + NsPerMs + NsPerUs
    BY <2>5, <1>5, UnitFacts
  <2>7. from # "nothing" => InNs(tv) <= until'
    BY <2>1, <2>2, <2>3, <2>4, <1>3, <1>7, <1>8, UnitFacts
  <2>8. from \in counted => from # "nothing"
    BY DEF DeadlineInv, FlyingInv, Range, DeadlineAssumption
  <2>9. from \in counted => InNs(due[from]) <= until'
    BY <2>7, <2>8, <1>8 DEF tv
  <2>10. PollWaitInv'
    BY <2>1, <2>5, <2>6, <2>9, <1>1, <1>3 DEF PollWaitInv, InNs
  <2> QED
    BY <2>10, <1>2 DEF DeadlineInv
<1>9. CASE Earlier(ClockTv, tv) /\ Earlier(Left(tv), PatienceTv) /\ Poll(Left(tv), inHand)
  <2>1. Left(tv) \in Timevals /\ InNs(Left(tv)) <= InNs(Left(tv))
    BY <1>3, <1>9, LeftFacts, NotEarlierInNs, UnitFacts DEF InNs, Timevals
  <2> QED
    BY <2>1, <1>3, <1>8, <1>9
<1>10. CASE Earlier(ClockTv, tv) /\ ~Earlier(Left(tv), PatienceTv) /\ Poll(PatienceTv, "nothing")
  <2>1. Left(tv) \in Timevals /\ PatienceTv \in Timevals
    BY <1>3, <1>10, LeftFacts, PatienceFacts
  <2>2. InNs(PatienceTv) <= InNs(Left(tv))
    BY <2>1, <1>10, NotEarlierInNs
  <2> QED
    BY <2>1, <2>2, <1>8, <1>10
<1> QED
  BY <1>4, <1>6, <1>9, <1>10

LEMMA PollStep ==
  ASSUME DeadlineInv, DeadlineAssumption, PollExpires \/ PollReports
  PROVE  DeadlineInv'
<1>1. UNCHANGED <<tick, due, listed, marked, counted>> /\ caller = "polling" /\ until' = 0
  BY DEF PollExpires, PollReports
<1>2. FlyingInv'
  BY <1>1 DEF DeadlineInv, FlyingInv, Range
<1>3. CASE PollExpires
  <2>1. caller' = "expired" /\ inHand' = inHand /\ tick >= until /\ tick \in Nat /\ until \in Nat
    BY <1>3 DEF PollExpires, DeadlineInv, PollWaitInv
  <2>2. inHand \in counted => ~Earlier(ClockTv, due[inHand])
    <3> SUFFICES ASSUME inHand \in counted
                 PROVE  ~Earlier(ClockTv, due[inHand])
      OBVIOUS
    <3>1. due[inHand] \in Timevals /\ InNs(due[inHand]) <= until
      BY <1>1 DEF DeadlineInv, FlyingInv, PollWaitInv, Range
    <3>2. InNs(due[inHand]) \in Nat
      BY <3>1, UnitFacts DEF InNs, Timevals
    <3>3. InNs(due[inHand]) <= tick
      BY <3>1, <3>2, <2>1
    <3> QED
      BY <3>1, <3>3, <2>1, ClockReaches DEF ClockTv
  <2>3. PollWaitInv'
    BY <2>1, <2>2, <1>1 DEF DeadlineInv, PollWaitInv, ClockTv
  <2> QED
    BY <2>3, <1>2 DEF DeadlineInv
<1>4. CASE PollReports
  <2>1. caller' = "away" /\ inHand' = "nothing"
    BY <1>4 DEF PollReports
  <2>2. "nothing" \notin counted
    BY DEF DeadlineInv, FlyingInv, Range, DeadlineAssumption
  <2>3. PollWaitInv'
    BY <2>1, <2>2, <1>1 DEF DeadlineInv, PollWaitInv
  <2> QED
    BY <2>3, <1>2 DEF DeadlineInv
<1> QED
  BY <1>3, <1>4

LEMMA LookStep ==
  ASSUME DeadlineInv, LookForExpired
  PROVE  DeadlineInv'
<1>1. /\ UNCHANGED <<tick, due, listed, inHand, until, counted>> /\ caller = "expired"
      /\ caller' = "away" /\ marked' = marked \union {listed[i] : i \in Expired}
  BY DEF LookForExpired
<1>2. Expired \subseteq DOMAIN listed /\ Unmarked \subseteq DOMAIN listed
  BY DEF Expired, Unmarked
<1>3. FlyingInv'
  BY <1>1, <1>2 DEF DeadlineInv, FlyingInv, Range
<1>4. ASSUME inHand \in counted
      PROVE  inHand \in marked'
  <2>1. PICK i \in DOMAIN listed : listed[i] = inHand
    BY <1>4 DEF DeadlineInv, FlyingInv, Range
  <2>2. ASSUME NEW j \in Unmarked, j <= i
        PROVE  ~Earlier(ClockTv, due[listed[j]])
    <3>1. ~Earlier(ClockTv, due[listed[i]]) /\ j \in DOMAIN listed
      BY <2>1, <1>1, <1>2, <1>4 DEF DeadlineInv, PollWaitInv
    <3>2. CASE j = i
      BY <3>1, <3>2
    <3>3. CASE j < i
      <4>1. ~Earlier(due[listed[i]], due[listed[j]])
        BY <3>1, <3>3 DEF DeadlineInv, FlyingInv, InOrder
      <4>2. ClockTv \in Timevals
        BY ClockFacts, UnitFacts DEF ClockTv, Timevals, DeadlineInv, PollWaitInv
      <4>3. due[listed[i]] \in Timevals /\ due[listed[j]] \in Timevals
        BY <3>1 DEF DeadlineInv, FlyingInv
      <4> QED
        BY <4>1, <4>2, <4>3, <3>1, NotEarlierTransitive
    <3>4. j \in Nat /\ i \in Nat
      BY <3>1 DEF DeadlineInv, FlyingInv
    <3> QED
      BY <3>2, <3>3, <3>4, <2>2
  <2>3. i \in Expired
    BY <2>2 DEF Expired
  <2> QED
    BY <2>1, <2>3, <1>1
<1>5. PollWaitInv'
  BY <1>1, <1>4 DEF DeadlineInv, PollWaitInv
<1> QED
  BY <1>3, <1>5 DEF DeadlineInv

LEMMA DeadlinesSound == "freed" \notin DeadlineFaults => (DeadlinesSpec => []DeadlineInv)
<1> SUFFICES ASSUME "freed" \notin DeadlineFaults
             PROVE  DeadlinesSpec => []DeadlineInv
  OBVIOUS
<1> USE DeadlineAssumption
<1>1. DeadlinesInit => DeadlineInv
  BY DeadlinesBegin
<1>2. DeadlineInv /\ [DeadlinesNext]_deadlineVars => DeadlineInv'
  <2> SUFFICES ASSUME DeadlineInv, [DeadlinesNext]_deadlineVars
               PROVE  DeadlineInv'
    OBVIOUS
  <2>1. CASE UNCHANGED deadlineVars
    BY <2>1 DEF deadlineVars, DeadlineInv, FlyingInv, PollWaitInv, ClockTv, Range
  <2>2. CASE DeadlinesNext
    BY <2>2, TickStep, AskStep, ReadDeadlineStep, PollStep, LookStep, CompleteTimedStep, SubmitTimedStep
       DEF DeadlinesNext
  <2> QED
    BY <2>1, <2>2
<1> QED
  BY <1>1, <1>2, PTL DEF DeadlinesSpec

(* For any number of transfers, when none is freed while its deadline is   *)
(* read: poll() outlasts no deadline of those it was called for by more    *)
(* than the rounding, and the transfer whose deadline it waited for is     *)
(* timed out, through transfers submitted and completed in between.        *)
THEOREM DeadlinesAreMet ==
  "freed" \notin DeadlineFaults => (DeadlinesSpec => []DeadlinesMet)
<1>1. DeadlineInv => DeadlinesMet
  BY DEF DeadlineInv, PollWaitInv, DeadlinesMet
<1> QED
  BY <1>1, DeadlinesSound, PTL

(* Types: what is left to say of the bound on time and of the caller.      *)
CallerType == tick \in 0..LastTick /\ caller \in {"away", "asked", "polling", "expired"}

LEMMA CallerTyped == CallerType /\ [DeadlinesNext]_deadlineVars => CallerType'
<1> SUFFICES ASSUME CallerType, [DeadlinesNext]_deadlineVars PROVE CallerType'
  OBVIOUS
<1>1. tick \in 0..LastTick /\ LastTick \in Nat
  BY DeadlineAssumption DEF CallerType
<1>2. tick' \in 0..LastTick
  <2>1. tick' = tick \/ (tick < LastTick /\ tick' = tick + 1)
    BY DEF DeadlinesNext, Tick, AskNextTimeout, ReadDeadline, PollExpires, PollReports, LookForExpired,
       CompleteTimed, SubmitTimed, deadlineVars
  <2> QED
    BY <1>1, <2>1
<1>3. caller' \in {caller, "away", "asked", "polling", "expired"}
  <2>1. CASE Tick \/ AskNextTimeout \/ PollExpires \/ PollReports \/ LookForExpired
    BY <2>1 DEF Tick, AskNextTimeout, PollExpires, PollReports, LookForExpired, Poll
  <2>2. CASE ReadDeadline
    BY <2>2 DEF ReadDeadline, Poll
  <2>3. CASE \E x \in Timed : CompleteTimed(x) \/ \E ms \in Limits : SubmitTimed(x, ms)
    BY <2>3 DEF CompleteTimed, SubmitTimed
  <2>4. CASE UNCHANGED deadlineVars
    BY <2>4 DEF deadlineVars
  <2> QED
    BY <2>1, <2>2, <2>3, <2>4 DEF DeadlinesNext
<1> QED
  BY <1>2, <1>3 DEF CallerType

(* Deadlines are never negative, and no wait ends before it begins: their  *)
(* types hold, unless a transfer is freed while its deadline is read.      *)
THEOREM DeadlinesTyped ==
  ASSUME "freed" \notin DeadlineFaults
  PROVE  DeadlinesSpec => []DeadlinesTypeOK
<1>1. DeadlinesInit => CallerType
  BY DeadlineAssumption DEF DeadlinesInit, CallerType
<1>2. DeadlineInv /\ CallerType => DeadlinesTypeOK
  <2> SUFFICES ASSUME DeadlineInv, CallerType PROVE DeadlinesTypeOK
    OBVIOUS
  <2>1. Range(listed) \subseteq Timed
    BY DEF DeadlineInv, FlyingInv, Range
  <2>2. Timevals \subseteq Nat \X Nat
    BY UnitFacts DEF Timevals
  <2> QED
    BY <2>1, <2>2 DEF DeadlineInv, FlyingInv, PollWaitInv, CallerType, DeadlinesTypeOK
<1> QED
  BY <1>1, <1>2, CallerTyped, DeadlinesSound, PTL DEF DeadlinesSpec

-----------------------------------------------------------------------------
(* The fingerprint scanner examples (Dpfp.tla)                             *)

-----------------------------------------------------------------------------
(* The program captures, or is about to, and nobody has asked it to end.   *)
EarlyStages == {"open", "f0", "init", "thread", "alloc", "irq"}
Looping     == {"test", "lock", "waiting"}
Capturing   == doExit = 0 /\ dpMain \in EarlyStages \union {"img", "state", "first"} \union Looping

DpEvents   == {"detected", "image", "removed"}
DpEnds       == {"irq", "img", "mode"} \X (DpEvents \union {"set", "failed"})
Carrier(m) == IF m = "capture" THEN "img" ELSE "irq"
Eventless  == \A e \in Range(finished) : e[2] \notin DpEvents

(* A mode is set before its event is sent, and they end in this order.     *)
ModeComesFirst(q) ==
  \A i, j \in DOMAIN q : q[i][2] = "set" /\ q[j][2] \in DpEvents => i < j

(* A transfer is in flight or finished, once; only a change of mode ends   *)
(* with the mode set, and no event comes with it.                          *)
DpEndsInv ==
  /\ flying \subseteq {"irq", "img", "mode"} /\ finished \in Seq(DpEnds)
  /\ IsInjective(finished) /\ ModeComesFirst(finished)
  /\ \A d, e \in Range(finished) : d[1] = e[1] => d = e
  /\ \A e \in Range(finished) : e[1] \notin flying
  /\ \A e \in Range(finished) : e[1] = "mode" <=> e \in {<<"mode", "set">>, <<"mode", "failed">>}
  /\ \A e \in Range(finished) : e[2] = "set" => e[1] = "mode"

(* Before main() loops no mode was ever asked for, so nothing that was     *)
(* submitted can have ended well.                                          *)
StageInv ==
  /\ dpMain \in EarlyStages => flying = {} /\ finished = <<>>
  /\ dpMain \notin Looping =>
       /\ mode = "none" /\ ~Pending("mode")
       /\ \A e \in Range(finished) : e[2] = "failed"
  /\ dpMain \in EarlyStages \union {"img", "state"} => dpState = <<>>
  /\ dpMain = "first" => dpState = <<"event", "finger_off">>
  /\ dpMain \notin EarlyStages => Pending("irq")
  /\ dpMain \notin EarlyStages \union {"img"} => Pending("img")
  /\ dpMain = "img" => ~Pending("img")

(* The scanner is in the mode that was asked for last.                     *)
Applied == dpState[1] = "event" \/ <<"mode", "set">> \in Range(finished)

MachineInv ==
  dpMain \in Looping =>
    /\ dpState \in States
    /\ Pending("mode") <=> dpState[1] = "change"
    /\ dpState[1] = "change" => modeAsked = dpState[2]
    /\ Applied => mode = dpState[2] /\ (sent <=> ~Eventless)
    /\ ~Applied => (mode = "none" \/ sent) /\ Eventless
    /\ \A e \in Range(finished) :
         e[2] \in DpEvents => mode \in Modes /\ e = <<Carrier(mode), EventOf[mode]>>

CaptureInv == Capturing => DpEndsInv /\ StageInv /\ MachineInv

-----------------------------------------------------------------------------
LEMMA EventFacts ==
  /\ EventOf["finger_on"] = "detected" /\ EventOf["capture"] = "image"
  /\ EventOf["finger_off"] = "removed"
  /\ \A m \in Modes : EventOf[m] \in DpEvents /\ Carrier(m) \in {"irq", "img"}
BY DEF EventOf, Modes, DpEvents, Carrier

LEMMA StateFacts ==
  /\ \A s \in States : /\ Following(s) \in States
                       /\ s[1] = "event" => Following(s)[1] = "change"
                       /\ s[1] = "change" => Following(s) = <<"event", s[2]>>
                       /\ s[1] \in {"event", "change"} /\ s[2] \in Modes
                       /\ s = <<s[1], s[2]>> /\ s # <<>>
  /\ Following(<<"event", "finger_off">>) = <<"change", "finger_on">>
  /\ Following(<<>>) = <<>>
<1>1. /\ Following(<<"event", "finger_off">>) = <<"change", "finger_on">>
      /\ Following(<<"event", "finger_on">>) = <<"change", "capture">>
      /\ Following(<<"event", "capture">>) = <<"change", "finger_off">>
      /\ Following(<<>>) = <<>>
  BY DEF Following
<1>2. ASSUME NEW m \in Modes
      PROVE  Following(<<"change", m>>) = <<"event", m>>
  BY DEF Following, Modes
<1> QED
  BY <1>1, <1>2 DEF States, Modes

(* What is appended last breaks no order, unless it is a mode set late.    *)
LEMMA EndAppended ==
  ASSUME NEW q \in Seq(DpEnds), NEW d \in DpEnds, IsInjective(q), d \notin Range(q), ModeComesFirst(q),
         d[2] = "set" => \A e \in Range(q) : e[2] \notin DpEvents
  PROVE  /\ Append(q, d) \in Seq(DpEnds) /\ IsInjective(Append(q, d))
         /\ Range(Append(q, d)) = Range(q) \union {d} /\ ModeComesFirst(Append(q, d))
<1> DEFINE r == Append(q, d)
<1>1. r \in Seq(DpEnds) /\ IsInjective(r) /\ Range(r) = Range(q) \union {d}
  BY AppendOnce
<1>2. /\ DOMAIN r = 1..(Len(q) + 1) /\ DOMAIN q = 1..Len(q) /\ Len(q) \in Nat
      /\ r[Len(q) + 1] = d /\ \A i \in 1..Len(q) : r[i] = q[i]
  OBVIOUS
<1>3. ASSUME NEW i \in DOMAIN r, NEW j \in DOMAIN r, r[i][2] = "set", r[j][2] \in DpEvents
      PROVE  i < j
  <2>1. CASE i \in 1..Len(q) /\ j \in 1..Len(q)
    BY <2>1, <1>2, <1>3 DEF ModeComesFirst
  <2>2. CASE i \in 1..Len(q) /\ j = Len(q) + 1
    BY <2>2, <1>2
  <2>3. CASE i = Len(q) + 1
    <3>1. d[2] = "set" /\ j # Len(q) + 1
      BY <2>3, <1>2, <1>3 DEF DpEvents
    <3>2. j \in DOMAIN q /\ q[j] \in Range(q) /\ q[j][2] \in DpEvents
      BY <3>1, <1>2, <1>3 DEF Range
    <3> QED
      BY <3>1, <3>2
  <2> QED
    BY <2>1, <2>2, <2>3, <1>2
<1> QED
  BY <1>1, <1>3 DEF ModeComesFirst

LEMMA FrontTaken ==
  ASSUME NEW q \in Seq(DpEnds), q # <<>>, IsInjective(q), ModeComesFirst(q)
  PROVE  /\ Tail(q) \in Seq(DpEnds) /\ IsInjective(Tail(q)) /\ ModeComesFirst(Tail(q))
         /\ Range(Tail(q)) = Range(q) \ {Head(q)} /\ Head(q) \in Range(q)
         /\ Head(q)[2] \in DpEvents => \A e \in Range(q) : e[2] # "set"
<1>1. /\ Tail(q) \in Seq(DpEnds) /\ IsInjective(Tail(q))
      /\ Range(Tail(q)) = Range(q) \ {Head(q)}
  BY TailOnce
<1>2. /\ 1 \in DOMAIN q /\ Head(q) = q[1]
      /\ \A i \in DOMAIN Tail(q) : i \in Nat /\ i + 1 \in DOMAIN q /\ Tail(q)[i] = q[i + 1]
      /\ \A i \in DOMAIN q : i \in Nat /\ ~(i < 1)
  OBVIOUS
<1>3. ASSUME NEW i \in DOMAIN Tail(q), NEW j \in DOMAIN Tail(q),
             Tail(q)[i][2] = "set", Tail(q)[j][2] \in DpEvents
      PROVE  i < j
  <2>1. q[i + 1][2] = "set" /\ q[j + 1][2] \in DpEvents /\ i + 1 \in DOMAIN q /\ j + 1 \in DOMAIN q
    BY <1>2, <1>3
  <2>2. i + 1 < j + 1
    BY <2>1 DEF ModeComesFirst
  <2> QED
    BY <2>2, <1>2
<1>4. ASSUME Head(q)[2] \in DpEvents, NEW e \in Range(q), e[2] = "set"
      PROVE  FALSE
  <2>1. PICK i \in DOMAIN q : q[i] = e
    BY DEF Range
  <2>2. i < 1
    BY <2>1, <1>2, <1>4 DEF ModeComesFirst
  <2> QED
    BY <2>2, <1>2
<1> QED
  BY <1>1, <1>2, <1>3, <1>4 DEF ModeComesFirst, Range

LEMMA NothingEnded == Range(<<>>) = {} /\ IsInjective(<<>>) /\ ModeComesFirst(<<>>) /\ <<>> \in Seq(DpEnds)
BY DEF Range, IsInjective, ModeComesFirst

LEMMA CaptureInit == DpInit => CaptureInv
BY NothingEnded DEF DpInit, CaptureInv, DpEndsInv, StageInv, MachineInv, EarlyStages, Looping, Pending

-----------------------------------------------------------------------------
(* Whatever asks the program to end ends the capture for good.             *)
LEMMA CaptureAwaited ==
  ASSUME DpNext, Capturing', "early" \notin DpFaults
  PROVE  /\ Capturing
         /\ \/ /\ UNCHANGED <<dpState, flying, finished, modeAsked, mode, sent>>
               /\ \/ dpMain \in EarlyStages \ {"irq"} /\ dpMain' \in EarlyStages
                  \/ dpMain \in Looping /\ dpMain' \in Looping
            \/ SubmitBoth \/ StartMachine \/ Callback \/ ScannerSends
<1> USE DEF Capturing, EarlyStages, Looping
<1>1. CASE MainSetsUp
  BY <1>1 DEF MainSetsUp, OpenScanner, PrintF0, DoInit, AllocTransfers, Go, scanner
<1>2. CASE Undone
  BY <1>2 DEF Undone, CaptureFails
<1>3. CASE PollThread
  BY <1>3 DEF PollThread, RequestExit, dpTransfers, scanner
<1>4. CASE Sighandler
  BY <1>4 DEF Sighandler, RequestExit
<1>5. CASE MainWaits
  BY <1>5 DEF MainWaits, Go, dpTransfers, scanner
<1>6. CASE CancelCapture("irq", "cancel_irq", "cancel_img") \/ CancelCapture("img", "cancel_img", "drain")
  BY <1>6 DEF CancelCapture
<1>7. CASE MainLeaves
  BY <1>7 DEF MainLeaves, Go
<1>8. CASE SubmitBoth
  BY <1>8 DEF SubmitBoth, CaptureFails, Go
<1>9. CASE StartMachine
  BY <1>9 DEF StartMachine, CaptureFails, Go
<1>10. CASE Callback
  <2>1. doExit' = doExit /\ dpMain' = dpMain
    BY <1>10 DEF Callback, CbModeChanged, CbIrq, CbImg, Resubmit, TransferLost, RequestExit
  <2> QED
    BY <1>10, <2>1
<1>11. CASE ScannerSends
  BY <1>11 DEF ScannerSends
<1> QED
  BY <1>1, <1>2, <1>3, <1>4, <1>5, <1>6, <1>7, <1>8, <1>9, <1>10, <1>11 DEF DpNext

(* A step of main() or of the poll thread that leaves the transfers alone. *)
LEMMA QuietStep ==
  ASSUME DpEndsInv, StageInv, MachineInv,
         UNCHANGED <<dpState, flying, finished, modeAsked, mode, sent>>,
         \/ dpMain \in EarlyStages \ {"irq"} /\ dpMain' \in EarlyStages
         \/ dpMain \in Looping /\ dpMain' \in Looping
         \/ dpMain' = dpMain
  PROVE  DpEndsInv' /\ StageInv' /\ MachineInv'
<1>1. DpEndsInv'
  BY DEF DpEndsInv
<1>2. StageInv'
  BY DEF StageInv, Pending, EarlyStages, Looping
<1>3. MachineInv'
  BY DEF MachineInv, Pending, Eventless, Applied, EarlyStages, Looping
<1> QED
  BY <1>1, <1>2, <1>3

LEMMA SubmitStep ==
  ASSUME DpEndsInv, StageInv, MachineInv, SubmitBoth, Capturing'
  PROVE  DpEndsInv' /\ StageInv' /\ MachineInv'
<1>1. /\ dpMain \in {"irq", "img"} /\ flying' = flying \union {dpMain}
      /\ dpMain' = (IF dpMain = "irq" THEN "img" ELSE "state")
      /\ UNCHANGED <<finished, dpState, modeAsked, mode, sent>>
  BY DEF SubmitBoth, CaptureFails, Go, Capturing, EarlyStages, Looping, scanner
<1>2. ~Pending(dpMain)
  BY <1>1, NothingEnded DEF StageInv, Pending, EarlyStages
<1>3. DpEndsInv'
  BY <1>1, <1>2 DEF DpEndsInv, Pending
<1>4. StageInv'
  <2>1. CASE dpMain = "irq"
    BY <2>1, <1>1, NothingEnded DEF StageInv, Pending, EarlyStages, Looping
  <2>2. CASE dpMain = "img"
    BY <2>2, <1>1 DEF StageInv, Pending, EarlyStages, Looping
  <2> QED
    BY <2>1, <2>2, <1>1
<1>5. MachineInv'
  BY <1>1 DEF MachineInv, Looping
<1> QED
  BY <1>3, <1>4, <1>5

LEMMA StartStep ==
  ASSUME DpEndsInv, StageInv, MachineInv, StartMachine, Capturing'
  PROVE  DpEndsInv' /\ StageInv' /\ MachineInv'
<1>1. UNCHANGED <<finished, mode, sent>>
  BY DEF StartMachine, scanner
<1>2. CASE /\ dpMain = "state" /\ dpMain' = "first" /\ dpState' = <<"event", "finger_off">>
           /\ UNCHANGED <<flying, modeAsked>>
  <2>1. DpEndsInv'
    BY <1>1, <1>2 DEF DpEndsInv
  <2>2. StageInv'
    BY <1>1, <1>2 DEF StageInv, Pending, EarlyStages, Looping
  <2>3. MachineInv'
    BY <1>2 DEF MachineInv, Looping
  <2> QED
    BY <2>1, <2>2, <2>3
<1>3. CASE dpMain = "first" /\ dpMain' = "test" /\ NextState({})
  <2>1. /\ dpState = <<"event", "finger_off">> /\ ~Pending("mode") /\ mode = "none"
        /\ Pending("irq") /\ Pending("img") /\ \A e \in Range(finished) : e[2] = "failed"
    BY <1>3 DEF StageInv, EarlyStages, Looping
  <2>2. /\ dpState' = <<"change", "finger_on">> /\ modeAsked' = "finger_on"
        /\ flying' = flying \union {"mode"}
    BY <2>1, <1>3, StateFacts DEF NextState
  <2>3. DpEndsInv'
    BY <2>1, <2>2, <1>1 DEF DpEndsInv, Pending
  <2>4. StageInv'
    BY <2>1, <2>2, <1>1, <1>3 DEF StageInv, Pending, EarlyStages, Looping
  <2>5. ~Applied' /\ Eventless' /\ mode' = "none"
    BY <2>1, <2>2, <1>1 DEF Applied, Eventless, DpEvents
  <2>6. /\ dpState' \in States /\ Pending("mode")' /\ dpState'[1] = "change"
        /\ modeAsked' = dpState'[2]
    BY <2>2 DEF Pending, States, Modes
  <2>7. MachineInv'
    BY <2>5, <2>6 DEF MachineInv, Eventless
  <2> QED
    BY <2>3, <2>4, <2>7
<1> QED
  BY <1>2, <1>3 DEF StartMachine, CaptureFails, Go, Capturing, EarlyStages, Looping

-----------------------------------------------------------------------------
(* A transfer in flight ends, as d says.                                   *)
LEMMA EndStep ==
  ASSUME DpEndsInv, NEW d \in DpEnds, d[1] \in flying, flying' = flying \ {d[1]},
         finished' = Append(finished, d), d[2] = "set" => d[1] = "mode" /\ Eventless,
         d[1] = "mode" => d[2] \in {"set", "failed"}
  PROVE  /\ DpEndsInv' /\ Range(finished') = Range(finished) \union {d}
         /\ \A t \in {"irq", "img", "mode"} : Pending(t)' = Pending(t)
<1>1. d \notin Range(finished)
  BY DEF DpEndsInv
<1>2. /\ finished' \in Seq(DpEnds) /\ IsInjective(finished') /\ ModeComesFirst(finished')
      /\ Range(finished') = Range(finished) \union {d}
  BY <1>1, EndAppended DEF DpEndsInv, Eventless
<1>3. d = <<"mode", "set">> \/ d = <<"mode", "failed">> <=> d[1] = "mode"
  BY DEF DpEnds
<1>4. DpEndsInv'
  BY <1>2, <1>3 DEF DpEndsInv
<1>5. ASSUME NEW t \in {"irq", "img", "mode"}
      PROVE  Pending(t)' = Pending(t)
  <2>1. Pending(t) <=> t \in flying \/ \E e \in Range(finished) : e[1] = t
    BY DEF Pending
  <2>2. Pending(t)' <=> t \in flying' \/ \E e \in Range(finished') : e[1] = t
    BY DEF Pending
  <2>3. Pending(t)' <=> Pending(t)
    BY <2>1, <2>2, <1>2
  <2> QED
    BY <2>3 DEF Pending
<1> QED
  BY <1>2, <1>4, <1>5

LEMMA ScannerStep ==
  ASSUME DpEndsInv, StageInv, MachineInv, ScannerSends, Capturing', "early" \notin DpFaults
  PROVE  DpEndsInv' /\ StageInv' /\ MachineInv'
<1>1. UNCHANGED <<dpMain, dpState, modeAsked>>
  BY DEF ScannerSends
<1>2. ASSUME NEW m \in Modes, mode = m, ~sent, Carrier(m) \in flying,
             flying' = flying \ {Carrier(m)}, finished' = Append(finished, <<Carrier(m), EventOf[m]>>),
             sent' = TRUE, UNCHANGED mode
      PROVE  DpEndsInv' /\ StageInv' /\ MachineInv'
  <2> DEFINE d == <<Carrier(m), EventOf[m]>>
  <2>1. /\ d \in DpEnds /\ d[1] = Carrier(m) /\ d[2] = EventOf[m] /\ d[2] \in DpEvents
        /\ d[1] # "mode" /\ d[2] # "set"
    BY EventFacts DEF DpEnds, DpEvents
  <2>2. /\ DpEndsInv' /\ Range(finished') = Range(finished) \union {d}
        /\ \A t \in {"irq", "img", "mode"} : Pending(t)' = Pending(t)
    BY <2>1, <1>2, EndStep
  <2> HIDE DEF d
  <2>3. dpMain \in Looping
    BY <1>2 DEF StageInv, Modes
  <2>4. StageInv'
    BY <2>2, <2>3, <1>1 DEF StageInv, EarlyStages, Looping
  <2>5. Applied /\ mode = dpState[2]
    BY <2>3, <1>2 DEF MachineInv, Modes
  <2>6. Applied' /\ ~Eventless'
    BY <2>5, <2>2, <2>1, <1>1 DEF Applied, Eventless
  <2>7. ASSUME NEW e \in Range(finished'), e[2] \in DpEvents
        PROVE  e = <<Carrier(mode), EventOf[mode]>>
    BY <2>7, <2>2, <2>3, <1>2 DEF MachineInv, d
  <2>8. MachineInv'
    BY <2>2, <2>3, <2>5, <2>6, <2>7, <1>1, <1>2 DEF MachineInv
  <2> QED
    BY <2>2, <2>4, <2>8
<1>3. ASSUME "mode" \in flying, flying' = flying \ {"mode"}, mode' = modeAsked, sent' = FALSE,
             finished' = Append(finished, <<"mode", "set">>)
      PROVE  DpEndsInv' /\ StageInv' /\ MachineInv'
  <2>1. Pending("mode") /\ dpMain \in Looping
    BY <1>3 DEF Pending, StageInv
  <2>2. /\ dpState \in States /\ dpState[1] = "change" /\ modeAsked = dpState[2]
        /\ <<"mode", "set">> \notin Range(finished)
    BY <2>1, <1>3 DEF MachineInv, DpEndsInv
  <2>3. ~Applied /\ Eventless
    BY <2>1, <2>2 DEF Applied, MachineInv
  <2>4. <<"mode", "set">> \in DpEnds
    BY DEF DpEnds
  <2>5. /\ DpEndsInv' /\ Range(finished') = Range(finished) \union {<<"mode", "set">>}
        /\ \A t \in {"irq", "img", "mode"} : Pending(t)' = Pending(t)
    BY <2>3, <2>4, <1>3, EndStep
  <2>6. StageInv'
    BY <2>5, <2>1, <1>1 DEF StageInv, EarlyStages, Looping
  <2>7. Applied' /\ Eventless'
    BY <2>3, <2>5 DEF Applied, Eventless, DpEvents
  <2>8. MachineInv'
    BY <2>1, <2>2, <2>5, <2>7, <1>1, <1>3 DEF MachineInv, Eventless
  <2> QED
    BY <2>5, <2>6, <2>8
<1>4. ASSUME NEW t \in flying, flying' = flying \ {t}, finished' = Append(finished, <<t, "failed">>),
             UNCHANGED <<mode, sent>>
      PROVE  DpEndsInv' /\ StageInv' /\ MachineInv'
  <2>1. <<t, "failed">> \in DpEnds
    BY DEF DpEnds, DpEndsInv
  <2>2. /\ DpEndsInv' /\ Range(finished') = Range(finished) \union {<<t, "failed">>}
        /\ \A r \in {"irq", "img", "mode"} : Pending(r)' = Pending(r)
    BY <2>1, <1>4, EndStep
  <2>3. dpMain \notin EarlyStages
    BY <1>4 DEF StageInv
  <2>4. StageInv'
    BY <2>2, <2>3, <1>1, <1>4 DEF StageInv, EarlyStages, Looping
  <2>5. (Applied' <=> Applied) /\ (Eventless' <=> Eventless)
    BY <2>2, <1>1 DEF Applied, Eventless, DpEvents
  <2>6. \A e \in Range(finished') : e[2] \in DpEvents => e \in Range(finished)
    BY <2>2 DEF DpEvents
  <2>7. MachineInv'
    BY <2>2, <2>5, <2>6, <1>1, <1>4 DEF MachineInv
  <2> QED
    BY <2>2, <2>4, <2>7
<1> QED
  BY <1>2, <1>3, <1>4 DEF ScannerSends, scanner, Carrier

-----------------------------------------------------------------------------
(* The first transfer that has ended is handled, and submitted again or,   *)
(* when the scanner brought the event awaited, with a change of mode.      *)
LEMMA TakeStep ==
  ASSUME DpEndsInv, finished # <<>>, finished' = Tail(finished),
         NEW more \in SUBSET {"irq", "img", "mode"}, flying' = flying \union more,
         \A t \in more : t = Head(finished)[1] \/ ~Pending(t)
  PROVE  /\ DpEndsInv' /\ Head(finished) \in Range(finished)
         /\ Range(finished') = Range(finished) \ {Head(finished)}
         /\ Head(finished)[2] \in DpEvents => <<"mode", "set">> \notin Range(finished)
         /\ \A t \in {"irq", "img", "mode"} :
              Pending(t)' = (t \in more \/ (Pending(t) /\ t # Head(finished)[1]))
<1>1. /\ finished' \in Seq(DpEnds) /\ IsInjective(finished') /\ ModeComesFirst(finished')
      /\ Range(finished') = Range(finished) \ {Head(finished)} /\ Head(finished) \in Range(finished)
      /\ Head(finished)[2] \in DpEvents => \A e \in Range(finished) : e[2] # "set"
  BY FrontTaken DEF DpEndsInv
<1>2. \A e \in Range(finished') : e \in Range(finished) /\ e[1] # Head(finished)[1]
  BY <1>1 DEF DpEndsInv
<1>3. DpEndsInv'
  BY <1>1, <1>2 DEF DpEndsInv, Pending
<1>4. ASSUME NEW t \in {"irq", "img", "mode"}
      PROVE  Pending(t)' = (t \in more \/ (Pending(t) /\ t # Head(finished)[1]))
  <2>1. Pending(t) <=> t \in flying \/ \E e \in Range(finished) : e[1] = t
    BY DEF Pending
  <2>2. Pending(t)' <=> t \in flying' \/ \E e \in Range(finished') : e[1] = t
    BY DEF Pending
  <2>3. (\E e \in Range(finished') : e[1] = t)
          <=> (\E e \in Range(finished) : e[1] = t) /\ t # Head(finished)[1]
    BY <1>1, <1>2
  <2>4. t \in flying => t # Head(finished)[1]
    BY <1>1 DEF DpEndsInv
  <2>5. Pending(t)' <=> (t \in more \/ (Pending(t) /\ t # Head(finished)[1]))
    BY <2>1, <2>2, <2>3, <2>4
  <2> QED
    BY <2>5 DEF Pending
<1> QED
  BY <1>1, <1>3, <1>4

(* An event brings the state forward, and nothing else is there to do so.  *)
LEMMA EventTaken ==
  ASSUME DpEndsInv, MachineInv, dpMain \in Looping, UNCHANGED <<dpMain, mode, sent>>,
         finished # <<>>, finished' = Tail(finished),
         NEW t \in {"irq", "img"}, NEW o \in DpEvents, Head(finished) = <<t, o>>,
         NextState({t}), StageInv
  PROVE  DpEndsInv' /\ StageInv' /\ MachineInv'
<1>1. Head(finished) \in Range(finished) /\ <<"mode", "set">> \notin Range(finished)
  BY FrontTaken DEF DpEndsInv
<1>2. /\ mode \in Modes /\ <<t, o>> = <<Carrier(mode), EventOf[mode]>> /\ ~Eventless
  BY <1>1 DEF MachineInv, Eventless
<1>3. Applied /\ mode = dpState[2] /\ sent /\ dpState \in States
  BY <1>2 DEF MachineInv
<1>4. dpState[1] = "event" /\ dpState # <<>> /\ ~Pending("mode")
  BY <1>1, <1>3, StateFacts DEF Applied, MachineInv
<1>5. /\ dpState' = Following(dpState) /\ modeAsked' = Following(dpState)[2]
      /\ flying' = flying \union {t, "mode"}
  BY <1>4 DEF NextState
<1>6. Following(dpState) \in States /\ Following(dpState)[1] = "change"
  BY <1>3, <1>4, StateFacts
<1>7. /\ DpEndsInv' /\ Range(finished') = Range(finished) \ {<<t, o>>}
      /\ \A r \in {"irq", "img", "mode"} :
           Pending(r)' = (r \in {t, "mode"} \/ (Pending(r) /\ r # t))
  <2>1. {t, "mode"} \in SUBSET {"irq", "img", "mode"}
    OBVIOUS
  <2>2. \A r \in {t, "mode"} : r = Head(finished)[1] \/ ~Pending(r)
    BY <1>4
  <2>3. /\ DpEndsInv' /\ Range(finished') = Range(finished) \ {Head(finished)}
        /\ \A r \in {"irq", "img", "mode"} :
             Pending(r)' = (r \in {t, "mode"} \/ (Pending(r) /\ r # Head(finished)[1]))
    BY <2>1, <2>2, <1>5, TakeStep, Zenon
  <2>4. Head(finished)[1] = t
    OBVIOUS
  <2> QED
    BY <2>3, <2>4
<1>8. StageInv'
  BY <1>7 DEF StageInv, EarlyStages, Looping
<1>9. Eventless' /\ ~Applied'
  <2>1. ASSUME NEW e \in Range(finished'), e[2] \in DpEvents
        PROVE  FALSE
    BY <2>1, <1>2, <1>7 DEF MachineInv
  <2>2. ~Applied'
    BY <1>1, <1>5, <1>6, <1>7 DEF Applied
  <2> QED
    BY <2>1, <2>2 DEF Eventless
<1>10. Pending("mode")'
  BY <1>7
<1>11. MachineInv'
  BY <1>3, <1>5, <1>6, <1>9, <1>10 DEF MachineInv, Eventless
<1> QED
  BY <1>7, <1>8, <1>11

LEMMA ModeTaken ==
  ASSUME DpEndsInv, MachineInv, dpMain \in Looping, UNCHANGED <<dpMain, mode, sent>>,
         finished # <<>>, finished' = Tail(finished), Head(finished) = <<"mode", "set">>,
         NextState({}), StageInv
  PROVE  DpEndsInv' /\ StageInv' /\ MachineInv'
<1>1. Head(finished) \in Range(finished)
  BY FrontTaken DEF DpEndsInv
<1>2. /\ Pending("mode") /\ Applied /\ mode = dpState[2] /\ dpState \in States
      /\ sent <=> ~Eventless
  BY <1>1 DEF Pending, Applied, MachineInv
<1>3. dpState[1] = "change" /\ dpState # <<>> /\ dpState' = <<"event", dpState[2]>>
  BY <1>2, StateFacts DEF MachineInv, NextState
<1>4. flying' = flying /\ modeAsked' = modeAsked
  BY <1>3 DEF NextState
<1>5. /\ DpEndsInv' /\ Range(finished') = Range(finished) \ {<<"mode", "set">>}
      /\ \A r \in {"irq", "img", "mode"} : Pending(r)' = (Pending(r) /\ r # "mode")
  <2>1. {} \in SUBSET {"irq", "img", "mode"} /\ flying' = flying \union {}
    BY <1>4
  <2>2. /\ DpEndsInv' /\ Range(finished') = Range(finished) \ {Head(finished)}
        /\ \A t \in {"irq", "img", "mode"} :
             Pending(t)' = (t \in {} \/ (Pending(t) /\ t # Head(finished)[1]))
    BY <2>1, TakeStep, Zenon
  <2>3. Head(finished)[1] = "mode"
    OBVIOUS
  <2> QED
    BY <2>2, <2>3
<1>6. StageInv'
  BY <1>5 DEF StageInv, EarlyStages, Looping
<1>7. Applied' /\ (Eventless' <=> Eventless)
  BY <1>3, <1>5 DEF Applied, Eventless, DpEvents
<1>8. dpState' \in States /\ dpState'[1] = "event" /\ dpState'[2] = dpState[2] /\ ~Pending("mode")'
  <2>1. dpState[2] \in Modes
    BY <1>2, StateFacts
  <2>2. dpState' \in States /\ dpState'[1] = "event" /\ dpState'[2] = dpState[2]
    BY <1>3, <2>1 DEF States
  <2>3. ~Pending("mode")'
    BY <1>5
  <2> QED
    BY <2>2, <2>3
<1>9. MachineInv'
  BY <1>2, <1>5, <1>7, <1>8 DEF MachineInv
<1> QED
  BY <1>5, <1>6, <1>9

LEMMA CallbackStep ==
  ASSUME DpEndsInv, StageInv, MachineInv, Callback, Capturing'
  PROVE  DpEndsInv' /\ StageInv' /\ MachineInv'
<1>1. /\ UNCHANGED <<mode, sent>> /\ doExit' = 0
      /\ (CbModeChanged \/ CbIrq \/ CbImg)
  BY DEF Callback, TransferLost, RequestExit, Capturing, scanner
<1>2. /\ finished # <<>> /\ finished' = Tail(finished)
  BY <1>1 DEF CbModeChanged, CbIrq, CbImg, EndsWith
<1>3. Head(finished) \in Range(finished)
  BY <1>2, FrontTaken DEF DpEndsInv
<1>4. CASE CbModeChanged
  <2>1. Head(finished) = <<"mode", "set">> /\ NextState({}) /\ dpMain' = dpMain
    BY <1>1, <1>4 DEF CbModeChanged, EndsWith, RequestExit
  <2>2. dpMain \in Looping
    BY <2>1, <1>3 DEF StageInv
  <2> QED
    BY <1>1, <1>2, <2>1, <2>2, ModeTaken
<1>5. CASE CbIrq \/ CbImg
  <2>1. PICK t \in {"irq", "img"}, o \in DpEvents :
          /\ Head(finished) = <<t, o>> /\ t = (IF o = "image" THEN "img" ELSE "irq")
          /\ Resubmit(t, o = "image" \/ dpState = (IF o = "detected" THEN <<"event", "finger_on">>
                                                                   ELSE <<"event", "finger_off">>))
    BY <1>5 DEF CbIrq, CbImg, EndsWith, DpEvents
  <2>2. dpMain \in Looping
    BY <2>1, <1>3 DEF StageInv, DpEvents
  <2>3. /\ mode \in Modes /\ o = EventOf[mode] /\ mode = dpState[2] /\ dpState \in States
        /\ dpState[1] = "event"
    <3>1. /\ mode \in Modes /\ <<t, o>> = <<Carrier(mode), EventOf[mode]>> /\ ~Eventless
      BY <2>1, <2>2, <1>3 DEF MachineInv, Eventless
    <3>2. Applied /\ mode = dpState[2] /\ dpState \in States
      BY <3>1, <2>2 DEF MachineInv
    <3>3. <<"mode", "set">> \notin Range(finished)
      BY <1>2, <2>1, FrontTaken DEF DpEndsInv
    <3> QED
      BY <3>1, <3>2, <3>3 DEF Applied
  <2>4. o = "image" \/ dpState = (IF o = "detected" THEN <<"event", "finger_on">>
                                                     ELSE <<"event", "finger_off">>)
    BY <2>3, EventFacts, StateFacts DEF Modes
  <2>5. NextState({t}) /\ dpMain' = dpMain
    BY <2>1, <2>4, <1>1 DEF Resubmit, RequestExit
  <2> QED
    BY <1>1, <1>2, <2>1, <2>2, <2>5, EventTaken
<1> QED
  BY <1>1, <1>4, <1>5

LEMMA CaptureKept ==
  ASSUME CaptureInv, [DpNext]_dpVars, "early" \notin DpFaults
  PROVE  CaptureInv'
<1> SUFFICES ASSUME Capturing'
             PROVE  DpEndsInv' /\ StageInv' /\ MachineInv'
  BY DEF CaptureInv
<1>1. CASE UNCHANGED dpVars
  <2>1. UNCHANGED <<dpState, flying, finished, modeAsked, mode, sent, dpMain, doExit>>
    BY <1>1 DEF dpVars, dpTransfers, scanner
  <2>2. DpEndsInv /\ StageInv /\ MachineInv
    BY <2>1 DEF CaptureInv, Capturing
  <2> QED
    BY <2>1, <2>2, QuietStep
<1>2. CASE DpNext
  <2>1. DpEndsInv /\ StageInv /\ MachineInv
    BY <1>2, CaptureAwaited DEF CaptureInv
  <2> QED
    BY <1>2, <2>1, CaptureAwaited, QuietStep, SubmitStep, StartStep, CallbackStep, ScannerStep
<1> QED
  BY <1>1, <1>2

(* For a scanner that sends no event before its mode is set: while an      *)
(* example captures, both transfers are there, and the change of mode its  *)
(* state waits for is on its way, or the scanner is in the mode of the     *)
(* state and its event is still to come or among the transfers that ended. *)
THEOREM TheNextEventAwaited ==
  "early" \notin DpFaults => (DpSpec => []NextEventAwaited)
<1> SUFFICES ASSUME "early" \notin DpFaults
             PROVE  DpSpec => []NextEventAwaited
  OBVIOUS
<1>1. DpInit => CaptureInv
  BY CaptureInit
<1>2. CaptureInv /\ [DpNext]_dpVars => CaptureInv'
  BY CaptureKept
<1>3. CaptureInv => NextEventAwaited
  <2> SUFFICES ASSUME DpEndsInv, StageInv, MachineInv, dpMain \in Looping
               PROVE  /\ dpState # <<>> /\ Pending("irq") /\ Pending("img")
                      /\ Pending("mode") <=> dpState[1] = "change"
                      /\ dpState[1] = "change" => modeAsked = dpState[2]
                      /\ dpState[1] = "event" =>
                           /\ mode = dpState[2]
                           /\ sent => \E e \in Range(finished) : e[2] = EventOf[mode]
    BY DEF CaptureInv, NextEventAwaited, Capturing, Looping
  <2>1. dpState \in States /\ dpState # <<>> /\ Pending("irq") /\ Pending("img")
    BY StateFacts DEF MachineInv, StageInv, EarlyStages, Looping
  <2>2. ASSUME dpState[1] = "event"
        PROVE  /\ mode = dpState[2]
               /\ sent => \E e \in Range(finished) : e[2] = EventOf[mode]
    <3>1. Applied
      BY <2>2 DEF Applied
    <3>2. mode = dpState[2] /\ (sent => ~Eventless)
      BY <3>1 DEF MachineInv
    <3>3. ~Eventless => \E e \in Range(finished) : e[2] = EventOf[mode]
      <4> SUFFICES ASSUME ~Eventless
                   PROVE  \E e \in Range(finished) : e[2] = EventOf[mode]
        OBVIOUS
      <4>1. PICK e \in Range(finished) : e[2] \in DpEvents
        BY DEF Eventless
      <4>2. e = <<Carrier(mode), EventOf[mode]>>
        BY <4>1 DEF MachineInv
      <4> QED
        BY <4>2
    <3> QED
      BY <3>2, <3>3
  <2> QED
    BY <2>1, <2>2 DEF MachineInv
<1> QED
  BY <1>1, <1>2, <1>3, PTL DEF DpSpec

(* The types hold with every fault.                                        *)
DpTypes == DpTypeOK /\ finished \in Seq(DpEnds)

LEMMA FinishedType ==
  ASSUME NEW q \in Seq(DpEnds), NEW t \in {"irq", "img", "mode"},
         NEW outcome \in DpEvents \union {"set", "failed"}
  PROVE  Append(q, <<t, outcome>>) \in Seq(DpEnds) /\ (q # <<>> => Tail(q) \in Seq(DpEnds))
<1>1. <<t, outcome>> \in DpEnds
  BY DEF DpEnds
<1> QED
  BY <1>1

LEMMA FollowingType ==
  /\ \A s \in States \union {<<>>} : Following(s) \in States \union {<<>>}
  /\ \A s \in States : Following(s)[2] \in Modes
<1>1. \A s \in States : Following(s) \in States
  BY StateFacts
<1>2. Following(<<>>) = <<>>
  BY StateFacts
<1>3. \A s \in States : s[2] \in Modes
  BY StateFacts
<1> QED
  BY <1>1, <1>2, <1>3

LEMMA EndedType ==
  ASSUME NEW q \in Seq(DpEnds)
  PROVE  \A e \in Range(q) :
           e[1] \in {"irq", "img", "mode"} /\ e[2] \in Range(EventOf) \union {"set", "failed"}
<1> SUFFICES ASSUME NEW e \in Range(q)
             PROVE  e[1] \in {"irq", "img", "mode"} /\ e[2] \in Range(EventOf) \union {"set", "failed"}
  OBVIOUS
<1>1. e \in DpEnds
  BY DEF Range
<1>2. e[1] \in {"irq", "img", "mode"} /\ e[2] \in DpEvents \union {"set", "failed"}
  BY <1>1 DEF DpEnds
<1>3. DpEvents \subseteq Range(EventOf)
  <2>1. DOMAIN EventOf = Modes /\ {"finger_on", "capture", "finger_off"} \subseteq Modes
    BY DEF EventOf, Modes
  <2> QED
    BY <2>1, EventFacts DEF Range, DpEvents
<1> QED
  BY <1>2, <1>3

LEMMA NextStateType ==
  ASSUME DpTypes, NEW also \in SUBSET {"irq", "img"}, NextState(also)
  PROVE  /\ dpState' \in States \union {<<>>} /\ modeAsked' \in Modes
         /\ flying' \subseteq {"irq", "img", "mode"}
<1>1. dpState \in States \union {<<>>} /\ flying \subseteq {"irq", "img", "mode"} /\ modeAsked \in Modes
  BY DEF DpTypes, DpTypeOK
<1>2. dpState' \in States \union {<<>>}
  BY <1>1, FollowingType DEF NextState
<1>3. CASE dpState # <<>> /\ dpState[1] = "event"
  <2>1. modeAsked' = Following(dpState)[2] /\ flying' = flying \union also \union {"mode"}
    BY <1>3 DEF NextState
  <2>2. dpState \in States
    BY <1>1, <1>3
  <2>3. Following(dpState)[2] \in Modes
    BY <2>2, FollowingType
  <2> QED
    BY <1>1, <1>2, <2>1, <2>3
<1>4. CASE ~(dpState # <<>> /\ dpState[1] = "event")
  <2>1. flying' = flying \union also /\ UNCHANGED modeAsked
    BY <1>4 DEF NextState
  <2> QED
    BY <1>1, <1>2, <2>1
<1> QED
  BY <1>3, <1>4

LEMMA CallbackType ==
  ASSUME DpTypes, Callback
  PROVE  /\ dpState' \in States \union {<<>>} /\ modeAsked' \in Modes
         /\ flying' \subseteq {"irq", "img", "mode"} /\ nulls' \subseteq {"irq", "img"}
         /\ doExit' \in 0..2 /\ dpMain' \in {dpMain, "test"} /\ finished' \in Seq(DpEnds)
<1>1. /\ dpState \in States \union {<<>>} /\ flying \subseteq {"irq", "img", "mode"} /\ modeAsked \in Modes
      /\ nulls \subseteq {"irq", "img"} /\ doExit \in 0..2 /\ finished \in Seq(DpEnds)
  BY DEF DpTypes, DpTypeOK
<1>2. ASSUME finished # <<>> /\ finished' = Tail(finished) PROVE finished' \in Seq(DpEnds)
  BY <1>1, <1>2
<1>3. finished' \in Seq(DpEnds)
  BY <1>2 DEF Callback, CbModeChanged, CbIrq, CbImg, TransferLost, EndsWith
<1>4. ASSUME NEW code \in {1, 2}, RequestExit(code) \/ UNCHANGED <<doExit, dpMain>>
      PROVE  doExit' \in 0..2 /\ dpMain' \in {dpMain, "test"}
  BY <1>1, <1>4 DEF RequestExit
<1>5. RequestExit(2) \/ UNCHANGED <<doExit, dpMain>>
  BY DEF Callback, CbModeChanged, CbIrq, CbImg, TransferLost, Resubmit
<1>6. Following(dpState) \in States \union {<<>>}
  BY <1>1, FollowingType
<1>7. CASE CbModeChanged /\ UNCHANGED nulls
  <2>1. NextState({})
    BY <1>7 DEF CbModeChanged
  <2> QED
    BY <1>1, <1>3, <1>4, <1>5, <1>7, <2>1, NextStateType
<1>8. ASSUME NEW t \in {"irq", "img"}, NEW moves, Resubmit(t, moves), UNCHANGED nulls
      PROVE  /\ dpState' \in States \union {<<>>} /\ modeAsked' \in Modes
             /\ flying' \subseteq {"irq", "img", "mode"}
  <2>1. CASE NextState({t})
    <3>1. {t} \in SUBSET {"irq", "img"}
      BY <1>8
    <3> QED
      BY <2>1, <3>1, NextStateType
  <2>2. CASE NextState({})
    BY <2>2, NextStateType
  <2>3. CASE ~NextState({t}) /\ ~NextState({})
    BY <1>1, <1>6, <1>8, <2>3 DEF Resubmit
  <2> QED
    BY <2>1, <2>2, <2>3
<1>9. CASE (CbIrq \/ CbImg) /\ UNCHANGED nulls
  <2>1. \E t \in {"irq", "img"} : \E moves \in BOOLEAN : Resubmit(t, moves)
    BY <1>9 DEF CbIrq, CbImg
  <2> QED
    BY <1>1, <1>3, <1>4, <1>5, <1>8, <1>9, <2>1
<1>10. CASE TransferLost("irq") \/ TransferLost("img")
  BY <1>1, <1>3, <1>4, <1>5, <1>10 DEF TransferLost
<1> QED
  BY <1>7, <1>9, <1>10 DEF Callback

LEMMA DpStepType == DpTypes /\ [DpNext]_dpVars => DpTypes'
<1> SUFFICES ASSUME DpTypes, [DpNext]_dpVars PROVE DpTypes'
  OBVIOUS
<1>1. ASSUME finished' \in Seq(DpEnds)
      PROVE  \A e \in Range(finished') : /\ e[1] \in {"irq", "img", "mode"}
                                         /\ e[2] \in Range(EventOf) \union {"set", "failed"}
  BY <1>1, EndedType
<1> USE DEF DpTypes, DpTypeOK
<1>2. CASE MainSetsUp
  BY <1>1, <1>2 DEF MainSetsUp, OpenScanner, PrintF0, DoInit, AllocTransfers, Go, scanner, Setup, Leaving
<1>3. CASE SubmitBoth
  <2>1. finished' \in Seq(DpEnds)
    BY <1>3, FinishedType DEF SubmitBoth
  <2> QED
    BY <1>1, <1>3, <2>1 DEF SubmitBoth, CaptureFails, Go, scanner, Setup, Leaving
<1>4. CASE Undone
  BY <1>1, <1>4 DEF Undone, CaptureFails, dpTransfers, scanner, Leaving
<1>5. CASE StartMachine
  <2>1. <<"event", "finger_off">> \in States
    BY DEF States, Modes
  <2>2. Following(dpState) \in States \union {<<>>}
    BY FollowingType
  <2>3. CASE NextState({})
    <3>1. /\ dpState' \in States \union {<<>>} /\ modeAsked' \in Modes
          /\ flying' \subseteq {"irq", "img", "mode"}
      BY <2>3, NextStateType
    <3> HIDE DEF NextState
    <3> QED
      BY <1>1, <1>5, <2>1, <2>2, <3>1 DEF StartMachine, CaptureFails, Go, scanner, Leaving, Setup
  <2>4. CASE ~NextState({})
    BY <1>1, <1>5, <2>1, <2>2, <2>4 DEF StartMachine, CaptureFails, Go, scanner, Leaving, Setup
  <2> QED
    BY <2>3, <2>4
<1>6. CASE Callback
  <2>1. UNCHANGED <<program, dpPoller, scanner>>
    BY <1>6 DEF Callback
  <2> QED
    BY <1>1, <1>6, <2>1, CallbackType DEF scanner
<1>7. CASE PollThread \/ Sighandler
  BY <1>1, <1>7 DEF PollThread, Sighandler, RequestExit, dpTransfers, scanner
<1>8. CASE MainWaits
  BY <1>1, <1>8 DEF MainWaits, Go, dpTransfers, scanner, Leaving
<1>9. ASSUME NEW t \in {"irq", "img"}, NEW here, NEW next \in {"cancel_img", "drain"},
             CancelCapture(t, here, next)
      PROVE  DpTypes'
  <2>1. finished' \in Seq(DpEnds)
    BY <1>9, FinishedType, ZenonT(30) DEF CancelCapture
  <2> QED
    BY <1>1, <1>9, <2>1 DEF CancelCapture, scanner, Leaving
<1>10. CASE MainLeaves
  BY <1>1, <1>10 DEF MainLeaves, Go, scanner, Leaving
<1>11. CASE ScannerSends
  <2>1. \A m \in Modes : EventOf[m] \in DpEvents
    BY EventFacts
  <2>2. finished' \in Seq(DpEnds)
    <3>1. CASE \E m \in Modes : LET t == IF m = "capture" THEN "img" ELSE "irq" IN
                                finished' = Append(finished, <<t, EventOf[m]>>)
      BY <2>1, <3>1, FinishedType
    <3>2. CASE finished' = Append(finished, <<"mode", "set">>)
      BY <3>2, FinishedType
    <3>3. CASE \E t \in flying : finished' = Append(finished, <<t, "failed">>)
      BY <3>3, FinishedType
    <3> QED
      BY <1>11, <3>1, <3>2, <3>3 DEF ScannerSends
  <2> QED
    BY <1>1, <1>11, <2>2 DEF ScannerSends, scanner
<1>12. CASE UNCHANGED dpVars
  BY <1>1, <1>12 DEF dpVars, dpTransfers, scanner
<1> QED
  BY <1>2, <1>3, <1>4, <1>5, <1>6, <1>7, <1>8, <1>9, <1>10, <1>11, <1>12 DEF DpNext

(* The types hold for the scanner examples, with every fault.              *)
THEOREM DpTyped == DpSpec => []DpTypeOK
<1>1. DpInit => DpTypes
  <2> SUFFICES ASSUME DpInit PROVE DpTypes
    OBVIOUS
  <2>1. finished \in Seq(DpEnds) /\ Range(finished) = {}
    BY NothingEnded DEF DpInit
  <2>2. dpState \in States \union {<<>>}
    BY DEF DpInit
  <2>3. nulls \subseteq {"irq", "img"} /\ flying \subseteq {"irq", "img", "mode"}
    BY DEF DpInit
  <2>4. /\ program \in {"dpfp", "threaded"} /\ dpPoller = "none" /\ dpMain \in Setup /\ doExit \in 0..2
        /\ modeAsked \in Modes /\ mode = "none"
    BY DEF DpInit, Setup, Modes
  <2>5. sent \in BOOLEAN
    BY Zenon DEF DpInit
  <2> QED
    BY <2>1, <2>2, <2>3, <2>4, <2>5 DEF DpTypes, DpTypeOK
<1>2. DpTypes => DpTypeOK
  BY DEF DpTypes
<1> QED
  BY <1>1, <1>2, DpStepType, PTL DEF DpSpec
=============================================================================
