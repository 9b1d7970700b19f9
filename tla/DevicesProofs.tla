--------------------------- MODULE DevicesProofs ---------------------------
(***************************************************************************)
(* Proofs about Devices, for programs that do not list devices in two      *)
(* threads at a time nor let a last reference go under an enumeration: the *)
(* count of an object is the number of references to it.                   *)
(*                                                                         *)
(* The invariant says of each thread what its step needs of the object it  *)
(* works on, of each object how it is counted, and of all threads that one *)
(* lists devices at a time.  A step of a thread keeps it when it leaves    *)
(* the others what they need (OthersKeep) and adds to the count of every   *)
(* object what it adds to its references (CountsWell).                     *)
(*                                                                         *)
(* Proofs about ActiveConfig and Descriptors follow.                       *)
(***************************************************************************)
EXTENDS Devices, ActiveConfig, Descriptors, SequenceLemmas

Destroying == {"destroy", "destroy found", "destroy held"}

(* Steps that work on an object, and on one that is counted.               *)
Working  == Destroying \union {"init", "append", "drop", "unref", "open"}

(* What of the types the proof needs.                                      *)
ObjectTypes ==
  /\ devs \in Seq(Objects) /\ session \in [Objects -> Addresses]
  /\ refcnt \in [Objects -> Nat] /\ ready \in [Objects -> BOOLEAN] /\ used \in [Objects -> BOOLEAN]
  /\ held \in [Objects -> Nat] /\ handles \in [Objects -> Nat]

CallerTypes ==
  /\ step \in [Callers -> Enumerating \union {"idle", "open", "unref", "destroy held"}]
  /\ visited \in [Callers -> SUBSET Addresses]
  /\ current \in [Callers -> Objects \union Addresses \union {0}]
  /\ fresh \in [Callers -> BOOLEAN] /\ discovered \in [Callers -> Seq(Objects)]
  /\ \A t \in Callers : step[t] \in Working => current[t] \in Objects
  /\ \A t \in Callers : step[t] = "alloc" => current[t] \in Addresses

(* What holds of each thread: it comes to each device once, and what it    *)
(* works on is there, counted and initialized as its step needs.           *)
OwnInv(t) ==
  /\ step[t] \notin Enumerating => discovered[t] = <<>>
  /\ IsInjective(discovered[t])
  /\ \A o \in Range(discovered[t]) :
       /\ session[o] \in visited[t] /\ ready[o]
       /\ step[t] \in {"init", "append"} => session[o] # session[current[t]]
       /\ step[t] = "alloc" => session[o] # current[t]
  /\ step[t] \in {"init", "append"} => session[current[t]] \in visited[t]
  /\ step[t] = "alloc" => current[t] \in visited[t]
  /\ step[t] \in {"init", "drop"} => fresh[t]
  /\ fresh[t] => step[t] \in {"init", "append", "drop"}
  /\ step[t] \in Working => used[current[t]]
  /\ step[t] = "append" => refcnt[current[t]] > 0
  /\ step[t] \in Destroying => refcnt[current[t]] = 0
  /\ step[t] \in {"append", "unref", "open"} => ready[current[t]]

(* One thread lists devices, an object is destroyed once, and one that is  *)
(* not initialized is in the hands of the thread that lists devices.       *)
SharedInv ==
  /\ \A t, u \in Callers : step[t] \in Enumerating /\ step[u] \in Enumerating => t = u
  /\ \A t, u \in Callers :
       step[t] \in Destroying /\ step[u] \in Destroying /\ current[t] = current[u] => t = u
  /\ \A o \in Range(devs) : used[o]
  /\ \A o \in Objects :
       used[o] /\ refcnt[o] > 0 /\ ~ready[o] =>
         \E t \in Callers : step[t] \in {"init", "drop"} /\ current[t] = o

(* A device has one object in the list, and a thread that makes one for it *)
(* is making the first.                                                    *)
ListedOnce ==
  /\ \A i, j \in DOMAIN devs : session[devs[i]] = session[devs[j]] => i = j
  /\ \A t \in Callers : step[t] = "alloc" => \A o \in Range(devs) : session[o] # current[t]

(* The count of an object is the number of references to it; one that is   *)
(* not allocated has none.                                                 *)
Count(o) == IF used[o] THEN refcnt[o] ELSE 0

CountedInv ==
  /\ \A o \in Objects : References(o) = Count(o)
  /\ \A o \in Objects : held[o] + handles[o] > 0 => ready[o]

DevicesInv ==
  /\ ObjectTypes /\ CallerTypes /\ (\A t \in Callers : OwnInv(t))
  /\ SharedInv /\ ListedOnce /\ CountedInv

-----------------------------------------------------------------------------
(* What thread t counts for object o.                                      *)
Lists(t, o) == IF o \in Range(discovered[t]) THEN 1 ELSE 0
Minds(t, o) == IF current[t] = o /\ (step[t] \in {"unref", "open"} \/ fresh[t]) THEN 1 ELSE 0

Listing(o) == {t \in Callers : o \in Range(discovered[t])}
Minding(o) == {t \in Callers : current[t] = o /\ (step[t] \in {"unref", "open"} \/ fresh[t])}

LEMMA EmptyRange == Range(<<>>) = {} /\ IsInjective(<<>>)
<1>1. DOMAIN <<>> = {}
  OBVIOUS
<1> QED
  BY <1>1, Zenon DEF Range, IsInjective

LEMMA WithoutOne ==
  ASSUME NEW S, IsFiniteSet(S), NEW t
  PROVE  Cardinality(S) = Cardinality(S \ {t}) + IF t \in S THEN 1 ELSE 0
<1>1. Cardinality(S) \in Nat
  BY FS_CardinalityType
<1>2. Cardinality(S \ {t}) = IF t \in S THEN Cardinality(S) - 1 ELSE Cardinality(S)
  BY FS_RemoveElement
<1> QED
  BY <1>1, <1>2

LEMMA OneChanges ==
  ASSUME NEW C, IsFiniteSet(C), NEW S \in SUBSET C, NEW T \in SUBSET C, NEW t \in C,
         \A u \in C \ {t} : u \in S <=> u \in T
  PROVE  /\ Cardinality(S) \in Nat /\ Cardinality(T) \in Nat
         /\ Cardinality(T) + (IF t \in S THEN 1 ELSE 0) = Cardinality(S) + (IF t \in T THEN 1 ELSE 0)
         /\ Cardinality(S) >= IF t \in S THEN 1 ELSE 0
<1>1. IsFiniteSet(S) /\ IsFiniteSet(T)
  BY FS_Subset
<1>2. Cardinality(S) \in Nat /\ Cardinality(T) \in Nat
  BY <1>1, FS_CardinalityType
<1>3. IsFiniteSet(S \ {t}) /\ S \ {t} = T \ {t}
  BY <1>1, FS_Subset
<1>4. Cardinality(S) = Cardinality(S \ {t}) + IF t \in S THEN 1 ELSE 0
  BY <1>1, WithoutOne
<1>5. Cardinality(T) = Cardinality(T \ {t}) + IF t \in T THEN 1 ELSE 0
  BY <1>1, WithoutOne
<1>6. Cardinality(S \ {t}) \in Nat
  BY <1>3, FS_CardinalityType
<1> QED
  BY <1>2, <1>3, <1>4, <1>5, <1>6

LEMMA ReferencesAre ==
  ASSUME ObjectTypes, NEW o \in Objects
  PROVE  /\ References(o) \in Nat
         /\ References(o) >= held[o] + handles[o]
         /\ \A t \in Callers : References(o) >= held[o] + handles[o] + Lists(t, o) + Minds(t, o)
<1>1. Cardinality(Listing(o)) \in Nat /\ Cardinality(Minding(o)) \in Nat
  <2>1. IsFiniteSet(Listing(o)) /\ IsFiniteSet(Minding(o))
    BY DevicesAssumption, FS_Subset DEF Listing, Minding
  <2> QED
    BY <2>1, FS_CardinalityType
<1>2. References(o) = held[o] + handles[o] + Cardinality(Listing(o)) + Cardinality(Minding(o))
  BY DEF References, Listing, Minding
<1>3. held[o] \in Nat /\ handles[o] \in Nat
  BY DEF ObjectTypes
<1>4. ASSUME NEW t \in Callers
      PROVE  Cardinality(Listing(o)) >= Lists(t, o) /\ Cardinality(Minding(o)) >= Minds(t, o)
  <2>1. Listing(o) \in SUBSET Callers /\ Minding(o) \in SUBSET Callers /\ IsFiniteSet(Callers)
    BY DevicesAssumption DEF Listing, Minding
  <2>2. /\ Cardinality(Listing(o)) >= IF t \in Listing(o) THEN 1 ELSE 0
        /\ Cardinality(Minding(o)) >= IF t \in Minding(o) THEN 1 ELSE 0
    BY <2>1, OneChanges
  <2>3. (t \in Listing(o) <=> o \in Range(discovered[t]))
        /\ (t \in Minding(o) <=> current[t] = o /\ (step[t] \in {"unref", "open"} \/ fresh[t]))
    BY DEF Listing, Minding
  <2> QED
    BY <2>2, <2>3 DEF Lists, Minds
<1>5. ASSUME NEW t \in Callers PROVE Lists(t, o) \in {0, 1} /\ Minds(t, o) \in {0, 1}
  BY DEF Lists, Minds
<1> QED
  BY <1>1, <1>2, <1>3, <1>4, <1>5

(* A step of one thread changes only what that thread counts.              *)
LEMMA ReferencesChange ==
  ASSUME ObjectTypes, ObjectTypes', NEW o \in Objects, NEW t \in Callers,
         \A u \in Callers \ {t} :
           UNCHANGED <<step[u], current[u], fresh[u], discovered[u]>>
  PROVE  /\ References(o)' \in Nat
         /\ References(o)' + (held[o] + handles[o] + Lists(t, o) + Minds(t, o))
              = References(o) + (held'[o] + handles'[o] + Lists(t, o)' + Minds(t, o)')
<1> DEFINE l == Cardinality(Listing(o))
           m == Cardinality(Minding(o))
<1>1. /\ Listing(o) \in SUBSET Callers /\ Minding(o) \in SUBSET Callers
      /\ Listing(o)' \in SUBSET Callers /\ Minding(o)' \in SUBSET Callers /\ IsFiniteSet(Callers)
  BY DevicesAssumption DEF Listing, Minding
<1>2. /\ \A u \in Callers \ {t} : u \in Listing(o) <=> u \in Listing(o)'
      /\ \A u \in Callers \ {t} : u \in Minding(o) <=> u \in Minding(o)'
  BY DEF Listing, Minding
<1>3. /\ l \in Nat /\ l' \in Nat
      /\ l' + (IF t \in Listing(o) THEN 1 ELSE 0) = l + (IF t \in Listing(o)' THEN 1 ELSE 0)
  BY <1>1, <1>2, OneChanges
<1>4. /\ m \in Nat /\ m' \in Nat
      /\ m' + (IF t \in Minding(o) THEN 1 ELSE 0) = m + (IF t \in Minding(o)' THEN 1 ELSE 0)
  BY <1>1, <1>2, OneChanges
<1>5. /\ Lists(t, o) = IF t \in Listing(o) THEN 1 ELSE 0
      /\ Lists(t, o)' = IF t \in Listing(o)' THEN 1 ELSE 0
      /\ Minds(t, o) = IF t \in Minding(o) THEN 1 ELSE 0
      /\ Minds(t, o)' = IF t \in Minding(o)' THEN 1 ELSE 0
  BY DEF Listing, Minding, Lists, Minds
<1>6. References(o) = held[o] + handles[o] + l + m
      /\ References(o)' = held'[o] + handles'[o] + l' + m'
  BY DEF References, Listing, Minding
<1>7. held[o] \in Nat /\ handles[o] \in Nat /\ held'[o] \in Nat /\ handles'[o] \in Nat
  BY DEF ObjectTypes
<1>8. /\ Lists(t, o) \in {0, 1} /\ Lists(t, o)' \in {0, 1}
      /\ Minds(t, o) \in {0, 1} /\ Minds(t, o)' \in {0, 1}
  BY DEF Lists, Minds
<1>9. l' + Lists(t, o) = l + Lists(t, o)' /\ m' + Minds(t, o) = m + Minds(t, o)'
  BY <1>3, <1>4, <1>5
<1> HIDE DEF l, m
<1> QED
  BY <1>3, <1>4, <1>6, <1>7, <1>8, <1>9

(* Who works on an object before it is destroyed has it counted.           *)
LEMMA WorkersCount ==
  ASSUME DevicesInv, NEW t \in Callers, step[t] \in {"init", "append", "drop", "unref", "open"}
  PROVE  current[t] \in Objects /\ used[current[t]] /\ refcnt[current[t]] > 0
<1>1. current[t] \in Objects /\ used[current[t]]
  BY DEF DevicesInv, CallerTypes, OwnInv, Working
<1>2. CASE step[t] = "append"
  BY <1>1, <1>2 DEF DevicesInv, OwnInv
<1>3. CASE step[t] # "append"
  <2>1. Minds(t, current[t]) = 1
    BY <1>3 DEF Minds, DevicesInv, OwnInv
  <2>2. Lists(t, current[t]) \in {0, 1}
    BY DEF Lists
  <2>3. /\ held[current[t]] \in Nat /\ handles[current[t]] \in Nat /\ refcnt[current[t]] \in Nat
    BY <1>1 DEF DevicesInv, ObjectTypes
  <2>4. References(current[t]) \in Nat /\ References(current[t]) >= 1
    BY <1>1, <2>1, <2>2, <2>3, ReferencesAre DEF DevicesInv
  <2> QED
    BY <1>1, <2>3, <2>4 DEF DevicesInv, CountedInv, Count
<1> QED
  BY <1>1, <1>2, <1>3

(* What a thread has listed, and what the program holds, is counted.       *)
LEMMA HoldersCount ==
  ASSUME DevicesInv, NEW o \in Objects,
         held[o] > 0 \/ handles[o] > 0 \/ \E t \in Callers : o \in Range(discovered[t])
  PROVE  used[o] /\ refcnt[o] > 0
<1>1. held[o] \in Nat /\ handles[o] \in Nat /\ refcnt[o] \in Nat
  BY DEF DevicesInv, ObjectTypes
<1>2. References(o) >= 1
  <2>1. CASE held[o] > 0 \/ handles[o] > 0
    BY <1>1, <2>1, ReferencesAre DEF DevicesInv
  <2>2. ASSUME NEW t \in Callers, o \in Range(discovered[t]) PROVE References(o) >= 1
    <3>1. Lists(t, o) = 1 /\ Minds(t, o) \in {0, 1}
      BY <2>2 DEF Lists, Minds
    <3> QED
      BY <1>1, <3>1, ReferencesAre DEF DevicesInv
  <2> QED
    BY <2>1, <2>2
<1> QED
  BY <1>1, <1>2 DEF DevicesInv, CountedInv, Count

(* A step of one thread: what others work on must be left to them.         *)
OthersKeep(t) ==
  /\ \A u \in Callers \ {t} :
       UNCHANGED <<step[u], visited[u], current[u], fresh[u], discovered[u]>>
  /\ \A o \in Objects : used[o] /\ refcnt[o] > 0 =>
       used'[o] /\ session'[o] = session[o] /\ (ready[o] => ready'[o])
  /\ \A u \in Callers \ {t} : step[u] \in Destroying =>
       used'[current[u]] /\ refcnt'[current[u]] = 0
  /\ \A u \in Callers \ {t} : step[u] = "append" => refcnt'[current[u]] > 0

(* What the step adds to the count of an object it adds to the references. *)
CountsWell(t) ==
  \A o \in Objects :
    Count(o)' + (held[o] + handles[o] + Lists(t, o) + Minds(t, o))
      = Count(o) + (held'[o] + handles'[o] + Lists(t, o)' + Minds(t, o)')

LEMMA CallerStep ==
  ASSUME DevicesInv, ObjectTypes', CallerTypes', NEW t \in Callers,
         OwnInv(t)', OthersKeep(t), CountsWell(t), ListedOnce',
         step'[t] \in Enumerating =>
           step[t] \in Enumerating \/ \A u \in Callers : step[u] \notin Enumerating,
         step'[t] \in Destroying =>
           \A u \in Callers \ {t} : step[u] \in Destroying => current[u] # current'[t],
         \A o \in Range(devs') : used'[o],
         \A o \in Objects : used'[o] /\ refcnt'[o] > 0 /\ ~ready'[o] =>
           \/ step'[t] \in {"init", "drop"} /\ current'[t] = o
           \/ /\ used[o] /\ refcnt[o] > 0 /\ ~ready[o]
              /\ ~(step[t] \in {"init", "drop"} /\ current[t] = o),
         \A o \in Objects : held'[o] + handles'[o] > 0 => ready'[o]
  PROVE  DevicesInv'
<1>1. ASSUME NEW u \in Callers, u # t
      PROVE  /\ UNCHANGED <<step[u], visited[u], current[u], fresh[u], discovered[u]>>
             /\ OwnInv(u)'
  <2>1. UNCHANGED <<step[u], visited[u], current[u], fresh[u], discovered[u]>>
    BY <1>1 DEF OthersKeep
  <2>2. ASSUME step[u] \in {"init", "append", "drop", "unref", "open"}
        PROVE  /\ used'[current[u]] /\ session'[current[u]] = session[current[u]]
               /\ ready[current[u]] => ready'[current[u]]
    <3>1. current[u] \in Objects /\ used[current[u]] /\ refcnt[current[u]] > 0
      BY <2>2, WorkersCount
    <3> QED
      BY <3>1 DEF OthersKeep
  <2>3. ASSUME NEW o \in Range(discovered[u])
        PROVE  session'[o] = session[o] /\ (ready[o] => ready'[o])
    <3>1. o \in Objects
      BY RangeOfSeq DEF DevicesInv, CallerTypes
    <3>2. used[o] /\ refcnt[o] > 0
      BY <3>1, HoldersCount
    <3> QED
      BY <3>1, <3>2 DEF OthersKeep
  <2>4. step[u] \in Destroying => used'[current[u]] /\ refcnt'[current[u]] = 0
    BY <1>1 DEF OthersKeep
  <2>5. step[u] = "append" => refcnt'[current[u]] > 0
    BY <1>1 DEF OthersKeep
  <2>6. OwnInv(u)
    BY DEF DevicesInv
  <2> QED
    BY <2>1, <2>2, <2>3, <2>4, <2>5, <2>6 DEF OwnInv, Working
<1>2. \A u \in Callers : OwnInv(u)'
  BY <1>1
<1>3. SharedInv'
  <2>1. ASSUME NEW u \in Callers, NEW v \in Callers, step'[u] \in Enumerating, step'[v] \in Enumerating
        PROVE  u = v
    BY <1>1, <2>1 DEF DevicesInv, SharedInv
  <2>2. ASSUME NEW u \in Callers, NEW v \in Callers,
               step'[u] \in Destroying, step'[v] \in Destroying, current'[u] = current'[v]
        PROVE  u = v
    BY <1>1, <2>2 DEF DevicesInv, SharedInv
  <2>3. ASSUME NEW o \in Objects, used'[o], refcnt'[o] > 0, ~ready'[o]
        PROVE  \E u \in Callers : step'[u] \in {"init", "drop"} /\ current'[u] = o
    <3>1. CASE step'[t] \in {"init", "drop"} /\ current'[t] = o
      BY <3>1
    <3>2. CASE /\ used[o] /\ refcnt[o] > 0 /\ ~ready[o]
               /\ ~(step[t] \in {"init", "drop"} /\ current[t] = o)
      <4>1. PICK u \in Callers : step[u] \in {"init", "drop"} /\ current[u] = o
        BY <3>2 DEF DevicesInv, SharedInv
      <4> QED
        BY <1>1, <3>2, <4>1
    <3> QED
      BY <2>3, <3>1, <3>2
  <2> QED
    BY <2>1, <2>2, <2>3 DEF SharedInv
<1>4. CountedInv'
  <2>1. ASSUME NEW o \in Objects PROVE References(o)' = Count(o)'
    <3> DEFINE before == held[o] + handles[o] + Lists(t, o) + Minds(t, o)
               after  == held'[o] + handles'[o] + Lists(t, o)' + Minds(t, o)'
    <3>1. References(o)' + before = References(o) + after
      BY ReferencesChange DEF DevicesInv, OthersKeep
    <3>2. Count(o)' + before = Count(o) + after /\ References(o) = Count(o)
      BY DEF DevicesInv, CountedInv, CountsWell
    <3>3. References(o)' \in Nat /\ References(o) \in Nat
      BY ReferencesAre, ReferencesChange DEF DevicesInv, OthersKeep
    <3>4. Count(o)' \in Nat /\ before \in Nat /\ after \in Nat
      BY SMTT(20) DEF DevicesInv, ObjectTypes, Count, Lists, Minds
    <3> HIDE DEF before, after
    <3> QED
      BY <3>1, <3>2, <3>3, <3>4
  <2> QED
    BY <2>1 DEF CountedInv
<1> QED
  BY <1>2, <1>3, <1>4 DEF DevicesInv

-----------------------------------------------------------------------------
(* Steps that leave the objects alone.                                     *)
LEMMA ObjectsKept ==
  ASSUME DevicesInv, UNCHANGED objectVars, ObjectTypes', CallerTypes', NEW t \in Callers,
         OwnInv(t)', CountsWell(t),
         \A u \in Callers \ {t} :
           UNCHANGED <<step[u], visited[u], current[u], fresh[u], discovered[u]>>,
         step'[t] \in Enumerating =>
           step[t] \in Enumerating \/ \A u \in Callers : step[u] \notin Enumerating,
         step'[t] \notin Destroying,
         step[t] \in {"init", "drop"} => step'[t] \in {"init", "drop"} /\ current'[t] = current[t],
         step'[t] = "alloc" => \A o \in Range(devs) : session[o] # current'[t],
         \A o \in Objects : held'[o] + handles'[o] > 0 => ready[o]
  PROVE  DevicesInv'
<1>1. UNCHANGED <<devs, session, refcnt, ready, used>>
  BY DEF objectVars
<1>4. ListedOnce'
  BY <1>1 DEF DevicesInv, ListedOnce
<1>2. OthersKeep(t) /\ \A o \in Range(devs') : used'[o]
  BY <1>1 DEF OthersKeep, DevicesInv, OwnInv, SharedInv, Working
<1>3. \A o \in Objects : used'[o] /\ refcnt'[o] > 0 /\ ~ready'[o] =>
        \/ step'[t] \in {"init", "drop"} /\ current'[t] = o
        \/ /\ used[o] /\ refcnt[o] > 0 /\ ~ready[o]
           /\ ~(step[t] \in {"init", "drop"} /\ current[t] = o)
  BY <1>1
<1> QED
  BY <1>1, <1>2, <1>3, <1>4, CallerStep

LEMMA ListKeeps ==
  ASSUME DevicesInv, NEW t \in Callers, GetDeviceList(t), DeviceRaces \subseteq {"no memory"}
  PROVE  DevicesInv'
<1>1. /\ step[t] = "idle" /\ \A u \in Callers : step[u] \notin Enumerating
      /\ step' = [step EXCEPT ![t] = "scan"] /\ visited' = [visited EXCEPT ![t] = {}]
      /\ discovered' = [discovered EXCEPT ![t] = <<>>]
      /\ UNCHANGED <<objectVars, held, handles, current, fresh>>
  BY DEF GetDeviceList, At, To, holderVars
<1>2. /\ step'[t] = "scan" /\ visited'[t] = {} /\ discovered'[t] = <<>>
      /\ \A u \in Callers \ {t} :
           UNCHANGED <<step[u], visited[u], current[u], fresh[u], discovered[u]>>
  BY <1>1 DEF DevicesInv, CallerTypes
<1>3. CallerTypes'
  <2>1. <<>> \in Seq(Objects)
    BY EmptySeq
  <2> QED
    BY <1>1, <1>2, <2>1 DEF DevicesInv, CallerTypes, Enumerating, Working, Destroying
<1>4. discovered[t] = <<>> /\ ~fresh[t]
  BY <1>1 DEF DevicesInv, OwnInv, Enumerating
<1>5. CountsWell(t)
  BY <1>1, <1>2, <1>4 DEF CountsWell, Count, Lists, Minds, objectVars
<1>6. OwnInv(t)'
  BY <1>1, <1>2, <1>4, EmptyRange DEF OwnInv, Working, Destroying
<1>7. ObjectTypes' /\ \A o \in Objects : held'[o] + handles'[o] > 0 => ready[o]
  BY <1>1 DEF DevicesInv, ObjectTypes, CountedInv, objectVars
<1> QED
  BY <1>1, <1>2, <1>3, <1>5, <1>6, <1>7, ObjectsKept DEF Destroying

LEMMA ScanKeeps ==
  ASSUME DevicesInv, NEW t \in Callers, NEW a \in Addresses, Scan(t, a),
         DeviceRaces \subseteq {"no memory"}
  PROVE  DevicesInv'
<1>1. /\ step[t] = "scan" /\ a \notin visited[t]
      /\ visited' = [visited EXCEPT ![t] = visited[t] \union {a}]
      /\ UNCHANGED <<objectVars, held, handles, discovered>>
  BY DEF Scan, At, holderVars
<1>2. visited'[t] = visited[t] \union {a} /\ \A u \in Callers \ {t} : visited'[u] = visited[u]
  BY <1>1 DEF DevicesInv, CallerTypes
<1>3. /\ ~fresh[t] /\ IsInjective(discovered[t])
      /\ \A o \in Range(discovered[t]) : session[o] \in visited'[t] /\ session[o] # a /\ ready[o]
  <2>1. OwnInv(t)
    BY DEF DevicesInv
  <2>2. /\ ~fresh[t] /\ IsInjective(discovered[t])
        /\ \A o \in Range(discovered[t]) : session[o] \in visited[t] /\ ready[o]
    BY <1>1, <2>1 DEF OwnInv
  <2> QED
    BY <1>1, <1>2, <2>2
<1>4. ObjectTypes' /\ \A o \in Objects : held'[o] + handles'[o] > 0 => ready[o]
  BY <1>1 DEF DevicesInv, ObjectTypes, CountedInv, objectVars
<1>5. CASE /\ \A o \in Range(devs) : session[o] # a
           /\ To(t, "alloc") /\ current' = [current EXCEPT ![t] = a] /\ UNCHANGED fresh
  <2>1. /\ step'[t] = "alloc" /\ current'[t] = a /\ fresh' = fresh
        /\ \A u \in Callers \ {t} :
             UNCHANGED <<step[u], visited[u], current[u], fresh[u], discovered[u]>>
    BY <1>1, <1>2, <1>5 DEF DevicesInv, CallerTypes, To
  <2>2. CallerTypes'
    BY <1>1, <1>2, <1>5, <2>1 DEF DevicesInv, CallerTypes, Enumerating, Working, Destroying, To
  <2>3. CountsWell(t)
    BY <1>1, <1>3, <2>1 DEF CountsWell, Count, Lists, Minds, objectVars
  <2>4. OwnInv(t)'
    BY <1>1, <1>2, <1>3, <2>1 DEF OwnInv, Working, Destroying, Enumerating, objectVars
  <2> QED
    BY <1>1, <1>4, <1>5, <2>1, <2>2, <2>3, <2>4, ObjectsKept DEF Destroying, Enumerating
<1>6. ASSUME NEW i \in DOMAIN devs, Known(a, i), refcnt[devs[i]] > 0, To(t, "append"),
             current' = [current EXCEPT ![t] = devs[i]], fresh' = [fresh EXCEPT ![t] = FALSE]
      PROVE  DevicesInv'
  <2> DEFINE o == devs[i]
  <2>1. /\ step'[t] = "append" /\ current'[t] = o /\ fresh'[t] = FALSE
        /\ \A u \in Callers \ {t} :
             UNCHANGED <<step[u], visited[u], current[u], fresh[u], discovered[u]>>
    BY <1>1, <1>2, <1>6 DEF DevicesInv, CallerTypes, To
  <2>2. o \in Objects /\ used[o] /\ session[o] = a
    <3>1. o \in Range(devs)
      BY DEF Range
    <3>2. o \in Objects
      BY <3>1, RangeOfSeq DEF DevicesInv, ObjectTypes
    <3> QED
      BY <1>6, <3>1, <3>2 DEF DevicesInv, SharedInv, Known
  <2>3. ready[o]
    <3>1. ASSUME ~ready[o] PROVE FALSE
      <4>1. PICK u \in Callers : step[u] \in {"init", "drop"} /\ current[u] = o
        BY <1>6, <2>2, <3>1 DEF DevicesInv, SharedInv
      <4> QED
        BY <1>1, <4>1, ZenonT(30) DEF DevicesInv, SharedInv, Enumerating
    <3> QED
      BY <3>1
  <2> HIDE DEF o
  <2>4. CallerTypes'
    BY <1>1, <1>2, <1>6, <2>1, <2>2, ZenonT(30) DEF DevicesInv, CallerTypes, Enumerating, Working, Destroying, To
  <2>5. CountsWell(t)
    BY <1>1, <1>3, <2>1 DEF CountsWell, Count, Lists, Minds, objectVars
  <2>6. refcnt[o] > 0
    BY <1>6 DEF o
  <2>7. OwnInv(t)'
    BY <1>1, <1>2, <1>3, <2>1, <2>2, <2>3, <2>6 DEF OwnInv, Working, Destroying, Enumerating, objectVars
  <2> QED
    BY <1>1, <1>4, <2>1, <2>4, <2>5, <2>7, ObjectsKept DEF Destroying, Enumerating
<1> QED
  BY <1>5, <1>6 DEF Scan

-----------------------------------------------------------------------------
LEMMA DestroyTakesOut ==
  ASSUME DevicesInv, NEW t \in Callers, NEW o \in Objects, NEW back, DestroyDevice(t, o, back)
  PROVE  /\ devs' \in Seq(Objects) /\ Range(devs') \subseteq Range(devs) \ {o}
         /\ \A i, j \in DOMAIN devs' : session[devs'[i]] = session[devs'[j]] => i = j
<1>1. CASE o \notin Range(devs) /\ UNCHANGED devs
  BY <1>1 DEF DevicesInv, ObjectTypes, ListedOnce
<1>2. ASSUME NEW i \in DOMAIN devs, devs[i] = o, devs' = RemoveAt(devs, i)
      PROVE  /\ devs' \in Seq(Objects) /\ Range(devs') \subseteq Range(devs) \ {o}
             /\ \A j, k \in DOMAIN devs' : session[devs'[j]] = session[devs'[k]] => j = k
  <2>1. devs \in Seq(Objects) /\ DOMAIN devs \subseteq Nat
    BY LenProperties DEF DevicesInv, ObjectTypes
  <2>2. /\ devs' \in Seq(Objects) /\ DOMAIN devs' \subseteq Nat /\ i \in Nat
        /\ \A j \in DOMAIN devs' :
              /\ j < i => j \in DOMAIN devs /\ devs'[j] = devs[j]
              /\ ~(j < i) => j + 1 \in DOMAIN devs /\ j + 1 # i /\ devs'[j] = devs[j + 1]
    BY <1>2, <2>1, TakeOut
  <2>3. \A j, k \in DOMAIN devs : session[devs[j]] = session[devs[k]] => j = k
    BY DEF DevicesInv, ListedOnce
  <2>4. ASSUME NEW j \in DOMAIN devs' PROVE devs'[j] \in Range(devs) \ {o}
    <3>1. CASE j < i
      BY <1>2, <2>2, <2>3, <3>1 DEF Range
    <3>2. CASE ~(j < i)
      BY <1>2, <2>2, <2>3, <3>2 DEF Range
    <3> QED
      BY <3>1, <3>2
  <2>5. ASSUME NEW j \in DOMAIN devs', NEW k \in DOMAIN devs', session[devs'[j]] = session[devs'[k]]
        PROVE  j = k
    <3>1. j \in Nat /\ k \in Nat
      BY <2>2
    <3>2. CASE j < i /\ k < i
      BY <2>2, <2>3, <2>5, <3>2
    <3>3. CASE j < i /\ ~(k < i)
      BY <2>2, <2>3, <2>5, <3>1, <3>3
    <3>4. CASE ~(j < i) /\ k < i
      BY <2>2, <2>3, <2>5, <3>1, <3>4
    <3>5. CASE ~(j < i) /\ ~(k < i)
      BY <2>2, <2>3, <2>5, <3>1, <3>5
    <3> QED
      BY <3>2, <3>3, <3>4, <3>5
  <2> QED
    BY <2>2, <2>4, <2>5 DEF Range
<1> QED
  BY <1>1, <1>2 DEF DestroyDevice

-----------------------------------------------------------------------------
LEMMA AllocKeeps ==
  ASSUME DevicesInv, NEW t \in Callers, AllocDevice(t)
  PROVE  DevicesInv'
<1>1. /\ step[t] = "alloc" /\ UNCHANGED <<visited, held, handles, discovered>>
      /\ OwnInv(t)
  BY DEF AllocDevice, At, holderVars, DevicesInv
<1>2. /\ ~fresh[t] /\ IsInjective(discovered[t]) /\ current[t] \in visited[t]
      /\ current[t] \in Addresses
      /\ \A o \in Range(discovered[t]) :
           session[o] \in visited[t] /\ session[o] # current[t] /\ ready[o]
  BY <1>1 DEF DevicesInv, CallerTypes, OwnInv
<1>3. CASE To(t, "scan") /\ UNCHANGED <<objectVars, current, fresh>>
  <2>1. /\ step'[t] = "scan" /\ current' = current /\ fresh' = fresh
        /\ \A u \in Callers \ {t} :
             UNCHANGED <<step[u], visited[u], current[u], fresh[u], discovered[u]>>
    BY <1>1, <1>3 DEF DevicesInv, CallerTypes, To
  <2>2. CallerTypes'
    BY <1>1, <1>3, <2>1 DEF DevicesInv, CallerTypes, Enumerating, Working, Destroying, To
  <2>3. CountsWell(t)
    BY <1>1, <1>2, <1>3, <2>1 DEF CountsWell, Count, Lists, Minds, objectVars
  <2>4. OwnInv(t)'
    BY <1>1, <1>2, <1>3, <2>1 DEF OwnInv, Working, Destroying, Enumerating, objectVars
  <2>5. ObjectTypes' /\ \A o \in Objects : held'[o] + handles'[o] > 0 => ready[o]
    BY <1>1, <1>3 DEF DevicesInv, ObjectTypes, CountedInv, objectVars
  <2> QED
    BY <1>1, <1>3, <2>1, <2>2, <2>3, <2>4, <2>5, ObjectsKept DEF Destroying, Enumerating
<1>4. ASSUME NEW o \in Objects, ~used[o],
             used' = [used EXCEPT ![o] = TRUE], ready' = [ready EXCEPT ![o] = FALSE],
             session' = [session EXCEPT ![o] = current[t]],
             refcnt' = [refcnt EXCEPT ![o] = 1], devs' = <<o>> \o devs,
             current' = [current EXCEPT ![t] = o], fresh' = [fresh EXCEPT ![t] = TRUE],
             To(t, "init")
      PROVE  DevicesInv'
  <2>1. /\ step'[t] = "init" /\ current'[t] = o /\ fresh'[t] = TRUE
        /\ \A u \in Callers \ {t} :
             UNCHANGED <<step[u], visited[u], current[u], fresh[u], discovered[u]>>
    BY <1>1, <1>4 DEF DevicesInv, CallerTypes, To
  <2>2. /\ used'[o] = TRUE /\ ready'[o] = FALSE /\ session'[o] = current[t] /\ refcnt'[o] = 1
        /\ \A p \in Objects \ {o} :
             UNCHANGED <<used[p], ready[p], session[p], refcnt[p]>>
    BY <1>4 DEF DevicesInv, ObjectTypes
  <2>3. /\ devs' \in Seq(Objects) /\ Range(devs') = {o} \union Range(devs)
        /\ devs'[1] = o
        /\ \A i \in DOMAIN devs' \ {1} : i - 1 \in DOMAIN devs /\ devs'[i] = devs[i - 1]
        /\ DOMAIN devs' = 1..(Len(devs) + 1)
    BY <1>4, PutFirst DEF DevicesInv, ObjectTypes
  <2>4. ObjectTypes'
    BY <1>1, <1>2, <1>4, <2>3 DEF DevicesInv, ObjectTypes
  <2>5. CallerTypes'
    BY <1>1, <1>4, <2>1 DEF DevicesInv, CallerTypes, Enumerating, Working, Destroying, To
  <2>6. /\ held[o] = 0 /\ handles[o] = 0
        /\ \A u \in Callers : o \notin Range(discovered[u])
    BY <1>4, HoldersCount DEF DevicesInv, ObjectTypes
  <2>7. o \notin Range(devs)
    BY <1>4 DEF DevicesInv, SharedInv
  <2>8. CountsWell(t)
    <3> SUFFICES ASSUME NEW p \in Objects
                 PROVE  Count(p)' + (held[p] + handles[p] + Lists(t, p) + Minds(t, p))
                          = Count(p) + (held'[p] + handles'[p] + Lists(t, p)' + Minds(t, p)')
      BY DEF CountsWell
    <3>1. held[p] \in Nat /\ handles[p] \in Nat /\ held' = held /\ handles' = handles
      BY <1>1 DEF DevicesInv, ObjectTypes
    <3>2. Lists(t, p)' = Lists(t, p) /\ Lists(t, p) \in {0, 1} /\ Minds(t, p) = 0
      BY <1>1, <1>2 DEF Lists, Minds
    <3>3. CASE p = o
      <4>1. Count(p)' = 1 /\ Count(p) = 0 /\ Minds(t, p)' = 1
        BY <1>4, <2>1, <2>2, <3>3 DEF Count, Minds
      <4> QED
        BY <3>1, <3>2, <4>1
    <3>4. CASE p # o
      <4>1. Count(p)' = Count(p) /\ Minds(t, p)' = 0
        BY <2>1, <2>2, <3>4 DEF Count, Minds
      <4>2. Count(p) \in Nat
        BY DEF Count, DevicesInv, ObjectTypes
      <4> QED
        BY <3>1, <3>2, <4>1, <4>2
    <3> QED
      BY <3>3, <3>4
  <2>9. OwnInv(t)'
    <3>1. \A p \in Range(discovered[t]) : p \in Objects /\ p # o
      BY <2>6, RangeOfSeq DEF DevicesInv, CallerTypes
    <3> QED
      BY <1>1, <1>2, <2>1, <2>2, <3>1 DEF OwnInv, Working, Destroying, Enumerating
  <2>10. OthersKeep(t)
    <3>1. \A u \in Callers \ {t} : step[u] \in Working => current[u] \in Objects /\ current[u] # o
      BY <1>4, ZenonT(30) DEF DevicesInv, OwnInv, CallerTypes
    <3>2. \A u \in Callers \ {t} : step[u] \in Destroying =>
            used'[current[u]] /\ refcnt'[current[u]] = 0
      BY <2>2, <3>1 DEF DevicesInv, OwnInv, Working
    <3>3. \A u \in Callers \ {t} : step[u] = "append" => refcnt'[current[u]] > 0
      BY <2>2, <3>1 DEF DevicesInv, OwnInv, Working
    <3>4. \A p \in Objects : used[p] /\ refcnt[p] > 0 =>
             used'[p] /\ session'[p] = session[p] /\ (ready[p] => ready'[p])
      BY <1>4, <2>2
    <3> QED
      BY <2>1, <3>2, <3>3, <3>4 DEF OthersKeep
  <2>11. ListedOnce'
    <3>1. \A p \in Range(devs) : p \in Objects \ {o} /\ session[p] # current[t]
      BY <1>1, <2>7, RangeOfSeq DEF DevicesInv, ObjectTypes, ListedOnce
    <3>2. \A i \in DOMAIN devs : session'[devs[i]] = session[devs[i]] /\ session[devs[i]] # current[t]
      BY <2>2, <3>1 DEF Range
    <3>3. \A i, j \in DOMAIN devs' : session'[devs'[i]] = session'[devs'[j]] => i = j
      <4> SUFFICES ASSUME NEW i \in DOMAIN devs', NEW j \in DOMAIN devs',
                          session'[devs'[i]] = session'[devs'[j]]
                   PROVE  i = j
        OBVIOUS
      <4>1. i \in Nat /\ j \in Nat
        BY <2>3
      <4>2. CASE i = 1 /\ j # 1
        BY <2>2, <2>3, <3>2, <4>2
      <4>3. CASE i # 1 /\ j = 1
        BY <2>2, <2>3, <3>2, <4>3
      <4>4. CASE i # 1 /\ j # 1
        <5>1. /\ i - 1 \in DOMAIN devs /\ j - 1 \in DOMAIN devs
              /\ session[devs[i - 1]] = session[devs[j - 1]]
          BY <2>3, <3>2, <4>4
        <5>2. i - 1 = j - 1
          BY <5>1 DEF DevicesInv, ListedOnce
        <5> QED
          BY <4>1, <5>2
      <4> QED
        BY <4>2, <4>3, <4>4
    <3>4. ASSUME NEW u \in Callers PROVE step'[u] # "alloc"
      <4>1. step[u] = "alloc" => u = t
        BY <1>1, ZenonT(30) DEF DevicesInv, SharedInv, Enumerating
      <4> QED
        BY <2>1, <4>1
    <3> QED
      BY <3>3, <3>4 DEF ListedOnce
  <2>12. \A p \in Objects : held'[p] + handles'[p] > 0 => ready'[p]
    BY <1>1, <2>2, <2>6 DEF DevicesInv, CountedInv
  <2>13. \A p \in Range(devs') : used'[p]
    <3>1. \A p \in Range(devs) : p \in Objects /\ used[p]
      BY RangeOfSeq DEF DevicesInv, ObjectTypes, SharedInv
    <3> QED
      BY <2>2, <2>3, <3>1
  <2>14. \A p \in Objects : used'[p] /\ refcnt'[p] > 0 /\ ~ready'[p] =>
           \/ step'[t] \in {"init", "drop"} /\ current'[t] = p
           \/ /\ used[p] /\ refcnt[p] > 0 /\ ~ready[p]
              /\ ~(step[t] \in {"init", "drop"} /\ current[t] = p)
    BY <1>1, <2>1, <2>2
  <2>15. step'[t] \notin Destroying
    BY <2>1 DEF Destroying
  <2>16. step[t] \in Enumerating
    BY <1>1 DEF Enumerating
  <2> QED
    BY <2>4, <2>5, <2>8, <2>9, <2>10, <2>11, <2>12, <2>13, <2>14, <2>15, <2>16, CallerStep
<1> QED
  BY <1>3, <1>4 DEF AllocDevice

LEMMA InitializeKeeps ==
  ASSUME DevicesInv, NEW t \in Callers, InitializeDevice(t)
  PROVE  DevicesInv'
<1>1. /\ step[t] = "init" /\ OwnInv(t)
      /\ UNCHANGED <<devs, session, refcnt, used, visited, current, fresh, discovered, held, handles>>
  BY DEF InitializeDevice, At, holderVars, DevicesInv
<1>2. /\ fresh[t] /\ IsInjective(discovered[t]) /\ session[current[t]] \in visited[t]
      /\ \A o \in Range(discovered[t]) :
           session[o] \in visited[t] /\ session[o] # session[current[t]] /\ ready[o]
  BY <1>1 DEF OwnInv
<1>3. current[t] \in Objects /\ used[current[t]] /\ refcnt[current[t]] > 0
  BY <1>1, WorkersCount
<1>4. step[t] \in Enumerating
  BY <1>1 DEF Enumerating
<1>5. CASE To(t, "drop") /\ UNCHANGED ready
  <2>1. /\ step'[t] = "drop"
        /\ \A u \in Callers \ {t} :
             UNCHANGED <<step[u], visited[u], current[u], fresh[u], discovered[u]>>
    BY <1>1, <1>5 DEF DevicesInv, CallerTypes, To
  <2>2. CallerTypes'
    BY <1>1, <1>3, <1>5, <2>1 DEF DevicesInv, CallerTypes, Enumerating, Working, Destroying, To
  <2>3. CountsWell(t)
    BY <1>1, <1>2, <1>5, <2>1 DEF CountsWell, Count, Lists, Minds
  <2>4. OwnInv(t)'
    BY <1>1, <1>2, <1>3, <1>5, <2>1 DEF OwnInv, Working, Destroying, Enumerating
  <2>5. ObjectTypes' /\ \A o \in Objects : held'[o] + handles'[o] > 0 => ready[o]
    BY <1>1, <1>5 DEF DevicesInv, ObjectTypes, CountedInv
  <2>6. UNCHANGED objectVars
    BY <1>1, <1>5 DEF objectVars
  <2> QED
    BY <1>1, <1>4, <2>1, <2>2, <2>3, <2>4, <2>5, <2>6, ObjectsKept DEF Destroying
<1>6. CASE ready' = [ready EXCEPT ![current[t]] = TRUE] /\ To(t, "append")
  <2>1. /\ step'[t] = "append" /\ ready'[current[t]] = TRUE
        /\ \A o \in Objects \ {current[t]} : ready'[o] = ready[o]
        /\ \A u \in Callers \ {t} :
             UNCHANGED <<step[u], visited[u], current[u], fresh[u], discovered[u]>>
    BY <1>1, <1>3, <1>6 DEF DevicesInv, ObjectTypes, CallerTypes, To
  <2>2. CallerTypes' /\ ObjectTypes'
    BY <1>1, <1>3, <1>6, <2>1
       DEF DevicesInv, ObjectTypes, CallerTypes, Enumerating, Working, Destroying, To
  <2>3. CountsWell(t)
    BY <1>1, <1>2, <2>1 DEF CountsWell, Count, Lists, Minds
  <2>4. OwnInv(t)'
    <3>1. \A o \in Range(discovered[t]) : ready'[o]
      <4>1. \A o \in Range(discovered[t]) : o \in Objects
        BY RangeOfSeq DEF DevicesInv, CallerTypes
      <4> QED
        BY <1>2, <2>1, <4>1
    <3> QED
      BY <1>1, <1>2, <1>3, <2>1, <3>1 DEF OwnInv, Working, Destroying, Enumerating
  <2>5. OthersKeep(t)
    BY <1>1, <2>1 DEF OthersKeep, DevicesInv, OwnInv, Working
  <2>6. ListedOnce'
    <3>1. \A u \in Callers : step[u] = "alloc" <=> step'[u] = "alloc"
      BY <1>1, <2>1
    <3> QED
      BY <1>1, <3>1 DEF DevicesInv, ListedOnce
  <2>7. \A o \in Objects : held'[o] + handles'[o] > 0 => ready'[o]
    BY <1>1, <2>1 DEF DevicesInv, CountedInv
  <2>8. \A o \in Range(devs') : used'[o]
    BY <1>1 DEF DevicesInv, SharedInv
  <2>9. \A o \in Objects : used'[o] /\ refcnt'[o] > 0 /\ ~ready'[o] =>
          \/ step'[t] \in {"init", "drop"} /\ current'[t] = o
          \/ /\ used[o] /\ refcnt[o] > 0 /\ ~ready[o]
             /\ ~(step[t] \in {"init", "drop"} /\ current[t] = o)
    BY <1>1, <2>1
  <2>10. step'[t] \notin Destroying
    BY <2>1 DEF Destroying
  <2> QED
    BY <1>4, <2>2, <2>3, <2>4, <2>5, <2>6, <2>7, <2>8, <2>9, <2>10, CallerStep
<1> QED
  BY <1>5, <1>6 DEF InitializeDevice

(* A list grows by one it did not have.                                    *)
LEMMA AppendOne ==
  ASSUME NEW S, NEW s \in Seq(S), NEW o \in S, o \notin Range(s), IsInjective(s)
  PROVE  /\ Append(s, o) \in Seq(S) /\ IsInjective(Append(s, o))
         /\ Range(Append(s, o)) = Range(s) \union {o}
<1> DEFINE p == Append(s, o)
           n == Len(s)
<1>1. p \in Seq(S) /\ Len(p) = n + 1 /\ n \in Nat
  BY LenProperties
<1>2. DOMAIN p = 1..(n + 1) /\ DOMAIN s = 1..n
  BY <1>1, LenProperties
<1>3. p[n + 1] = o /\ \A i \in 1..n : p[i] = s[i]
  BY <1>1
<1> HIDE DEF p, n
<1>4. \A i \in 1..(n + 1) : i = n + 1 \/ i \in 1..n
  BY <1>1
<1>5. n + 1 \in 1..(n + 1) /\ \A i \in 1..n : i \in 1..(n + 1)
  BY <1>1
<1>6. Range(p) = Range(s) \union {o}
  <2>1. ASSUME NEW x \in Range(p) PROVE x \in Range(s) \union {o}
    BY <1>2, <1>3, <1>4 DEF Range
  <2>2. ASSUME NEW x \in Range(s) PROVE x \in Range(p)
    <3>1. PICK i \in DOMAIN s : x = s[i]
      BY DEF Range
    <3> QED
      BY <1>2, <1>3, <1>5, <3>1 DEF Range
  <2>3. o \in Range(p)
    BY <1>2, <1>3, <1>5 DEF Range
  <2> QED
    BY <2>1, <2>2, <2>3
<1>7. IsInjective(p)
  <2> SUFFICES ASSUME NEW i \in DOMAIN p, NEW j \in DOMAIN p, p[i] = p[j]
               PROVE  i = j
    BY DEF IsInjective
  <2>1. \A k \in 1..n : p[k] \in Range(s)
    BY <1>2, <1>3 DEF Range
  <2>2. CASE i = n + 1 \/ j = n + 1
    BY <1>2, <1>3, <1>4, <2>1, <2>2
  <2>3. CASE i # n + 1 /\ j # n + 1
    BY <1>2, <1>3, <1>4, <2>3 DEF IsInjective
  <2> QED
    BY <2>2, <2>3
<1> QED
  BY <1>1, <1>6, <1>7 DEF p

-----------------------------------------------------------------------------
(* One more reference to an object that has one.                           *)
LEMMA RefStep ==
  ASSUME DevicesInv, NEW t \in Callers, NEW o \in Objects, used[o], refcnt[o] > 0, Ref(o),
         UNCHANGED <<devs, session, ready, used>>, CallerTypes', OwnInv(t)',
         held' \in [Objects -> Nat], handles' \in [Objects -> Nat],
         \A u \in Callers \ {t} :
           UNCHANGED <<step[u], visited[u], current[u], fresh[u], discovered[u]>>,
         step'[t] \in Enumerating =>
           step[t] \in Enumerating \/ \A u \in Callers : step[u] \notin Enumerating,
         step'[t] \in Destroying \union {"alloc"} \/ step[t] \in {"init", "drop"} =>
           UNCHANGED <<step, current>>,
         \A p \in Objects : held'[p] + handles'[p] > 0 => ready[p],
         \A p \in Objects :
           held'[p] + handles'[p] + Lists(t, p)' + Minds(t, p)'
             = held[p] + handles[p] + Lists(t, p) + Minds(t, p) + IF p = o THEN 1 ELSE 0
  PROVE  DevicesInv'
<1>1. /\ refcnt'[o] = refcnt[o] + 1 /\ \A p \in Objects \ {o} : refcnt'[p] = refcnt[p]
      /\ refcnt \in [Objects -> Nat] /\ refcnt' \in [Objects -> Nat]
  BY DEF Ref, DevicesInv, ObjectTypes
<1>2. ObjectTypes'
  BY <1>1 DEF DevicesInv, ObjectTypes
<1>3. \A p \in Objects : refcnt[p] > 0 <=> refcnt'[p] > 0
  BY <1>1
<1>4. OthersKeep(t)
  <2>1. \A u \in Callers : step[u] \in Destroying =>
          used[current[u]] /\ refcnt[current[u]] = 0 /\ current[u] \in Objects
    BY DEF DevicesInv, OwnInv, Working, CallerTypes
  <2>2. \A u \in Callers : step[u] = "append" => refcnt[current[u]] > 0 /\ current[u] \in Objects
    BY DEF DevicesInv, OwnInv, Working, CallerTypes
  <2> QED
    BY <1>1, <1>3, <2>1, <2>2 DEF OthersKeep
<1>5. CountsWell(t)
  <2> SUFFICES ASSUME NEW p \in Objects
               PROVE  Count(p)' + (held[p] + handles[p] + Lists(t, p) + Minds(t, p))
                        = Count(p) + (held'[p] + handles'[p] + Lists(t, p)' + Minds(t, p)')
    BY DEF CountsWell
  <2>1. Count(p)' = Count(p) + IF p = o THEN 1 ELSE 0
    BY <1>1 DEF Count
  <2>2. held[p] + handles[p] + Lists(t, p) + Minds(t, p) \in Nat /\ Count(p) \in Nat
    BY <1>1, SMTT(20) DEF DevicesInv, ObjectTypes, Count, Lists, Minds
  <2>3. held'[p] + handles'[p] + Lists(t, p)' + Minds(t, p)'
             = (held[p] + handles[p] + Lists(t, p) + Minds(t, p)) + IF p = o THEN 1 ELSE 0
    OBVIOUS
  <2> DEFINE before == held[p] + handles[p] + Lists(t, p) + Minds(t, p)
             after  == held'[p] + handles'[p] + Lists(t, p)' + Minds(t, p)'
  <2>4. after = before + (IF p = o THEN 1 ELSE 0) /\ before \in Nat
    BY <2>2, <2>3
  <2> HIDE DEF before, after
  <2>5. Count(p)' + before = Count(p) + after
    BY <2>1, <2>2, <2>4
  <2> QED
    BY <2>5 DEF before, after
<1>6. ListedOnce'
  <2>1. \A u \in Callers : step'[u] = "alloc" => step[u] = "alloc" /\ current'[u] = current[u]
    OBVIOUS
  <2> QED
    BY <2>1 DEF DevicesInv, ListedOnce
<1>7. \A p \in Range(devs') : used'[p]
  BY DEF DevicesInv, SharedInv
<1>8. \A p \in Objects : used'[p] /\ refcnt'[p] > 0 /\ ~ready'[p] =>
        \/ step'[t] \in {"init", "drop"} /\ current'[t] = p
        \/ /\ used[p] /\ refcnt[p] > 0 /\ ~ready[p]
           /\ ~(step[t] \in {"init", "drop"} /\ current[t] = p)
  BY <1>3
<1>9. step'[t] \in Destroying =>
        \A u \in Callers \ {t} : step[u] \in Destroying => current[u] # current'[t]
  BY DEF DevicesInv, SharedInv
<1> QED
  BY <1>2, <1>4, <1>5, <1>6, <1>7, <1>8, <1>9, CallerStep

(* One reference less: who drops the last destroys the object.             *)
LEMMA UnrefStep ==
  ASSUME DevicesInv, NEW t \in Callers, NEW o \in Objects, NEW destroys \in Destroying, NEW back,
         UnrefDevice(t, o, destroys, back), used[o], refcnt[o] > 0,
         back \notin Destroying \union {"alloc"},
         UNCHANGED <<devs, session, ready, used, held, handles>>, CallerTypes', OwnInv(t)',
         \A u \in Callers \ {t} :
           UNCHANGED <<step[u], visited[u], current[u], fresh[u], discovered[u]>>,
         step'[t] \in Enumerating =>
           step[t] \in Enumerating \/ \A u \in Callers : step[u] \notin Enumerating,
         current'[t] = o,
         \A u \in Callers \ {t} : step[u] = "append" /\ current[u] = o => refcnt[o] > 1,
         step[t] \in {"init", "drop"} => current[t] = o,
         step[t] \in {"init", "drop"} /\ ~ready[o] => refcnt[o] = 1,
         \A p \in Objects :
           Lists(t, p) + Minds(t, p) = Lists(t, p)' + Minds(t, p)' + IF p = o THEN 1 ELSE 0
  PROVE  DevicesInv'
<1>1. /\ refcnt'[o] = refcnt[o] - 1 /\ \A p \in Objects \ {o} : refcnt'[p] = refcnt[p]
      /\ refcnt \in [Objects -> Nat] /\ refcnt' \in [Objects -> Nat]
      /\ step'[t] = IF refcnt'[o] = 0 THEN destroys ELSE back
  <2>1. refcnt' = [refcnt EXCEPT ![o] = refcnt[o] - 1] /\ refcnt \in [Objects -> Nat]
    BY DEF UnrefDevice, DevicesInv, ObjectTypes
  <2>2. DOMAIN step = Callers
    BY DEF DevicesInv, CallerTypes
  <2>3. step'[t] = IF refcnt'[o] = 0 THEN destroys ELSE back
    BY <2>2 DEF UnrefDevice, To
  <2> QED
    BY <2>1, <2>3
<1>2. ObjectTypes'
  BY <1>1 DEF DevicesInv, ObjectTypes
<1>3. \A p \in Objects : refcnt'[p] > 0 => refcnt[p] > 0
  BY <1>1
<1>4. OthersKeep(t)
  <2>1. \A u \in Callers : step[u] \in Destroying =>
          used[current[u]] /\ refcnt[current[u]] = 0 /\ current[u] \in Objects
    BY DEF DevicesInv, OwnInv, Working, CallerTypes
  <2>2. \A u \in Callers : step[u] = "append" => refcnt[current[u]] > 0 /\ current[u] \in Objects
    BY DEF DevicesInv, OwnInv, Working, CallerTypes
  <2>3. \A u \in Callers \ {t} : step[u] = "append" => refcnt'[current[u]] > 0
    BY <1>1, <2>2
  <2> QED
    BY <1>1, <2>1, <2>3 DEF OthersKeep
<1>5. CountsWell(t)
  <2> SUFFICES ASSUME NEW p \in Objects
               PROVE  Count(p)' + (held[p] + handles[p] + Lists(t, p) + Minds(t, p))
                        = Count(p) + (held'[p] + handles'[p] + Lists(t, p)' + Minds(t, p)')
    BY DEF CountsWell
  <2>1. Count(p) = Count(p)' + (IF p = o THEN 1 ELSE 0) /\ Count(p)' \in Nat
    BY <1>1 DEF Count
  <2>2. /\ held[p] \in Nat /\ handles[p] \in Nat /\ held' = held /\ handles' = handles
        /\ Lists(t, p)' \in {0, 1} /\ Minds(t, p)' \in {0, 1}
        /\ Lists(t, p) \in {0, 1} /\ Minds(t, p) \in {0, 1}
    BY DEF DevicesInv, ObjectTypes, Lists, Minds
  <2>3. Lists(t, p) + Minds(t, p) = Lists(t, p)' + Minds(t, p)' + IF p = o THEN 1 ELSE 0
    OBVIOUS
  <2> QED
    BY <2>1, <2>2, <2>3
<1>6. ListedOnce'
  <2>1. \A u \in Callers : step'[u] = "alloc" => step[u] = "alloc" /\ current'[u] = current[u]
    BY <1>1 DEF Destroying
  <2> QED
    BY <2>1 DEF DevicesInv, ListedOnce
<1>7. \A p \in Range(devs') : used'[p]
  BY DEF DevicesInv, SharedInv
<1>8. \A p \in Objects : used'[p] /\ refcnt'[p] > 0 /\ ~ready'[p] =>
        \/ step'[t] \in {"init", "drop"} /\ current'[t] = p
        \/ /\ used[p] /\ refcnt[p] > 0 /\ ~ready[p]
           /\ ~(step[t] \in {"init", "drop"} /\ current[t] = p)
  BY <1>1, <1>3
<1>9. step'[t] \in Destroying =>
        \A u \in Callers \ {t} : step[u] \in Destroying => current[u] # current'[t]
  BY DEF DevicesInv, OwnInv
<1>10. \A p \in Objects : held'[p] + handles'[p] > 0 => ready'[p]
  BY DEF DevicesInv, CountedInv
<1> QED
  BY <1>2, <1>4, <1>5, <1>6, <1>7, <1>8, <1>9, <1>10, CallerStep

(* Nobody refers to the object that is destroyed.                          *)
LEMMA DestroyStep ==
  ASSUME DevicesInv, NEW t \in Callers, step[t] \in Destroying, NEW back,
         DestroyDevice(t, current[t], back), back \in {"scan", "free", "idle"},
         back = "idle" => step[t] \notin Enumerating,
         back # "idle" => step[t] \in Enumerating,
         UNCHANGED <<visited, current, fresh, discovered, held, handles>>
  PROVE  DevicesInv'
<1> DEFINE o == current[t]
<1>1. /\ o \in Objects /\ used[o] /\ refcnt[o] = 0 /\ OwnInv(t)
      /\ ~fresh[t] /\ step[t] \notin {"init", "append", "drop", "alloc", "unref", "open"}
  BY DEF DevicesInv, CallerTypes, OwnInv, Working, Destroying
<1>2. /\ devs' \in Seq(Objects) /\ Range(devs') \subseteq Range(devs) \ {o}
      /\ \A i, j \in DOMAIN devs' : session[devs'[i]] = session[devs'[j]] => i = j
  BY <1>1, DestroyTakesOut
<1>3. /\ step'[t] = back /\ UNCHANGED <<session, refcnt>>
      /\ used' \in [Objects -> BOOLEAN] /\ ready' \in [Objects -> BOOLEAN]
      /\ used'[o] = FALSE /\ ready'[o] = FALSE
      /\ \A p \in Objects \ {o} : used'[p] = used[p] /\ ready'[p] = ready[p]
      /\ \A u \in Callers \ {t} :
           UNCHANGED <<step[u], visited[u], current[u], fresh[u], discovered[u]>>
  BY <1>1 DEF DestroyDevice, To, DevicesInv, ObjectTypes, CallerTypes
<1> HIDE DEF o
<1>4. held[o] = 0 /\ handles[o] = 0 /\ \A u \in Callers : o \notin Range(discovered[u])
  <2>1. held[o] \in Nat /\ handles[o] \in Nat
    BY <1>1 DEF DevicesInv, ObjectTypes
  <2>2. ~(held[o] > 0 \/ handles[o] > 0 \/ \E u \in Callers : o \in Range(discovered[u]))
    BY <1>1, HoldersCount
  <2> QED
    BY <2>1, <2>2
<1>5. ObjectTypes'
  BY <1>2, <1>3 DEF DevicesInv, ObjectTypes
<1>6. CallerTypes'
  <2>1. step' = [step EXCEPT ![t] = back]
    BY DEF DestroyDevice, To
  <2> QED
    BY <1>3, <2>1, ZenonT(30) DEF DevicesInv, CallerTypes, Enumerating, Working, Destroying
<1>7. CountsWell(t)
  <2>1. \A p \in Objects : Count(p)' = Count(p)
    BY <1>1, <1>3 DEF Count
  <2>2. \A p \in Objects : Lists(t, p)' = Lists(t, p) /\ Minds(t, p)' = Minds(t, p)
    BY <1>1, <1>3 DEF Lists, Minds
  <2> QED
    BY <2>1, <2>2 DEF CountsWell
<1>8. OwnInv(t)'
  <2>1. \A p \in Range(discovered[t]) : p \in Objects /\ p # o
    BY <1>4, RangeOfSeq DEF DevicesInv, CallerTypes
  <2>2. \A p \in Range(discovered[t]) : session[p] \in visited[t] /\ ready'[p]
    BY <1>1, <1>3, <2>1 DEF OwnInv
  <2>3. back \notin Enumerating => discovered[t] = <<>>
    BY <1>1 DEF OwnInv, Enumerating
  <2>4. IsInjective(discovered[t])
    BY <1>1 DEF OwnInv
  <2> QED
    BY <1>1, <1>3, <2>2, <2>3, <2>4 DEF OwnInv, Working, Destroying
<1>9. OthersKeep(t)
  <2>1. \A u \in Callers : step[u] \in Destroying =>
          used[current[u]] /\ refcnt[current[u]] = 0 /\ current[u] \in Objects
    BY DEF DevicesInv, OwnInv, Working, CallerTypes
  <2>2. \A u \in Callers : step[u] = "append" => refcnt[current[u]] > 0 /\ current[u] \in Objects
    BY DEF DevicesInv, OwnInv, Working, CallerTypes
  <2>3. \A u \in Callers \ {t} : step[u] \in Destroying => current[u] # o
    BY DEF DevicesInv, SharedInv, o
  <2> QED
    BY <1>1, <1>3, <2>1, <2>2, <2>3 DEF OthersKeep
<1>10. ListedOnce'
  <2>1. \A u \in Callers : step'[u] = "alloc" => step[u] = "alloc" /\ current'[u] = current[u]
    BY <1>3
  <2> QED
    BY <1>2, <1>3, <2>1 DEF DevicesInv, ListedOnce
<1>11. \A p \in Objects : held'[p] + handles'[p] > 0 => ready'[p]
  BY <1>3, <1>4 DEF DevicesInv, CountedInv
<1>12. \A p \in Range(devs') : used'[p]
  <2>1. \A p \in Range(devs) : p \in Objects /\ used[p]
    BY RangeOfSeq DEF DevicesInv, ObjectTypes, SharedInv
  <2> QED
    BY <1>2, <1>3, <2>1
<1>13. \A p \in Objects : used'[p] /\ refcnt'[p] > 0 /\ ~ready'[p] =>
        \/ step'[t] \in {"init", "drop"} /\ current'[t] = p
        \/ /\ used[p] /\ refcnt[p] > 0 /\ ~ready[p]
           /\ ~(step[t] \in {"init", "drop"} /\ current[t] = p)
  BY <1>1, <1>3
<1>14. step'[t] \notin Destroying /\ (step'[t] \in Enumerating => step[t] \in Enumerating)
  BY <1>3 DEF Destroying, Enumerating
<1> QED
  BY <1>5, <1>6, <1>7, <1>8, <1>9, <1>10, <1>11, <1>12, <1>13, <1>14, CallerStep

(* One that is not initialized yet has only the reference it was born with.*)
LEMMA UnreadyIsAlone ==
  ASSUME DevicesInv, NEW t \in Callers, step[t] \in {"init", "drop"}, ~ready[current[t]]
  PROVE  refcnt[current[t]] = 1
<1> DEFINE o == current[t]
<1>1. o \in Objects /\ used[o] /\ fresh[t] /\ step[t] \in Enumerating
  BY DEF DevicesInv, CallerTypes, OwnInv, Working, Enumerating
<1> HIDE DEF o
<1>2. held[o] = 0 /\ handles[o] = 0
  BY <1>1 DEF DevicesInv, ObjectTypes, CountedInv, o
<1>3. \A u \in Callers : o \notin Range(discovered[u])
  BY DEF DevicesInv, OwnInv, o
<1>4. \A u \in Callers : u # t => ~(current[u] = o /\ (step[u] \in {"unref", "open"} \/ fresh[u]))
  <2> SUFFICES ASSUME NEW u \in Callers, u # t, current[u] = o,
                      step[u] \in {"unref", "open"} \/ fresh[u]
               PROVE  FALSE
    OBVIOUS
  <2>1. step[u] \notin Enumerating
    BY <1>1 DEF DevicesInv, SharedInv
  <2>2. OwnInv(u)
    BY DEF DevicesInv
  <2> QED
    BY <2>1, <2>2 DEF OwnInv, o, Enumerating
<1>5. Listing(o) = {} /\ Minding(o) = {t}
  BY <1>1, <1>3, <1>4 DEF Listing, Minding, o
<1>6. Cardinality(Listing(o)) = 0 /\ Cardinality(Minding(o)) = 1
  BY <1>5, FS_EmptySet, FS_Singleton
<1>7. References(o) = 1
  BY <1>2, <1>6 DEF References, Listing, Minding
<1> QED
  BY <1>1, <1>7 DEF DevicesInv, CountedInv, Count, o

-----------------------------------------------------------------------------
LEMMA AppendKeeps ==
  ASSUME DevicesInv, NEW t \in Callers, AppendDevice(t)
  PROVE  DevicesInv'
<1>1. /\ step[t] = "append" /\ OwnInv(t) /\ step[t] \in Enumerating
      /\ UNCHANGED <<devs, session, ready, used, visited, current, fresh, held, handles>>
      /\ To(t, IF fresh[t] THEN "drop" ELSE "scan")
  BY DEF AppendDevice, At, holderVars, DevicesInv, Enumerating
<1>2. /\ IsInjective(discovered[t]) /\ session[current[t]] \in visited[t]
      /\ current[t] \in Objects /\ used[current[t]] /\ ready[current[t]] /\ refcnt[current[t]] > 0
      /\ discovered[t] \in Seq(Objects)
      /\ \A o \in Range(discovered[t]) :
           session[o] \in visited[t] /\ session[o] # session[current[t]] /\ ready[o]
  BY <1>1 DEF OwnInv, Working, DevicesInv, CallerTypes
<1>3. /\ step'[t] = IF fresh[t] THEN "drop" ELSE "scan"
      /\ \A u \in Callers \ {t} : UNCHANGED <<step[u], visited[u], current[u], fresh[u]>>
  BY <1>1 DEF DevicesInv, CallerTypes, To
<1>4. /\ step'[t] \notin Destroying \union {"alloc"}
      /\ \A o \in Objects : held'[o] + handles'[o] > 0 => ready[o]
  BY <1>1, <1>3 DEF Destroying, DevicesInv, CountedInv
<1>5. CASE UNCHANGED <<refcnt, discovered>>
  <2>1. CallerTypes'
    BY <1>1, <1>2, <1>3, <1>5 DEF DevicesInv, CallerTypes, Enumerating, Working, Destroying, To
  <2>2. CountsWell(t)
    BY <1>1, <1>3, <1>5 DEF CountsWell, Count, Lists, Minds
  <2>3. OwnInv(t)'
    BY <1>1, <1>2, <1>3, <1>5 DEF OwnInv, Working, Destroying, Enumerating
  <2>4. ObjectTypes' /\ UNCHANGED objectVars
    BY <1>1, <1>5 DEF DevicesInv, ObjectTypes, objectVars
  <2>5. \A u \in Callers \ {t} :
          UNCHANGED <<step[u], visited[u], current[u], fresh[u], discovered[u]>>
    BY <1>3, <1>5
  <2> QED
    BY <1>1, <1>4, <2>1, <2>2, <2>3, <2>4, <2>5, ObjectsKept
<1>6. CASE /\ Ref(current[t])
           /\ discovered' = [discovered EXCEPT ![t] = Append(discovered[t], current[t])]
  <2>1. /\ discovered'[t] = Append(discovered[t], current[t])
        /\ \A u \in Callers \ {t} : discovered'[u] = discovered[u]
    BY <1>6 DEF DevicesInv, CallerTypes
  <2>2. current[t] \notin Range(discovered[t])
    BY <1>2
  <2>3. /\ discovered'[t] \in Seq(Objects) /\ IsInjective(discovered'[t])
        /\ Range(discovered'[t]) = Range(discovered[t]) \union {current[t]}
    BY <1>2, <2>1, <2>2, AppendOne
  <2>4. CallerTypes'
    BY <1>1, <1>2, <1>3, <1>6, <2>1, <2>3
       DEF DevicesInv, CallerTypes, Enumerating, Working, Destroying, To
  <2>5. OwnInv(t)'
    BY <1>1, <1>2, <1>3, <2>3 DEF OwnInv, Working, Destroying, Enumerating
  <2>6. ASSUME NEW p \in Objects
        PROVE  held'[p] + handles'[p] + Lists(t, p)' + Minds(t, p)'
             = held[p] + handles[p] + Lists(t, p) + Minds(t, p) + IF p = current[t] THEN 1 ELSE 0
    <3>1. /\ held[p] \in Nat /\ handles[p] \in Nat /\ held' = held /\ handles' = handles
          /\ Lists(t, p) \in {0, 1} /\ Minds(t, p) \in {0, 1}
      BY <1>1 DEF DevicesInv, ObjectTypes, Lists, Minds
    <3>2. Minds(t, p)' = Minds(t, p)
      BY <1>1, <1>3 DEF Minds
    <3>3. Lists(t, p)' = Lists(t, p) + IF p = current[t] THEN 1 ELSE 0
      BY <2>2, <2>3 DEF Lists
    <3> QED
      BY <3>1, <3>2, <3>3
  <2>7. \A u \in Callers \ {t} :
          UNCHANGED <<step[u], visited[u], current[u], fresh[u], discovered[u]>>
    BY <1>3, <2>1
  <2>8. held' \in [Objects -> Nat] /\ handles' \in [Objects -> Nat]
    BY <1>1 DEF DevicesInv, ObjectTypes
  <2>9. step[t] \notin {"init", "drop"}
    BY <1>1
  <2> QED
    BY <1>1, <1>2, <1>4, <1>6, <2>4, <2>5, <2>6, <2>7, <2>8, <2>9, RefStep
<1> QED
  BY <1>5, <1>6 DEF AppendDevice

LEMMA DropKeeps ==
  ASSUME DevicesInv, NEW t \in Callers, DropFresh(t)
  PROVE  DevicesInv'
<1> DEFINE o == current[t]
<1>1. /\ step[t] = "drop" /\ step[t] \in Enumerating /\ OwnInv(t)
      /\ UnrefDevice(t, o, "destroy", "scan") /\ fresh' = [fresh EXCEPT ![t] = FALSE]
      /\ UNCHANGED <<devs, session, ready, used, visited, current, discovered, held, handles>>
  BY DEF DropFresh, At, Enumerating, DevicesInv, holderVars
<1>2. /\ fresh[t] /\ IsInjective(discovered[t])
      /\ \A p \in Range(discovered[t]) : session[p] \in visited[t] /\ ready[p]
  BY <1>1 DEF OwnInv
<1>3. o \in Objects /\ used[o] /\ refcnt[o] > 0 /\ refcnt[o] \in Nat
  BY <1>1, WorkersCount DEF DevicesInv, ObjectTypes
<1> HIDE DEF o
<1>4. /\ step'[t] = (IF refcnt'[o] = 0 THEN "destroy" ELSE "scan") /\ fresh'[t] = FALSE
      /\ step' = [step EXCEPT ![t] = IF refcnt'[o] = 0 THEN "destroy" ELSE "scan"]
      /\ \A u \in Callers \ {t} :
           UNCHANGED <<step[u], visited[u], current[u], fresh[u], discovered[u]>>
  BY <1>1 DEF UnrefDevice, To, DevicesInv, CallerTypes
<1>5. CallerTypes'
  BY <1>1, <1>3, <1>4 DEF DevicesInv, CallerTypes, Enumerating, Working, Destroying, o
<1>6. OwnInv(t)'
  BY <1>1, <1>2, <1>3, <1>4 DEF OwnInv, Working, Destroying, Enumerating, o
<1>7. ASSUME NEW p \in Objects
      PROVE  Lists(t, p) + Minds(t, p) = Lists(t, p)' + Minds(t, p)' + IF p = o THEN 1 ELSE 0
  BY <1>1, <1>2, <1>4 DEF Lists, Minds, o
<1>8. \A u \in Callers \ {t} : step[u] # "append"
  BY <1>1 DEF DevicesInv, SharedInv, Enumerating
<1>9. ~ready[o] => refcnt[o] = 1
  BY <1>1, UnreadyIsAlone DEF o
<1>10. "destroy" \in Destroying /\ "scan" \notin Destroying \union {"alloc"}
  BY DEF Destroying
<1>11. current'[t] = o /\ current[t] = o
  BY <1>1 DEF o
<1> QED
  BY <1>1, <1>3, <1>4, <1>5, <1>6, <1>7, <1>8, <1>9, <1>10, <1>11, UnrefStep

LEMMA DestroyKeeps ==
  ASSUME DevicesInv, NEW t \in Callers,
         DestroyFresh(t) \/ DestroyDiscovered(t) \/ DestroyHeld(t)
  PROVE  DevicesInv'
<1>1. UNCHANGED <<visited, current, fresh, discovered, held, handles>>
  BY DEF DestroyFresh, DestroyDiscovered, DestroyHeld, holderVars
<1>2. CASE DestroyFresh(t)
  <2>1. step[t] = "destroy" /\ DestroyDevice(t, current[t], "scan")
    BY <1>2 DEF DestroyFresh, At
  <2> QED
    BY <1>1, <2>1, DestroyStep DEF Destroying, Enumerating
<1>3. CASE DestroyDiscovered(t)
  <2>1. step[t] = "destroy found" /\ DestroyDevice(t, current[t], "free")
    BY <1>3 DEF DestroyDiscovered, At
  <2> QED
    BY <1>1, <2>1, DestroyStep DEF Destroying, Enumerating
<1>4. CASE DestroyHeld(t)
  <2>1. step[t] = "destroy held" /\ DestroyDevice(t, current[t], "idle")
    BY <1>4 DEF DestroyHeld, At
  <2> QED
    BY <1>1, <2>1, DestroyStep DEF Destroying, Enumerating
<1> QED
  BY <1>2, <1>3, <1>4

LEMMA EndScanKeeps ==
  ASSUME DevicesInv, NEW t \in Callers, EndScan(t)
  PROVE  DevicesInv'
<1>1. /\ step[t] = "scan" /\ step[t] \in Enumerating /\ OwnInv(t) /\ To(t, "free")
      /\ UNCHANGED <<devs, session, ready, used, visited, current, fresh, discovered, handles>>
  BY DEF EndScan, At, Enumerating, DevicesInv
<1>2. /\ step'[t] = "free"
      /\ \A u \in Callers \ {t} :
           UNCHANGED <<step[u], visited[u], current[u], fresh[u], discovered[u]>>
  BY <1>1 DEF DevicesInv, CallerTypes, To
<1>3. CallerTypes'
  BY <1>1, <1>2 DEF DevicesInv, CallerTypes, Enumerating, Working, Destroying, To
<1>4. OwnInv(t)'
  BY <1>1, <1>2 DEF OwnInv, Working, Destroying, Enumerating
<1>5. step'[t] \notin Destroying \union {"alloc"}
  BY <1>2 DEF Destroying
<1>6. CASE UNCHANGED <<refcnt, held>>
  <2>1. CountsWell(t)
    BY <1>1, <1>2, <1>6 DEF CountsWell, Count, Lists, Minds
  <2>2. /\ ObjectTypes' /\ UNCHANGED objectVars
        /\ \A o \in Objects : held'[o] + handles'[o] > 0 => ready[o]
    BY <1>1, <1>6 DEF DevicesInv, ObjectTypes, CountedInv, objectVars
  <2> QED
    BY <1>1, <1>2, <1>3, <1>4, <1>5, <2>1, <2>2, ObjectsKept
<1>7. CASE /\ refcnt' = [o \in Objects |-> IF o \in Range(discovered[t]) THEN refcnt[o] + 1
                                                                       ELSE refcnt[o]]
           /\ held' = [o \in Objects |-> IF o \in Range(discovered[t]) THEN held[o] + 1 ELSE held[o]]
  <2>1. /\ ObjectTypes' /\ refcnt \in [Objects -> Nat] /\ held \in [Objects -> Nat]
    BY <1>1, <1>7 DEF DevicesInv, ObjectTypes
  <2>2. /\ \A o \in Objects : refcnt[o] > 0 => refcnt'[o] > 0
        /\ \A o \in Objects : o \notin Range(discovered[t]) =>
             refcnt'[o] = refcnt[o] /\ held'[o] = held[o]
    BY <1>7, <2>1
  <2>3. \A o \in Range(discovered[t]) : o \in Objects /\ used[o] /\ ready[o] /\ refcnt[o] > 0
    <3>1. \A o \in Range(discovered[t]) : o \in Objects /\ ready[o]
      BY <1>1, RangeOfSeq DEF DevicesInv, CallerTypes, OwnInv
    <3> QED
      BY <3>1, HoldersCount
  <2>4. CountsWell(t)
    <3> SUFFICES ASSUME NEW p \in Objects
                 PROVE  Count(p)' + (held[p] + handles[p] + Lists(t, p) + Minds(t, p))
                          = Count(p) + (held'[p] + handles'[p] + Lists(t, p)' + Minds(t, p)')
      BY DEF CountsWell
    <3>1. /\ held[p] \in Nat /\ handles[p] \in Nat /\ handles' = handles /\ Count(p) \in Nat
          /\ Lists(t, p) \in {0, 1} /\ Minds(t, p) \in {0, 1}
      BY <1>1 DEF DevicesInv, ObjectTypes, Count, Lists, Minds
    <3>2. Lists(t, p)' = Lists(t, p) /\ Minds(t, p)' = Minds(t, p)
      BY <1>1, <1>2 DEF Lists, Minds
    <3>3. CASE p \in Range(discovered[t])
      <4>1. Count(p)' = Count(p) + 1 /\ held'[p] = held[p] + 1
        BY <1>1, <1>7, <2>3, <3>3 DEF Count
      <4> QED
        BY <3>1, <3>2, <4>1
    <3>4. CASE p \notin Range(discovered[t])
      <4>1. Count(p)' = Count(p) /\ held'[p] = held[p]
        BY <1>1, <2>2, <3>4 DEF Count
      <4> QED
        BY <3>1, <3>2, <4>1
    <3> QED
      BY <3>3, <3>4
  <2>5. OthersKeep(t)
    <3>1. \A u \in Callers : step[u] \in Destroying =>
            used[current[u]] /\ refcnt[current[u]] = 0 /\ current[u] \in Objects
      BY DEF DevicesInv, OwnInv, Working, CallerTypes
    <3>2. \A u \in Callers : step[u] = "append" => refcnt[current[u]] > 0 /\ current[u] \in Objects
      BY DEF DevicesInv, OwnInv, Working, CallerTypes
    <3>3. \A u \in Callers : step[u] \in Destroying => refcnt'[current[u]] = 0
      BY <2>2, <2>3, <3>1
    <3> QED
      BY <1>1, <1>2, <2>2, <3>1, <3>2, <3>3 DEF OthersKeep
  <2>6. ListedOnce'
    <3>1. \A u \in Callers : step'[u] = "alloc" => step[u] = "alloc"
      BY <1>2
    <3> QED
      BY <1>1, <3>1 DEF DevicesInv, ListedOnce
  <2>7. \A o \in Objects : held'[o] + handles'[o] > 0 => ready'[o]
    BY <1>1, <2>2, <2>3 DEF DevicesInv, CountedInv
  <2>8. \A o \in Range(devs') : used'[o]
    BY <1>1 DEF DevicesInv, SharedInv
  <2>9. \A o \in Objects : used'[o] /\ refcnt'[o] > 0 /\ ~ready'[o] =>
          \/ step'[t] \in {"init", "drop"} /\ current'[t] = o
          \/ /\ used[o] /\ refcnt[o] > 0 /\ ~ready[o]
             /\ ~(step[t] \in {"init", "drop"} /\ current[t] = o)
    BY <1>1, <2>2, <2>3
  <2> QED
    BY <1>1, <1>3, <1>4, <1>5, <2>1, <2>4, <2>5, <2>6, <2>7, <2>8, <2>9, CallerStep
<1> QED
  BY <1>6, <1>7 DEF EndScan

(* The first of a list that has each once is not in the rest.              *)
LEMMA DropFirst ==
  ASSUME NEW S, NEW s \in Seq(S), s # <<>>, IsInjective(s)
  PROVE  /\ Tail(s) \in Seq(S) /\ IsInjective(Tail(s)) /\ Head(s) \in Range(s)
         /\ Range(Tail(s)) = Range(s) \ {Head(s)}
<1> DEFINE n == Len(s)
           p == Tail(s)
<1>1. n \in Nat /\ n # 0 /\ p \in Seq(S) /\ Len(p) = n - 1 /\ Head(s) = s[1]
      /\ \A i \in 1..(n - 1) : p[i] = s[i + 1]
  BY LenProperties, HeadTailProperties
<1>2. DOMAIN s = 1..n /\ DOMAIN p = 1..(n - 1)
  BY <1>1, LenProperties
<1> HIDE DEF n, p
<1>3. 1 \in 1..n /\ \A i \in 1..(n - 1) : i \in Nat /\ i + 1 \in 1..n /\ i + 1 # 1
  BY <1>1
<1>4. \A i \in 1..n : i = 1 \/ (i - 1 \in 1..(n - 1) /\ (i - 1) + 1 = i)
  BY <1>1
<1>5. IsInjective(p)
  <2> SUFFICES ASSUME NEW i \in DOMAIN p, NEW j \in DOMAIN p, p[i] = p[j] PROVE i = j
    BY DEF IsInjective
  <2>1. i + 1 = j + 1
    BY <1>1, <1>2, <1>3 DEF IsInjective
  <2> QED
    BY <1>2, <1>3, <2>1
<1>6. Range(p) = Range(s) \ {s[1]}
  <2>1. ASSUME NEW x \in Range(p) PROVE x \in Range(s) \ {s[1]}
    <3>1. PICK i \in DOMAIN p : x = p[i]
      BY DEF Range
    <3>2. x = s[i + 1] /\ i + 1 \in DOMAIN s /\ i + 1 # 1
      BY <1>1, <1>2, <1>3, <3>1
    <3> QED
      BY <1>2, <1>3, <3>2 DEF Range, IsInjective
  <2>2. ASSUME NEW x \in Range(s), x # s[1] PROVE x \in Range(p)
    <3>1. PICK i \in DOMAIN s : x = s[i]
      BY <2>2 DEF Range
    <3>2. i - 1 \in DOMAIN p /\ p[i - 1] = s[(i - 1) + 1] /\ (i - 1) + 1 = i
      BY <1>1, <1>2, <1>4, <2>2, <3>1
    <3> QED
      BY <3>1, <3>2 DEF Range
  <2> QED
    BY <2>1, <2>2
<1>7. s[1] \in Range(s)
  BY <1>2, <1>3 DEF Range
<1> QED
  BY <1>1, <1>5, <1>6, <1>7 DEF p

LEMMA FreeKeeps ==
  ASSUME DevicesInv, NEW t \in Callers, FreeDiscovered(t)
  PROVE  DevicesInv'
<1>1. /\ step[t] = "free" /\ step[t] \in Enumerating /\ OwnInv(t)
      /\ UNCHANGED <<devs, session, ready, used, fresh, held, handles>>
  BY DEF FreeDiscovered, At, Enumerating, DevicesInv, holderVars
<1>2. /\ ~fresh[t] /\ IsInjective(discovered[t]) /\ discovered[t] \in Seq(Objects)
      /\ \A o \in Range(discovered[t]) : session[o] \in visited[t] /\ ready[o]
  BY <1>1 DEF OwnInv, DevicesInv, CallerTypes
<1>3. \A o \in Objects : held'[o] + handles'[o] > 0 => ready[o]
  BY <1>1 DEF DevicesInv, CountedInv
<1>4. CASE /\ discovered[t] = <<>> /\ To(t, "idle") /\ visited' = [visited EXCEPT ![t] = {}]
           /\ current' = [current EXCEPT ![t] = 0] /\ UNCHANGED <<refcnt, discovered>>
  <2>1. /\ step'[t] = "idle" /\ current'[t] = 0
        /\ \A u \in Callers \ {t} :
             UNCHANGED <<step[u], visited[u], current[u], fresh[u], discovered[u]>>
    BY <1>1, <1>4 DEF DevicesInv, CallerTypes, To
  <2>2. CallerTypes'
    BY <1>1, <1>4, <2>1 DEF DevicesInv, CallerTypes, Enumerating, Working, Destroying, To
  <2>3. CountsWell(t)
    BY <1>1, <1>2, <1>4, <2>1 DEF CountsWell, Count, Lists, Minds
  <2>4. OwnInv(t)'
    BY <1>1, <1>2, <1>4, <2>1, EmptyRange DEF OwnInv, Working, Destroying, Enumerating
  <2>5. ObjectTypes' /\ UNCHANGED objectVars
    BY <1>1, <1>4 DEF DevicesInv, ObjectTypes, objectVars
  <2>6. step'[t] \notin Destroying \union {"alloc"}
    BY <2>1 DEF Destroying
  <2> QED
    BY <1>1, <1>3, <2>1, <2>2, <2>3, <2>4, <2>5, <2>6, ObjectsKept
<1>5. CASE /\ discovered[t] # <<>>
           /\ UnrefDevice(t, Head(discovered[t]), "destroy found", "free")
           /\ current' = [current EXCEPT ![t] = Head(discovered[t])]
           /\ discovered' = [discovered EXCEPT ![t] = Tail(discovered[t])] /\ UNCHANGED visited
  <2>12. PICK o : o = Head(discovered[t])
    OBVIOUS
  <2>1. /\ Tail(discovered[t]) \in Seq(Objects) /\ IsInjective(Tail(discovered[t]))
        /\ o \in Range(discovered[t])
        /\ Range(Tail(discovered[t])) = Range(discovered[t]) \ {o}
    BY <1>2, <1>5, <2>12, DropFirst
  <2>2. o \in Objects /\ used[o] /\ refcnt[o] > 0 /\ refcnt[o] \in Nat
    <3>1. o \in Objects
      BY <1>2, <2>1, RangeOfSeq
    <3> QED
      BY <2>1, <3>1, HoldersCount DEF DevicesInv, ObjectTypes
  <2>3. current' = [current EXCEPT ![t] = o] /\ UnrefDevice(t, o, "destroy found", "free")
    BY <1>5, <2>12
  <2>4. /\ step'[t] = (IF refcnt'[o] = 0 THEN "destroy found" ELSE "free")
        /\ step' = [step EXCEPT ![t] = IF refcnt'[o] = 0 THEN "destroy found" ELSE "free"]
        /\ current'[t] = o /\ discovered'[t] = Tail(discovered[t])
        /\ \A u \in Callers \ {t} :
             UNCHANGED <<step[u], visited[u], current[u], fresh[u], discovered[u]>>
    BY <1>1, <1>5, <2>3 DEF UnrefDevice, To, DevicesInv, CallerTypes
  <2>5. CallerTypes'
    BY <1>1, <1>5, <2>1, <2>2, <2>3, <2>4 DEF DevicesInv, CallerTypes, Enumerating, Working, Destroying
  <2>11. /\ Range(discovered'[t]) = Range(discovered[t]) \ {o} /\ IsInjective(discovered'[t])
         /\ step'[t] \in {"free", "destroy found"} /\ ~fresh'[t]
         /\ step'[t] = "destroy found" => refcnt'[o] = 0
    BY <1>1, <1>2, <2>1, <2>4
  <2>13. Range(discovered'[t]) = Range(discovered[t]) \ {o}
    BY <2>11
  <2>6. OwnInv(t)'
    <3>1. \A p \in Range(discovered'[t]) : session'[p] \in visited'[t] /\ ready'[p]
      BY <1>1, <1>2, <1>5, <2>11
    <3>2. used'[current'[t]] /\ current'[t] = o
      BY <1>1, <2>2, <2>4
    <3> QED
      BY <2>11, <3>1, <3>2 DEF OwnInv, Working, Destroying, Enumerating
  <2>7. ASSUME NEW p \in Objects
        PROVE  Lists(t, p) + Minds(t, p) = Lists(t, p)' + Minds(t, p)' + IF p = o THEN 1 ELSE 0
    <3>1. Minds(t, p) = 0 /\ Minds(t, p)' = 0
      BY <1>1, <1>2, <2>11 DEF Minds
    <3>2. /\ p \in Range(discovered[t]) => Lists(t, p) = 1
          /\ p \notin Range(discovered[t]) => Lists(t, p) = 0
          /\ p \in Range(discovered'[t]) => Lists(t, p)' = 1
          /\ p \notin Range(discovered'[t]) => Lists(t, p)' = 0
      BY DEF Lists
    <3>3. CASE p = o
      <4>1. Lists(t, p) = 1 /\ Lists(t, p)' = 0
        BY <2>1, <2>13, <3>2, <3>3
      <4> QED
        BY <3>1, <3>3, <4>1
    <3>4. CASE p # o
      <4>1. Lists(t, p)' = Lists(t, p) /\ Lists(t, p) \in Nat
        BY <2>13, <3>2, <3>4
      <4> QED
        BY <3>1, <3>4, <4>1
    <3> QED
      BY <3>3, <3>4
  <2>8. \A u \in Callers \ {t} : step[u] # "append"
    BY <1>1 DEF DevicesInv, SharedInv, Enumerating
  <2>9. "destroy found" \in Destroying /\ "free" \notin Destroying \union {"alloc"}
    BY DEF Destroying
  <2>10. step[t] \notin {"init", "drop"}
    BY <1>1
  <2> QED
    BY <1>1, <2>2, <2>3, <2>4, <2>5, <2>6, <2>7, <2>8, <2>9, <2>10, UnrefStep
<1> QED
  BY <1>4, <1>5 DEF FreeDiscovered

-----------------------------------------------------------------------------
LEMMA UnrefKeeps ==
  ASSUME DevicesInv, NEW t \in Callers, Unref(t),
         \/ refcnt[current[t]] > 1
         \/ \A u \in Callers : At(u, "append") => current[u] # current[t]
  PROVE  DevicesInv'
<1>12. PICK o : o = current[t]
  OBVIOUS
<1>1. /\ step[t] = "unref" /\ OwnInv(t) /\ UnrefDevice(t, o, "destroy held", "idle")
      /\ UNCHANGED <<devs, session, ready, used, visited, current, fresh, discovered, held, handles>>
      /\ refcnt[o] > 1 \/ \A u \in Callers : step[u] = "append" => current[u] # o
  BY <1>12 DEF Unref, At, DevicesInv, holderVars
<1>2. ~fresh[t] /\ discovered[t] = <<>>
  BY <1>1 DEF OwnInv, Enumerating
<1>3. o \in Objects /\ used[o] /\ refcnt[o] > 0 /\ refcnt[o] \in Nat
  BY <1>1, <1>12, WorkersCount DEF DevicesInv, ObjectTypes
<1>4. /\ step'[t] = (IF refcnt'[o] = 0 THEN "destroy held" ELSE "idle")
      /\ step' = [step EXCEPT ![t] = IF refcnt'[o] = 0 THEN "destroy held" ELSE "idle"]
      /\ \A u \in Callers \ {t} :
           UNCHANGED <<step[u], visited[u], current[u], fresh[u], discovered[u]>>
  BY <1>1 DEF UnrefDevice, To, DevicesInv, CallerTypes
<1>5. CallerTypes'
  BY <1>1, <1>3, <1>4, <1>12 DEF DevicesInv, CallerTypes, Enumerating, Working, Destroying
<1>11. /\ step'[t] \in {"destroy held", "idle"} /\ (step'[t] = "destroy held" => refcnt'[o] = 0)
       /\ current'[t] = o /\ ~fresh'[t] /\ discovered'[t] = <<>>
  <2>1. step'[t] \in {"destroy held", "idle"} /\ (step'[t] = "destroy held" => refcnt'[o] = 0)
    <3>1. step'[t] = (IF refcnt'[o] = 0 THEN "destroy held" ELSE "idle")
      BY <1>4, Zenon
    <3> QED
      BY <3>1
  <2>2. current' = current /\ fresh' = fresh /\ discovered' = discovered
    BY <1>1
  <2> QED
    BY <1>2, <2>1, <1>12, <2>2
<1>6. OwnInv(t)'
  <2>1. used'[o]
    BY <1>1, <1>3
  <2> QED
    BY <1>11, <2>1, EmptyRange DEF OwnInv, Working, Destroying, Enumerating
<1>7. ASSUME NEW p \in Objects
      PROVE  Lists(t, p) + Minds(t, p) = Lists(t, p)' + Minds(t, p)' + IF p = o THEN 1 ELSE 0
  <2>1. Lists(t, p) = 0 /\ Lists(t, p)' = 0
    BY <1>2, <1>11, EmptyRange DEF Lists
  <2>2. /\ p = o => Minds(t, p) = 1
        /\ p # o => Minds(t, p) = 0
        /\ Minds(t, p)' = 0
    BY <1>1, <1>11, <1>12 DEF Minds
  <2>3. CASE p = o
    BY <2>1, <2>2, <2>3
  <2>4. CASE p # o
    BY <2>1, <2>2, <2>4
  <2> QED
    BY <2>3, <2>4
<1>8. \A u \in Callers \ {t} : step[u] = "append" /\ current[u] = o => refcnt[o] > 1
  BY <1>1
<1>9. "destroy held" \in Destroying /\ "idle" \notin Destroying \union {"alloc"}
  BY DEF Destroying
<1>10. current'[t] = o /\ step'[t] \notin Enumerating /\ step[t] \notin {"init", "drop"}
  BY <1>1, <1>11 DEF Enumerating
<1> QED
  BY <1>1, <1>3, <1>4, <1>5, <1>6, <1>7, <1>8, <1>9, <1>10, UnrefStep

LEMMA RefHeldKeeps ==
  ASSUME DevicesInv, NEW o \in Objects, RefHeld(o)
  PROVE  DevicesInv'
<1>1. /\ Ref(o) /\ held' = [held EXCEPT ![o] = held[o] + 1] /\ held[o] > 0
      /\ UNCHANGED <<devs, session, ready, used, step, visited, current, fresh, discovered, handles>>
  <2>1. held[o] \in 1..(MaxHeld - 1) /\ MaxHeld \in Nat
    BY DevicesAssumption DEF RefHeld
  <2> QED
    BY <2>1 DEF RefHeld, callerVars
<1>2. PICK t \in Callers : TRUE
  BY DevicesAssumption
<1>3. held \in [Objects -> Nat] /\ handles \in [Objects -> Nat] /\ refcnt \in [Objects -> Nat]
  BY DEF DevicesInv, ObjectTypes
<1>4. used[o] /\ refcnt[o] > 0 /\ ready[o]
  <2>1. held[o] + handles[o] > 0
    BY <1>1, <1>3
  <2> QED
    BY <1>1, <2>1, HoldersCount DEF DevicesInv, CountedInv
<1>5. CallerTypes'
  BY <1>1 DEF DevicesInv, CallerTypes
<1>6. OwnInv(t)'
  <2>1. OwnInv(t)
    BY DEF DevicesInv
  <2>2. /\ step[t] = "append" => refcnt'[current[t]] > 0
        /\ step[t] \in Destroying => refcnt'[current[t]] = 0
    <3>1. step[t] \in {"append"} \union Destroying => current[t] \in Objects
      BY DEF DevicesInv, CallerTypes, Working
    <3>2. /\ \A p \in Objects \ {o} : refcnt'[p] = refcnt[p]
          /\ refcnt'[o] > 0
      BY <1>1, <1>3, <1>4 DEF Ref
    <3>3. /\ step[t] = "append" => refcnt[current[t]] > 0
          /\ step[t] \in Destroying => refcnt[current[t]] = 0
      BY <2>1 DEF OwnInv
    <3>4. CASE current[t] = o
      BY <1>4, <3>2, <3>3, <3>4
    <3>5. CASE current[t] # o
      BY <3>1, <3>2, <3>3, <3>5
    <3> QED
      BY <3>4, <3>5
  <2> QED
    BY <1>1, <2>1, <2>2 DEF OwnInv
<1>7. held' \in [Objects -> Nat] /\ handles' \in [Objects -> Nat]
  BY <1>1, <1>3
<1>8. \A p \in Objects : held'[p] + handles'[p] > 0 => ready[p]
  BY <1>1, <1>3, <1>4 DEF DevicesInv, CountedInv
<1>9. ASSUME NEW p \in Objects
      PROVE  held'[p] + handles'[p] + Lists(t, p)' + Minds(t, p)'
             = held[p] + handles[p] + Lists(t, p) + Minds(t, p) + IF p = o THEN 1 ELSE 0
  <2>1. Lists(t, p)' = Lists(t, p) /\ Minds(t, p)' = Minds(t, p)
    BY <1>1 DEF Lists, Minds
  <2>2. Lists(t, p) \in {0, 1} /\ Minds(t, p) \in {0, 1}
    BY DEF Lists, Minds
  <2>3. held'[p] = held[p] + (IF p = o THEN 1 ELSE 0) /\ handles'[p] = handles[p]
    BY <1>1, <1>3
  <2> QED
    BY <1>3, <2>1, <2>2, <2>3
<1> QED
  BY <1>1, <1>4, <1>5, <1>6, <1>7, <1>8, <1>9, RefStep

(* What the program does with an object it holds.                          *)
LEMMA UseKeeps ==
  ASSUME DevicesInv, NEW t \in Callers, NEW o \in Objects, UseObject(t, o)
  PROVE  DevicesInv'
<1>1. /\ step[t] = "idle" /\ OwnInv(t)
      /\ UNCHANGED <<devs, session, ready, used, visited, fresh, discovered>>
      /\ current' = [current EXCEPT ![t] = o]
      /\ held[o] > 0 \/ handles[o] > 0
  BY DEF UseObject, UnrefHeld, OpenRef, CloseDevice, At, DevicesInv, objectVars, holderVars
<1>2. ~fresh[t] /\ discovered[t] = <<>> /\ step[t] \notin Enumerating
  BY <1>1 DEF OwnInv, Enumerating
<1>3. held \in [Objects -> Nat] /\ handles \in [Objects -> Nat] /\ refcnt \in [Objects -> Nat]
  BY DEF DevicesInv, ObjectTypes
<1>4. used[o] /\ refcnt[o] > 0 /\ ready[o]
  <2>1. held[o] + handles[o] > 0
    BY <1>1, <1>3
  <2> QED
    BY <1>1, <2>1, HoldersCount DEF DevicesInv, CountedInv
<1>5. ASSUME NEW to \in {"unref", "open"}, To(t, to)
      PROVE  /\ step'[t] = to /\ current'[t] = o /\ CallerTypes' /\ OwnInv(t)'
             /\ \A u \in Callers \ {t} :
                  UNCHANGED <<step[u], visited[u], current[u], fresh[u], discovered[u]>>
             /\ step'[t] \notin Enumerating \union Destroying \union {"alloc", "init", "drop"}
             /\ \A p \in Objects : Lists(t, p)' = 0 /\ Lists(t, p) = 0 /\ Minds(t, p) = 0
             /\ \A p \in Objects : Minds(t, p)' = IF p = o THEN 1 ELSE 0
  <2>1. /\ step'[t] = to /\ current'[t] = o
        /\ \A u \in Callers \ {t} :
             UNCHANGED <<step[u], visited[u], current[u], fresh[u], discovered[u]>>
    BY <1>1, <1>5 DEF To, DevicesInv, CallerTypes
  <2>2. CallerTypes'
    BY <1>1, <1>5, <2>1 DEF DevicesInv, CallerTypes, Enumerating, Working, Destroying, To
  <2>3. OwnInv(t)'
    BY <1>1, <1>2, <1>4, <2>1, EmptyRange DEF OwnInv, Working, Destroying, Enumerating
  <2>4. step'[t] \notin Enumerating \union Destroying \union {"alloc", "init", "drop"}
    BY <2>1 DEF Enumerating, Destroying
  <2>5. \A p \in Objects : Lists(t, p)' = 0 /\ Lists(t, p) = 0 /\ Minds(t, p) = 0
    BY <1>1, <1>2, EmptyRange DEF Lists, Minds
  <2>6. \A p \in Objects : Minds(t, p)' = IF p = o THEN 1 ELSE 0
    BY <2>1 DEF Minds
  <2> QED
    BY <2>1, <2>2, <2>3, <2>4, <2>5, <2>6
<1>6. CASE OpenRef(t, o)
  <2>1. /\ To(t, "open") /\ Ref(o) /\ held' = held /\ handles' = handles
        /\ UNCHANGED <<devs, session, ready, used>>
    BY <1>6 DEF OpenRef, holderVars
  <2>2. \A p \in Objects : held'[p] + handles'[p] > 0 => ready[p]
    BY <2>1 DEF DevicesInv, CountedInv
  <2>3. ASSUME NEW p \in Objects
        PROVE  held'[p] + handles'[p] + Lists(t, p)' + Minds(t, p)'
             = held[p] + handles[p] + Lists(t, p) + Minds(t, p) + IF p = o THEN 1 ELSE 0
    BY <1>3, <1>5, <2>1
  <2>4. /\ step'[t] \notin Enumerating \union Destroying \union {"alloc", "init", "drop"}
        /\ CallerTypes' /\ OwnInv(t)'
        /\ \A u \in Callers \ {t} :
             UNCHANGED <<step[u], visited[u], current[u], fresh[u], discovered[u]>>
    BY <1>5, <2>1
  <2>5. step[t] \notin {"init", "drop"}
    BY <1>1
  <2> QED
    BY <1>3, <1>4, <2>1, <2>2, <2>3, <2>4, <2>5, RefStep
<1>7. CASE UnrefHeld(t, o) \/ CloseDevice(t, o)
  <2>1. /\ To(t, "unref") /\ UNCHANGED objectVars
        /\ \/ held[o] > 0 /\ held' = [held EXCEPT ![o] = held[o] - 1] /\ handles' = handles
           \/ handles[o] > 0 /\ handles' = [handles EXCEPT ![o] = handles[o] - 1] /\ held' = held
    BY <1>7 DEF UnrefHeld, CloseDevice
  <2>2. /\ held' \in [Objects -> Nat] /\ handles' \in [Objects -> Nat]
        /\ \A p \in Objects :
             held[p] + handles[p] = held'[p] + handles'[p] + IF p = o THEN 1 ELSE 0
    BY <1>3, <2>1
  <2>3. CountsWell(t)
    <3> SUFFICES ASSUME NEW p \in Objects
                 PROVE  Count(p)' + (held[p] + handles[p] + Lists(t, p) + Minds(t, p))
                          = Count(p) + (held'[p] + handles'[p] + Lists(t, p)' + Minds(t, p)')
      BY DEF CountsWell
    <3>1. Count(p)' = Count(p)
      BY <2>1 DEF Count, objectVars
    <3>2. /\ Lists(t, p)' = 0 /\ Lists(t, p) = 0 /\ Minds(t, p) = 0
          /\ Minds(t, p)' = IF p = o THEN 1 ELSE 0
      BY <1>5, <2>1
    <3> QED
      BY <1>3, <2>2, <3>1, <3>2
  <2>4. \A p \in Objects : held'[p] + handles'[p] > 0 => ready[p]
    BY <1>3, <2>2 DEF DevicesInv, CountedInv
  <2>5. ObjectTypes'
    BY <2>1, <2>2 DEF DevicesInv, ObjectTypes, objectVars
  <2>6. /\ step'[t] \notin Enumerating \union Destroying \union {"alloc", "init", "drop"}
        /\ CallerTypes' /\ OwnInv(t)'
        /\ \A u \in Callers \ {t} :
             UNCHANGED <<step[u], visited[u], current[u], fresh[u], discovered[u]>>
    BY <1>5, <2>1
  <2>7. step[t] \notin {"init", "drop"}
    BY <1>1
  <2> QED
    BY <2>1, <2>3, <2>4, <2>5, <2>6, <2>7, ObjectsKept
<1> QED
  BY <1>6, <1>7 DEF UseObject

LEMMA OpenKeeps ==
  ASSUME DevicesInv, NEW t \in Callers, OpenDevice(t)
  PROVE  DevicesInv'
<1>12. PICK o \in Objects : o = current[t]
  BY DEF OpenDevice, At, DevicesInv, CallerTypes, Working
<1>1. /\ step[t] = "open" /\ OwnInv(t) /\ UNCHANGED objectVars
      /\ UNCHANGED <<visited, current, fresh, discovered, held>>
      /\ \/ To(t, "idle") /\ handles' = [handles EXCEPT ![o] = handles[o] + 1]
         \/ To(t, "unref") /\ UNCHANGED handles
  BY <1>12 DEF OpenDevice, At, DevicesInv
<1>2. ~fresh[t] /\ discovered[t] = <<>>
  BY <1>1 DEF OwnInv, Enumerating
<1>3. used[o] /\ ready[o]
  BY <1>1, <1>12 DEF OwnInv, Working
<1>4. held \in [Objects -> Nat] /\ handles \in [Objects -> Nat]
  BY DEF DevicesInv, ObjectTypes
<1>5. handles' \in [Objects -> Nat] /\ \A p \in Objects \ {o} : handles'[p] = handles[p]
  BY <1>1, <1>4
<1>6. /\ step'[t] \in {"idle", "unref"}
      /\ \A u \in Callers \ {t} :
           UNCHANGED <<step[u], visited[u], current[u], fresh[u], discovered[u]>>
  BY <1>1 DEF To, DevicesInv, CallerTypes
<1>7. CallerTypes'
  BY <1>1, <1>6, <1>12 DEF DevicesInv, CallerTypes, Enumerating, Working, Destroying, To
<1>8. OwnInv(t)'
  BY <1>1, <1>2, <1>3, <1>6, <1>12, EmptyRange
     DEF OwnInv, Working, Destroying, Enumerating, objectVars
<1>9. ObjectTypes' /\ \A p \in Objects : held'[p] + handles'[p] > 0 => ready[p]
  BY <1>1, <1>3, <1>4, <1>5 DEF DevicesInv, ObjectTypes, CountedInv, objectVars
<1>10. CountsWell(t)
  <2> SUFFICES ASSUME NEW p \in Objects
               PROVE  Count(p)' + (held[p] + handles[p] + Lists(t, p) + Minds(t, p))
                        = Count(p) + (held'[p] + handles'[p] + Lists(t, p)' + Minds(t, p)')
    BY DEF CountsWell
  <2>1. Count(p)' = Count(p) /\ held'[p] = held[p]
    BY <1>1 DEF Count, objectVars
  <2>2. Lists(t, p) = 0 /\ Lists(t, p)' = 0
    BY <1>1, <1>2, EmptyRange DEF Lists
  <2>3. handles[p] + Minds(t, p) = handles'[p] + Minds(t, p)'
    <3>1. CASE To(t, "unref") /\ UNCHANGED handles
      <4>1. step'[t] = "unref"
        BY <3>1 DEF To, DevicesInv, CallerTypes
      <4> QED
        BY <1>1, <1>2, <3>1, <4>1 DEF Minds
    <3>2. CASE To(t, "idle") /\ handles' = [handles EXCEPT ![o] = handles[o] + 1]
      <4>1. step'[t] = "idle"
        BY <3>2 DEF To, DevicesInv, CallerTypes
      <4>2. /\ p = o => Minds(t, p) = 1
            /\ p # o => Minds(t, p) = 0
            /\ Minds(t, p)' = 0
        BY <1>1, <1>2, <1>12, <4>1 DEF Minds
      <4>3. /\ p = o => handles'[p] = handles[p] + 1
            /\ p # o => handles'[p] = handles[p]
        BY <1>4, <3>2
      <4> QED
        BY <1>4, <4>2, <4>3
    <3> QED
      BY <1>1, <3>1, <3>2
  <2>4. Minds(t, p) \in {0, 1} /\ Minds(t, p)' \in {0, 1} /\ held[p] \in Nat
        /\ handles[p] \in Nat /\ handles'[p] \in Nat
    BY <1>4, <1>5 DEF Minds
  <2> QED
    BY <2>1, <2>2, <2>3, <2>4
<1>11. /\ step'[t] \notin Enumerating \union Destroying \union {"alloc"}
       /\ step[t] \notin {"init", "drop"}
  BY <1>1, <1>6 DEF Enumerating, Destroying
<1> QED
  BY <1>1, <1>6, <1>7, <1>8, <1>9, <1>10, <1>11, ObjectsKept

-----------------------------------------------------------------------------
LEMMA DevicesInitOK ==
  ASSUME DevicesInit
  PROVE  DevicesInv
<1>1. /\ devs = <<>> /\ session \in [Objects -> Addresses]
      /\ refcnt = [o \in Objects |-> 0] /\ ready = [o \in Objects |-> FALSE]
      /\ used = [o \in Objects |-> FALSE] /\ step = [t \in Callers |-> "idle"]
      /\ visited = [t \in Callers |-> {}] /\ current = [t \in Callers |-> 0]
      /\ fresh = [t \in Callers |-> FALSE] /\ discovered = [t \in Callers |-> <<>>]
      /\ held = [o \in Objects |-> 0] /\ handles = [o \in Objects |-> 0]
  <2>1. (CHOOSE a \in Addresses : TRUE) \in Addresses
    BY DevicesAssumption
  <2> QED
    BY <2>1 DEF DevicesInit
<1>2. <<>> \in Seq(Objects)
  BY EmptySeq
<1>3. ObjectTypes
  BY <1>1, <1>2 DEF ObjectTypes
<1>4. CallerTypes
  BY <1>1, <1>2 DEF CallerTypes, Enumerating, Working, Destroying
<1>5. \A t \in Callers : OwnInv(t)
  BY <1>1, EmptyRange DEF OwnInv, Enumerating, Working, Destroying
<1>6. SharedInv
  BY <1>1, EmptyRange DEF SharedInv, Enumerating, Destroying
<1>7. ListedOnce
  BY <1>1, EmptyRange DEF ListedOnce
<1>8. CountedInv
  <2>1. ASSUME NEW o \in Objects PROVE References(o) = 0 /\ Count(o) = 0
    <3>1. Listing(o) = {}
      BY <1>1, EmptyRange DEF Listing
    <3>2. Minding(o) = {}
      BY <1>1 DEF Minding
    <3>3. Cardinality(Listing(o)) = 0 /\ Cardinality(Minding(o)) = 0
      BY <3>1, <3>2, FS_EmptySet
    <3>4. held[o] = 0 /\ handles[o] = 0 /\ Count(o) = 0
      BY <1>1 DEF Count
    <3>5. References(o) = held[o] + handles[o] + Cardinality(Listing(o)) + Cardinality(Minding(o))
      BY DEF References, Listing, Minding
    <3> QED
      BY <3>3, <3>4, <3>5
  <2>2. \A o \in Objects : held[o] + handles[o] = 0
    BY <1>1
  <2> QED
    BY <2>1, <2>2 DEF CountedInv
<1> QED
  BY <1>3, <1>4, <1>5, <1>6, <1>7, <1>8 DEF DevicesInv

LEMMA DevicesNextKeeps ==
  ASSUME DeviceRaces \subseteq {"no memory"}, DevicesInv, [DevicesNext]_deviceVars
  PROVE  DevicesInv'
<1>1. ASSUME UNCHANGED <<objectVars, callerVars, held, handles>> PROVE DevicesInv'
  <2>1. ObjectTypes' /\ CallerTypes' /\ SharedInv' /\ ListedOnce'
    BY <1>1 DEF DevicesInv, ObjectTypes, CallerTypes, SharedInv, ListedOnce, objectVars, callerVars
  <2>2. \A t \in Callers : OwnInv(t)'
    BY <1>1 DEF DevicesInv, OwnInv, objectVars, callerVars
  <2>3. CountedInv'
    BY <1>1 DEF DevicesInv, CountedInv, References, Count, objectVars, callerVars
  <2> QED
    BY <2>1, <2>2, <2>3 DEF DevicesInv
<1>2. ASSUME NEW t \in Callers, Enumerate(t) PROVE DevicesInv'
  BY <1>2, ListKeeps, ScanKeeps, AllocKeeps, InitializeKeeps, AppendKeeps, DropKeeps, DestroyKeeps,
     EndScanKeeps, FreeKeeps DEF Enumerate
<1>3. ASSUME NEW t \in Callers, Unref(t) PROVE DevicesInv'
  <2>1. \/ refcnt[current[t]] > 1
        \/ \A u \in Callers : At(u, "append") => current[u] # current[t]
    BY <1>3 DEF Unref
  <2> QED
    BY <1>3, <2>1, UnrefKeeps
<1>4. ASSUME NEW t \in Callers, DestroyHeld(t) \/ OpenDevice(t) PROVE DevicesInv'
  BY <1>4, DestroyKeeps, OpenKeeps
<1>5. ASSUME NEW t \in Callers, NEW o \in Objects, UseObject(t, o) PROVE DevicesInv'
  BY <1>5, UseKeeps
<1>6. ASSUME NEW o \in Objects, RefHeld(o) PROVE DevicesInv'
  BY <1>6, RefHeldKeeps
<1>7. ASSUME NEW a \in Addresses, Plug(a) PROVE DevicesInv'
  BY <1>1, <1>7 DEF Plug, holderVars
<1>8. CASE UNCHANGED deviceVars
  BY <1>1, <1>8 DEF deviceVars, holderVars
<1> QED
  BY <1>2, <1>3, <1>4, <1>5, <1>6, <1>7, <1>8 DEF DevicesNext

LEMMA ReferredToIsUsed ==
  ASSUME DevicesInv
  PROVE  HeldAreAlive
<1>1. \A o \in Objects : References(o) > 0 => used[o]
  BY DEF DevicesInv, CountedInv, Count
<1> QED
  BY <1>1 DEF HeldAreAlive, DevicesInv, CountedInv

LEMMA DevicesAreSound ==
  ASSUME DeviceRaces \subseteq {"no memory"}
  PROVE  DevicesSpec => []DevicesInv
<1>1. DevicesInit => DevicesInv
  BY DevicesInitOK
<1>2. DevicesInv /\ [DevicesNext]_deviceVars => DevicesInv'
  BY DevicesNextKeeps
<1> QED
  BY <1>1, <1>2, PTL DEF DevicesSpec

(* Whoever holds a reference to an object finds it allocated, and what the *)
(* program holds is initialized, as long as threads take turns to list     *)
(* devices and no last reference goes while an enumeration has looked the  *)
(* object up.  The code sees to neither: without that both fail.           *)
LEMMA HeldStayAlive ==
  ASSUME DeviceRaces \subseteq {"no memory"}
  PROVE  DevicesSpec => []HeldAreAlive
<1>1. DevicesInv => HeldAreAlive
  BY ReferredToIsUsed
<1> QED
  BY <1>1, DevicesAreSound, PTL

(* The count of an object is the number of references to it, with the same *)
(* reservation; a failure to open it with no memory does no harm.          *)
THEOREM CountsAreExact ==
  ASSUME DeviceRaces \subseteq {"no memory"}
  PROVE  DevicesSpec => []ReferencesCounted
<1>1. DevicesInv => ReferencesCounted
  BY DEF ReferencesCounted, DevicesInv, CountedInv, Count
<1> QED
  BY <1>1, DevicesAreSound, PTL

(* libusb_open() may fail after the backend has opened the device.         *)
MemoryLacks == "no memory" \in DeviceRaces

(* What of the types the proof above did not need, and that a handle has a *)
(* descriptor to close.                                                    *)
HoldersType ==
  /\ attached \subseteq Addresses
  /\ held \in [Objects -> 0..MaxHeld] /\ handles \in [Objects -> 0..MaxHeld]
  /\ descriptors \in [Objects -> Nat] /\ \A o \in Objects : handles[o] <= descriptors[o]
  /\ ~MemoryLacks => DescriptorsOwned

(* One object's counts change.                                             *)
LEMMA HolderChanges ==
  ASSUME HoldersType, NEW o \in Objects, NEW h \in 0..MaxHeld, NEW n \in 0..MaxHeld, NEW d \in Nat,
         held' = [held EXCEPT ![o] = h], handles' = [handles EXCEPT ![o] = n],
         descriptors' = [descriptors EXCEPT ![o] = d], n <= d,
         ~MemoryLacks /\ descriptors[o] = handles[o] => d = n, UNCHANGED attached
  PROVE  HoldersType'
<1>1. held' \in [Objects -> 0..MaxHeld] /\ handles' \in [Objects -> 0..MaxHeld]
  BY DEF HoldersType
<1>2. descriptors' \in [Objects -> Nat]
  BY DEF HoldersType
<1>3. \A p \in Objects : handles'[p] <= descriptors'[p]
  BY DEF HoldersType
<1>4. ~MemoryLacks => DescriptorsOwned'
  BY <1>1, <1>2 DEF HoldersType, DescriptorsOwned
<1> QED
  BY <1>1, <1>2, <1>3, <1>4 DEF HoldersType

LEMMA HoldersAre ==
  ASSUME HoldersType, NEW o \in Objects
  PROVE  /\ held[o] \in 0..MaxHeld /\ handles[o] \in 0..MaxHeld /\ descriptors[o] \in Nat
         /\ handles[o] <= descriptors[o] /\ MaxHeld \in Nat
         /\ held = [held EXCEPT ![o] = held[o]] /\ handles = [handles EXCEPT ![o] = handles[o]]
         /\ descriptors = [descriptors EXCEPT ![o] = descriptors[o]]
  BY DevicesAssumption DEF HoldersType

LEMMA HoldersStep ==
  ASSUME DevicesInv, HoldersType, [DevicesNext]_deviceVars
  PROVE  HoldersType'
<1>1. ASSUME UNCHANGED <<attached, held, handles, descriptors>> PROVE HoldersType'
  BY <1>1 DEF HoldersType, DescriptorsOwned
<1>2. ASSUME NEW t \in Callers, Enumerate(t) PROVE HoldersType'
  <2>1. CASE EndScan(t)
    <3>1. ASSUME NEW o \in Objects PROVE held'[o] \in 0..MaxHeld
      <4>1. held[o] \in 0..MaxHeld
        BY DEF HoldersType
      <4>2. o \in Range(discovered[t]) => held[o] < MaxHeld
        BY <2>1, EmptyRange DEF EndScan
      <4>3. PICK h : h = held[o]
        OBVIOUS
      <4>4. MaxHeld \in Nat
        BY DevicesAssumption
      <4>5. held'[o] = h \/ (held'[o] = h + 1 /\ o \in Range(discovered[t]))
        <5>1. CASE UNCHANGED held
          BY <4>3, <5>1
        <5>2. PICK R : R = Range(discovered[t])
          OBVIOUS
        <5>3. CASE held' = [p \in Objects |-> IF p \in R THEN held[p] + 1 ELSE held[p]]
          BY <4>3, <5>2, <5>3
        <5> QED
          BY <2>1, <5>1, <5>2, <5>3 DEF EndScan
      <4> QED
        BY <4>1, <4>2, <4>3, <4>4, <4>5
    <3>2. held' \in [Objects -> 0..MaxHeld]
      BY <2>1, <3>1 DEF EndScan, HoldersType
    <3> QED
      BY <2>1, <3>2 DEF EndScan, HoldersType, DescriptorsOwned
  <2>2. CASE ~EndScan(t)
    BY <1>1, <1>2, <2>2 DEF Enumerate, GetDeviceList, Scan, AllocDevice, InitializeDevice, AppendDevice,
       DropFresh, DestroyFresh, FreeDiscovered, DestroyDiscovered, holderVars
  <2> QED
    BY <2>1, <2>2
<1>3. ASSUME NEW t \in Callers, Unref(t) \/ DestroyHeld(t) PROVE HoldersType'
  BY <1>1, <1>3 DEF Unref, DestroyHeld, holderVars
<1>4. ASSUME NEW t \in Callers, OpenDevice(t) PROVE HoldersType'
  <2>1. PICK o : o = current[t]
    OBVIOUS
  <2>2. o \in Objects
    BY <1>4, <2>1 DEF OpenDevice, At, Working, DevicesInv, CallerTypes
  <2>3. PICK h, n, d : h = held[o] /\ n = handles[o] /\ d = descriptors[o]
    OBVIOUS
  <2>4. /\ h \in 0..MaxHeld /\ n \in 0..MaxHeld /\ d \in Nat /\ n <= d /\ MaxHeld \in Nat
        /\ held = [held EXCEPT ![o] = h] /\ handles = [handles EXCEPT ![o] = n]
    BY <2>2, <2>3, HoldersAre
  <2>5. UNCHANGED <<attached, held>>
    BY <1>4 DEF OpenDevice
  <2>6. CASE /\ n < MaxHeld /\ handles' = [handles EXCEPT ![o] = n + 1]
             /\ descriptors' = [descriptors EXCEPT ![o] = d + 1]
    <3>1. n + 1 \in 0..MaxHeld /\ d + 1 \in Nat /\ n + 1 <= d + 1 /\ (d = n => d + 1 = n + 1)
      BY <2>4, <2>6
    <3> QED
      BY <2>2, <2>3, <2>4, <2>5, <2>6, <3>1, HolderChanges
  <2>7. CASE UNCHANGED <<handles, descriptors>>
    BY <1>1, <2>5, <2>7
  <2>8. CASE /\ MemoryLacks /\ UNCHANGED handles
             /\ descriptors' = [descriptors EXCEPT ![o] = d + 1]
    <3>1. d + 1 \in Nat /\ n <= d + 1
      BY <2>4
    <3> QED
      BY <2>2, <2>3, <2>4, <2>5, <2>8, <3>1, HolderChanges
  <2> QED
    BY <1>4, <2>1, <2>3, <2>6, <2>7, <2>8 DEF OpenDevice, MemoryLacks
<1>5. ASSUME NEW t \in Callers, NEW o \in Objects, UseObject(t, o) PROVE HoldersType'
  <2>3. PICK h, n, d : h = held[o] /\ n = handles[o] /\ d = descriptors[o]
    OBVIOUS
  <2>4. /\ h \in 0..MaxHeld /\ n \in 0..MaxHeld /\ d \in Nat /\ n <= d /\ MaxHeld \in Nat
        /\ held = [held EXCEPT ![o] = h] /\ handles = [handles EXCEPT ![o] = n]
        /\ descriptors = [descriptors EXCEPT ![o] = d]
    BY <2>3, HoldersAre
  <2>5. CASE UnrefHeld(t, o)
    <3>1. h - 1 \in 0..MaxHeld
      BY <2>3, <2>4, <2>5 DEF UnrefHeld
    <3>2. /\ held' = [held EXCEPT ![o] = h - 1] /\ UNCHANGED <<attached, handles, descriptors>>
      BY <2>3, <2>5 DEF UnrefHeld
    <3> QED
      BY <2>3, <2>4, <3>1, <3>2, HolderChanges
  <2>6. CASE OpenRef(t, o)
    BY <1>1, <2>6 DEF OpenRef, holderVars
  <2>7. CASE CloseDevice(t, o)
    <3>1. n - 1 \in 0..MaxHeld /\ d - 1 \in Nat /\ n - 1 <= d - 1 /\ (d = n => d - 1 = n - 1)
      BY <2>3, <2>4, <2>7 DEF CloseDevice
    <3>2. /\ handles' = [handles EXCEPT ![o] = n - 1] /\ UNCHANGED <<attached, held>>
          /\ descriptors' = [descriptors EXCEPT ![o] = d - 1]
      BY <2>3, <2>7 DEF CloseDevice
    <3> QED
      BY <2>3, <2>4, <3>1, <3>2, HolderChanges
  <2> QED
    BY <1>5, <2>5, <2>6, <2>7 DEF UseObject
<1>6. ASSUME NEW o \in Objects, RefHeld(o) PROVE HoldersType'
  <2>3. PICK h, n, d : h = held[o] /\ n = handles[o] /\ d = descriptors[o]
    OBVIOUS
  <2>4. /\ h \in 0..MaxHeld /\ n \in 0..MaxHeld /\ d \in Nat /\ n <= d /\ MaxHeld \in Nat
        /\ handles = [handles EXCEPT ![o] = n] /\ descriptors = [descriptors EXCEPT ![o] = d]
    BY <2>3, HoldersAre
  <2>5. h + 1 \in 0..MaxHeld
    BY <1>6, <2>3, <2>4 DEF RefHeld
  <2>6. held' = [held EXCEPT ![o] = h + 1] /\ UNCHANGED <<attached, handles, descriptors>>
    BY <1>6, <2>3 DEF RefHeld
  <2> QED
    BY <2>3, <2>4, <2>5, <2>6, HolderChanges
<1>7. ASSUME NEW a \in Addresses, Plug(a) PROVE HoldersType'
  BY <1>7 DEF Plug, HoldersType, DescriptorsOwned, holderVars
<1>8. CASE UNCHANGED deviceVars
  BY <1>1, <1>8 DEF deviceVars, holderVars
<1> QED
  BY <1>2, <1>3, <1>4, <1>5, <1>6, <1>7, <1>8 DEF DevicesNext

LEMMA HoldersInit == DevicesInit => HoldersType
<1> SUFFICES ASSUME DevicesInit PROVE HoldersType
  OBVIOUS
<1>1. 0 \in 0..MaxHeld /\ 0 \in Nat
  BY DevicesAssumption
<1>2. held \in [Objects -> 0..MaxHeld] /\ handles \in [Objects -> 0..MaxHeld]
  BY <1>1 DEF DevicesInit
<1> QED
  BY <1>2 DEF DevicesInit, HoldersType, DescriptorsOwned

(* Under the same assumptions all keeps its type, and an open handle has a *)
(* file descriptor to close; no other descriptor stays open, unless there  *)
(* was no memory for the poll set in op_open().                            *)
THEOREM DevicesTyped ==
  ASSUME DeviceRaces \subseteq {"no memory"}
  PROVE  DevicesSpec => [](DevicesTypeOK /\ HoldersType)
<1>1. DevicesInit => HoldersType
  BY HoldersInit
<1>2. DevicesInv /\ HoldersType /\ [DevicesNext]_deviceVars => HoldersType'
  BY HoldersStep
<1>3. DevicesInv /\ HoldersType => DevicesTypeOK
  <2> SUFFICES ASSUME DevicesInv, HoldersType PROVE DevicesTypeOK
    OBVIOUS
  <2>1. Range(devs) \subseteq Objects /\ \A t \in Callers : Range(discovered[t]) \subseteq Objects
    BY RangeOfSeq DEF DevicesInv, ObjectTypes, CallerTypes
  <2> QED
    BY <2>1 DEF DevicesInv, ObjectTypes, CallerTypes, HoldersType, DevicesTypeOK
<1> QED
  BY <1>1, <1>2, <1>3, DevicesAreSound, PTL DEF DevicesSpec

-----------------------------------------------------------------------------
(* The active configuration of a device (ActiveConfig.tla)                 *)

(* No fault of ConfigFaults, and numbers that libusb's buffer has room for. *)
ConfigAssumed == ConfigFaults = {} /\ \A value \in Values : FitsBuffer(value)

(* Which sources are used follows from what the kernel offers.             *)
SourcesInv ==
  /\ kernel \in Kernels /\ active \in Values \union {0} /\ wanted \in Values \union {0}
  /\ known \in {"nothing", "sources", "device"} /\ asks \in {"number", "descriptor"}
  /\ reading \in {"idle", "value", "open", "size", "header", "rest"}
  /\ described => relate /\ kernel.descriptors \in {"active", "all"}
  /\ reading # "idle" => known = "device"
  /\ known = "device" => sysfsDir = relate
  /\ known = "nothing" => ~described

(* A copy is used only where nobody else chooses.                          *)
CopyInv == known = "device" /\ ~described => copy = active

(* The descriptors file is open while it is read.                          *)
OpenInv == openFiles = IF reading \in {"size", "header", "rest"} THEN 1 ELSE 0

(* What a call has read.                                                   *)
ReadingInv ==
  /\ reading # "idle" => active \in seen
  /\ reading = "value" => (described \/ asks = "number") /\ relate
  /\ reading \in {"open", "size", "header", "rest"} =>
       /\ described /\ wanted \in Values /\ wanted \in seen
       /\ kernel.descriptors = "active" => active = wanted

(* The descriptor it looks for is ahead.                                   *)
Ahead(n) ==
  /\ kernel.descriptors = "active" => n = 1
  /\ kernel.descriptors = "all" =>
       \E i \in 1..Len(ConfigValues) : i >= n /\ ConfigValues[i] = wanted

AheadInv ==
  /\ nth \in Nat \ {0}
  /\ reading = "value" => nth = 1
  /\ reading \in {"open", "size", "header", "rest"} => Ahead(nth)
  /\ reading = "rest" /\ kernel.descriptors = "all" => ConfigValues[nth] = wanted

AnswerInv ==
  reading = "idle" =>
    \/ answer = <<"none">>
    \/ answer = <<"not_found">> /\ 0 \in seen
    \/ \E value \in seen : answer = Config(value)

ActiveInv == SourcesInv /\ CopyInv /\ OpenInv /\ ReadingInv /\ AheadInv /\ AnswerInv

-----------------------------------------------------------------------------
LEMMA ConfigFacts ==
  /\ \A k \in Kernels : k.descriptors \in {"none", "active", "all"}
  /\ \A k \in Kernels : k.tree \in BOOLEAN /\ k.busnum \in BOOLEAN
  /\ DOMAIN ConfigValues = 1..Len(ConfigValues) /\ Len(ConfigValues) \in Nat \ {0}
  /\ Values = {ConfigValues[i] : i \in 1..Len(ConfigValues)}
  /\ 0 \notin Values
<1>1. /\ ConfigValues \in Seq(1..255) /\ ConfigValues # <<>>
      /\ Kernels \subseteq [tree : BOOLEAN, busnum : BOOLEAN, descriptors : {"none", "active", "all"}]
  BY KernelsAssumption
<1>2. DOMAIN ConfigValues = 1..Len(ConfigValues) /\ Len(ConfigValues) \in Nat \ {0}
  BY <1>1, LenProperties, EmptySeq
<1>3. \A i \in 1..Len(ConfigValues) : ConfigValues[i] \in 1..255
  BY <1>1, ElementOfSeq
<1>4. Values = {ConfigValues[i] : i \in 1..Len(ConfigValues)}
  BY <1>2 DEF Values, Range
<1>5. 0 \notin 1..255
  OBVIOUS
<1>6. 0 \notin Values
  BY <1>3, <1>4, <1>5
<1>7. \A k \in Kernels : /\ k.tree \in BOOLEAN /\ k.busnum \in BOOLEAN
                        /\ k.descriptors \in {"none", "active", "all"}
  BY <1>1
<1> QED
  BY <1>2, <1>4, <1>6, <1>7

LEMMA ActiveInitially ==
  ASSUME ActiveInit
  PROVE  ActiveInv
<1>1. SourcesInv /\ CopyInv /\ ReadingInv /\ AnswerInv
  BY DEF ActiveInit, SourcesInv, CopyInv, ReadingInv, AnswerInv
<1>2. OpenInv /\ AheadInv
  BY DEF ActiveInit, OpenInv, AheadInv
<1> QED
  BY <1>1, <1>2 DEF ActiveInv

(* What the sysfs file contains, if the sources are used.                  *)
LEMMA ContentsFacts ==
  ASSUME SourcesInv, ReadingInv, reading \in {"size", "header", "rest"}
  PROVE  /\ kernel.descriptors \in {"active", "all"}
         /\ kernel.descriptors = "all" => Contents = ConfigValues
         /\ kernel.descriptors = "active" => Contents = <<wanted>>
<1> USE DEF SourcesInv, ReadingInv
<1>1. active = 0 => kernel.descriptors # "active"
  BY ConfigFacts
<1> QED
  BY <1>1 DEF Contents

LEMMA SourcesStep ==
  ASSUME ConfigAssumed, ActiveInv, ActiveNext
  PROVE  SourcesInv' /\ CopyInv' /\ ReadingInv'
<1> USE ConfigFacts DEF ConfigAssumed, ActiveInv, SourcesInv, CopyInv, ReadingInv, sourceVars,
        callVars, Continue, Yield
<1>1. CASE OpInit
  BY <1>1 DEF OpInit, DescriptorsUsable
<1>2. CASE InitializeUsbfsDevice
  BY <1>2 DEF InitializeUsbfsDevice, CacheActiveConfig, ConfigAt
<1>3. ASSUME NEW v \in Values \union {0}, ChooseConfiguration(v)
      PROVE  SourcesInv' /\ CopyInv' /\ ReadingInv'
  BY <1>3 DEF ChooseConfiguration, CacheActiveConfig, ConfigAt
<1>4. ASSUME NEW v \in Values \union {0}, Reconfigure(v)
      PROVE  SourcesInv' /\ CopyInv' /\ ReadingInv'
  BY <1>4 DEF Reconfigure
<1>5. ASSUME NEW what \in {"number", "descriptor"}, GetActive(what)
      PROVE  SourcesInv' /\ CopyInv' /\ ReadingInv'
  BY <1>5 DEF GetActive
<1>6. CASE ReadValue
  <2>1. reading' = "idle" \/ (reading' = "open" /\ asks = "descriptor" /\ wanted' = active /\ active # 0)
    BY <1>6 DEF ReadValue
  <2>2. /\ UNCHANGED <<kernel, active, copy, relate, described, known, sysfsDir, asks, seen>>
        /\ wanted' \in {wanted, active}
    BY <1>6 DEF ReadValue
  <2> QED
    BY <1>6, <2>1, <2>2 DEF ReadValue
<1>7. CASE OpenDescriptors \/ CheckSize
  BY <1>7 DEF OpenDescriptors, CheckSize
<1>8. CASE ReadHeader \/ ReadRest
  BY <1>8 DEF ReadHeader, ReadRest
<1> QED
  BY <1>1, <1>2, <1>3, <1>4, <1>5, <1>6, <1>7, <1>8 DEF ActiveNext

(* The loop over the descriptors finds the one it looks for.               *)
LEMMA HeaderStep ==
  ASSUME ActiveInv, ReadHeader
  PROVE  /\ reading' \in {"header", "rest"} /\ openFiles' = openFiles
         /\ AheadInv'
<1>1. /\ kernel.descriptors \in {"active", "all"} /\ nth \in Nat \ {0} /\ Ahead(nth)
      /\ kernel.descriptors = "all" => Contents = ConfigValues
      /\ kernel.descriptors = "active" => Contents = <<wanted>>
  BY ContentsFacts DEF ReadHeader, ActiveInv, AheadInv
<1>2. UNCHANGED <<kernel, wanted, openFiles>>
  BY DEF ReadHeader, Continue, Yield, sourceVars
<1>3. ~(nth > Len(Contents))
  BY <1>1, ConfigFacts DEF Ahead
<1>4. IF Contents[nth] = wanted THEN nth' = nth /\ reading' = "rest"
      ELSE nth' = nth + 1 /\ reading' = "header"
  BY <1>3 DEF ReadHeader, Continue
<1>5. CASE Contents[nth] = wanted
  BY <1>1, <1>2, <1>4, <1>5 DEF AheadInv, Ahead
<1>6. CASE Contents[nth] # wanted
  <2>1. kernel.descriptors = "all"
    BY <1>1, <1>6 DEF Ahead
  <2>2. Ahead(nth + 1)
    BY <1>1, <1>6, <2>1, ConfigFacts DEF Ahead
  <2> QED
    BY <1>1, <1>2, <1>4, <1>6, <2>1, <2>2 DEF AheadInv, Ahead
<1> QED
  BY <1>2, <1>4, <1>5, <1>6

LEMMA OpenStep ==
  ASSUME ActiveInv, ActiveNext
  PROVE  OpenInv'
<1> USE DEF ActiveInv, OpenInv, sourceVars, callVars, Continue, Yield
<1>1. CASE OpInit \/ InitializeUsbfsDevice
  BY <1>1 DEF OpInit, InitializeUsbfsDevice, SourcesInv
<1>2. ASSUME NEW v \in Values \union {0}, ChooseConfiguration(v) \/ Reconfigure(v) PROVE OpenInv'
  BY <1>2 DEF ChooseConfiguration, Reconfigure
<1>3. ASSUME NEW what \in {"number", "descriptor"}, GetActive(what) PROVE OpenInv'
  BY <1>3 DEF GetActive
<1>4. CASE ReadValue
  BY <1>4 DEF ReadValue
<1>5. CASE OpenDescriptors \/ CheckSize
  BY <1>5 DEF OpenDescriptors, CheckSize
<1>6. CASE ReadHeader
  BY <1>6, HeaderStep DEF ReadHeader
<1>7. CASE ReadRest
  BY <1>7 DEF ReadRest
<1> QED
  BY <1>1, <1>2, <1>3, <1>4, <1>5, <1>6, <1>7 DEF ActiveNext

LEMMA AheadStep ==
  ASSUME ConfigAssumed, ActiveInv, ActiveNext
  PROVE  AheadInv'
<1> USE DEF ActiveInv, AheadInv, Ahead, sourceVars, callVars, Continue, Yield
<1>1. CASE OpInit \/ InitializeUsbfsDevice
  BY <1>1 DEF OpInit, InitializeUsbfsDevice, SourcesInv
<1>2. ASSUME NEW v \in Values \union {0}, ChooseConfiguration(v) PROVE AheadInv'
  BY <1>2 DEF ChooseConfiguration
<1>3. ASSUME NEW v \in Values \union {0}, Reconfigure(v) PROVE AheadInv'
  BY <1>3 DEF Reconfigure
<1>4. ASSUME NEW what \in {"number", "descriptor"}, GetActive(what) PROVE AheadInv'
  <2>1. nth' = 1 /\ reading' \in {"idle", "value"}
    BY <1>4 DEF GetActive
  <2> QED
    BY <2>1
<1>5. CASE ReadValue
  <2>1. nth' = nth /\ nth = 1 /\ kernel' = kernel
    BY <1>5 DEF ReadValue
  <2>2. reading' = "idle" \/ (reading' = "open" /\ wanted' \in Values)
    BY <1>5 DEF ReadValue, SourcesInv
  <2>3. wanted' \in Values => \E i \in 1..Len(ConfigValues) : i >= 1 /\ ConfigValues[i] = wanted'
    BY ConfigFacts
  <2> QED
    BY <2>1, <2>2, <2>3
<1>6. CASE OpenDescriptors \/ CheckSize
  <2>1. nth' = nth /\ wanted' = wanted /\ kernel' = kernel
    BY <1>6 DEF OpenDescriptors, CheckSize
  <2>2. reading \in {"open", "size"} /\ reading' \in {"size", "header", "idle"}
    BY <1>6 DEF OpenDescriptors, CheckSize
  <2> QED
    BY <2>1, <2>2
<1>7. CASE ReadHeader
  BY <1>7, HeaderStep
<1>8. CASE ReadRest
  BY <1>8 DEF ReadRest
<1> QED
  BY <1>1, <1>2, <1>3, <1>4, <1>5, <1>6, <1>7, <1>8 DEF ActiveNext

LEMMA AnswerStep ==
  ASSUME ConfigAssumed, ActiveInv, ActiveNext
  PROVE  AnswerInv'
<1> USE DEF ActiveInv, AnswerInv, sourceVars, callVars, Continue, Yield
<1>1. CASE OpInit \/ InitializeUsbfsDevice
  BY <1>1 DEF OpInit, InitializeUsbfsDevice, SourcesInv
<1>2. ASSUME NEW v \in Values \union {0}, ChooseConfiguration(v) PROVE AnswerInv'
  BY <1>2 DEF ChooseConfiguration
<1>3. ASSUME NEW v \in Values \union {0}, Reconfigure(v) PROVE AnswerInv'
  BY <1>3 DEF Reconfigure
<1>4. ASSUME NEW what \in {"number", "descriptor"}, GetActive(what) PROVE AnswerInv'
  <2>1. /\ known = "device" /\ (what = "number" => relate) /\ seen' = {active}
        /\ IF what = "number" \/ described THEN reading' = "value"
           ELSE answer' = IF copy = 0 THEN <<"not_found">> ELSE Config(copy)
    BY <1>4 DEF GetActive
  <2> QED
    BY <2>1 DEF CopyInv
<1>5. CASE ReadValue
  <2>1. FitsBuffer(active) /\ sysfsDir
    BY <1>5 DEF ConfigAssumed, ReadValue, FitsBuffer, SourcesInv, ReadingInv
  <2>2. active \in seen
    BY <1>5 DEF ReadValue, ReadingInv
  <2>3. IF asks = "number" THEN answer' = Config(active)
        ELSE IF active = 0 THEN answer' = <<"not_found">> ELSE reading' = "open"
    BY <1>5, <2>1 DEF ReadValue
  <2>4. seen' = seen
    BY <1>5 DEF ReadValue
  <2> QED
    BY <2>2, <2>3, <2>4
<1>6. CASE OpenDescriptors
  BY <1>6 DEF OpenDescriptors
<1>7. CASE CheckSize
  <2>1. Contents = ConfigValues \/ Contents = <<wanted>>
    BY <1>7, ContentsFacts DEF CheckSize
  <2>3. ConfigValues # <<>>
    BY KernelsAssumption
  <2>4. Contents # <<>>
    BY <2>1, <2>3
  <2> QED
    BY <1>7, <2>4 DEF CheckSize
<1>8. CASE ReadHeader
  BY <1>8, HeaderStep
<1>9. CASE ReadRest
  <2>1. /\ nth \in DOMAIN Contents /\ ~(nth > Len(Contents)) /\ Contents[nth] = wanted
        /\ wanted \in seen
    <3>1. reading = "rest" /\ wanted \in seen
      BY <1>9 DEF ReadRest, ReadingInv
    <3>2. /\ kernel.descriptors \in {"active", "all"}
          /\ kernel.descriptors = "all" => Contents = ConfigValues
          /\ kernel.descriptors = "active" => Contents = <<wanted>>
      BY <3>1, ContentsFacts
    <3>3. /\ nth \in Nat \ {0} /\ Ahead(nth)
          /\ kernel.descriptors = "all" => ConfigValues[nth] = wanted
      BY <3>1 DEF AheadInv
    <3>4. CASE kernel.descriptors = "all"
      BY <3>1, <3>2, <3>3, <3>4, ConfigFacts DEF Ahead
    <3>5. CASE kernel.descriptors = "active"
      BY <3>1, <3>2, <3>3, <3>5 DEF Ahead
    <3> QED
      BY <3>2, <3>4, <3>5
  <2>2. answer' = Config(wanted) /\ seen' = seen
    BY <1>9, <2>1 DEF ReadRest
  <2> QED
    BY <2>1, <2>2
<1> QED
  BY <1>1, <1>2, <1>3, <1>4, <1>5, <1>6, <1>7, <1>8, <1>9 DEF ActiveNext

LEMMA ActiveStep ==
  ASSUME ConfigAssumed, ActiveInv, ActiveNext
  PROVE  ActiveInv'
BY SourcesStep, OpenStep, AheadStep, AnswerStep DEF ActiveInv

LEMMA ActiveImplied ==
  ASSUME ActiveInv
  PROVE  ActiveReported
<1> USE DEF ActiveInv, OpenInv, AnswerInv, ActiveReported, Config
<1>1. CASE reading = "idle" /\ answer = <<"none">>
  BY <1>1
<1>2. CASE reading = "idle" /\ answer = <<"not_found">> /\ 0 \in seen
  BY <1>2
<1>3. ASSUME reading = "idle", NEW value \in seen, answer = Config(value)
      PROVE  ActiveReported
  <2>1. openFiles = 0
    BY <1>3
  <2>2. answer \notin {<<"io">>, <<"torn">>} /\ answer # <<"not_found">> /\ answer[2] \in seen
    BY <1>3
  <2> QED
    BY <2>1, <2>2
<1> QED
  BY <1>1, <1>2, <1>3

(* When no call fails and the numbers of configurations have at most two   *)
(* digits: whatever the kernel offers, and though the configuration may    *)
(* change between two reads of sysfs, no call for the active configuration *)
(* fails or leaves a file open, and its answer was true during the call.   *)
THEOREM ActiveIsReported == ConfigAssumed => (ActiveSpec => []ActiveReported)
<1> SUFFICES ASSUME ConfigAssumed PROVE ActiveSpec => []ActiveReported
  OBVIOUS
<1>1. ActiveInit => ActiveInv
  BY ActiveInitially
<1>2. ActiveInv /\ [ActiveNext]_configAllVars => ActiveInv'
  <2>1. CASE ActiveNext
    BY <2>1, ActiveStep
  <2>2. CASE UNCHANGED configAllVars
    BY <2>2 DEF configAllVars, sourceVars, callVars, ActiveInv, SourcesInv, CopyInv, OpenInv,
       ReadingInv, AheadInv, Ahead, AnswerInv
  <2> QED
    BY <2>1, <2>2
<1>3. ActiveInv => ActiveReported
  BY ActiveImplied
<1> QED
  BY <1>1, <1>2, <1>3, PTL DEF ActiveSpec

(* The types, and that a file that is about to be closed is open.          *)
ActiveTypes == ActiveTypeOK /\ (reading \in {"size", "header", "rest"} => openFiles > 0)

LEMMA AnswerTypes ==
  /\ {<<"none">>, <<"not_found">>, <<"io">>, <<"torn">>} \subseteq PossibleAnswers
  /\ \A value \in Values \union {0} : Config(value) \in PossibleAnswers
  BY DEF PossibleAnswers

LEMMA CachedType ==
  ASSUME NEW value \in Values \union {0}, copy \in Values \union {0}, CacheActiveConfig(value)
  PROVE  copy' \in Values \union {0}
  BY DEF CacheActiveConfig

LEMMA ContentsLength ==
  ASSUME kernel \in Kernels
  PROVE  /\ Len(Contents) \in Nat /\ Len(Contents) <= Len(ConfigValues)
         /\ DOMAIN Contents = 1..Len(Contents)
<1>1. Len(ConfigValues) \in Nat \ {0} /\ DOMAIN ConfigValues = 1..Len(ConfigValues)
  BY ConfigFacts
<1>2. \/ Contents = ConfigValues \/ Contents = <<active>> \/ Contents = <<>>
  BY DEF Contents
<1>3. Len(<<active>>) = 1 /\ Len(<<>>) = 0 /\ DOMAIN <<active>> = 1..1 /\ DOMAIN <<>> = 1..0
  OBVIOUS
<1>4. CASE Contents = ConfigValues
  BY <1>1, <1>4
<1>5. CASE Contents = <<active>>
  BY <1>1, <1>3, <1>5
<1>6. CASE Contents = <<>>
  BY <1>1, <1>3, <1>6
<1> QED
  BY <1>2, <1>4, <1>5, <1>6

LEMMA SourceTypes ==
  ASSUME ActiveTypes, OpInit \/ InitializeUsbfsDevice
  PROVE  ActiveTypes'
<1>1. /\ UNCHANGED <<kernel, active, reading, asks, wanted, nth, openFiles, answer, seen>>
      /\ known' \in {"sources", "device"}
  BY DEF OpInit, InitializeUsbfsDevice, callVars
<1>2. relate' \in BOOLEAN /\ described' \in BOOLEAN
  <2>1. CASE OpInit
    <3>1. relate' \in BOOLEAN
      BY <2>1, Zenon DEF OpInit
    <3>2. described' \in BOOLEAN
      BY <2>1, Zenon DEF OpInit, DescriptorsUsable
    <3> QED
      BY <3>1, <3>2
  <2>2. CASE InitializeUsbfsDevice
    BY <2>2 DEF InitializeUsbfsDevice, ActiveTypes, ActiveTypeOK
  <2> QED
    BY <2>1, <2>2
<1>3. sysfsDir' \in BOOLEAN
  BY DEF OpInit, InitializeUsbfsDevice, ActiveTypes, ActiveTypeOK
<1>4. copy' \in Values \union {0}
  <2>1. copy \in Values \union {0} /\ active \in Values \union {0}
    BY DEF ActiveTypes, ActiveTypeOK
  <2>2. ConfigValues[1] \in Values
    <3>1. 1 \in 1..Len(ConfigValues)
      BY ConfigFacts
    <3> QED
      BY <3>1, ConfigFacts
  <2>3. copy' = copy \/ copy' = 0 \/ CacheActiveConfig(ConfigValues[1]) \/ CacheActiveConfig(active)
    BY DEF OpInit, InitializeUsbfsDevice
  <2> QED
    BY <2>1, <2>2, <2>3, CachedType
<1> QED
  BY <1>1, <1>2, <1>3, <1>4 DEF ActiveTypes, ActiveTypeOK

LEMMA ChoiceTypes ==
  ASSUME ActiveTypes, NEW value \in Values \union {0}, ChooseConfiguration(value) \/ Reconfigure(value)
  PROVE  ActiveTypes'
<1>1. UNCHANGED <<sourceVars, reading, asks, wanted, nth, openFiles>>
  BY DEF ChooseConfiguration, Reconfigure
<1>2. active' = value /\ answer' \in PossibleAnswers
  BY AnswerTypes DEF ChooseConfiguration, Reconfigure
<1>3. copy' \in Values \union {0}
  <2>1. copy' = copy \/ copy' = 0 \/ CacheActiveConfig(value)
    BY DEF ChooseConfiguration, Reconfigure
  <2> QED
    BY <2>1, CachedType DEF ActiveTypes, ActiveTypeOK
<1>4. seen' \subseteq Values \union {0}
  BY DEF ChooseConfiguration, Reconfigure, ActiveTypes, ActiveTypeOK
<1> QED
  BY <1>1, <1>2, <1>3, <1>4 DEF ActiveTypes, ActiveTypeOK, sourceVars

LEMMA ReadTypes ==
  ASSUME ActiveTypes,
         \/ \E what \in {"number", "descriptor"} : GetActive(what)
         \/ ReadValue \/ OpenDescriptors \/ CheckSize \/ ReadHeader \/ ReadRest
  PROVE  ActiveTypes'
<1>1. /\ active \in Values \union {0} /\ copy \in Values \union {0} /\ wanted \in Values \union {0}
      /\ nth \in 1..(Len(ConfigValues) + 1) /\ openFiles \in Nat /\ answer \in PossibleAnswers
      /\ reading \in {"size", "header", "rest"} => openFiles > 0
  BY DEF ActiveTypes, ActiveTypeOK
<1>2. UNCHANGED <<active, copy, sourceVars>>
  BY DEF GetActive, ReadValue, OpenDescriptors, CheckSize, ReadHeader, ReadRest, Yield, Continue
<1>3. /\ asks' \in {"number", "descriptor"} /\ seen' \subseteq Values \union {0}
      /\ reading' \in {"idle", "value", "open", "size", "header", "rest"}
  BY <1>1 DEF GetActive, ReadValue, OpenDescriptors, CheckSize, ReadHeader, ReadRest, Yield, Continue,
     ActiveTypes, ActiveTypeOK
<1>4. wanted' \in Values \union {0}
  BY <1>1 DEF GetActive, ReadValue, OpenDescriptors, CheckSize, ReadHeader, ReadRest
<1>5. answer' \in PossibleAnswers
  <2>1. CASE ReadRest
    <3>1. nth > Len(Contents) \/ nth \in DOMAIN Contents
      BY <1>1, ContentsLength, ConfigFacts DEF ActiveTypes, ActiveTypeOK
    <3> QED
      BY <1>1, <2>1, <3>1, AnswerTypes DEF ReadRest, Yield
  <2>2. CASE (\E what \in {"number", "descriptor"} : GetActive(what)) \/ ReadValue
    BY <1>1, <2>2, AnswerTypes DEF GetActive, ReadValue, Yield
  <2>3. CASE OpenDescriptors \/ CheckSize \/ ReadHeader
    BY <1>1, <2>3, AnswerTypes DEF OpenDescriptors, CheckSize, ReadHeader, Yield
  <2> QED
    BY <2>1, <2>2, <2>3
<1>6. nth' \in 1..(Len(ConfigValues) + 1)
  <2>1. /\ Len(Contents) \in Nat /\ Len(Contents) <= Len(ConfigValues) /\ Len(ConfigValues) \in Nat
    BY ContentsLength, ConfigFacts DEF ActiveTypes, ActiveTypeOK
  <2>2. nth' = nth \/ nth' = 1 \/ (~(nth > Len(Contents)) /\ nth' = nth + 1)
    BY DEF GetActive, ReadValue, OpenDescriptors, CheckSize, ReadHeader, ReadRest
  <2> QED
    BY <1>1, <2>1, <2>2
<1>7. openFiles' \in Nat /\ (reading' \in {"size", "header", "rest"} => openFiles' > 0)
  <2>1. CASE \E what \in {"number", "descriptor"} : GetActive(what)
    BY <1>1, <2>1 DEF GetActive
  <2>2. CASE ReadValue
    BY <1>1, <2>2 DEF ReadValue, Yield, Continue
  <2>3. CASE OpenDescriptors
    BY <1>1, <2>3 DEF OpenDescriptors
  <2>4. CASE CheckSize
    BY <1>1, <2>4 DEF CheckSize, Yield, Continue
  <2>5. CASE ReadHeader
    BY <1>1, <2>5 DEF ReadHeader
  <2>6. CASE ReadRest
    BY <1>1, <2>6 DEF ReadRest, Yield, Continue
  <2> QED
    BY <2>1, <2>2, <2>3, <2>4, <2>5, <2>6
<1> QED
  BY <1>2, <1>3, <1>4, <1>5, <1>6, <1>7 DEF ActiveTypes, ActiveTypeOK, sourceVars

(* With every fault all keeps its type: the copy is a configuration of the *)
(* device or none, no file is closed that is not open, and no descriptor   *)
(* is looked for more than one past the last.                              *)
THEOREM ActiveTyped == ActiveSpec => []ActiveTypeOK
<1>1. ActiveInit => ActiveTypes
  <2> SUFFICES ASSUME ActiveInit PROVE ActiveTypes
    OBVIOUS
  <2>1. relate \in BOOLEAN /\ described \in BOOLEAN /\ sysfsDir \in BOOLEAN
    BY Zenon DEF ActiveInit
  <2>2. nth \in 1..(Len(ConfigValues) + 1) /\ openFiles \in Nat
    BY ConfigFacts DEF ActiveInit
  <2> QED
    BY <2>1, <2>2, AnswerTypes DEF ActiveInit, ActiveTypes, ActiveTypeOK
<1>2. ActiveTypes /\ [ActiveNext]_configAllVars => ActiveTypes'
  <2>1. CASE ActiveNext
    BY <2>1, SourceTypes, ChoiceTypes, ReadTypes DEF ActiveNext
  <2>2. CASE UNCHANGED configAllVars
    BY <2>2 DEF configAllVars, sourceVars, callVars, ActiveTypes, ActiveTypeOK
  <2> QED
    BY <2>1, <2>2
<1>3. ActiveTypes => ActiveTypeOK
  BY DEF ActiveTypes
<1> QED
  BY <1>1, <1>2, <1>3, PTL DEF ActiveSpec

-----------------------------------------------------------------------------
(* Descriptors: what parsing a configuration allocates, freeing it finds.  *)
(*                                                                         *)
(* clear_configuration() walks from one block to the next, so a block is   *)
(* freed only if the blocks that lead to it are there.  LeakInv says that  *)
(* every block allocated so far is one it would find, and of the parser's  *)
(* place that the blocks and counts around it exist, so that what it       *)
(* allocates next is found too; a call may then fail anywhere.             *)

(* What clear_configuration() finds and frees, of blocks b with the counts *)
(* c of the settings of n interfaces.                                      *)
FoundIn(x, b, c, s) ==
  \/ x = <<"extra", s[1], s[2], 0>>
  \/ /\ <<"endpoints", s[1], s[2]>> \in b
     /\ x = <<"endpoints", s[1], s[2]>> \/ \E e \in 1..c[s] : x = <<"extra", s[1], s[2], e>>

FoundBlock(x, b, c, n) ==
  \/ x = <<"extra", 0, 0, 0>>
  \/ /\ <<"interfaces">> \in b
     /\ \/ x = <<"interfaces">>
        \/ \E i \in 1..n : /\ <<"settings", i>> \in b
                           /\ \/ x = <<"settings", i>>
                              \/ \E s \in DOMAIN c : s[1] = i /\ FoundIn(x, b, c, s)

(* Where the parser is, the blocks around it are there and their counts    *)
(* known, so that what it allocates next will be found.                    *)
AtSetting  == parsing \in {"endpoints", "endpoint", "alternate"} \/ (parsing = "skip" /\ level # "config")
AtEndpoint == parsing = "endpoint" \/ (parsing = "skip" /\ level = "endpoint")
Setting    == <<spot[1], spot[2]>>

PlaceInv ==
  /\ given \in Configurations /\ position \in Nat \ {0} /\ spot \in [1..3 -> Nat]
  /\ level \in {"config", "interface", "endpoint"}
  /\ \A s \in DOMAIN counts : counts[s] \in Nat
  /\ parsing \in {"next", "skip", "interface"} \/ AtSetting =>
       <<"interfaces">> \in blocks /\ spot[1] <= given.interfaces
  /\ parsing \in {"get", "length", "read", "configuration"} => spot[1] = 0
  /\ parsing = "skip" /\ level = "config" => spot[1] < given.interfaces
  /\ parsing = "interface" \/ AtSetting => spot[1] \in 1..given.interfaces
  /\ AtSetting => <<"settings", spot[1]>> \in blocks /\ Setting \in DOMAIN counts
  /\ AtEndpoint => /\ <<"endpoints", spot[1], spot[2]>> \in blocks
                   /\ spot[3] \in 1..counts[Setting]
  /\ parsing = "skip" /\ level = "interface" => spot[3] = 0

BlocksInv ==
  /\ parsing # "done" <=> ended = "none"
  /\ ended = "none" =>
       \A x \in blocks : x \in {<<"config">>, <<"buffer">>} \/ FoundBlock(x, blocks, counts, given.interfaces)

LeakInv == PlaceInv /\ BlocksInv /\ NothingLeaks

-----------------------------------------------------------------------------
LEMMA ClearFinds ==
  /\ \A x : x \in ClearConfiguration <=> FoundBlock(x, blocks, counts, given.interfaces)
  /\ \A x : x \in ClearConfiguration' <=> FoundBlock(x, blocks', counts', given'.interfaces)
<1>1. ASSUME NEW x
      PROVE  x \in ClearConfiguration <=> FoundBlock(x, blocks, counts, given.interfaces)
  <2>1. ASSUME NEW i
        PROVE  x \in ClearInterface(i) <=>
                 /\ <<"settings", i>> \in blocks
                 /\ \/ x = <<"settings", i>>
                    \/ \E s \in DOMAIN counts : s[1] = i /\ FoundIn(x, blocks, counts, s)
    BY DEF ClearInterface, ClearSettings, Alts, FoundIn
  <2> QED
    BY <2>1 DEF ClearConfiguration, FoundBlock
<1>2. ASSUME NEW x
      PROVE  x \in ClearConfiguration' <=> FoundBlock(x, blocks', counts', given'.interfaces)
  <2>1. ASSUME NEW i
        PROVE  x \in ClearInterface(i)' <=>
                 /\ <<"settings", i>> \in blocks'
                 /\ \/ x = <<"settings", i>>
                    \/ \E s \in DOMAIN counts' : s[1] = i /\ FoundIn(x, blocks', counts', s)
    BY DEF ClearInterface, ClearSettings, Alts, FoundIn
  <2> QED
    BY <2>1 DEF ClearConfiguration, FoundBlock
<1> QED
  BY <1>1, <1>2

(* More blocks and more settings: what was found is found.                 *)
LEMMA FoundStays ==
  ASSUME NEW x, NEW b, NEW c, NEW d, NEW a, NEW n, FoundBlock(x, b, c, n), b \subseteq d,
         \A s \in DOMAIN c : s \in DOMAIN a /\ a[s] = c[s]
  PROVE  FoundBlock(x, d, a, n)
<1>1. \A s \in DOMAIN c : FoundIn(x, b, c, s) => FoundIn(x, d, a, s)
  BY DEF FoundIn
<1> QED
  BY <1>1 DEF FoundBlock

(* A call that fails frees everything.                                     *)
LEMMA FailsCleanly ==
  ASSUME LeakInv, parsing # "done", NEW how \in {"error", "no_memory", "failed"}, Fails(how)
  PROVE  LeakInv'
<1>1. /\ blocks' = blocks \ (ClearConfiguration \union {<<"config">>, <<"buffer">>}) /\ ended' = how
      /\ parsing' = "done" /\ UNCHANGED <<given, level, position, spot, counts>>
  BY DEF Fails, Frees
<1>2. blocks' = {}
  BY <1>1, ClearFinds DEF LeakInv, BlocksInv
<1>3. PlaceInv'
  BY <1>1 DEF LeakInv, PlaceInv, AtSetting, AtEndpoint
<1>4. BlocksInv'
  BY <1>1 DEF BlocksInv
<1>5. NothingLeaks'
  BY <1>1, <1>2 DEF NothingLeaks
<1> QED
  BY <1>3, <1>4, <1>5 DEF LeakInv

(* The parser goes on, with a block more or without.                       *)
LEMMA GoesOn ==
  ASSUME LeakInv, parsing # "done", parsing' # "done", ended' = ended, given' = given,
         NEW more, blocks' = blocks \union more,
         \A x \in more : x \in {<<"config">>, <<"buffer">>} \/ FoundBlock(x, blocks', counts', given.interfaces),
         \A s \in DOMAIN counts : s \in DOMAIN counts' /\ counts'[s] = counts[s],
         PlaceInv'
  PROVE  LeakInv'
<1>1. ended = "none"
  BY DEF LeakInv, BlocksInv
<1>2. ASSUME NEW x \in blocks'
      PROVE  x \in {<<"config">>, <<"buffer">>} \/ FoundBlock(x, blocks', counts', given'.interfaces)
  <2>1. CASE x \in blocks
    BY <2>1, <1>1, FoundStays DEF LeakInv, BlocksInv
  <2> QED
    BY <2>1, <1>2
<1>3. BlocksInv' /\ NothingLeaks'
  BY <1>1, <1>2 DEF BlocksInv, NothingLeaks
<1> QED
  BY <1>3 DEF LeakInv

LEMMA GoesOnAsIs ==
  ASSUME LeakInv, parsing # "done", parsing' # "done", ended' = ended, given' = given,
         blocks' = blocks, counts' = counts, PlaceInv'
  PROVE  LeakInv'
<1> DEFINE none == {}
<1>1. blocks' = blocks \union none
  OBVIOUS
<1>2. \A x \in none : x \in {<<"config">>, <<"buffer">>} \/ FoundBlock(x, blocks', counts', given.interfaces)
  OBVIOUS
<1>3. \A s \in DOMAIN counts : s \in DOMAIN counts' /\ counts'[s] = counts[s]
  OBVIOUS
<1> HIDE DEF none
<1> QED
  BY <1>1, <1>2, <1>3, GoesOn

LEMMA HereIsDescriptor ==
  ASSUME PlaceInv, ConfigurationsAssumption
  PROVE  \A d \in Readable : d.endpoints \in Nat /\ Here.endpoints \in Nat
<1>1. ASSUME NEW d \in Readable
      PROVE  d.endpoints \in Nat
  <2>1. CASE position <= Len(given.list)
    <3> DEFINE D == [kind : Kinds, length : Nat, alternate : Nat, endpoints : Nat]
    <3>1. given.list \in Seq(D)
      BY DEF PlaceInv, ConfigurationsAssumption
    <3>2. position \in 1..Len(given.list)
      <4>1. Len(given.list) \in Nat
        <5> HIDE DEF D
        <5> QED
          BY <3>1
      <4> QED
        BY <4>1, <2>1 DEF PlaceInv
    <3>3. given.list[position] \in D
      <4> DEFINE l == given.list
      <4>1. l \in Seq(D) /\ position \in 1..Len(l)
        BY <3>1, <3>2
      <4> HIDE DEF D, l
      <4>2. l[position] \in D
        BY <4>1
      <4> QED
        BY <4>2 DEF l
    <3>4. d = given.list[position]
      BY <2>1, <3>2 DEF Readable
    <3> QED
      BY <3>3, <3>4
  <2>2. CASE ~(position <= Len(given.list))
    BY <2>2 DEF Readable, Behind
  <2> QED
    BY <2>1, <2>2
<1>2. Here \in Readable
  BY DEF Here, Readable
<1> QED
  BY <1>1, <1>2

-----------------------------------------------------------------------------
LEMMA ReadStep ==
  ASSUME LeakInv, ConfigurationsAssumption,
         GetConfigDescriptor \/ ReadLength \/ ReadDescriptors \/ ParseConfiguration
  PROVE  LeakInv'
<1>1. parsing # "done"
  BY DEF GetConfigDescriptor, ReadLength, ReadDescriptors, ParseConfiguration
<1>2. \/ Fails("no_memory") \/ Fails("failed") \/ Fails("error")
      \/ /\ parsing' \in {"length", "read", "configuration"} /\ ended' = ended
         /\ UNCHANGED <<given, level, position, spot, counts>>
         /\ blocks' \in {blocks, blocks \union {<<"config">>}, blocks \union {<<"buffer">>}}
      \/ /\ parsing = "configuration" /\ parsing' = "next" /\ ended' = ended
         /\ UNCHANGED <<given, level, position, spot, counts>>
         /\ blocks' = blocks \union {<<"interfaces">>}
  BY DEF GetConfigDescriptor, ReadLength, ReadDescriptors, ParseConfiguration, Allocates, BackendAnswers,
         Goes
<1>3. CASE /\ parsing' \in {"length", "read", "configuration"} /\ ended' = ended
           /\ UNCHANGED <<given, level, position, spot, counts>>
           /\ blocks' \in {blocks, blocks \union {<<"config">>}, blocks \union {<<"buffer">>}}
  <2>1. PICK more \in {{}, {<<"config">>}, {<<"buffer">>}} : blocks' = blocks \union more
    BY <1>3
  <2>2. PlaceInv'
    BY <1>2, <1>3 DEF LeakInv, PlaceInv, AtSetting, AtEndpoint, GetConfigDescriptor, ReadLength,
       ReadDescriptors, ParseConfiguration
  <2> QED
    BY <2>1, <2>2, <1>1, <1>3, GoesOn
<1>4. CASE /\ parsing = "configuration" /\ parsing' = "next" /\ ended' = ended
           /\ UNCHANGED <<given, level, position, spot, counts>>
           /\ blocks' = blocks \union {<<"interfaces">>}
  <2>1. given.interfaces \in Nat
    BY DEF LeakInv, PlaceInv, ConfigurationsAssumption
  <2>2. PlaceInv'
    BY <2>1, <1>4 DEF LeakInv, PlaceInv, AtSetting, AtEndpoint
  <2>3. FoundBlock(<<"interfaces">>, blocks', counts', given.interfaces)
    BY <1>4 DEF FoundBlock
  <2>4. \A x \in {<<"interfaces">>} :
          x \in {<<"config">>, <<"buffer">>} \/ FoundBlock(x, blocks', counts', given.interfaces)
    BY <2>3
  <2>5. \A s \in DOMAIN counts : s \in DOMAIN counts' /\ counts'[s] = counts[s]
    BY <1>4
  <2>6. parsing' # "done" /\ ended' = ended /\ given' = given
    BY <1>4
  <2>7. blocks' = blocks \union {<<"interfaces">>}
    BY <1>4
  <2> QED
    BY <2>2, <2>4, <2>5, <2>6, <2>7, <1>1, GoesOn
<1> QED
  BY <1>1, <1>2, <1>3, <1>4, FailsCleanly

LEMMA NextInterfaceStep ==
  ASSUME LeakInv, ConfigurationsAssumption, NextInterface
  PROVE  LeakInv'
<1>1. parsing = "next" /\ given.interfaces \in Nat /\ spot[1] \in Nat /\ spot[1] <= given.interfaces
  BY DEF LeakInv, PlaceInv, ConfigurationsAssumption, NextInterface
<1>2. CASE spot[1] = given.interfaces
  <2>1. /\ blocks' = blocks \ {<<"buffer">>} /\ ended' = "ok" /\ parsing' = "done"
        /\ UNCHANGED <<given, level, position, spot, counts>>
    BY <1>2 DEF NextInterface, Frees
  <2>2. PlaceInv'
    BY <2>1 DEF LeakInv, PlaceInv, AtSetting, AtEndpoint
  <2>3. ASSUME NEW x \in blocks', x # <<"config">>
        PROVE  FoundBlock(x, blocks', counts', given'.interfaces)
    <3>1. FoundBlock(x, blocks, counts, given.interfaces)
      BY <2>1, <2>3, <1>1 DEF LeakInv, BlocksInv
    <3>2. /\ <<"interfaces">> \in blocks => <<"interfaces">> \in blocks'
          /\ \A i : <<"settings", i>> \in blocks => <<"settings", i>> \in blocks'
          /\ \A i, j : <<"endpoints", i, j>> \in blocks => <<"endpoints", i, j>> \in blocks'
      BY <2>1
    <3> QED
      BY <3>1, <3>2, <2>1 DEF FoundBlock, FoundIn
  <2>4. BlocksInv' /\ NothingLeaks'
    BY <2>1, <2>3, ClearFinds DEF BlocksInv, NothingLeaks
  <2> QED
    BY <2>2, <2>4 DEF LeakInv
<1>3. CASE spot[1] # given.interfaces
  <2>1. /\ parsing' = "skip" /\ level' = "config"
        /\ UNCHANGED <<given, position, spot, counts, blocks, ended>>
    BY <1>3 DEF NextInterface
  <2>2. PlaceInv'
    BY <2>1, <1>1, <1>3 DEF LeakInv, PlaceInv, AtSetting, AtEndpoint
  <2>3. parsing # "done" /\ parsing' # "done"
    BY <2>1, <1>1
  <2> QED
    BY <2>1, <2>2, <2>3, GoesOnAsIs
<1> QED
  BY <1>2, <1>3

LEMMA SkipStep ==
  ASSUME LeakInv, ConfigurationsAssumption, SkipDescriptor
  PROVE  LeakInv'
<1>1. parsing = "skip"
  BY DEF SkipDescriptor
<1>2. CASE BadLength
  BY <1>1, <1>2, FailsCleanly DEF SkipDescriptor
<1>3. CASE ~BadLength
  <2>1. /\ position' = position + 1
        /\ UNCHANGED <<given, parsing, level, spot, counts, blocks, ended>>
    BY <1>3 DEF SkipDescriptor, Takes
  <2>2. PlaceInv'
    BY <2>1 DEF LeakInv, PlaceInv, AtSetting, AtEndpoint, Setting
  <2>3. parsing # "done" /\ parsing' # "done"
    BY <2>1, <1>1
  <2> QED
    BY <2>1, <2>2, <2>3, GoesOnAsIs
<1> QED
  BY <1>2, <1>3

(* Where the parser is after the descriptors that it skips.                *)
LEMMA AfterSkipIs ==
  ASSUME LeakInv, parsing = "skip", NEW p, p = AfterSkip,
         parsing' = p /\ UNCHANGED <<given, level, position, counts>>,
         blocks \subseteq blocks',
         spot' = CASE level = "config" -> <<spot[1] + 1, 0, 0>>
                   [] p = "endpoint" -> [spot EXCEPT ![3] = @ + 1]
                   [] OTHER -> spot,
         given.interfaces \in Nat
  PROVE  PlaceInv' /\ parsing' # "done"
<1>1. spot \in [1..3 -> Nat] /\ spot[1] \in Nat /\ spot[2] \in Nat /\ spot[3] \in Nat
  BY DEF LeakInv, PlaceInv
<1>2. CASE level = "config"
  <2>1. p = "interface"
    BY <1>2 DEF AfterSkip
  <2>2. spot' = <<spot[1] + 1, 0, 0>>
    BY <1>2, <2>1
  <2>3. spot' \in [1..3 -> Nat] /\ spot'[1] = spot[1] + 1
    BY <2>2, <1>1
  <2> QED
    BY <2>1, <2>3, <1>1, <1>2 DEF LeakInv, PlaceInv, AtSetting, AtEndpoint
<1>3. CASE level = "interface"
  <2>1. p = "endpoints"
    BY <1>3 DEF AfterSkip
  <2>2. spot' = spot
    BY <1>3, <2>1
  <2> QED
    BY <2>1, <2>2, <1>1, <1>3 DEF LeakInv, PlaceInv, AtSetting, AtEndpoint, Setting
<1>4. CASE level = "endpoint" /\ spot[3] < counts[Setting]
  <2>1. p = "endpoint"
    BY <1>4 DEF AfterSkip, Setting
  <2>2. spot' = [spot EXCEPT ![3] = @ + 1]
    BY <1>4, <2>1
  <2>3. spot' \in [1..3 -> Nat] /\ spot'[1] = spot[1] /\ spot'[2] = spot[2] /\ spot'[3] = spot[3] + 1
    BY <2>2, <1>1
  <2>4. counts[Setting] \in Nat
    BY <1>4 DEF LeakInv, PlaceInv, AtSetting
  <2> QED
    BY <2>1, <2>3, <2>4, <1>1, <1>4 DEF LeakInv, PlaceInv, AtSetting, AtEndpoint, Setting
<1>5. CASE level = "endpoint" /\ ~(spot[3] < counts[Setting])
  <2>1. p = "alternate"
    BY <1>5 DEF AfterSkip, Setting
  <2>2. spot' = spot
    BY <1>5, <2>1
  <2> QED
    BY <2>1, <2>2, <1>1, <1>5 DEF LeakInv, PlaceInv, AtSetting, AtEndpoint, Setting
<1> QED
  BY <1>2, <1>3, <1>4, <1>5 DEF LeakInv, PlaceInv

(* The block for the skipped descriptors is one that is found.             *)
LEMMA ExtraIsFound ==
  ASSUME LeakInv, parsing = "skip", NEW b, blocks \subseteq b, NEW p,
         p = (IF level = "config" THEN <<0, 0, 0>> ELSE spot)
  PROVE  FoundBlock(<<"extra", p[1], p[2], p[3]>>, b, counts, given.interfaces)
<1>1. CASE level = "config"
  BY <1>1 DEF FoundBlock
<1>2. CASE level = "interface"
  <2>1. p = spot /\ spot[3] = 0 /\ Setting \in DOMAIN counts /\ <<"settings", spot[1]>> \in b
        /\ <<"interfaces">> \in b /\ spot[1] \in 1..given.interfaces
    BY <1>2 DEF LeakInv, PlaceInv, AtSetting
  <2>2. Setting[1] = spot[1] /\ Setting[2] = spot[2]
    BY DEF Setting
  <2>3. FoundIn(<<"extra", p[1], p[2], p[3]>>, b, counts, Setting)
    BY <2>1, <2>2 DEF FoundIn
  <2> QED
    BY <2>1, <2>2, <2>3 DEF FoundBlock
<1>3. CASE level = "endpoint"
  <2>1. p = spot /\ Setting \in DOMAIN counts /\ <<"settings", spot[1]>> \in b
        /\ <<"interfaces">> \in b /\ spot[1] \in 1..given.interfaces
        /\ <<"endpoints", spot[1], spot[2]>> \in b /\ spot[3] \in 1..counts[Setting]
    BY <1>3 DEF LeakInv, PlaceInv, AtSetting, AtEndpoint
  <2>2. Setting[1] = spot[1] /\ Setting[2] = spot[2]
    BY DEF Setting
  <2>3. FoundIn(<<"extra", p[1], p[2], p[3]>>, b, counts, Setting)
    BY <2>1, <2>2 DEF FoundIn
  <2> QED
    BY <2>1, <2>2, <2>3 DEF FoundBlock
<1> QED
  BY <1>1, <1>2, <1>3 DEF LeakInv, PlaceInv

LEMMA StoreStep ==
  ASSUME LeakInv, ConfigurationsAssumption, StoreExtra
  PROVE  LeakInv'
<1> DEFINE p     == IF level = "config" THEN <<0, 0, 0>> ELSE spot
           block == <<"extra", p[1], p[2], p[3]>>
<1>1. parsing = "skip" /\ given.interfaces \in Nat
  BY DEF StoreExtra, LeakInv, PlaceInv, ConfigurationsAssumption
<1>2. \/ Fails("no_memory")
      \/ /\ blocks' \in {blocks, blocks \union {block}} /\ ended' = ended
         /\ parsing' = AfterSkip /\ UNCHANGED <<given, level, position, counts>>
         /\ spot' = CASE level = "config" -> <<spot[1] + 1, 0, 0>>
                      [] AfterSkip = "endpoint" -> [spot EXCEPT ![3] = @ + 1]
                      [] OTHER -> spot
  BY DEF StoreExtra, Allocates
<1>3. CASE /\ blocks' \in {blocks, blocks \union {block}} /\ ended' = ended
           /\ parsing' = AfterSkip /\ UNCHANGED <<given, level, position, counts>>
           /\ spot' = CASE level = "config" -> <<spot[1] + 1, 0, 0>>
                        [] AfterSkip = "endpoint" -> [spot EXCEPT ![3] = @ + 1]
                        [] OTHER -> spot
  <2>1. blocks \subseteq blocks'
    BY <1>3
  <2>2. PlaceInv' /\ parsing' # "done"
    BY <1>1, <1>3, <2>1, AfterSkipIs
  <2>3. FoundBlock(block, blocks', counts, given.interfaces)
    BY <1>1, <2>1, ExtraIsFound
  <2> HIDE DEF block
  <2>4. PICK more \in {{}, {block}} : blocks' = blocks \union more
    BY <1>3
  <2>5. \A x \in more :
          x \in {<<"config">>, <<"buffer">>} \/ FoundBlock(x, blocks', counts', given.interfaces)
    BY <2>3, <2>4, <1>3
  <2>6. \A s \in DOMAIN counts : s \in DOMAIN counts' /\ counts'[s] = counts[s]
    BY <1>3
  <2>7. parsing # "done" /\ ended' = ended /\ given' = given
    BY <1>1, <1>3
  <2> QED
    BY <2>2, <2>4, <2>5, <2>6, <2>7, GoesOn
<1> QED
  BY <1>1, <1>2, <1>3, FailsCleanly

(* "return parsed" of parse_interface().                                   *)
LEMMA ReturnStep ==
  ASSUME LeakInv, parsing = "interface" \/ AtSetting, ReturnsParsed, given.interfaces \in Nat
  PROVE  LeakInv'
<1>1. /\ parsing' = "next"
      /\ UNCHANGED <<given, level, position, spot, counts, blocks, ended>>
  BY DEF ReturnsParsed, Goes
<1>2. PlaceInv'
  BY <1>1 DEF LeakInv, PlaceInv, AtSetting, AtEndpoint
<1>3. parsing # "done" /\ parsing' # "done"
  BY <1>1 DEF AtSetting
<1> QED
  BY <1>1, <1>2, <1>3, GoesOnAsIs

LEMMA ParseInterfaceStep ==
  ASSUME LeakInv, ConfigurationsAssumption, ParseInterface
  PROVE  LeakInv'
<1> DEFINE at == <<spot[1], spot[2] + 1>>
<1>1. parsing = "interface" /\ given.interfaces \in Nat /\ spot \in [1..3 -> Nat]
      /\ spot[1] \in Nat /\ spot[2] \in Nat /\ position \in Nat \ {0}
  BY DEF ParseInterface, LeakInv, PlaceInv, ConfigurationsAssumption
<1>2. CASE left < InterfaceLength
  BY <1>1, <1>2, ReturnStep DEF ParseInterface
<1>3. CASE ~(left < InterfaceLength) /\ Fails("no_memory")
  BY <1>1, <1>3, FailsCleanly
<1>4. CASE ~(left < InterfaceLength) /\ ~Fails("no_memory")
  <2>1. /\ blocks' = blocks \union {<<"settings", spot[1]>>} /\ ended' = ended
        /\ position' = position + 1 /\ spot' = <<spot[1], spot[2] + 1, 0>>
        /\ counts' = [s \in DOMAIN counts \union {at} |->
                        IF s \in DOMAIN counts THEN counts[s] ELSE Here.endpoints]
        /\ parsing' = "skip" /\ level' = "interface" /\ given' = given
    BY <1>4 DEF ParseInterface, Allocates, Takes
  <2>2. /\ DOMAIN counts' = DOMAIN counts \union {at}
        /\ \A s \in DOMAIN counts : counts'[s] = counts[s]
        /\ at \notin DOMAIN counts => counts'[at] = Here.endpoints
    BY <2>1
  <2>3. Here.endpoints \in Nat
    <3>1. \E d \in Readable : TRUE
      BY DEF Readable
    <3> QED
      BY <3>1, HereIsDescriptor DEF LeakInv
  <2>4. \A s \in DOMAIN counts' : counts'[s] \in Nat
    BY <2>2, <2>3 DEF LeakInv, PlaceInv
  <2>5. /\ spot' \in [1..3 -> Nat] /\ spot'[1] = spot[1] /\ spot'[2] = spot[2] + 1 /\ spot'[3] = 0
    BY <2>1, <1>1
  <2>6. Setting' = at /\ Setting' \in DOMAIN counts'
    BY <2>2, <2>5 DEF Setting
  <2>7. <<"interfaces">> \in blocks /\ spot[1] \in 1..given.interfaces
    BY <1>1 DEF LeakInv, PlaceInv
  <2>8. <<"interfaces">> \in blocks' /\ <<"settings", spot'[1]>> \in blocks'
    BY <2>1, <2>5, <2>7
  <2>9. PlaceInv'
    <3>1. position' \in Nat \ {0} /\ given' \in Configurations
      BY <2>1, <1>1 DEF LeakInv, PlaceInv
    <3>2. ~AtEndpoint' /\ AtSetting'
      BY <2>1 DEF AtEndpoint, AtSetting
    <3>3. parsing' = "skip" /\ level' = "interface" /\ given'.interfaces = given.interfaces
      BY <2>1
    <3>4. spot'[1] \in 1..given'.interfaces /\ spot'[1] <= given'.interfaces
      BY <3>3, <2>5, <2>7, <1>1
    <3>5. spot' \in [1..3 -> Nat] /\ spot'[3] = 0 /\ Setting' \in DOMAIN counts'
      BY <2>5, <2>6
    <3> QED
      BY <3>1, <3>2, <3>3, <3>4, <3>5, <2>4, <2>8 DEF PlaceInv
  <2>10. FoundBlock(<<"settings", spot[1]>>, blocks', counts', given.interfaces)
    BY <2>7, <2>8, <2>5 DEF FoundBlock
  <2>11. \A x \in {<<"settings", spot[1]>>} :
           x \in {<<"config">>, <<"buffer">>} \/ FoundBlock(x, blocks', counts', given.interfaces)
    BY <2>10
  <2>12. \A s \in DOMAIN counts : s \in DOMAIN counts' /\ counts'[s] = counts[s]
    BY <2>2
  <2>13. parsing # "done" /\ parsing' # "done" /\ ended' = ended /\ given' = given
    BY <2>1, <1>1
  <2>14. blocks' = blocks \union {<<"settings", spot[1]>>}
    BY <2>1
  <2> QED
    BY <2>9, <2>11, <2>12, <2>13, <2>14, GoesOn
<1> QED
  BY <1>2, <1>3, <1>4

LEMMA ParseEndpointsStep ==
  ASSUME LeakInv, ConfigurationsAssumption, ParseEndpoints
  PROVE  LeakInv'
<1> DEFINE n == counts[<<spot[1], spot[2]>>]
<1>1. parsing = "endpoints" /\ AtSetting /\ parsing # "done" /\ given.interfaces \in Nat
      /\ MaxEndpoints \in Nat
  BY DEF ParseEndpoints, LeakInv, PlaceInv, ConfigurationsAssumption, AtSetting
<1>2. n \in Nat /\ Setting \in DOMAIN counts /\ <<"interfaces">> \in blocks
      /\ <<"settings", spot[1]>> \in blocks /\ spot[1] \in 1..given.interfaces
      /\ spot \in [1..3 -> Nat]
  BY <1>1 DEF LeakInv, PlaceInv, Setting
<1>3. CASE ReturnsParsed
  BY <1>1, <1>3, ReturnStep
<1>4. CASE Fails("error") \/ Fails("no_memory")
  BY <1>1, <1>4, FailsCleanly
<1>5. CASE Goes("alternate") /\ UNCHANGED <<blocks, ended>>
  <2>1. /\ parsing' = "alternate" /\ UNCHANGED <<given, level, position, spot, counts, blocks, ended>>
    BY <1>5 DEF Goes
  <2>2. PlaceInv'
    BY <2>1, <1>1, <1>2 DEF LeakInv, PlaceInv, AtSetting, AtEndpoint, Setting
  <2>3. parsing # "done" /\ parsing' # "done"
    BY <2>1, <1>1
  <2> QED
    BY <2>1, <2>2, <2>3, GoesOnAsIs
<1>6. CASE /\ n # 0 /\ blocks' = blocks \union {<<"endpoints", spot[1], spot[2]>>} /\ ended' = ended
           /\ parsing' = "endpoint" /\ spot' = [spot EXCEPT ![3] = 1]
           /\ UNCHANGED <<given, level, position, counts>>
  <2>1. /\ spot' \in [1..3 -> Nat] /\ spot'[1] = spot[1] /\ spot'[2] = spot[2] /\ spot'[3] = 1
    BY <1>2, <1>6
  <2>2. Setting' = Setting /\ n >= 1 /\ n = counts[Setting]
    BY <2>1, <1>2, <1>6 DEF Setting
  <2>3. PlaceInv'
    BY <2>1, <2>2, <1>2, <1>6 DEF LeakInv, PlaceInv, AtSetting, AtEndpoint
  <2>4. Setting[1] = spot[1] /\ Setting[2] = spot[2]
    BY DEF Setting
  <2>5. <<"interfaces">> \in blocks' /\ <<"settings", spot[1]>> \in blocks'
        /\ <<"endpoints", spot[1], spot[2]>> \in blocks' /\ Setting \in DOMAIN counts'
    BY <1>2, <1>6
  <2>6. FoundIn(<<"endpoints", spot[1], spot[2]>>, blocks', counts', Setting)
    BY <2>4, <2>5 DEF FoundIn
  <2>7. FoundBlock(<<"endpoints", spot[1], spot[2]>>, blocks', counts', given.interfaces)
    BY <2>4, <2>5, <2>6, <1>2 DEF FoundBlock
  <2>8. \A x \in {<<"endpoints", spot[1], spot[2]>>} :
          x \in {<<"config">>, <<"buffer">>} \/ FoundBlock(x, blocks', counts', given.interfaces)
    BY <2>7
  <2>9. \A s \in DOMAIN counts : s \in DOMAIN counts' /\ counts'[s] = counts[s]
    BY <1>6
  <2>10. parsing # "done" /\ parsing' # "done" /\ ended' = ended /\ given' = given
    BY <1>1, <1>6
  <2>11. blocks' = blocks \union {<<"endpoints", spot[1], spot[2]>>}
    BY <1>6
  <2> QED
    BY <2>3, <2>8, <2>9, <2>10, <2>11, GoesOn
<1>7. \/ ReturnsParsed \/ Fails("error") \/ Fails("no_memory")
      \/ Goes("alternate") /\ UNCHANGED <<blocks, ended>>
      \/ /\ n # 0 /\ blocks' = blocks \union {<<"endpoints", spot[1], spot[2]>>} /\ ended' = ended
         /\ parsing' = "endpoint" /\ spot' = [spot EXCEPT ![3] = 1]
         /\ UNCHANGED <<given, level, position, counts>>
  <2>1. CASE left >= HeaderLength /\ Here.kind = "config"
    BY <2>1 DEF ParseEndpoints
  <2>2. CASE ~(left >= HeaderLength /\ Here.kind = "config") /\ n > MaxEndpoints
    BY <2>2, <1>1, <1>2 DEF ParseEndpoints
  <2>3. CASE ~(left >= HeaderLength /\ Here.kind = "config") /\ ~(n > MaxEndpoints) /\ n = 0
    BY <2>3, <1>1, <1>2 DEF ParseEndpoints
  <2>4. CASE ~(left >= HeaderLength /\ Here.kind = "config") /\ ~(n > MaxEndpoints) /\ n # 0
    BY <2>4, <1>1, <1>2 DEF ParseEndpoints, Allocates
  <2> QED
    BY <2>1, <2>2, <2>3, <2>4
<1> QED
  BY <1>3, <1>4, <1>5, <1>6, <1>7

LEMMA ParseEndpointStep ==
  ASSUME LeakInv, ConfigurationsAssumption, ParseEndpoint
  PROVE  LeakInv'
<1>1. parsing = "endpoint" /\ AtSetting /\ AtEndpoint /\ parsing # "done" /\ given.interfaces \in Nat
  BY DEF ParseEndpoint, LeakInv, PlaceInv, ConfigurationsAssumption, AtSetting, AtEndpoint
<1>2. Setting \in DOMAIN counts /\ <<"interfaces">> \in blocks
      /\ <<"settings", spot[1]>> \in blocks /\ spot[1] \in 1..given.interfaces
      /\ <<"endpoints", spot[1], spot[2]>> \in blocks /\ spot[3] \in 1..counts[Setting]
      /\ spot \in [1..3 -> Nat] /\ counts[Setting] \in Nat
  BY <1>1 DEF LeakInv, PlaceInv
<1>3. CASE Fails("error")
  BY <1>1, <1>3, FailsCleanly
<1>4. CASE /\ \/ /\ spot[3] < counts[Setting] /\ spot' = [spot EXCEPT ![3] = @ + 1]
                 /\ parsing' = parsing
              \/ parsing' = "alternate" /\ spot' = spot
           /\ UNCHANGED <<given, level, position, counts, blocks, ended>>
  <2>1. /\ spot' \in [1..3 -> Nat] /\ spot'[1] = spot[1] /\ spot'[2] = spot[2]
        /\ parsing' = "endpoint" => spot'[3] \in 1..counts[Setting]
        /\ parsing' \in {"endpoint", "alternate"}
    BY <1>1, <1>2, <1>4
  <2>2. Setting' = Setting
    BY <2>1 DEF Setting
  <2>3. PlaceInv'
    BY <2>1, <2>2, <1>2, <1>4 DEF LeakInv, PlaceInv, AtSetting, AtEndpoint
  <2>4. parsing # "done" /\ parsing' # "done"
    BY <2>1, <1>1
  <2> QED
    BY <2>3, <2>4, <1>4, GoesOnAsIs
<1>5. CASE /\ parsing' = "skip" /\ level' = "endpoint" /\ position' = position + 1
           /\ UNCHANGED <<given, spot, counts, blocks, ended>>
  <2>1. Setting' = Setting
    BY <1>5 DEF Setting
  <2>2. PlaceInv'
    BY <2>1, <1>2, <1>5 DEF LeakInv, PlaceInv, AtSetting, AtEndpoint
  <2>3. parsing # "done" /\ parsing' # "done"
    BY <1>1, <1>5
  <2> QED
    BY <2>2, <2>3, <1>5, GoesOnAsIs
<1>6. \/ Fails("error")
      \/ /\ \/ /\ spot[3] < counts[Setting] /\ spot' = [spot EXCEPT ![3] = @ + 1]
               /\ parsing' = parsing
            \/ parsing' = "alternate" /\ spot' = spot
         /\ UNCHANGED <<given, level, position, counts, blocks, ended>>
      \/ /\ parsing' = "skip" /\ level' = "endpoint" /\ position' = position + 1
         /\ UNCHANGED <<given, spot, counts, blocks, ended>>
  BY DEF ParseEndpoint, Takes, Setting
<1> QED
  BY <1>3, <1>4, <1>5, <1>6

LEMMA ParseAlternateStep ==
  ASSUME LeakInv, ConfigurationsAssumption, ParseAlternate
  PROVE  LeakInv'
<1>1. parsing = "alternate" /\ AtSetting /\ parsing # "done" /\ given.interfaces \in Nat
  BY DEF ParseAlternate, LeakInv, PlaceInv, ConfigurationsAssumption, AtSetting
<1>2. CASE ReturnsParsed
  BY <1>1, <1>2, ReturnStep
<1>3. CASE Goes("interface") /\ UNCHANGED <<blocks, ended>>
  <2>1. /\ parsing' = "interface" /\ UNCHANGED <<given, level, position, spot, counts, blocks, ended>>
    BY <1>3 DEF Goes
  <2>2. PlaceInv'
    BY <2>1, <1>1 DEF LeakInv, PlaceInv, AtSetting, AtEndpoint, Setting
  <2>3. parsing # "done" /\ parsing' # "done"
    BY <2>1, <1>1
  <2> QED
    BY <2>1, <2>2, <2>3, GoesOnAsIs
<1> QED
  BY <1>2, <1>3 DEF ParseAlternate

LEMMA FreeStep ==
  ASSUME LeakInv, FreeConfigDescriptor
  PROVE  LeakInv'
<1>1. /\ ended = "ok" /\ blocks' = blocks \ (ClearConfiguration \union {<<"config">>})
      /\ ended' = "freed" /\ parsing' = "done" /\ UNCHANGED <<given, level, position, spot, counts>>
  BY DEF FreeConfigDescriptor, Frees
<1>2. blocks' = {}
  BY <1>1 DEF LeakInv, NothingLeaks
<1>3. PlaceInv'
  BY <1>1 DEF LeakInv, PlaceInv, AtSetting, AtEndpoint
<1> QED
  BY <1>1, <1>2, <1>3 DEF LeakInv, BlocksInv, NothingLeaks

LEMMA LeakStep ==
  ASSUME ConfigurationsAssumption, LeakInv, [DescNext]_descVars
  PROVE  LeakInv'
<1>1. CASE DescNext
  BY <1>1, ReadStep, NextInterfaceStep, SkipStep, StoreStep, ParseInterfaceStep, ParseEndpointsStep,
     ParseEndpointStep, ParseAlternateStep, FreeStep DEF DescNext
<1>2. CASE UNCHANGED descVars
  <2>1. UNCHANGED <<given, parsing, level, position, spot, counts, blocks, ended>>
    BY <1>2 DEF descVars, parseVars
  <2>2. PlaceInv'
    BY <2>1 DEF LeakInv, PlaceInv, AtSetting, AtEndpoint, Setting
  <2>3. \A x : FoundBlock(x, blocks', counts', given'.interfaces) <=> FoundBlock(x, blocks, counts, given.interfaces)
    BY <2>1
  <2>4. BlocksInv'
    BY <2>1, <2>3 DEF LeakInv, BlocksInv
  <2>5. ClearConfiguration' = ClearConfiguration
    BY <2>3, ClearFinds
  <2>6. NothingLeaks'
    BY <2>1, <2>5 DEF LeakInv, NothingLeaks
  <2> QED
    BY <2>2, <2>4, <2>6 DEF LeakInv
<1> QED
  BY <1>1, <1>2

-----------------------------------------------------------------------------
(* Descriptors: a well-formed configuration is parsed as it is meant.      *)
(*                                                                         *)
(* The bytes that are left are those of the descriptors that are not taken,*)
(* which takes an induction over the list; so the parser never stops early *)
(* or reads on behind it.  ParseInv counts: the spot of the parser is the  *)
(* number of interfaces, settings and endpoints taken, and what counts     *)
(* announce and WellFormed promises is still to come.                      *)
LEMMA ListIs ==
  ASSUME ConfigurationsAssumption, NEW c \in Configurations
  PROVE  /\ Len(c.list) \in Nat /\ DOMAIN c.list = 1..Len(c.list) /\ c.cut \in Nat /\ c.interfaces \in Nat
         /\ \A k \in 1..Len(c.list) :
              /\ c.list[k].kind \in Kinds /\ c.list[k].length \in Nat
              /\ c.list[k].alternate \in Nat /\ c.list[k].endpoints \in Nat
<1> DEFINE D == [kind : Kinds, length : Nat, alternate : Nat, endpoints : Nat]
<1>1. PICK l \in Seq(D) : l = c.list
  BY DEF ConfigurationsAssumption
<1>2. \A d \in D : d.kind \in Kinds /\ d.length \in Nat /\ d.alternate \in Nat /\ d.endpoints \in Nat
  OBVIOUS
<1> HIDE DEF D
<1>3. Len(l) \in Nat /\ DOMAIN l = 1..Len(l) /\ \A k \in 1..Len(l) : l[k] \in D
  OBVIOUS
<1>4. c.cut \in Nat /\ c.interfaces \in Nat
  BY DEF ConfigurationsAssumption
<1> QED
  BY <1>1, <1>2, <1>3, <1>4

(* There is a function as BytesOfLast says.                                *)
LEMMA BytesOfLastIs ==
  ASSUME ConfigurationsAssumption, NEW c \in Configurations
  PROVE  /\ BytesOfLast(c)[0] = 0
         /\ \A n \in 0..Len(c.list) : BytesOfLast(c)[n] \in Nat
         /\ \A n \in 1..Len(c.list) :
              BytesOfLast(c)[n] = BytesOfLast(c)[n - 1] + c.list[Len(c.list) - n + 1].length
<1> DEFINE N == Len(c.list)
           length(n) == c.list[Len(c.list) - n + 1].length
           Is(f, m) == f = [n \in 0..m |-> IF n = 0 THEN 0 ELSE f[n - 1] + length(n)]
           S == {m \in Nat : m <= N => \E f : Is(f, m)}
<1>1. N \in Nat
  BY ListIs
<1>2. \A n \in 1..N : length(n) \in Nat
  <2> SUFFICES ASSUME NEW n \in 1..N PROVE length(n) \in Nat
    OBVIOUS
  <2>1. Len(c.list) - n + 1 \in 1..Len(c.list)
    BY <1>1
  <2> QED
    BY <2>1, ListIs
<1>3. BytesOfLast(c) = CHOOSE f : Is(f, N)
  BY DEF BytesOfLast
<1> HIDE DEF N, length
<1>4. 0 \in S
  <2> DEFINE f == [n \in 0..0 |-> 0]
  <2>1. Is(f, 0)
    OBVIOUS
  <2> HIDE DEF f, Is
  <2> QED
    BY <2>1
<1>5. ASSUME NEW m \in Nat, m \in S PROVE m + 1 \in S
  <2>1. CASE m + 1 <= N
    <3>1. PICK f : Is(f, m)
      BY <1>5, <1>1, <2>1
    <3> DEFINE g == [n \in 0..(m + 1) |-> IF n = m + 1 THEN f[m] + length(m + 1) ELSE f[n]]
    <3>2. \A n \in 0..(m + 1) : n # 0 /\ n # m + 1 => g[n] = g[n - 1] + length(n)
      <4> SUFFICES ASSUME NEW n \in 0..(m + 1), n # 0, n # m + 1 PROVE g[n] = g[n - 1] + length(n)
        OBVIOUS
      <4>1. n \in 0..m /\ n - 1 \in 0..(m + 1) /\ n - 1 # m + 1
        OBVIOUS
      <4>2. g[n] = f[n] /\ g[n - 1] = f[n - 1]
        BY <4>1
      <4>3. f[n] = f[n - 1] + length(n)
        BY <3>1, <4>1
      <4> QED
        BY <4>2, <4>3
    <3>3. g[0] = 0
      <4>1. f[0] = 0
        BY <3>1
      <4> QED
        BY <4>1
    <3>4. g[m + 1] = g[(m + 1) - 1] + length(m + 1) /\ m + 1 # 0
      OBVIOUS
    <3>5. g = [n \in 0..(m + 1) |-> g[n]]
      OBVIOUS
    <3>6. Is(g, m + 1)
      <4> HIDE DEF g
      <4> QED
        BY <3>2, <3>3, <3>4, <3>5
    <3> HIDE DEF g, Is
    <3> QED
      BY <3>6
  <2>2. CASE ~(m + 1 <= N)
    BY <2>2
  <2> QED
    BY <2>1, <2>2
<1>6. N \in S
  <2> HIDE DEF S
  <2> QED
    BY <1>1, <1>4, <1>5, NaturalsInduct
<1>7. \E f : Is(f, N)
  <2> HIDE DEF Is
  <2> QED
    BY <1>6, <1>1
<1>8. Is(BytesOfLast(c), N)
  <2> HIDE DEF Is
  <2> QED
    BY <1>3, <1>7
<1> DEFINE b == BytesOfLast(c)
<1> HIDE DEF b
<1>9. b = [n \in 0..N |-> IF n = 0 THEN 0 ELSE b[n - 1] + length(n)]
  BY <1>8 DEF b
<1>10. b[0] = 0 /\ \A n \in 1..N : b[n] = b[n - 1] + length(n)
  <2>1. 0 \in 0..N /\ \A n \in 1..N : n \in 0..N /\ n # 0
    BY <1>1
  <2> QED
    BY <1>9, <2>1
<1>11. \A n \in 0..N : b[n] \in Nat
  <2> DEFINE T == {n \in Nat : n <= N => b[n] \in Nat}
  <2>1. 0 \in T
    BY <1>10
  <2>2. ASSUME NEW n \in Nat, n \in T PROVE n + 1 \in T
    <3>1. CASE n + 1 <= N
      <4>1. n + 1 \in 1..N /\ (n + 1) - 1 = n
        BY <3>1, <1>1
      <4>2. b[n + 1] = b[n] + length(n + 1) /\ length(n + 1) \in Nat /\ b[n] \in Nat
        BY <4>1, <1>10, <1>2, <2>2, <3>1, <1>1
      <4> QED
        BY <4>2
    <3> QED
      BY <3>1
  <2>3. \A n \in Nat : n \in T
    <3> HIDE DEF T
    <3> QED
      BY <2>1, <2>2, NaturalsInduct
  <2> QED
    BY <2>3, <1>1
<1> QED
  BY <1>10, <1>11 DEF b, N, length

(* One descriptor more.                                                    *)
LEMMA UpToNext ==
  ASSUME NEW S \in SUBSET (Nat \ {0}), NEW k \in Nat
  PROVE  /\ IsFiniteSet(UpTo(S, k)) /\ UpTo(S, k) \subseteq S
         /\ UpTo(S, k + 1) = IF k + 1 \in S THEN UpTo(S, k) \union {k + 1} ELSE UpTo(S, k)
         /\ LastUpTo(S, k) \in 0..k
         /\ \A y \in S : y <= k => y <= LastUpTo(S, k)
         /\ LastUpTo(S, k) # 0 => LastUpTo(S, k) \in S
         /\ LastUpTo(S, k + 1) = IF k + 1 \in S THEN k + 1 ELSE LastUpTo(S, k)
<1>0. \A n \in Nat : \A j : j \in UpTo(S, n) <=> j \in S /\ j \in 1..n
  <2> SUFFICES ASSUME NEW n \in Nat, NEW j PROVE j \in UpTo(S, n) <=> j \in S /\ j \in 1..n
    OBVIOUS
  <2>1. j \in S => j \in Nat /\ j # 0
    OBVIOUS
  <2> QED
    BY <2>1 DEF UpTo
<1>1. IsFiniteSet(UpTo(S, k))
  <2>1. UpTo(S, k) \in SUBSET (1..k)
    BY <1>0
  <2> QED
    BY <2>1, FS_Interval, FS_Subset
<1>2. UpTo(S, k + 1) = IF k + 1 \in S THEN UpTo(S, k) \union {k + 1} ELSE UpTo(S, k)
  <2>1. \A j \in S : j <= k + 1 <=> j <= k \/ j = k + 1
    OBVIOUS
  <2> QED
    BY <2>1 DEF UpTo
<1>3. ASSUME NEW n \in Nat
      PROVE  /\ LastUpTo(S, n) \in {0} \union UpTo(S, n)
             /\ \A y \in {0} \union UpTo(S, n) : y <= LastUpTo(S, n)
  <2> DEFINE T == {0} \union UpTo(S, n)
  <2>1. T \in SUBSET Nat /\ T # {} /\ \A y \in T : y <= n
    <3>1. \A y \in T : y = 0 \/ y \in 1..n
      BY <1>0
    <3>2. \A y \in T : y \in Nat /\ y <= n
      BY <3>1
    <3> QED
      BY <3>2
  <2> HIDE DEF T
  <2>2. Max(T) \in T /\ \A y \in T : y <= Max(T)
    BY <2>1, GreatestElement
  <2> QED
    BY <2>2 DEF T, LastUpTo
<1>4. /\ LastUpTo(S, k) \in 0..k
      /\ \A y \in S : y <= k => y <= LastUpTo(S, k)
      /\ LastUpTo(S, k) # 0 => LastUpTo(S, k) \in S
  <2> DEFINE l == LastUpTo(S, k)
  <2>1. l \in {0} \union UpTo(S, k) /\ \A y \in {0} \union UpTo(S, k) : y <= l
    BY <1>3
  <2> HIDE DEF l
  <2>2. l = 0 \/ (l \in S /\ l \in 1..k)
    BY <2>1, <1>0
  <2>3. \A y \in S : y <= k => y \in 1..k
    OBVIOUS
  <2>4. \A y \in S : y <= k => y \in UpTo(S, k)
    BY <2>3, <1>0
  <2>5. \A y \in S : y <= k => y <= l
    BY <2>1, <2>4
  <2> QED
    BY <2>2, <2>5 DEF l
<1>5. LastUpTo(S, k + 1) = IF k + 1 \in S THEN k + 1 ELSE LastUpTo(S, k)
  <2>1. CASE k + 1 \in S
    <3>1. LastUpTo(S, k + 1) <= k + 1 /\ k + 1 <= LastUpTo(S, k + 1) /\ LastUpTo(S, k + 1) \in Nat
      <4>1. k + 1 \in Nat /\ k + 1 \in UpTo(S, k + 1)
        BY <2>1, <1>2
      <4>2. LastUpTo(S, k + 1) \in {0} \union UpTo(S, k + 1) /\ k + 1 <= LastUpTo(S, k + 1)
        BY <4>1, <1>3
      <4>3. LastUpTo(S, k + 1) = 0 \/ LastUpTo(S, k + 1) \in 1..(k + 1)
        BY <4>1, <4>2, <1>0
      <4> QED
        BY <4>2, <4>3
    <3> QED
      BY <3>1, <2>1
  <2>2. CASE k + 1 \notin S
    BY <2>2, <1>2 DEF LastUpTo
  <2> QED
    BY <2>1, <2>2
<1>6. UpTo(S, k) \subseteq S
  BY DEF UpTo
<1> QED
  BY <1>1, <1>2, <1>4, <1>5, <1>6

(* How many they are, and of those from a place on.                        *)
LEMMA CountNext ==
  ASSUME NEW S \in SUBSET (Nat \ {0}), NEW k \in Nat, NEW a \in 0..(k + 1)
  PROVE  /\ k + 1 \in S => Cardinality({j \in UpTo(S, k + 1) : j >= a})
                              = Cardinality({j \in UpTo(S, k) : j >= a}) + 1
         /\ k + 1 \notin S => Cardinality({j \in UpTo(S, k + 1) : j >= a})
                                 = Cardinality({j \in UpTo(S, k) : j >= a})
<1> DEFINE C(n) == {j \in UpTo(S, n) : j >= a}
<1>1. IsFiniteSet(C(k)) /\ Cardinality(C(k)) \in Nat
  BY UpToNext, FS_Subset, FS_CardinalityType
<1>2. k + 1 \notin C(k)
  BY DEF UpTo
<1>3. C(k + 1) = IF k + 1 \in S THEN C(k) \union {k + 1} ELSE C(k)
  <2>1. UpTo(S, k + 1) = IF k + 1 \in S THEN UpTo(S, k) \union {k + 1} ELSE UpTo(S, k)
    BY UpToNext
  <2>2. k + 1 >= a
    OBVIOUS
  <2> QED
    BY <2>1, <2>2
<1>4. Cardinality(C(k) \union {k + 1}) = Cardinality(C(k)) + 1
  <2> HIDE DEF C
  <2> QED
    BY <1>1, <1>2, FS_AddElement
<1> QED
  BY <1>1, <1>3, <1>4

LEMMA PlacesAre ==
  ASSUME ConfigurationsAssumption, NEW c \in Configurations
  PROVE  /\ InterfacesOf(c) \in SUBSET (Nat \ {0}) /\ FirstsOf(c) \in SUBSET (Nat \ {0})
         /\ EndpointsOf(c) \in SUBSET (Nat \ {0}) /\ FirstsOf(c) \subseteq InterfacesOf(c)
         /\ \A k \in 1..Len(c.list) :
              /\ k \in InterfacesOf(c) <=> c.list[k].kind = "interface"
              /\ k \in FirstsOf(c) <=> c.list[k].kind = "interface" /\ c.list[k].alternate = 0
              /\ k \in EndpointsOf(c) <=> c.list[k].kind = "endpoint"
         /\ \A k : k \in InterfacesOf(c) \/ k \in EndpointsOf(c) => k \in 1..Len(c.list)
<1>1. Len(c.list) \in Nat /\ DOMAIN c.list = 1..Len(c.list)
  BY ListIs
<1> QED
  BY <1>1, SMTT(20) DEF InterfacesOf, FirstsOf, EndpointsOf

LEMMA BelongsNumbers ==
  ASSUME ConfigurationsAssumption, NEW c \in Configurations, NEW k \in Nat
  PROVE  InterfaceAt(c, k) \in Nat /\ AlternateAt(c, k) \in Nat /\ EndpointAt(c, k) \in Nat
<1>1. \A S \in SUBSET (Nat \ {0}) : IsFiniteSet(UpTo(S, k))
  BY UpToNext
<1>2. \A S \in SUBSET (Nat \ {0}) : \A b : IsFiniteSet({j \in UpTo(S, k) : j >= b})
  BY <1>1, FS_Subset
<1> QED
  BY <1>1, <1>2, PlacesAre, FS_CardinalityType, ZenonT(30) DEF InterfaceAt, AlternateAt, EndpointAt

(* Where the next descriptor belongs, by its kind.                         *)
LEMMA BelongsNext ==
  ASSUME ConfigurationsAssumption, NEW c \in Configurations, NEW k \in Nat, k < Len(c.list)
  PROVE  /\ c.list[k + 1].kind \notin {"interface", "endpoint"} =>
              /\ SettingAt(c, k + 1) = SettingAt(c, k) /\ InterfaceAt(c, k + 1) = InterfaceAt(c, k)
              /\ AlternateAt(c, k + 1) = AlternateAt(c, k) /\ EndpointAt(c, k + 1) = EndpointAt(c, k)
         /\ c.list[k + 1].kind = "endpoint" =>
              /\ SettingAt(c, k + 1) = SettingAt(c, k) /\ InterfaceAt(c, k + 1) = InterfaceAt(c, k)
              /\ AlternateAt(c, k + 1) = AlternateAt(c, k)
              /\ EndpointAt(c, k + 1) = EndpointAt(c, k) + 1
         /\ c.list[k + 1].kind = "interface" =>
              /\ SettingAt(c, k + 1) = k + 1 /\ EndpointAt(c, k + 1) = 0
              /\ c.list[k + 1].alternate # 0 => /\ InterfaceAt(c, k + 1) = InterfaceAt(c, k)
                                                /\ AlternateAt(c, k + 1) = AlternateAt(c, k) + 1
              /\ c.list[k + 1].alternate = 0 => /\ InterfaceAt(c, k + 1) = InterfaceAt(c, k) + 1
                                                /\ AlternateAt(c, k + 1) = 1
<1> DEFINE I == InterfacesOf(c)
           F == FirstsOf(c)
           E == EndpointsOf(c)
<1>1. /\ I \in SUBSET (Nat \ {0}) /\ F \in SUBSET (Nat \ {0}) /\ E \in SUBSET (Nat \ {0}) /\ F \subseteq I
      /\ k + 1 \in I <=> c.list[k + 1].kind = "interface"
      /\ k + 1 \in F <=> c.list[k + 1].kind = "interface" /\ c.list[k + 1].alternate = 0
      /\ k + 1 \in E <=> c.list[k + 1].kind = "endpoint"
  <2>1. k + 1 \in 1..Len(c.list)
    BY ListIs
  <2> QED
    BY <2>1, PlacesAre
<1> HIDE DEF I, F, E
<1>2. /\ SettingAt(c, k) \in 0..k /\ FirstAt(c, k) \in 0..k
      /\ SettingAt(c, k + 1) = IF k + 1 \in I THEN k + 1 ELSE SettingAt(c, k)
      /\ FirstAt(c, k + 1) = IF k + 1 \in F THEN k + 1 ELSE FirstAt(c, k)
  BY <1>1, UpToNext DEF SettingAt, FirstAt, I, F
<1>3. /\ k + 1 \in F => InterfaceAt(c, k + 1) = InterfaceAt(c, k) + 1
      /\ k + 1 \notin F => InterfaceAt(c, k + 1) = InterfaceAt(c, k)
  <2>1. \A n \in Nat : {j \in UpTo(F, n) : j >= 0} = UpTo(F, n)
    <3>1. \A j \in F : j \in Nat
      BY <1>1
    <3>2. \A n \in Nat : \A j \in UpTo(F, n) : j \in Nat
      BY <3>1 DEF UpTo
    <3>3. \A n \in Nat : \A j \in UpTo(F, n) : j >= 0
      BY <3>2
    <3> QED
      BY <3>3
  <2>2. k + 1 \in Nat
    OBVIOUS
  <2>3. /\ k + 1 \in F => Cardinality(UpTo(F, k + 1)) = Cardinality(UpTo(F, k)) + 1
        /\ k + 1 \notin F => Cardinality(UpTo(F, k + 1)) = Cardinality(UpTo(F, k))
    <3>1. 0 \in 0..(k + 1)
      OBVIOUS
    <3> DEFINE C(n) == {j \in UpTo(F, n) : j >= 0}
    <3>2. /\ k + 1 \in F => Cardinality(C(k + 1)) = Cardinality(C(k)) + 1
          /\ k + 1 \notin F => Cardinality(C(k + 1)) = Cardinality(C(k))
      BY <3>1, <1>1, CountNext
    <3>3. C(k) = UpTo(F, k) /\ C(k + 1) = UpTo(F, k + 1)
      BY <2>1, <2>2
    <3> HIDE DEF C
    <3> QED
      BY <3>2, <3>3
  <2> QED
    BY <2>3 DEF InterfaceAt, F
<1> DEFINE SettingsFrom(a, n) == Cardinality({j \in UpTo(I, n) : j >= a})
           EndpointsFrom(a, n) == Cardinality({j \in UpTo(E, n) : j >= a})
<1>4. ASSUME NEW a \in 0..(k + 1)
      PROVE  /\ (k + 1 \in I => SettingsFrom(a, k + 1) = SettingsFrom(a, k) + 1)
             /\ (k + 1 \notin I => SettingsFrom(a, k + 1) = SettingsFrom(a, k))
             /\ (k + 1 \in E => EndpointsFrom(a, k + 1) = EndpointsFrom(a, k) + 1)
             /\ (k + 1 \notin E => EndpointsFrom(a, k + 1) = EndpointsFrom(a, k))
  <2>0. I \in SUBSET (Nat \ {0}) /\ E \in SUBSET (Nat \ {0})
    BY <1>1
  <2>1. (k + 1 \in I => SettingsFrom(a, k + 1) = SettingsFrom(a, k) + 1)
        /\ (k + 1 \notin I => SettingsFrom(a, k + 1) = SettingsFrom(a, k))
    BY <2>0, CountNext
  <2>2. (k + 1 \in E => EndpointsFrom(a, k + 1) = EndpointsFrom(a, k) + 1)
        /\ (k + 1 \notin E => EndpointsFrom(a, k + 1) = EndpointsFrom(a, k))
    BY <2>0, CountNext
  <2> QED
    BY <2>1, <2>2
<1>5. SettingsFrom(k + 1, k) = 0 /\ EndpointsFrom(k + 1, k) = 0
  <2>1. {j \in UpTo(I, k) : j >= k + 1} = {} /\ {j \in UpTo(E, k) : j >= k + 1} = {}
    <3>1. \A j \in I \union E : j \in Nat
      BY <1>1
    <3>2. \A j \in I \union E : ~(j <= k /\ j >= k + 1)
      BY <3>1
    <3> QED
      BY <3>2 DEF UpTo
  <2> QED
    BY <2>1, FS_EmptySet
<1>6. \A n : /\ AlternateAt(c, n) = SettingsFrom(FirstAt(c, n), n)
             /\ EndpointAt(c, n) = EndpointsFrom(SettingAt(c, n), n)
  BY DEF AlternateAt, EndpointAt, I, E
<1> HIDE DEF SettingsFrom, EndpointsFrom
<1>7. k + 1 \in 0..(k + 1) /\ SettingAt(c, k) \in 0..(k + 1) /\ FirstAt(c, k) \in 0..(k + 1)
  BY <1>2
<1>8. InterfaceAt(c, k) \in Nat /\ AlternateAt(c, k) \in Nat /\ EndpointAt(c, k) \in Nat
  BY BelongsNumbers
<1>9. CASE k + 1 \in I
  <2>1. SettingAt(c, k + 1) = k + 1 /\ k + 1 \notin E
    BY <1>1, <1>2, <1>9
  <2>2. EndpointAt(c, k + 1) = 0
    BY <2>1, <1>4, <1>5, <1>6, <1>7
  <2>3. CASE k + 1 \in F
    <3>1. FirstAt(c, k + 1) = k + 1
      BY <2>3, <1>2
    <3>2. AlternateAt(c, k + 1) = SettingsFrom(k + 1, k + 1)
      BY <3>1, <1>6
    <3>3. SettingsFrom(k + 1, k + 1) = SettingsFrom(k + 1, k) + 1
      BY <1>4, <1>7, <1>9
    <3>4. AlternateAt(c, k + 1) = 1
      BY <3>2, <3>3, <1>5
    <3> QED
      BY <3>4, <2>1, <2>2, <2>3, <1>1, <1>3, <1>9
  <2>4. CASE k + 1 \notin F
    BY <2>1, <2>2, <2>4, <1>1, <1>2, <1>3, <1>4, <1>5, <1>6, <1>7, <1>9, <1>8
  <2> QED
    BY <2>3, <2>4
<1>10. CASE k + 1 \notin I
  <2>1. k + 1 \notin F
    BY <1>1, <1>10
  <2> QED
    BY <2>1, <1>1, <1>2, <1>3, <1>4, <1>6, <1>7, <1>10, <1>8
<1> QED
  BY <1>9, <1>10

LEMMA BelongsFirst ==
  ASSUME ConfigurationsAssumption, NEW c \in Configurations
  PROVE  SettingAt(c, 0) = 0 /\ InterfaceAt(c, 0) = 0 /\ AlternateAt(c, 0) = 0 /\ EndpointAt(c, 0) = 0
<1>1. \A S \in SUBSET (Nat \ {0}) : UpTo(S, 0) = {}
  <2>1. \A j \in Nat \ {0} : ~(j <= 0)
    OBVIOUS
  <2> QED
    BY <2>1 DEF UpTo
<1>2. UpTo(InterfacesOf(c), 0) = {} /\ UpTo(FirstsOf(c), 0) = {} /\ UpTo(EndpointsOf(c), 0) = {}
  BY <1>1, PlacesAre
<1>3. SettingAt(c, 0) = 0
  <2>1. SettingAt(c, 0) \in 0..0
    BY PlacesAre, UpToNext DEF SettingAt
  <2> QED
    BY <2>1
<1> QED
  BY <1>2, <1>3, FS_EmptySet DEF InterfaceAt, AlternateAt, EndpointAt

(* As long as there are interfaces to come there are descriptors to come,  *)
(* and the first that is not skipped begins an interface.                  *)
LEMMA InterfacesToCome ==
  ASSUME ConfigurationsAssumption, NEW c \in Configurations, WellFormed(c),
         NEW k \in Nat, k <= Len(c.list)
  PROVE  /\ InterfaceAt(c, k) \in 0..c.interfaces
         /\ InterfaceAt(c, k) < c.interfaces => k < Len(c.list)
         /\ InterfaceAt(c, k) = c.interfaces /\ k < Len(c.list) => k + 1 \notin FirstsOf(c)
         /\ SettingAt(c, k) = 0 /\ k < Len(c.list) /\ c.list[k + 1].kind # "class" => k + 1 \in FirstsOf(c)
<1> DEFINE F == FirstsOf(c)
           N == Len(c.list)
<1>1. F \in SUBSET (1..N) /\ N \in Nat /\ c.interfaces \in Nat
  BY ListIs, PlacesAre
<1>2. c.interfaces = Cardinality(F)
  BY DEF WellFormed
<1>3. IsFiniteSet(F) /\ UpTo(F, k) \in SUBSET F /\ UpTo(F, k) = {j \in F : j <= k}
  <2>1. IsFiniteSet(1..N)
    BY <1>1, FS_Interval
  <2> QED
    BY <2>1, <1>1, FS_Subset DEF UpTo
<1>4. InterfaceAt(c, k) = Cardinality(UpTo(F, k))
  BY DEF InterfaceAt
<1> HIDE DEF F
<1>5. /\ IsFiniteSet(UpTo(F, k)) /\ Cardinality(UpTo(F, k)) \in Nat
      /\ Cardinality(UpTo(F, k)) <= Cardinality(F)
      /\ Cardinality(F) = Cardinality(UpTo(F, k)) => F = UpTo(F, k)
  BY <1>3, FS_Subset, FS_CardinalityType
<1>6. InterfaceAt(c, k) \in 0..c.interfaces
  BY <1>1, <1>2, <1>4, <1>5
<1>7. ASSUME InterfaceAt(c, k) < c.interfaces
      PROVE  k < N
  <2>1. F # UpTo(F, k)
    BY <1>2, <1>4, <1>5, <1>7
  <2>2. PICK j \in F : ~(j <= k)
    BY <2>1, <1>3
  <2> QED
    BY <2>2, <1>1
<1>8. ASSUME InterfaceAt(c, k) = c.interfaces
      PROVE  k + 1 \notin F
  <2>1. F = UpTo(F, k)
    BY <1>2, <1>4, <1>5, <1>8
  <2> QED
    BY <2>1, <1>3
<1>9. ASSUME SettingAt(c, k) = 0, k < N, c.list[k + 1].kind # "class"
      PROVE  k + 1 \in F
  <2>1. k + 1 \in 1..N /\ k + 1 \in Nat
    BY <1>9, <1>1
  <2>2. c.list[k + 1].kind \in {"interface", "endpoint"}
    BY <2>1, <1>9, ListIs DEF WellFormed, Kinds
  <2>3. c.list[k + 1].kind # "endpoint"
    <3>1. SUFFICES ASSUME c.list[k + 1].kind = "endpoint" PROVE FALSE
      OBVIOUS
    <3>2. SettingAt(c, k + 1) = 0
      BY <3>1, <1>9, BelongsNext
    <3>3. k + 1 \in EndpointsOf(c)
      BY <3>1, <2>1, PlacesAre
    <3> QED
      BY <3>2, <3>3 DEF WellFormed
  <2>4. k + 1 \in InterfacesOf(c)
    BY <2>1, <2>2, <2>3, PlacesAre
  <2>5. FirstAt(c, k + 1) > 0
    BY <2>4 DEF WellFormed
  <2>6. /\ FirstAt(c, k + 1) \in 0..(k + 1)
        /\ FirstAt(c, k + 1) # 0 => FirstAt(c, k + 1) \in FirstsOf(c)
    BY <2>1, PlacesAre, UpToNext DEF FirstAt
  <2>7. FirstAt(c, k + 1) \in FirstsOf(c) /\ FirstAt(c, k + 1) \in InterfacesOf(c)
    <3>1. FirstAt(c, k + 1) # 0
      BY <2>5, <2>6
    <3>2. FirstsOf(c) \subseteq InterfacesOf(c)
      BY PlacesAre
    <3> QED
      BY <3>1, <3>2, <2>6
  <2>8. \A y \in InterfacesOf(c) : y <= k => y <= 0
    BY <1>9, PlacesAre, UpToNext DEF SettingAt
  <2>9. FirstAt(c, k + 1) = k + 1
    BY <2>5, <2>6, <2>7, <2>8
  <2> QED
    BY <2>7, <2>9 DEF F
<1> QED
  BY <1>6, <1>7, <1>8, <1>9 DEF F

(* The same of the endpoints of a setting.                                 *)
LEMMA EndpointsToCome ==
  ASSUME ConfigurationsAssumption, NEW c \in Configurations, WellFormed(c),
         NEW k \in Nat, k <= Len(c.list), SettingAt(c, k) # 0
  PROVE  LET n == c.list[SettingAt(c, k)].endpoints IN
         /\ n \in 0..MaxEndpoints /\ EndpointAt(c, k) \in 0..n
         /\ EndpointAt(c, k) < n =>
              k < Len(c.list) /\ (c.list[k + 1].kind # "class" => c.list[k + 1].kind = "endpoint")
         /\ EndpointAt(c, k) = n /\ k < Len(c.list) => c.list[k + 1].kind # "endpoint"
<1> DEFINE s == SettingAt(c, k)
           n == c.list[s].endpoints
           N == Len(c.list)
           I == InterfacesOf(c)
           E == EndpointsOf(c)
           Own == EndpointsIn(c, s)
           A == {j \in UpTo(E, k) : j >= s}
<1>1. N \in Nat /\ I \in SUBSET (Nat \ {0}) /\ E \in SUBSET (Nat \ {0})
      /\ \A j \in E : j \in 1..N
  BY ListIs, PlacesAre
<1>2. s \in 1..k /\ s \in I /\ \A y \in I : y <= k => y <= s
  <2>1. /\ s \in 0..k /\ \A y \in I : y <= k => y <= s
        /\ s # 0 => s \in I
    BY <1>1, UpToNext DEF SettingAt
  <2>2. s # 0
    OBVIOUS
  <2> HIDE DEF s, I
  <2> QED
    BY <2>1, <2>2
<1>3. n = Cardinality(Own) /\ n <= MaxEndpoints /\ n \in Nat /\ MaxEndpoints \in Nat
  BY <1>2, ListIs, PlacesAre DEF WellFormed, ConfigurationsAssumption
<1>4. \A j \in E : SettingAt(c, j) \in 0..j /\ \A y \in I : y <= j => y <= SettingAt(c, j)
  BY <1>1, UpToNext DEF SettingAt
<1>5. \A j \in E : SettingAt(c, j) # 0 => SettingAt(c, j) \in I
  BY <1>1, UpToNext DEF SettingAt
<1>6. Own = {j \in E : SettingAt(c, j) = s}
  BY DEF EndpointsIn
<1>7. \A j \in E : j <= k /\ j >= s => SettingAt(c, j) = s
  <2> SUFFICES ASSUME NEW j \in E, j <= k, j >= s PROVE SettingAt(c, j) = s
    OBVIOUS
  <2>1. SettingAt(c, j) \in 0..j /\ s <= SettingAt(c, j) /\ j \in Nat
    BY <1>1, <1>2, <1>4
  <2>2. SettingAt(c, j) \in I
    BY <2>1, <1>2, <1>5
  <2>3. SettingAt(c, j) <= s
    BY <2>1, <2>2, <1>2
  <2> QED
    BY <2>1, <2>3, <1>2
<1>8. A = {j \in Own : j <= k}
  <2>1. \A j \in Own : j \in E /\ j >= s
    BY <1>4, <1>6
  <2> HIDE DEF Own, s, E
  <2>2. \A j \in E : j <= k /\ j >= s => j \in Own
    BY <1>6, <1>7
  <2> QED
    BY <2>1, <2>2 DEF UpTo
<1>9. EndpointAt(c, k) = Cardinality(A)
  BY DEF EndpointAt
<1>10. IsFiniteSet(Own)
  <2>1. IsFiniteSet(1..N)
    BY <1>1, FS_Interval
  <2>2. Own \in SUBSET (1..N)
    <3> HIDE DEF Own, E, N
    <3> QED
      BY <1>1, <1>6
  <2> QED
    BY <2>1, <2>2, FS_Subset
<1> HIDE DEF Own, A, s, E, I, n, N
<1>11. /\ Cardinality(A) \in Nat /\ Cardinality(A) <= n
       /\ Cardinality(A) = n => A = Own
  <2>1. A \in SUBSET Own
    BY <1>8
  <2> QED
    BY <2>1, <1>3, <1>10, FS_Subset, FS_CardinalityType
<1>12. EndpointAt(c, k) \in 0..n
  BY <1>3, <1>9, <1>11
<1>13. ASSUME EndpointAt(c, k) < n
       PROVE  k < N /\ (c.list[k + 1].kind # "class" => c.list[k + 1].kind = "endpoint")
  <2>1. A # Own
    <3>1. SUFFICES ASSUME A = Own PROVE FALSE
      OBVIOUS
    <3> QED
      BY <3>1, <1>13, <1>9, <1>3
  <2>2. PICK j \in Own : ~(j <= k)
    BY <2>1, <1>8
  <2>3. j \in E /\ j \in 1..N /\ SettingAt(c, j) = s
    BY <2>2, <1>1, <1>6
  <2>4. k < N /\ k + 1 <= j /\ k + 1 \in 1..N
    BY <2>2, <2>3, <1>1
  <2>5. k + 1 \notin I
    BY <2>3, <2>4, <1>2, <1>4
  <2>6. c.list[k + 1].kind \in Kinds \ {"config", "interface"}
    BY <2>4, <2>5, ListIs, PlacesAre DEF WellFormed, N, I
  <2> QED
    BY <2>4, <2>6 DEF Kinds
<1>14. ASSUME EndpointAt(c, k) = n, k < N
       PROVE  c.list[k + 1].kind # "endpoint"
  <2>1. SUFFICES ASSUME c.list[k + 1].kind = "endpoint" PROVE FALSE
    OBVIOUS
  <2>2. k + 1 \in E
    <3>1. k + 1 \in 1..N
      BY <1>14, <1>1
    <3> QED
      BY <2>1, <3>1, PlacesAre DEF E, N
  <2>3. SettingAt(c, k + 1) = s
    BY <2>1, <1>14, BelongsNext DEF s, N
  <2>4. k + 1 \in A
    BY <2>2, <2>3, <1>6, <1>9, <1>11, <1>14
  <2> QED
    BY <2>4, <1>8
<1> QED
  BY <1>3, <1>12, <1>13, <1>14 DEF n, s, N

-----------------------------------------------------------------------------
(* How many descriptors the parser has taken.                              *)
Taken == position - 1

(* What is left in the buffer are the descriptors that are not taken.      *)
SizeInv ==
  /\ Taken \in 0..Len(given.list)
  /\ parsing \in {"get", "length", "read", "configuration"} => Taken = 0
  /\ parsing \notin {"get", "length", "read", "done"} =>
       left = BytesOfLast(given)[Len(given.list) - Taken]

PlacedInv ==
  /\ placed \in Seq(Nat \X Nat \X Nat) /\ Len(placed) = Taken
  /\ \A k \in 1..Taken : placed[k] = Belongs(given, k)

(* No interface is taken, or a whole one.                                  *)
BeforeFirst ==
  /\ SettingAt(given, Taken) = 0 /\ InterfaceAt(given, Taken) = 0 /\ AlternateAt(given, Taken) = 0
  /\ EndpointAt(given, Taken) = 0 /\ spot = <<0, 0, 0>>

BetweenTwo ==
  /\ spot[1] = InterfaceAt(given, Taken)
  /\ Taken < Len(given.list) => Taken + 1 \in FirstsOf(given)

(* Where the parser is: the spot is that of the descriptor taken last, or  *)
(* the next one of its kind.                                               *)
SpotInv ==
  /\ parsing \in {"get", "length", "read", "configuration"} => BeforeFirst
  /\ parsing = "next" \/ (parsing = "skip" /\ level = "config") => BeforeFirst \/ BetweenTwo
  /\ parsing = "interface" =>
       /\ Taken < Len(given.list) /\ Taken + 1 \in InterfacesOf(given)
       /\ Taken + 1 \in FirstsOf(given) =>
            spot[1] = InterfaceAt(given, Taken) + 1 /\ spot[2] = 0
       /\ Taken + 1 \notin FirstsOf(given) =>
            spot[1] = InterfaceAt(given, Taken) /\ spot[2] = AlternateAt(given, Taken)
  /\ AtSetting =>
       /\ SettingAt(given, Taken) # 0
       /\ spot[1] = InterfaceAt(given, Taken) /\ spot[2] = AlternateAt(given, Taken)
       /\ counts[Setting] = given.list[SettingAt(given, Taken)].endpoints
       /\ parsing # "endpoint" => spot[3] = EndpointAt(given, Taken)
       /\ parsing = "endpoint" => spot[3] = EndpointAt(given, Taken) + 1
  /\ parsing \in {"endpoints", "endpoint", "alternate"} /\ Taken < Len(given.list) =>
       given.list[Taken + 1].kind # "class"
  /\ parsing = "endpoints" => spot[3] = 0
  /\ parsing = "alternate" => spot[3] = counts[Setting]

(* The settings with counts are those up to the spot.                      *)
SettingsInv ==
  \A s \in DOMAIN counts :
    s \in Nat \X Nat /\ s[1] <= spot[1] /\ (s[1] = spot[1] => s[2] <= spot[2])

EndInv == ended # "error" /\ (ended = "ok" => Taken = Len(given.list))

ParseInv == SizeInv /\ PlacedInv /\ SpotInv /\ SettingsInv /\ EndInv

-----------------------------------------------------------------------------
(* The descriptor at the parser's place.                                   *)
LEMMA HereIs ==
  ASSUME LeakInv, SizeInv, WellFormed(given), ConfigurationsAssumption,
         parsing \notin {"get", "length", "read", "done"}
  PROVE  /\ Taken \in Nat /\ Len(given.list) \in Nat /\ Taken <= Len(given.list) /\ left \in Nat
         /\ Taken < Len(given.list) =>
              /\ Here = given.list[Taken + 1] /\ Readable = {Here}
              /\ Here.kind \in {"interface", "endpoint", "class"}
              /\ Here.length >= HeaderLength /\ Here.length <= left /\ Here.length \in Nat
              /\ left - Here.length = BytesOfLast(given)[Len(given.list) - (Taken + 1)]
              /\ Here.kind = "interface" => left >= InterfaceLength
         /\ Taken = Len(given.list) => left = 0
<1> DEFINE N == Len(given.list)
<1>1. /\ given \in Configurations /\ N \in Nat /\ Taken \in Nat /\ Taken <= N /\ position = Taken + 1
      /\ left = BytesOfLast(given)[N - Taken]
  BY ListIs DEF LeakInv, PlaceInv, SizeInv, Taken
<1>2. /\ BytesOfLast(given)[0] = 0 /\ \A n \in 0..N : BytesOfLast(given)[n] \in Nat
      /\ \A n \in 1..N : BytesOfLast(given)[n] = BytesOfLast(given)[n - 1] + given.list[N - n + 1].length
  BY <1>1, BytesOfLastIs
<1> HIDE DEF N
<1>3. left \in Nat
  BY <1>1, <1>2
<1>4. ASSUME Taken < N
      PROVE  /\ Here = given.list[Taken + 1] /\ Readable = {Here}
             /\ Here.kind \in {"interface", "endpoint", "class"}
             /\ Here.length >= HeaderLength /\ Here.length <= left /\ Here.length \in Nat
             /\ left - Here.length = BytesOfLast(given)[N - (Taken + 1)]
             /\ Here.kind = "interface" => left >= InterfaceLength
  <2>1. Readable = {given.list[Taken + 1]}
    <3>1. position <= Len(given.list)
      BY <1>1, <1>4 DEF N
    <3> QED
      BY <1>1, <3>1 DEF Readable
  <2>2. Here = given.list[Taken + 1]
    BY <2>1 DEF Here
  <2> DEFINE n == N - Taken
  <2>3. n \in 1..N /\ n - 1 = N - (Taken + 1) /\ N - n + 1 = Taken + 1 /\ n - 1 \in 0..N
        /\ Taken + 1 \in 1..N
    BY <1>1, <1>4
  <2>4. left = BytesOfLast(given)[n]
    BY <1>1
  <2> HIDE DEF n
  <2>5. left = BytesOfLast(given)[N - (Taken + 1)] + Here.length
        /\ BytesOfLast(given)[N - (Taken + 1)] \in Nat
    BY <2>2, <2>3, <2>4, <1>2
  <2>6. Here.kind \in Kinds /\ Here.length \in Nat
    BY <2>2, <2>3, <1>1, ListIs DEF N
  <2>7. Here.kind # "config" /\ Here.length >= HeaderLength
    BY <2>2, <2>3, <1>1, ListIs DEF N, WellFormed
  <2>8. Here.kind = "interface" => Here.length >= InterfaceLength
    BY <2>2, <2>3, <1>1, PlacesAre DEF N, WellFormed
  <2>9. Here.length <= left /\ left - Here.length = BytesOfLast(given)[N - (Taken + 1)]
    BY <2>5, <2>6
  <2>10. Here.kind = "interface" => left >= InterfaceLength
    BY <2>8, <2>9, <2>6, <1>3 DEF InterfaceLength
  <2>11. Here.kind \in {"interface", "endpoint", "class"}
    BY <2>6, <2>7 DEF Kinds
  <2> QED
    BY <2>1, <2>2, <2>6, <2>7, <2>9, <2>10, <2>11
<1>5. Taken = N => left = 0
  BY <1>1, <1>2
<1> QED
  BY <1>1, <1>3, <1>4, <1>5 DEF N

(* A descriptor is taken at the spot it belongs to.                        *)
LEMMA TakesOne ==
  ASSUME LeakInv, SizeInv, PlacedInv, WellFormed(given), ConfigurationsAssumption,
         parsing \notin {"get", "length", "read", "done"}, Taken < Len(given.list),
         NEW by, Takes(by), by = Belongs(given, Taken + 1), given' = given,
         parsing' \notin {"get", "length", "read", "configuration"}
  PROVE  SizeInv' /\ PlacedInv' /\ Taken' = Taken + 1
<1>1. /\ Taken \in Nat /\ Len(given.list) \in Nat
      /\ left - Here.length = BytesOfLast(given)[Len(given.list) - (Taken + 1)]
  BY HereIs
<1>2. Taken' = Taken + 1
  BY <1>1 DEF Takes, Taken, LeakInv, PlaceInv
<1>3. left' = left - Here.length /\ placed' = Append(placed, by)
  BY DEF Takes
<1>4. SizeInv'
  <2>1. Taken' \in 0..Len(given'.list)
    BY <1>1, <1>2
  <2> QED
    BY <2>1, <1>1, <1>2, <1>3 DEF SizeInv
<1>5. PlacedInv'
  <2>1. by \in Nat \X Nat \X Nat
    <3>3. given \in Configurations /\ Taken + 1 \in Nat
      BY <1>1 DEF LeakInv, PlaceInv
    <3>4. /\ InterfaceAt(given, Taken + 1) \in Nat /\ AlternateAt(given, Taken + 1) \in Nat
          /\ EndpointAt(given, Taken + 1) \in Nat
      BY <3>3, BelongsNumbers
    <3> QED
      BY <3>4 DEF Belongs
  <2> DEFINE T == Nat \X Nat \X Nat
  <2>2. placed \in Seq(T) /\ Len(placed) = Taken /\ \A k \in 1..Taken : placed[k] = Belongs(given, k)
    BY DEF PlacedInv
  <2>3. by \in T
    BY <2>1
  <2>4. PICK b : b = by
    OBVIOUS
  <2> HIDE DEF T
  <2>5. /\ Append(placed, b) \in Seq(T) /\ Len(Append(placed, b)) = Taken + 1
        /\ \A k \in 1..Taken : Append(placed, b)[k] = placed[k]
        /\ Append(placed, b)[Taken + 1] = b
    BY <2>2, <2>3, <2>4, AppendProperties
  <2>6. \A k \in 1..(Taken + 1) : k \in 1..Taken \/ k = Taken + 1
    BY <1>1
  <2>7. \A k \in 1..(Taken + 1) : Append(placed, b)[k] = Belongs(given, k)
    BY <2>2, <2>4, <2>5, <2>6
  <2>8. placed' = Append(placed, b)
    BY <1>3, <2>4
  <2> QED
    BY <2>5, <2>7, <2>8, <1>2 DEF PlacedInv, T
<1> QED
  BY <1>2, <1>4, <1>5

(* Nothing is taken.                                                       *)
LEMMA TakesNone ==
  ASSUME SizeInv, PlacedInv, UNCHANGED <<given, position, placed>>,
         parsing \notin {"get", "length", "read", "done"}, left' = left,
         parsing' \notin {"get", "length", "read", "configuration"}
  PROVE  SizeInv' /\ PlacedInv' /\ Taken' = Taken
<1>1. Taken' = Taken
  BY DEF Taken
<1> QED
  BY <1>1 DEF SizeInv, PlacedInv

(* A call that fails for want of memory, or because the backend does.      *)
LEMMA EndsFailed ==
  ASSUME LeakInv, ParseInv, NEW how \in {"no_memory", "failed"}, Fails(how)
  PROVE  ParseInv'
<1>1. /\ ended' = how /\ parsing' = "done"
      /\ UNCHANGED <<given, level, left, position, spot, counts, placed>>
  BY DEF Fails, Frees
<1>2. Taken' = Taken
  BY <1>1 DEF Taken
<1>3. SizeInv' /\ PlacedInv'
  BY <1>1, <1>2 DEF ParseInv, SizeInv, PlacedInv
<1>4. SpotInv'
  BY <1>1 DEF SpotInv, AtSetting
<1>5. SettingsInv' /\ EndInv'
  BY <1>1 DEF ParseInv, SettingsInv, EndInv
<1> QED
  BY <1>3, <1>4, <1>5 DEF ParseInv

LEMMA NotEnded ==
  ASSUME LeakInv, parsing # "done", ended' = ended
  PROVE  EndInv'
BY DEF LeakInv, BlocksInv, EndInv

-----------------------------------------------------------------------------
LEMMA ReadParses ==
  ASSUME LeakInv, ParseInv, WellFormed(given), ConfigurationsAssumption,
         GetConfigDescriptor \/ ReadLength \/ ReadDescriptors \/ ParseConfiguration
  PROVE  ParseInv'
<1>1. parsing \in {"get", "length", "read", "configuration"}
  BY DEF GetConfigDescriptor, ReadLength, ReadDescriptors, ParseConfiguration
<1>2. ~(given.interfaces > MaxInterfaces)
  BY ListIs DEF WellFormed, LeakInv, PlaceInv, ConfigurationsAssumption
<1>3. \/ Fails("no_memory") \/ Fails("failed")
      \/ /\ parsing' \in {"length", "read"} /\ ended' = ended
         /\ UNCHANGED <<given, level, left, position, spot, counts, placed>>
      \/ /\ parsing = "read" /\ parsing' = "configuration" /\ ended' = ended
         /\ left' = TotalLength(given) - ConfigLength
         /\ UNCHANGED <<given, level, position, spot, counts, placed>>
      \/ /\ parsing = "configuration" /\ parsing' = "next" /\ ended' = ended
         /\ UNCHANGED <<given, level, left, position, spot, counts, placed>>
  BY <1>2 DEF GetConfigDescriptor, ReadLength, ReadDescriptors, ParseConfiguration, Allocates,
              BackendAnswers, Goes
<1>4. ASSUME ended' = ended /\ UNCHANGED <<given, level, position, spot, counts, placed>>,
             parsing' \in {"length", "read", "configuration", "next"},
             parsing' \in {"configuration", "next"} =>
               left' = BytesOfLast(given)[Len(given.list) - Taken]
      PROVE  ParseInv'
  <2>1. Taken' = Taken /\ Taken = 0
    BY <1>1, <1>4 DEF Taken, ParseInv, SizeInv
  <2>2. SizeInv' /\ PlacedInv'
    BY <1>1, <1>4, <2>1 DEF ParseInv, SizeInv, PlacedInv
  <2>3. BeforeFirst'
    <3>1. BeforeFirst
      BY <1>1 DEF ParseInv, SpotInv
    <3> QED
      BY <3>1, <2>1, <1>4 DEF BeforeFirst
  <2>4. SpotInv'
    BY <2>3, <1>4 DEF SpotInv, AtSetting
  <2>5. SettingsInv'
    BY <1>4 DEF ParseInv, SettingsInv
  <2>6. EndInv'
    BY <1>1, <1>4, NotEnded
  <2> QED
    BY <2>2, <2>4, <2>5, <2>6 DEF ParseInv
<1>5. parsing = "read" => TotalLength(given) - ConfigLength = BytesOfLast(given)[Len(given.list) - Taken]
  <2> SUFFICES ASSUME parsing = "read"
               PROVE  TotalLength(given) - ConfigLength = BytesOfLast(given)[Len(given.list) - Taken]
    OBVIOUS
  <2>1. Taken = 0 /\ given \in Configurations /\ given.cut = 0
    BY <1>1 DEF ParseInv, SizeInv, LeakInv, PlaceInv, WellFormed
  <2>2. Len(given.list) \in Nat
    BY <2>1, ListIs
  <2>3. Len(given.list) \in 0..Len(given.list) /\ Len(given.list) - Taken = Len(given.list)
    BY <2>1, <2>2
  <2>4. BytesOfLast(given)[Len(given.list)] \in Nat
    BY <2>1, <2>3, BytesOfLastIs
  <2> QED
    BY <2>1, <2>3, <2>4 DEF TotalLength, ConfigLength
<1>6. parsing = "configuration" => left = BytesOfLast(given)[Len(given.list) - Taken]
  BY DEF ParseInv, SizeInv
<1> QED
  BY <1>3, <1>4, <1>5, <1>6, EndsFailed

LEMMA NextParses ==
  ASSUME LeakInv, ParseInv, WellFormed(given), ConfigurationsAssumption, NextInterface
  PROVE  ParseInv'
<1>1. parsing = "next" /\ (BeforeFirst \/ BetweenTwo) /\ given \in Configurations
  BY DEF NextInterface, ParseInv, SpotInv, LeakInv, PlaceInv
<1>2. /\ Taken \in Nat /\ Len(given.list) \in Nat /\ Taken <= Len(given.list)
  BY <1>1, HereIs DEF ParseInv
<1>3. CASE spot[1] = given.interfaces
  <2>1. /\ ended' = "ok" /\ parsing' = "done"
        /\ UNCHANGED <<given, level, left, position, spot, counts, placed>>
    BY <1>3 DEF NextInterface, Frees
  <2>2. ~BeforeFirst
    BY <1>3, <1>1, ListIs DEF WellFormed, BeforeFirst
  <2>3. Taken = Len(given.list)
    <3>1. InterfaceAt(given, Taken) = given.interfaces
      BY <1>1, <1>3, <2>2 DEF BetweenTwo
    <3>2. ~(Taken < Len(given.list))
      BY <1>1, <1>2, <2>2, <3>1, InterfacesToCome DEF BetweenTwo
    <3> QED
      BY <3>2, <1>2
  <2>4. Taken' = Taken
    BY <2>1 DEF Taken
  <2>5. SizeInv' /\ PlacedInv'
    BY <2>1, <2>4 DEF ParseInv, SizeInv, PlacedInv
  <2>6. SpotInv'
    BY <2>1 DEF SpotInv, AtSetting
  <2>7. SettingsInv' /\ EndInv'
    BY <2>1, <2>3, <2>4 DEF ParseInv, SettingsInv, EndInv
  <2> QED
    BY <2>5, <2>6, <2>7 DEF ParseInv
<1>4. CASE spot[1] # given.interfaces
  <2>1. /\ parsing' = "skip" /\ level' = "config" /\ ended' = ended
        /\ UNCHANGED <<given, left, position, spot, counts, placed>>
    BY <1>4 DEF NextInterface
  <2>2. SizeInv' /\ PlacedInv' /\ Taken' = Taken
    BY <1>1, <2>1, TakesNone DEF ParseInv
  <2>3. BeforeFirst' \/ BetweenTwo'
    BY <1>1, <2>1, <2>2 DEF BeforeFirst, BetweenTwo
  <2>4. SpotInv'
    BY <2>1, <2>3 DEF SpotInv, AtSetting
  <2>5. SettingsInv'
    BY <2>1 DEF ParseInv, SettingsInv
  <2>6. EndInv'
    BY <1>1, <2>1, NotEnded
  <2> QED
    BY <2>2, <2>4, <2>5, <2>6 DEF ParseInv
<1> QED
  BY <1>3, <1>4

(* The spot as a tuple.                                                    *)
LEMMA SpotIs ==
  ASSUME PlaceInv
  PROVE  spot = <<spot[1], spot[2], spot[3]>> /\ spot[1] \in Nat /\ spot[2] \in Nat /\ spot[3] \in Nat
<1>1. PICK f \in [1..3 -> Nat] : f = spot
  BY DEF PlaceInv
<1>2. f[1] \in Nat /\ f[2] \in Nat /\ f[3] \in Nat
  OBVIOUS
<1>3. f = <<f[1], f[2], f[3]>>
  <2>1. 1..3 = {1, 2, 3}
    OBVIOUS
  <2> QED
    BY <2>1
<1> QED
  BY <1>1, <1>2, <1>3

LEMMA SkipParses ==
  ASSUME LeakInv, ParseInv, WellFormed(given), ConfigurationsAssumption, SkipDescriptor
  PROVE  ParseInv'
<1>1. /\ parsing = "skip" /\ left >= HeaderLength /\ given \in Configurations
      /\ level \in {"config", "interface", "endpoint"}
  BY DEF SkipDescriptor, LeakInv, PlaceInv
<1>2. Taken \in Nat /\ Len(given.list) \in Nat /\ Taken < Len(given.list)
  <2>1. /\ Taken \in Nat /\ Len(given.list) \in Nat /\ Taken <= Len(given.list)
        /\ Taken = Len(given.list) => left = 0
    BY <1>1, HereIs DEF ParseInv
  <2>2. left # 0
    BY <1>1 DEF HeaderLength
  <2> QED
    BY <2>1, <2>2
<1>3. Here = given.list[Taken + 1] /\ Here.length >= HeaderLength /\ Here.length <= left
      /\ left \in Nat /\ Here.length \in Nat /\ Here.kind \in {"interface", "endpoint", "class"}
  BY <1>1, <1>2, HereIs DEF ParseInv
<1>4. ~BadLength
  BY <1>3 DEF BadLength, HeaderLength
<1>5. /\ Takes(IF level = "config" THEN <<0, 0, 0>> ELSE spot) /\ Here.kind = "class"
      /\ UNCHANGED <<given, parsing, level, spot, counts, ended>>
  BY <1>4 DEF SkipDescriptor, Proper
<1>6. /\ SettingAt(given, Taken + 1) = SettingAt(given, Taken)
      /\ InterfaceAt(given, Taken + 1) = InterfaceAt(given, Taken)
      /\ AlternateAt(given, Taken + 1) = AlternateAt(given, Taken)
      /\ EndpointAt(given, Taken + 1) = EndpointAt(given, Taken)
  BY <1>1, <1>2, <1>3, <1>5, BelongsNext
<1>7. CASE level = "config"
  <2>1. Takes(<<0, 0, 0>>)
    BY <1>5, <1>7
  <2>2. BeforeFirst
    <3>1. Taken + 1 \notin FirstsOf(given)
      BY <1>1, <1>2, <1>3, <1>5, PlacesAre
    <3> QED
      BY <3>1, <1>1, <1>2, <1>7 DEF ParseInv, SpotInv, BetweenTwo
  <2>3. Belongs(given, Taken + 1) = <<0, 0, 0>>
    BY <2>2, <1>6 DEF Belongs, BeforeFirst
  <2>4. SizeInv' /\ PlacedInv' /\ Taken' = Taken + 1
    BY <2>1, <2>3, <1>1, <1>2, <1>5, TakesOne DEF ParseInv
  <2>5. BeforeFirst'
    BY <2>2, <2>4, <1>5, <1>6 DEF BeforeFirst
  <2>6. SpotInv'
    BY <2>5, <1>1, <1>5, <1>7 DEF SpotInv, AtSetting
  <2>7. SettingsInv'
    BY <1>5 DEF ParseInv, SettingsInv
  <2>8. EndInv'
    BY <1>1, <1>5, NotEnded
  <2> QED
    BY <2>4, <2>6, <2>7, <2>8 DEF ParseInv
<1>8. CASE level # "config"
  <2>1. Takes(spot)
    BY <1>5, <1>8
  <2>2. AtSetting /\ AtSetting'
    BY <1>1, <1>5, <1>8 DEF AtSetting
  <2>3. /\ SettingAt(given, Taken) # 0
        /\ spot[1] = InterfaceAt(given, Taken) /\ spot[2] = AlternateAt(given, Taken)
        /\ counts[Setting] = given.list[SettingAt(given, Taken)].endpoints
        /\ spot[3] = EndpointAt(given, Taken)
    BY <2>2, <1>1 DEF ParseInv, SpotInv
  <2>4. spot = Belongs(given, Taken + 1)
    BY <2>3, <1>6, SpotIs DEF Belongs, LeakInv
  <2>5. SizeInv' /\ PlacedInv' /\ Taken' = Taken + 1
    BY <2>1, <2>4, <1>1, <1>2, <1>5, TakesOne DEF ParseInv
  <2>6. Setting' = Setting
    BY <1>5 DEF Setting
  <2>7. SpotInv'
    BY <2>3, <2>5, <2>6, <1>1, <1>5, <1>6, <1>8 DEF SpotInv
  <2>8. SettingsInv'
    BY <1>5 DEF ParseInv, SettingsInv
  <2>9. EndInv'
    BY <1>1, <1>5, NotEnded
  <2> QED
    BY <2>5, <2>7, <2>8, <2>9 DEF ParseInv
<1> QED
  BY <1>7, <1>8

LEMMA StoreParses ==
  ASSUME LeakInv, ParseInv, WellFormed(given), ConfigurationsAssumption, StoreExtra
  PROVE  ParseInv'
<1>1. parsing = "skip" /\ given \in Configurations /\ level \in {"config", "interface", "endpoint"}
  BY DEF StoreExtra, LeakInv, PlaceInv
<1>2. /\ Taken \in Nat /\ Len(given.list) \in Nat /\ Taken <= Len(given.list)
      /\ Taken < Len(given.list) => /\ Here = given.list[Taken + 1] /\ Here.length >= HeaderLength
                                    /\ Here.length <= left /\ left \in Nat /\ Here.length \in Nat
  BY <1>1, HereIs DEF ParseInv
<1>3. Taken < Len(given.list) => given.list[Taken + 1].kind # "class"
  <2> SUFFICES ASSUME Taken < Len(given.list) PROVE given.list[Taken + 1].kind # "class"
    OBVIOUS
  <2>1. ~(left < HeaderLength)
    BY <1>2 DEF HeaderLength
  <2> QED
    BY <2>1, <1>2 DEF StoreExtra, Proper
<1>4. \/ Fails("no_memory")
      \/ /\ ended' = ended
         /\ parsing' = AfterSkip /\ UNCHANGED <<given, level, left, position, counts, placed>>
         /\ spot' = CASE level = "config" -> <<spot[1] + 1, 0, 0>>
                      [] AfterSkip = "endpoint" -> [spot EXCEPT ![3] = @ + 1]
                      [] OTHER -> spot
  BY DEF StoreExtra, Allocates
<1>5. CASE Fails("no_memory")
  BY <1>5, EndsFailed
<1>6. CASE /\ ended' = ended
           /\ parsing' = AfterSkip /\ UNCHANGED <<given, level, left, position, counts, placed>>
           /\ spot' = CASE level = "config" -> <<spot[1] + 1, 0, 0>>
                        [] AfterSkip = "endpoint" -> [spot EXCEPT ![3] = @ + 1]
                        [] OTHER -> spot
  <2>1. AfterSkip \in {"interface", "endpoints", "endpoint", "alternate"}
    <3>1. level = "config" => AfterSkip = "interface"
      BY DEF AfterSkip
    <3>2. level = "interface" => AfterSkip = "endpoints"
      BY DEF AfterSkip
    <3>3. level = "endpoint" => AfterSkip \in {"endpoint", "alternate"}
      BY DEF AfterSkip
    <3> QED
      BY <3>1, <3>2, <3>3, <1>1
  <2>2. SizeInv' /\ PlacedInv' /\ Taken' = Taken
    BY <1>1, <1>6, <2>1, TakesNone DEF ParseInv
  <2>3. EndInv'
    BY <1>1, <1>6, NotEnded
  <2>4. /\ spot = <<spot[1], spot[2], spot[3]>>
        /\ spot[1] \in Nat /\ spot[2] \in Nat /\ spot[3] \in Nat /\ spot \in [1..3 -> Nat]
    BY SpotIs DEF LeakInv, PlaceInv
  <2>5. CASE level = "config"
    <3>1. parsing' = "interface" /\ spot' = <<spot[1] + 1, 0, 0>>
      BY <2>5, <1>6 DEF AfterSkip
    <3>2. spot'[1] = spot[1] + 1 /\ spot'[2] = 0
      BY <3>1
    <3>3. BeforeFirst \/ BetweenTwo
      BY <1>1, <2>5 DEF ParseInv, SpotInv
    <3>4. spot[1] = InterfaceAt(given, Taken)
      BY <3>3 DEF BeforeFirst, BetweenTwo
    <3>5. spot[1] < given.interfaces
      BY <1>1, <2>5 DEF LeakInv, PlaceInv
    <3>6. Taken < Len(given.list)
      BY <3>4, <3>5, <1>1, <1>2, InterfacesToCome
    <3>7. Taken + 1 \in FirstsOf(given)
      BY <3>3, <3>6, <1>1, <1>2, <1>3, InterfacesToCome DEF BeforeFirst, BetweenTwo
    <3>8. Taken + 1 \in InterfacesOf(given)
      BY <3>7, <1>1, PlacesAre
    <3>9. SpotInv'
      BY <3>1, <3>2, <3>4, <3>6, <3>7, <3>8, <2>2, <1>6 DEF SpotInv, AtSetting
    <3>10. SettingsInv'
      <4> SUFFICES ASSUME NEW s \in DOMAIN counts
                   PROVE  s \in Nat \X Nat /\ s[1] <= spot'[1] /\ (s[1] = spot'[1] => s[2] <= spot'[2])
        BY <1>6 DEF SettingsInv
      <4>1. s \in Nat \X Nat /\ s[1] <= spot[1]
        BY DEF ParseInv, SettingsInv
      <4>2. s[1] \in Nat
        BY <4>1
      <4> QED
        BY <4>1, <4>2, <3>2, <2>4
    <3> QED
      BY <3>9, <3>10, <2>2, <2>3 DEF ParseInv
  <2>6. CASE level # "config"
    <3>1. AtSetting
      BY <1>1, <2>6 DEF AtSetting
    <3>2. /\ SettingAt(given, Taken) # 0
          /\ spot[1] = InterfaceAt(given, Taken) /\ spot[2] = AlternateAt(given, Taken)
          /\ counts[Setting] = given.list[SettingAt(given, Taken)].endpoints
          /\ spot[3] = EndpointAt(given, Taken)
      BY <1>1, <3>1 DEF ParseInv, SpotInv
    <3>3. /\ counts[Setting] \in Nat /\ spot[3] \in 0..counts[Setting]
      <4> DEFINE n == given.list[SettingAt(given, Taken)].endpoints
      <4>1. n \in 0..MaxEndpoints /\ EndpointAt(given, Taken) \in 0..n
        BY <3>2, <1>1, <1>2, EndpointsToCome
      <4>2. n = counts[Setting] /\ EndpointAt(given, Taken) = spot[3]
        BY <3>2
      <4>3. MaxEndpoints \in Nat
        BY DEF ConfigurationsAssumption
      <4> HIDE DEF n
      <4> QED
        BY <4>1, <4>2, <4>3
    <3>4. /\ parsing' \in {"endpoints", "endpoint", "alternate"}
          /\ spot' \in [1..3 -> Nat] /\ spot'[1] = spot[1] /\ spot'[2] = spot[2]
          /\ parsing' # "endpoint" => spot'[3] = spot[3]
          /\ parsing' = "endpoint" => spot'[3] = spot[3] + 1
          /\ parsing' = "endpoints" => spot[3] = 0
          /\ parsing' = "alternate" => spot[3] = counts[Setting]
      <4>1. CASE level = "interface"
        <5>1. AfterSkip = "endpoints" /\ spot[3] = 0
          BY <4>1, <1>1 DEF AfterSkip, LeakInv, PlaceInv
        <5>2. spot' = spot
          BY <5>1, <4>1, <1>6
        <5> QED
          BY <5>1, <5>2, <1>6, <2>4
      <4>2. CASE level = "endpoint" /\ spot[3] < counts[Setting]
        <5>1. AfterSkip = "endpoint"
          BY <4>2 DEF AfterSkip, Setting
        <5>2. spot' = [spot EXCEPT ![3] = @ + 1]
          BY <5>1, <4>2, <1>6
        <5>3. /\ spot' \in [1..3 -> Nat] /\ spot'[1] = spot[1] /\ spot'[2] = spot[2]
              /\ spot'[3] = spot[3] + 1
          BY <5>2, <2>4
        <5> QED
          BY <5>1, <5>3, <1>6
      <4>3. CASE level = "endpoint" /\ ~(spot[3] < counts[Setting])
        <5>1. AfterSkip = "alternate"
          BY <4>3 DEF AfterSkip, Setting
        <5>2. spot' = spot
          BY <5>1, <4>3, <1>6
        <5> QED
          BY <5>1, <5>2, <4>3, <3>3, <1>6, <2>4
      <4> QED
        BY <4>1, <4>2, <4>3, <2>6, <1>1
    <3>5. Setting' = Setting
      BY <3>4 DEF Setting
    <3>6. SpotInv'
      BY <3>2, <3>4, <3>5, <2>2, <1>3, <1>6 DEF SpotInv, AtSetting
    <3>7. SettingsInv'
      BY <3>4, <1>6 DEF ParseInv, SettingsInv
    <3> QED
      BY <3>6, <3>7, <2>2, <2>3 DEF ParseInv
  <2> QED
    BY <2>5, <2>6
<1> QED
  BY <1>4, <1>5, <1>6

LEMMA InterfaceParses ==
  ASSUME LeakInv, ParseInv, WellFormed(given), ConfigurationsAssumption, ParseInterface
  PROVE  ParseInv'
<1> DEFINE at == <<spot[1], spot[2] + 1>>
           n  == Taken + 1
<1>1. parsing = "interface" /\ given \in Configurations
  BY DEF ParseInterface, LeakInv, PlaceInv
<1>2. /\ Taken \in Nat /\ Len(given.list) \in Nat /\ Taken < Len(given.list)
      /\ n \in InterfacesOf(given)
      /\ n \in FirstsOf(given) => spot[1] = InterfaceAt(given, Taken) + 1 /\ spot[2] = 0
      /\ n \notin FirstsOf(given) =>
           spot[1] = InterfaceAt(given, Taken) /\ spot[2] = AlternateAt(given, Taken)
  BY <1>1, HereIs DEF ParseInv, SpotInv
<1>3. given.list[n].kind = "interface" /\ (n \in FirstsOf(given) <=> given.list[n].alternate = 0)
  BY <1>1, <1>2, PlacesAre
<1>4. Here = given.list[n] /\ left >= InterfaceLength /\ left \in Nat
  BY <1>1, <1>2, <1>3, HereIs DEF ParseInv
<1>5. ~(left < InterfaceLength)
  BY <1>4 DEF InterfaceLength
<1>6. CASE Fails("no_memory")
  BY <1>6, EndsFailed
<1>7. CASE ~Fails("no_memory")
  <2>1. /\ ended' = ended /\ given' = given /\ parsing' = "skip" /\ level' = "interface"
        /\ Takes(<<spot[1], spot[2] + 1, 0>>) /\ spot' = <<spot[1], spot[2] + 1, 0>>
        /\ counts' = [s \in DOMAIN counts \union {at} |->
                        IF s \in DOMAIN counts THEN counts[s] ELSE Here.endpoints]
    BY <1>5, <1>7 DEF ParseInterface, Allocates
  <2>2. spot[1] \in Nat /\ spot[2] \in Nat
    BY SpotIs DEF LeakInv
  <2>3. /\ SettingAt(given, n) = n /\ EndpointAt(given, n) = 0
        /\ InterfaceAt(given, n) = spot[1] /\ AlternateAt(given, n) = spot[2] + 1
    <3>1. /\ SettingAt(given, n) = n /\ EndpointAt(given, n) = 0
          /\ given.list[n].alternate # 0 => /\ InterfaceAt(given, n) = InterfaceAt(given, Taken)
                                            /\ AlternateAt(given, n) = AlternateAt(given, Taken) + 1
          /\ given.list[n].alternate = 0 => /\ InterfaceAt(given, n) = InterfaceAt(given, Taken) + 1
                                            /\ AlternateAt(given, n) = 1
      BY <1>1, <1>2, <1>3, BelongsNext
    <3> HIDE DEF n
    <3>2. CASE n \in FirstsOf(given)
      <4>1. spot[2] + 1 = 1
        BY <3>2, <1>2
      <4> QED
        BY <4>1, <3>1, <3>2, <1>2, <1>3
    <3>3. CASE n \notin FirstsOf(given)
      BY <3>1, <3>3, <1>2, <1>3
    <3> QED
      BY <3>2, <3>3
  <2>4. Belongs(given, n) = <<spot[1], spot[2] + 1, 0>>
    BY <2>3 DEF Belongs
  <2>5. SizeInv' /\ PlacedInv' /\ Taken' = n
    BY <2>1, <2>4, <1>1, <1>2, TakesOne DEF ParseInv
  <2>6. spot'[1] = spot[1] /\ spot'[2] = spot[2] + 1 /\ spot'[3] = 0
    BY <2>1
  <2>7. Setting' = at
    BY <2>6 DEF Setting
  <2>8. at \notin DOMAIN counts
    <3>1. at[1] = spot[1] /\ ~(at[2] <= spot[2])
      BY <2>2
    <3> QED
      BY <3>1 DEF ParseInv, SettingsInv
  <2>9. counts'[at] = Here.endpoints /\ DOMAIN counts' = DOMAIN counts \union {at}
    BY <2>1, <2>8
  <2>10. SpotInv'
    <3>1. SettingAt(given, n) # 0
      BY <2>3, <1>2
    <3>2. counts'[Setting'] = given.list[SettingAt(given, n)].endpoints
      BY <2>3, <2>7, <2>9, <1>4
    <3> HIDE DEF n
    <3> QED
      BY <3>1, <3>2, <2>1, <2>3, <2>5, <2>6 DEF SpotInv, AtSetting
  <2>11. SettingsInv'
    <3> SUFFICES ASSUME NEW s \in DOMAIN counts'
                 PROVE  s \in Nat \X Nat /\ s[1] <= spot'[1] /\ (s[1] = spot'[1] => s[2] <= spot'[2])
      BY DEF SettingsInv
    <3>1. CASE s = at
      BY <3>1, <2>2, <2>6
    <3>2. CASE s \in DOMAIN counts
      <4>1. s \in Nat \X Nat /\ s[1] <= spot[1] /\ (s[1] = spot[1] => s[2] <= spot[2])
        BY <3>2 DEF ParseInv, SettingsInv
      <4>2. s[2] \in Nat
        BY <4>1
      <4> QED
        BY <4>1, <4>2, <2>2, <2>6
    <3> QED
      BY <3>1, <3>2, <2>9
  <2>12. EndInv'
    BY <1>1, <2>1, NotEnded
  <2> QED
    BY <2>5, <2>10, <2>11, <2>12 DEF ParseInv
<1> QED
  BY <1>6, <1>7

LEMMA EndpointsParse ==
  ASSUME LeakInv, ParseInv, WellFormed(given), ConfigurationsAssumption, ParseEndpoints
  PROVE  ParseInv'
<1> DEFINE n == counts[<<spot[1], spot[2]>>]
<1>1. parsing = "endpoints" /\ AtSetting /\ given \in Configurations
  BY DEF ParseEndpoints, LeakInv, PlaceInv, AtSetting
<1>2. /\ Taken \in Nat /\ Len(given.list) \in Nat /\ Taken <= Len(given.list)
      /\ SettingAt(given, Taken) # 0
      /\ spot[1] = InterfaceAt(given, Taken) /\ spot[2] = AlternateAt(given, Taken)
      /\ n = given.list[SettingAt(given, Taken)].endpoints
      /\ spot[3] = EndpointAt(given, Taken) /\ spot[3] = 0
      /\ Taken < Len(given.list) => given.list[Taken + 1].kind # "class"
  BY <1>1, HereIs DEF ParseInv, SpotInv, Setting
<1>3. n \in 0..MaxEndpoints /\ MaxEndpoints \in Nat
  BY <1>1, <1>2, EndpointsToCome DEF ConfigurationsAssumption
<1>4. ~(left >= HeaderLength /\ Here.kind = "config")
  <2>1. /\ Taken < Len(given.list) => Here.kind \in {"interface", "endpoint", "class"}
        /\ Taken = Len(given.list) => left = 0
    BY <1>1, HereIs DEF ParseInv
  <2>2. CASE Taken < Len(given.list)
    BY <2>1, <2>2
  <2>3. CASE Taken = Len(given.list)
    BY <2>1, <2>3 DEF HeaderLength
  <2> QED
    BY <2>2, <2>3, <1>2
<1>5. \/ Fails("no_memory")
      \/ /\ n = 0 /\ parsing' = "alternate" /\ ended' = ended
         /\ UNCHANGED <<given, level, left, position, spot, counts, placed>>
      \/ /\ n # 0 /\ parsing' = "endpoint" /\ spot' = [spot EXCEPT ![3] = 1] /\ ended' = ended
         /\ UNCHANGED <<given, level, left, position, counts, placed>>
  <2>1. ~(n > MaxEndpoints) /\ n \in Nat
    BY <1>3
  <2>2. CASE n = 0
    BY <2>1, <2>2, <1>1, <1>4 DEF ParseEndpoints, Goes
  <2>3. CASE n # 0
    BY <2>1, <2>3, <1>1, <1>4 DEF ParseEndpoints, Allocates
  <2> QED
    BY <2>2, <2>3
<1>6. ASSUME parsing' \in {"alternate", "endpoint"}, ended' = ended,
             UNCHANGED <<given, level, left, position, counts, placed>>, spot' \in [1..3 -> Nat],
             spot'[1] = spot[1], spot'[2] = spot[2],
             parsing' = "alternate" => spot'[3] = 0 /\ n = 0,
             parsing' = "endpoint" => spot'[3] = 1
      PROVE  ParseInv'
  <2>1. SizeInv' /\ PlacedInv' /\ Taken' = Taken
    BY <1>1, <1>6, TakesNone DEF ParseInv
  <2>2. Setting' = Setting /\ n = counts[Setting]
    BY <1>6 DEF Setting
  <2> HIDE DEF n
  <2>3. SpotInv'
    <3>1. EndpointAt(given, Taken) = 0 /\ EndpointAt(given, Taken) + 1 = 1
      BY <1>2
    <3>2. /\ parsing' # "endpoint" => spot'[3] = EndpointAt(given, Taken)
          /\ parsing' = "endpoint" => spot'[3] = EndpointAt(given, Taken) + 1
          /\ parsing' = "alternate" => spot'[3] = counts[Setting]
      BY <3>1, <1>6, <2>2
    <3> QED
      BY <3>2, <1>2, <1>6, <2>1, <2>2 DEF SpotInv, AtSetting
  <2>4. SettingsInv'
    BY <1>6 DEF ParseInv, SettingsInv
  <2>5. EndInv'
    BY <1>1, <1>6, NotEnded
  <2> QED
    BY <2>1, <2>3, <2>4, <2>5 DEF ParseInv
<1>7. spot \in [1..3 -> Nat]
  BY DEF LeakInv, PlaceInv
<1>8. CASE /\ n = 0 /\ parsing' = "alternate" /\ ended' = ended
           /\ UNCHANGED <<given, level, left, position, spot, counts, placed>>
  BY <1>2, <1>6, <1>7, <1>8
<1>9. CASE /\ n # 0 /\ parsing' = "endpoint" /\ spot' = [spot EXCEPT ![3] = 1] /\ ended' = ended
           /\ UNCHANGED <<given, level, left, position, counts, placed>>
  <2>1. spot' \in [1..3 -> Nat] /\ spot'[1] = spot[1] /\ spot'[2] = spot[2] /\ spot'[3] = 1
    BY <1>7, <1>9
  <2> QED
    BY <2>1, <1>6, <1>9
<1> QED
  BY <1>5, <1>8, <1>9, EndsFailed

LEMMA EndpointParses ==
  ASSUME LeakInv, ParseInv, WellFormed(given), ConfigurationsAssumption, ParseEndpoint
  PROVE  ParseInv'
<1>1. parsing = "endpoint" /\ AtSetting /\ AtEndpoint /\ given \in Configurations
  BY DEF ParseEndpoint, LeakInv, PlaceInv, AtSetting, AtEndpoint
<1>2. /\ Taken \in Nat /\ Len(given.list) \in Nat /\ Taken <= Len(given.list)
      /\ SettingAt(given, Taken) # 0
      /\ spot[1] = InterfaceAt(given, Taken) /\ spot[2] = AlternateAt(given, Taken)
      /\ counts[Setting] = given.list[SettingAt(given, Taken)].endpoints
      /\ spot[3] = EndpointAt(given, Taken) + 1
      /\ Taken < Len(given.list) => given.list[Taken + 1].kind # "class"
  BY <1>1, HereIs DEF ParseInv, SpotInv
<1>3. spot[3] \in 1..counts[Setting] /\ counts[Setting] \in Nat /\ spot[3] \in Nat
  BY <1>1, SpotIs DEF LeakInv, PlaceInv
<1>4. Taken < Len(given.list) /\ given.list[Taken + 1].kind = "endpoint"
  <2>1. EndpointAt(given, Taken) \in Nat
    BY <1>1, <1>2, BelongsNumbers
  <2>2. EndpointAt(given, Taken) < counts[Setting]
    BY <2>1, <1>2, <1>3
  <2> QED
    BY <2>2, <1>1, <1>2, EndpointsToCome
<1>5. Readable = {Here} /\ Here = given.list[Taken + 1] /\ Here.kind = "endpoint" /\ ~(Here.length > left)
  <2>1. /\ Readable = {Here} /\ Here = given.list[Taken + 1]
        /\ Here.length <= left /\ Here.length \in Nat /\ left \in Nat
    BY <1>1, <1>4, HereIs DEF ParseInv
  <2> QED
    BY <2>1, <1>4
<1>6. /\ Takes(spot) /\ parsing' = "skip" /\ level' = "endpoint"
      /\ UNCHANGED <<given, spot, counts, ended>>
  BY <1>5 DEF ParseEndpoint
<1>7. /\ SettingAt(given, Taken + 1) = SettingAt(given, Taken)
      /\ InterfaceAt(given, Taken + 1) = InterfaceAt(given, Taken)
      /\ AlternateAt(given, Taken + 1) = AlternateAt(given, Taken)
      /\ EndpointAt(given, Taken + 1) = EndpointAt(given, Taken) + 1
  BY <1>1, <1>2, <1>4, BelongsNext
<1>8. spot = Belongs(given, Taken + 1)
  BY <1>2, <1>7, SpotIs DEF Belongs, LeakInv
<1>9. SizeInv' /\ PlacedInv' /\ Taken' = Taken + 1
  BY <1>1, <1>4, <1>6, <1>8, TakesOne DEF ParseInv
<1>10. Setting' = Setting
  BY <1>6 DEF Setting
<1>11. SpotInv'
  BY <1>2, <1>6, <1>7, <1>9, <1>10 DEF SpotInv, AtSetting
<1>12. SettingsInv'
  BY <1>6 DEF ParseInv, SettingsInv
<1>13. EndInv'
  BY <1>1, <1>6, NotEnded
<1> QED
  BY <1>9, <1>11, <1>12, <1>13 DEF ParseInv

LEMMA AlternateParses ==
  ASSUME LeakInv, ParseInv, WellFormed(given), ConfigurationsAssumption, ParseAlternate
  PROVE  ParseInv'
<1>1. parsing = "alternate" /\ AtSetting /\ given \in Configurations
  BY DEF ParseAlternate, LeakInv, PlaceInv, AtSetting
<1>2. /\ Taken \in Nat /\ Len(given.list) \in Nat /\ Taken <= Len(given.list)
      /\ SettingAt(given, Taken) # 0
      /\ spot[1] = InterfaceAt(given, Taken) /\ spot[2] = AlternateAt(given, Taken)
      /\ EndpointAt(given, Taken) = given.list[SettingAt(given, Taken)].endpoints
      /\ Taken < Len(given.list) => given.list[Taken + 1].kind # "class"
  BY <1>1, HereIs DEF ParseInv, SpotInv
<1>3. Taken < Len(given.list) =>
        /\ Here = given.list[Taken + 1] /\ Here.kind = "interface" /\ left >= InterfaceLength
        /\ Taken + 1 \in InterfacesOf(given)
        /\ Taken + 1 \in FirstsOf(given) <=> Here.alternate = 0
  <2> SUFFICES ASSUME Taken < Len(given.list)
               PROVE  /\ Here = given.list[Taken + 1] /\ Here.kind = "interface" /\ left >= InterfaceLength
                      /\ Taken + 1 \in InterfacesOf(given)
                      /\ Taken + 1 \in FirstsOf(given) <=> Here.alternate = 0
    OBVIOUS
  <2>1. given.list[Taken + 1].kind # "endpoint"
    BY <1>1, <1>2, EndpointsToCome
  <2>2. /\ Here = given.list[Taken + 1] /\ Here.kind \in {"interface", "endpoint", "class"}
        /\ Here.kind = "interface" => left >= InterfaceLength
    BY <1>1, HereIs DEF ParseInv
  <2>3. Here.kind = "interface"
    BY <2>1, <2>2, <1>2
  <2>4. Taken + 1 \in 1..Len(given.list)
    BY <1>2
  <2> QED
    BY <2>2, <2>3, <2>4, <1>1, PlacesAre
<1>4. Taken = Len(given.list) => left = 0
  BY <1>1, HereIs DEF ParseInv
<1>5. ASSUME parsing' \in {"interface", "next"},
             UNCHANGED <<given, level, left, position, spot, counts, placed, ended>>
      PROVE  SizeInv' /\ PlacedInv' /\ Taken' = Taken /\ SettingsInv' /\ EndInv'
  <2>1. SizeInv' /\ PlacedInv' /\ Taken' = Taken
    BY <1>1, <1>5, TakesNone DEF ParseInv
  <2>2. SettingsInv'
    BY <1>5 DEF ParseInv, SettingsInv
  <2>3. EndInv'
    BY <1>1, <1>5, NotEnded
  <2> QED
    BY <2>1, <2>2, <2>3
<1>6. CASE left >= InterfaceLength /\ AnotherSetting(Here)
  <2>1. /\ parsing' = "interface"
        /\ UNCHANGED <<given, level, left, position, spot, counts, placed, ended>>
    BY <1>6 DEF ParseAlternate, Goes
  <2>2. Taken < Len(given.list)
    <3>1. Taken # Len(given.list)
      BY <1>4, <1>6 DEF InterfaceLength
    <3> QED
      BY <3>1, <1>2
  <2>3. Taken + 1 \in InterfacesOf(given) /\ Taken + 1 \notin FirstsOf(given)
    BY <2>2, <1>3, <1>6 DEF AnotherSetting
  <2>4. SizeInv' /\ PlacedInv' /\ Taken' = Taken /\ SettingsInv' /\ EndInv'
    BY <2>1, <1>5
  <2>5. SpotInv'
    BY <2>1, <2>2, <2>3, <2>4, <1>2 DEF SpotInv, AtSetting
  <2> QED
    BY <2>4, <2>5 DEF ParseInv
<1>7. CASE ~(left >= InterfaceLength /\ AnotherSetting(Here))
  <2>1. /\ parsing' = "next"
        /\ UNCHANGED <<given, level, left, position, spot, counts, placed, ended>>
    BY <1>7 DEF ParseAlternate, ReturnsParsed, Goes
  <2>2. Taken < Len(given.list) => Taken + 1 \in FirstsOf(given)
    BY <1>3, <1>7 DEF AnotherSetting
  <2>3. SizeInv' /\ PlacedInv' /\ Taken' = Taken /\ SettingsInv' /\ EndInv'
    BY <2>1, <1>5
  <2>4. BetweenTwo'
    BY <2>1, <2>2, <2>3, <1>2 DEF BetweenTwo
  <2>5. SpotInv'
    BY <2>1, <2>4 DEF SpotInv, AtSetting
  <2> QED
    BY <2>3, <2>5 DEF ParseInv
<1> QED
  BY <1>6, <1>7

LEMMA FreeParses ==
  ASSUME LeakInv, ParseInv, FreeConfigDescriptor
  PROVE  ParseInv'
<1>1. /\ ended' = "freed" /\ parsing' = "done"
      /\ UNCHANGED <<given, level, left, position, spot, counts, placed>>
  BY DEF FreeConfigDescriptor, Frees
<1>2. Taken' = Taken
  BY <1>1 DEF Taken
<1>3. SizeInv' /\ PlacedInv'
  BY <1>1, <1>2 DEF ParseInv, SizeInv, PlacedInv
<1>4. SpotInv'
  BY <1>1 DEF SpotInv, AtSetting
<1>5. SettingsInv' /\ EndInv'
  BY <1>1 DEF ParseInv, SettingsInv, EndInv
<1> QED
  BY <1>3, <1>4, <1>5 DEF ParseInv

(* ConfigurationParsed, for every set of configurations: nothing leaks,    *)
(* whatever the device answers, and a well-formed configuration of any     *)
(* length is parsed as it is meant.                                        *)
THEOREM ConfigurationsAreParsed == DescSpec => []ConfigurationParsed
<1> USE ConfigurationsAssumption
<1> DEFINE Inv == LeakInv /\ (WellFormed(given) => ParseInv)
<1>1. DescInit => Inv
  <2> SUFFICES ASSUME DescInit PROVE Inv
    OBVIOUS
  <2>1. LeakInv
    BY DEF DescInit, LeakInv, PlaceInv, BlocksInv, NothingLeaks, AtSetting, AtEndpoint
  <2>2. /\ Taken = 0 /\ given \in Configurations /\ parsing = "get" /\ spot = <<0, 0, 0>>
        /\ DOMAIN counts = {} /\ placed = <<>> /\ ended = "none"
    BY DEF DescInit, Taken
  <2>3. SizeInv
    BY <2>2, ListIs DEF SizeInv
  <2>4. PlacedInv
    <3> DEFINE T == Nat \X Nat \X Nat
    <3> HIDE DEF T
    <3>1. placed \in Seq(T) /\ Len(placed) = 0
      BY <2>2
    <3>2. 1..Taken = {}
      BY <2>2
    <3> QED
      BY <3>1, <3>2, <2>2 DEF PlacedInv, T
  <2>5. BeforeFirst
    BY <2>2, BelongsFirst DEF BeforeFirst
  <2>6. SpotInv
    BY <2>2, <2>5 DEF SpotInv, AtSetting
  <2>7. SettingsInv /\ EndInv
    BY <2>2 DEF SettingsInv, EndInv
  <2> QED
    BY <2>1, <2>3, <2>4, <2>6, <2>7 DEF ParseInv
<1>2. Inv /\ [DescNext]_descVars => Inv'
  <2> SUFFICES ASSUME Inv, [DescNext]_descVars PROVE Inv'
    OBVIOUS
  <2>1. LeakInv'
    BY LeakStep
  <2>2. CASE DescNext
    <3>1. given' = given
      BY <2>2 DEF DescNext, GetConfigDescriptor, ReadLength, ReadDescriptors, ParseConfiguration,
           SkipDescriptor, StoreExtra, NextInterface, ParseInterface, ParseEndpoints, ParseEndpoint,
           ParseAlternate, FreeConfigDescriptor, Allocates, BackendAnswers, Fails, Frees, Goes,
           ReturnsParsed
    <3>2. WellFormed(given') => WellFormed(given)
      BY <3>1
    <3>3. ASSUME WellFormed(given) PROVE ParseInv'
      BY <3>3, <2>2, ReadParses, NextParses, SkipParses, StoreParses, InterfaceParses, EndpointsParse,
         EndpointParses, AlternateParses, FreeParses DEF DescNext
    <3> QED
      BY <2>1, <3>2, <3>3
  <2>3. CASE UNCHANGED descVars
    <3>1. UNCHANGED <<given, parsing, level, left, position, spot, counts, placed, blocks, ended>>
      BY <2>3 DEF descVars, parseVars
    <3>2. Taken' = Taken /\ Setting' = Setting
      BY <3>1 DEF Taken, Setting
    <3>3. ASSUME ParseInv PROVE ParseInv'
      <4>1. SizeInv' /\ PlacedInv' /\ SettingsInv' /\ EndInv'
        BY <3>1, <3>2, <3>3 DEF ParseInv, SizeInv, PlacedInv, SettingsInv, EndInv
      <4>2. SpotInv'
        BY <3>1, <3>2, <3>3 DEF ParseInv, SpotInv, BeforeFirst, BetweenTwo, AtSetting
      <4> QED
        BY <4>1, <4>2 DEF ParseInv
    <3>4. WellFormed(given') => WellFormed(given)
      BY <3>1
    <3> QED
      BY <2>1, <3>3, <3>4
  <2> QED
    BY <2>2, <2>3
<1>3. Inv => ConfigurationParsed
  <2> SUFFICES ASSUME Inv PROVE ConfigurationParsed
    OBVIOUS
  <2>1. NothingLeaks
    BY DEF LeakInv
  <2>2. ASSUME WellFormed(given)
        PROVE  ended # "error" /\ (ended = "ok" => placed = [k \in DOMAIN given.list |-> Belongs(given, k)])
    <3>1. ended # "error"
      BY <2>2 DEF ParseInv, EndInv
    <3>2. ASSUME ended = "ok" PROVE placed = [k \in DOMAIN given.list |-> Belongs(given, k)]
      <4>1. /\ Len(placed) = Len(given.list) /\ placed \in Seq(Nat \X Nat \X Nat)
            /\ \A k \in 1..Len(given.list) : placed[k] = Belongs(given, k)
        BY <2>2, <3>2 DEF ParseInv, EndInv, PlacedInv
      <4>2. DOMAIN given.list = 1..Len(given.list)
        BY ListIs DEF LeakInv, PlaceInv
      <4>3. placed = [k \in 1..Len(placed) |-> placed[k]]
        <5> DEFINE T == Nat \X Nat \X Nat
        <5>1. placed \in Seq(T)
          BY <4>1
        <5> HIDE DEF T
        <5> QED
          BY <5>1
      <4> QED
        BY <4>1, <4>2, <4>3
    <3> QED
      BY <3>1, <3>2
  <2> QED
    BY <2>1, <2>2 DEF ConfigurationParsed
<1> QED
  BY <1>1, <1>2, <1>3, PTL DEF DescSpec

-----------------------------------------------------------------------------
(* Descriptors: the types, for any configuration.  What the parser has left*)
(* is never more than the descriptors that it has not taken, so that it    *)
(* takes none behind the last, however short the device has cut them.      *)
NotTaken == BytesOfLast(given)[Len(given.list) - Taken]

DescTypes ==
  /\ DescTypeOK /\ placed \in Seq([1..3 -> Nat]) /\ left <= NotTaken
  /\ parsing \in {"get", "length", "read", "configuration"} => Taken = 0

LEMMA NotTakenIs ==
  ASSUME ConfigurationsAssumption, DescTypeOK
  PROVE  /\ Taken \in Nat /\ Len(given.list) \in Nat /\ Taken <= Len(given.list)
         /\ position = Taken + 1 /\ given \in Configurations /\ NotTaken \in Nat
         /\ Taken = Len(given.list) => NotTaken = 0
         /\ Taken < Len(given.list) =>
              /\ Readable = {given.list[position]} /\ Here = given.list[position]
              /\ Here.length \in Nat
              /\ NotTaken = BytesOfLast(given)[Len(given.list) - (Taken + 1)] + Here.length
<1> DEFINE N == Len(given.list)
<1>1. N \in Nat /\ position \in 1..(N + 1) /\ given \in Configurations
  BY ListIs DEF DescTypeOK
<1>2. /\ BytesOfLast(given)[0] = 0 /\ \A n \in 0..N : BytesOfLast(given)[n] \in Nat
      /\ \A n \in 1..N : BytesOfLast(given)[n] = BytesOfLast(given)[n - 1] + given.list[N - n + 1].length
  BY <1>1, BytesOfLastIs
<1> HIDE DEF N
<1>3. Taken \in Nat /\ Taken <= N /\ position = Taken + 1
  BY <1>1 DEF Taken
<1>4. NotTaken \in Nat /\ (Taken = N => NotTaken = 0)
  <2>1. N - Taken \in 0..N /\ (Taken = N => N - Taken = 0)
    BY <1>1, <1>3
  <2>2. NotTaken = BytesOfLast(given)[N - Taken]
    BY DEF NotTaken, N
  <2> QED
    BY <1>2, <2>1, <2>2
<1>5. ASSUME Taken < N
      PROVE  /\ Readable = {given.list[position]} /\ Here = given.list[position]
             /\ Here.length \in Nat
             /\ NotTaken = BytesOfLast(given)[N - (Taken + 1)] + Here.length
  <2>1. position <= Len(given.list) /\ position \in 1..N
    BY <1>1, <1>3, <1>5 DEF N
  <2>2. Readable = {given.list[position]}
    BY <2>1 DEF Readable
  <2>3. Here = given.list[position]
    BY <2>2 DEF Here
  <2>4. Here.length \in Nat
    BY <1>1, <2>1, <2>3, ListIs DEF N
  <2> DEFINE n == N - Taken
  <2>5. n \in 1..N /\ n - 1 = N - (Taken + 1) /\ N - n + 1 = position
    BY <1>1, <1>3, <1>5
  <2>6. NotTaken = BytesOfLast(given)[n]
    BY DEF NotTaken, N
  <2> HIDE DEF n
  <2> QED
    BY <1>2, <2>2, <2>3, <2>4, <2>5, <2>6
<1> QED
  BY <1>1, <1>3, <1>4, <1>5 DEF N

(* What fits, or is an endpoint, is one of the descriptors.                *)
LEMMA OneIsThere ==
  ASSUME ConfigurationsAssumption, DescTypes,
         left >= HeaderLength \/ \E d \in Readable : d.kind = "endpoint"
  PROVE  Taken < Len(given.list)
<1>1. DescTypeOK /\ left \in Int /\ left <= NotTaken
  BY DEF DescTypes, DescTypeOK
<1>2. /\ Taken \in Nat /\ Len(given.list) \in Nat /\ Taken <= Len(given.list)
      /\ position = Taken + 1 /\ (Taken = Len(given.list) => NotTaken = 0)
  BY <1>1, NotTakenIs
<1>3. CASE left >= HeaderLength
  BY <1>1, <1>2, <1>3 DEF HeaderLength
<1>4. CASE \E d \in Readable : d.kind = "endpoint"
  <2>1. position <= Len(given.list)
    BY <1>4 DEF Readable, Behind
  <2> QED
    BY <1>2, <2>1
<1> QED
  BY <1>3, <1>4

LEMMA TakesTypes ==
  ASSUME ConfigurationsAssumption, DescTypes, Taken < Len(given.list),
         NEW by \in [1..3 -> Nat], Takes(by), given' = given
  PROVE  /\ left' \in Int /\ left' <= NotTaken' /\ position' \in 1..(Len(given'.list) + 1)
         /\ placed' \in Seq([1..3 -> Nat]) /\ Len(placed') = position' - 1
         /\ position' \in Nat /\ position < position'
<1>1. DescTypeOK /\ left \in Int /\ left <= NotTaken /\ Len(placed) = position - 1
  BY DEF DescTypes, DescTypeOK
<1>2. /\ Taken \in Nat /\ Len(given.list) \in Nat /\ position = Taken + 1 /\ Here.length \in Nat
      /\ NotTaken \in Nat
      /\ NotTaken = BytesOfLast(given)[Len(given.list) - (Taken + 1)] + Here.length
  BY <1>1, NotTakenIs
<1>3. position' = position + 1 /\ left' = left - Here.length /\ placed' = Append(placed, by)
  BY DEF Takes
<1>4. Taken' = Taken + 1
  BY <1>2, <1>3 DEF Taken
<1>5. NotTaken' = BytesOfLast(given)[Len(given.list) - (Taken + 1)]
  BY <1>4 DEF NotTaken
<1>6. NotTaken' \in Int
  <2>1. Len(given.list) - (Taken + 1) \in 0..Len(given.list) /\ given \in Configurations
    <3>1. given \in Configurations
      BY <1>1 DEF DescTypeOK
    <3> QED
      BY <1>2, <3>1, SMTT(20)
  <2>2. BytesOfLast(given)[Len(given.list) - (Taken + 1)] \in Nat
    BY <2>1, BytesOfLastIs
  <2> QED
    BY <1>5, <2>2
<1>7. left' \in Int /\ left' <= NotTaken'
  BY <1>1, <1>2, <1>3, <1>5, <1>6, SMTT(20)
<1>8. placed' \in Seq([1..3 -> Nat]) /\ Len(placed') = Len(placed) + 1
  <2> DEFINE T == [1..3 -> Nat]
  <2>1. placed \in Seq(T) /\ by \in T
    BY DEF DescTypes
  <2> HIDE DEF T
  <2>2. Append(placed, by) \in Seq(T) /\ Len(Append(placed, by)) = Len(placed) + 1
    BY <2>1, AppendProperties
  <2> QED
    BY <1>3, <2>2 DEF T
<1> QED
  BY <1>1, <1>2, <1>3, <1>7, <1>8

LEMMA SettingTypes ==
  ASSUME DescTypeOK
  PROVE  /\ spot \in [1..3 -> Nat] /\ <<0, 0, 0>> \in [1..3 -> Nat]
         /\ <<spot[1] + 1, 0, 0>> \in [1..3 -> Nat]
         /\ <<spot[1], spot[2] + 1, 0>> \in [1..3 -> Nat]
         /\ [spot EXCEPT ![3] = @ + 1] \in [1..3 -> Nat] /\ [spot EXCEPT ![3] = 1] \in [1..3 -> Nat]
  BY DEF DescTypeOK

(* Steps that take nothing.                                                *)
LEMMA StaysTyped ==
  ASSUME ConfigurationsAssumption, DescTypes, UNCHANGED <<given, position, placed>>,
         left' \in Int, left' <= NotTaken,
         parsing' \in {"get", "length", "read", "configuration"} => Taken = 0,
         parsing' \in {"get", "length", "read", "configuration", "next", "skip", "interface",
                       "endpoints", "endpoint", "alternate", "done"},
         level' \in {"config", "interface", "endpoint"}, spot' \in [1..3 -> Nat],
         begin' = begin \/ begin' = position,
         ended' \in {"none", "ok", "error", "no_memory", "failed", "freed"}
  PROVE  DescTypes'
<1>1. NotTaken' = NotTaken /\ Taken' = Taken
  BY DEF NotTaken, Taken
<1>2. position \in 1..position
  <2>1. Taken \in Nat /\ position = Taken + 1
    BY NotTakenIs DEF DescTypes
  <2> QED
    BY <2>1
<1> QED
  BY <1>1, <1>2 DEF DescTypes, DescTypeOK

LEMMA FreesTyped ==
  ASSUME ConfigurationsAssumption, DescTypes,
         NEW set, NEW how \in {"ok", "error", "no_memory", "failed", "freed"}, Frees(set, how)
  PROVE  DescTypes'
  BY StaysTyped DEF Frees, DescTypes, DescTypeOK

LEMMA FailsTyped ==
  ASSUME ConfigurationsAssumption, DescTypes,
         NEW how \in {"ok", "error", "no_memory", "failed", "freed"}, Fails(how)
  PROVE  DescTypes'
  BY FreesTyped DEF Fails

LEMMA GoesTyped ==
  ASSUME ConfigurationsAssumption, DescTypes, UNCHANGED ended,
         NEW where \in {"length", "read", "next", "interface", "alternate"}, Goes(where),
         where \in {"length", "read"} => Taken = 0
  PROVE  DescTypes'
  BY StaysTyped DEF Goes, DescTypes, DescTypeOK

LEMMA BeginTyped ==
  ASSUME ConfigurationsAssumption, DescTypes,
         GetConfigDescriptor \/ ReadLength \/ ReadDescriptors \/ ParseConfiguration
  PROVE  DescTypes'
<1>1. Taken = 0
  BY DEF GetConfigDescriptor, ReadLength, ReadDescriptors, ParseConfiguration, DescTypes
<1>2. \/ Fails("no_memory") \/ Fails("failed") \/ Fails("error")
      \/ \E where \in {"length", "read", "next"} : UNCHANGED ended /\ Goes(where)
      \/ /\ left' = TotalLength(given) - ConfigLength /\ parsing' = "configuration"
         /\ UNCHANGED <<given, level, position, begin, spot, placed, ended>>
  BY DEF GetConfigDescriptor, ReadLength, ReadDescriptors, ParseConfiguration, Allocates, BackendAnswers
<1>3. CASE /\ left' = TotalLength(given) - ConfigLength /\ parsing' = "configuration"
           /\ UNCHANGED <<given, level, position, begin, spot, placed, ended>>
  <2>1. Len(given.list) \in Nat /\ given \in Configurations /\ NotTaken \in Nat
    BY NotTakenIs DEF DescTypes
  <2>2. given.cut \in Nat
    BY <2>1, ListIs
  <2>3. Len(given.list) - Taken = Len(given.list)
    BY <1>1, <2>1
  <2>4. NotTaken = BytesOfLast(given)[Len(given.list)]
    BY <2>3 DEF NotTaken
  <2>5. left' = NotTaken - given.cut
    BY <1>3, <2>1, <2>2, <2>4 DEF TotalLength, ConfigLength
  <2>6. left' \in Int /\ left' <= NotTaken
    BY <2>1, <2>2, <2>5
  <2> QED
    BY <1>1, <1>3, <2>6, StaysTyped DEF DescTypes, DescTypeOK
<1> QED
  BY <1>1, <1>2, <1>3, FailsTyped, GoesTyped

LEMMA NextTyped ==
  ASSUME ConfigurationsAssumption, DescTypes, NextInterface
  PROVE  DescTypes'
<1>1. CASE Frees({<<"buffer">>}, "ok")
  BY <1>1, FreesTyped
<1>2. CASE /\ parsing' = "skip" /\ level' = "config" /\ begin' = position
           /\ UNCHANGED <<given, left, position, spot, counts, placed, blocks, ended>>
  BY <1>2, StaysTyped DEF DescTypes, DescTypeOK
<1> QED
  BY <1>1, <1>2 DEF NextInterface

LEMMA TakenTyped ==
  ASSUME ConfigurationsAssumption, DescTypes, Taken < Len(given.list),
         NEW by \in [1..3 -> Nat], Takes(by), UNCHANGED <<given, ended>>,
         parsing' = "skip", level' \in {"config", "interface", "endpoint"},
         spot' \in [1..3 -> Nat], begin' = begin \/ begin' = position'
  PROVE  DescTypes'
<1>1. /\ left' \in Int /\ left' <= NotTaken' /\ position' \in 1..(Len(given'.list) + 1)
      /\ placed' \in Seq([1..3 -> Nat]) /\ Len(placed') = position' - 1
      /\ position' \in Nat /\ position < position'
  BY TakesTypes
<1>2. begin \in 1..position /\ position \in Nat
  <2>1. Taken \in Nat /\ position = Taken + 1
    BY NotTakenIs DEF DescTypes
  <2> QED
    BY <2>1 DEF DescTypes, DescTypeOK
<1>3. position' \in Nat /\ position < position'
  BY <1>1
<1>4. begin' \in 1..position'
  BY <1>2, <1>3
<1> QED
  BY <1>1, <1>4 DEF DescTypes, DescTypeOK

LEMMA SkipTyped ==
  ASSUME ConfigurationsAssumption, DescTypes, SkipDescriptor
  PROVE  DescTypes'
<1>1. CASE BadLength
  BY <1>1, FailsTyped DEF SkipDescriptor
<1>2. CASE ~BadLength
  <2>1. PICK by \in [1..3 -> Nat] : Takes(by)
    BY <1>2, SettingTypes DEF SkipDescriptor, DescTypes
  <2>2. Taken < Len(given.list)
    BY OneIsThere DEF SkipDescriptor
  <2> QED
    BY <1>2, <2>1, <2>2, TakenTyped DEF SkipDescriptor, DescTypes, DescTypeOK
<1> QED
  BY <1>1, <1>2

LEMMA StoreTyped ==
  ASSUME ConfigurationsAssumption, DescTypes, StoreExtra
  PROVE  DescTypes'
<1>1. CASE Fails("no_memory")
  BY <1>1, FailsTyped
<1>2. CASE ~Fails("no_memory")
  <2>1. /\ parsing' = AfterSkip /\ ended' = ended
        /\ spot' = CASE level = "config" -> <<spot[1] + 1, 0, 0>>
                     [] AfterSkip = "endpoint" -> [spot EXCEPT ![3] = @ + 1]
                     [] OTHER -> spot
        /\ UNCHANGED <<given, level, left, position, begin, counts, placed>>
    BY <1>2 DEF StoreExtra, Allocates
  <2>2. AfterSkip \in {"interface", "endpoints", "endpoint", "alternate"}
    BY DEF AfterSkip, DescTypes, DescTypeOK
  <2>3. spot' \in [1..3 -> Nat]
    BY <2>1, SettingTypes DEF DescTypes
  <2> QED
    BY <2>1, <2>2, <2>3, StaysTyped DEF DescTypes, DescTypeOK
<1> QED
  BY <1>1, <1>2

LEMMA InterfaceTyped ==
  ASSUME ConfigurationsAssumption, DescTypes, ParseInterface
  PROVE  DescTypes'
<1>1. CASE left < InterfaceLength
  BY <1>1, GoesTyped DEF ParseInterface, ReturnsParsed
<1>2. CASE Fails("no_memory")
  BY <1>2, FailsTyped
<1>3. CASE ~(left < InterfaceLength) /\ ~Fails("no_memory")
  <2> DEFINE by == <<spot[1], spot[2] + 1, 0>>
  <2>1. /\ Takes(by) /\ spot' = by /\ UNCHANGED <<given, ended>>
        /\ parsing' = "skip" /\ level' = "interface" /\ begin' = position'
    BY <1>3 DEF ParseInterface, Allocates
  <2>2. by \in [1..3 -> Nat]
    BY SettingTypes DEF DescTypes
  <2>3. Taken < Len(given.list)
    <3>1. left >= HeaderLength
      BY <1>3 DEF InterfaceLength, HeaderLength, DescTypes, DescTypeOK
    <3> QED
      BY <3>1, OneIsThere
  <2> HIDE DEF by
  <2> QED
    BY <2>1, <2>2, <2>3, TakenTyped
<1> QED
  BY <1>1, <1>2, <1>3

LEMMA EndpointsTyped ==
  ASSUME ConfigurationsAssumption, DescTypes, ParseEndpoints \/ ParseAlternate
  PROVE  DescTypes'
<1>1. \/ Fails("error") \/ Fails("no_memory")
      \/ \E where \in {"next", "alternate", "interface"} : UNCHANGED ended /\ Goes(where)
      \/ /\ parsing' = "endpoint" /\ spot' = [spot EXCEPT ![3] = 1]
         /\ UNCHANGED <<given, level, left, position, begin, counts, placed, ended>>
  BY DEF ParseEndpoints, ParseAlternate, ReturnsParsed, Allocates
<1>2. CASE /\ parsing' = "endpoint" /\ spot' = [spot EXCEPT ![3] = 1]
           /\ UNCHANGED <<given, level, left, position, begin, counts, placed, ended>>
  <2>1. spot' \in [1..3 -> Nat]
    BY <1>2, SettingTypes DEF DescTypes
  <2> QED
    BY <1>2, <2>1, StaysTyped DEF DescTypes, DescTypeOK
<1> QED
  BY <1>1, <1>2, FailsTyped, GoesTyped

LEMMA EndpointTyped ==
  ASSUME ConfigurationsAssumption, DescTypes, ParseEndpoint
  PROVE  DescTypes'
<1>1. PICK d \in Readable :
        \/ Fails("error")
        \/ /\ \/ spot' = [spot EXCEPT ![3] = @ + 1] /\ UNCHANGED parsing
              \/ parsing' = "alternate" /\ UNCHANGED spot
           /\ UNCHANGED <<given, level, left, position, begin, counts, placed, blocks, ended>>
        \/ /\ d.kind = "endpoint"
           /\ Takes(spot) /\ parsing' = "skip" /\ level' = "endpoint" /\ begin' = position'
           /\ UNCHANGED <<given, spot, counts, blocks, ended>>
  BY DEF ParseEndpoint
<1>2. spot \in [1..3 -> Nat] /\ [spot EXCEPT ![3] = @ + 1] \in [1..3 -> Nat]
  BY SettingTypes DEF DescTypes
<1>3. CASE /\ \/ spot' = [spot EXCEPT ![3] = @ + 1] /\ UNCHANGED parsing
              \/ parsing' = "alternate" /\ UNCHANGED spot
           /\ UNCHANGED <<given, level, left, position, begin, counts, placed, blocks, ended>>
  BY <1>2, <1>3, StaysTyped DEF DescTypes, DescTypeOK
<1>4. CASE /\ d.kind = "endpoint"
           /\ Takes(spot) /\ parsing' = "skip" /\ level' = "endpoint" /\ begin' = position'
           /\ UNCHANGED <<given, spot, counts, blocks, ended>>
  <2>1. Taken < Len(given.list)
    BY <1>4, OneIsThere
  <2> QED
    BY <1>2, <1>4, <2>1, TakenTyped
<1> QED
  BY <1>1, <1>3, <1>4, FailsTyped

(* The parser keeps its types, whatever the device answers: it never takes *)
(* a descriptor behind the last (descriptor.c looks at what is left of the *)
(* buffer before it goes on), and has taken what it says it has.           *)
THEOREM DescTyped == DescSpec => []DescTypeOK
<1> USE ConfigurationsAssumption
<1>1. DescInit => DescTypes
  <2> SUFFICES ASSUME DescInit PROVE DescTypes
    OBVIOUS
  <2>1. given \in Configurations /\ position = 1 /\ left = 0 /\ placed = <<>> /\ spot = <<0, 0, 0>>
    BY DEF DescInit
  <2>2. Len(given.list) \in Nat
    BY <2>1, ListIs
  <2>3. placed \in Seq([1..3 -> Nat]) /\ Len(placed) = position - 1
    <3> DEFINE T == [1..3 -> Nat]
    <3> HIDE DEF T
    <3>1. placed \in Seq(T) /\ Len(placed) = 0
      BY <2>1
    <3> QED
      BY <2>1, <3>1 DEF T
  <2>4. DescTypeOK
    BY <2>1, <2>2, <2>3 DEF DescInit, DescTypeOK
  <2>5. NotTaken \in Nat
    BY <2>4, NotTakenIs
  <2> QED
    BY <2>1, <2>3, <2>4, <2>5 DEF DescInit, DescTypes, Taken
<1>2. DescTypes /\ [DescNext]_descVars => DescTypes'
  <2> SUFFICES ASSUME DescTypes, [DescNext]_descVars PROVE DescTypes'
    OBVIOUS
  <2>1. CASE FreeConfigDescriptor
    BY <2>1, FreesTyped DEF FreeConfigDescriptor
  <2>2. CASE UNCHANGED descVars
    BY <2>2 DEF descVars, parseVars, DescTypes, DescTypeOK, NotTaken, Taken
  <2> QED
    BY <2>1, <2>2, BeginTyped, NextTyped, SkipTyped, StoreTyped, InterfaceTyped, EndpointsTyped,
       EndpointTyped DEF DescNext
<1>3. DescTypes => DescTypeOK
  BY DEF DescTypes
<1> QED
  BY <1>1, <1>2, <1>3, PTL DEF DescSpec
=============================================================================
