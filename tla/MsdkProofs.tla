----------------------------- MODULE MsdkProofs -----------------------------
(***************************************************************************)
(* Proofs about msdk (modules Keyboard, Mouse and Msdk).  The keyboard: for*)
(* any keys, modifiers and number of slots the report stays packed, and    *)
(* the calls keep the promise of KeySet.  The mouse: for any buttons,      *)
(* distances, steps and screen the parts of a move fit the bytes of a      *)
(* report, and where absolute commands are exact and do not fail, the      *)
(* recorded position is where the pointer is.                              *)
(***************************************************************************)
EXTENDS Msdk, TLAPS, FiniteSetTheorems

(* The keys held, as M_KeyState() tells them.                              *)
Held(r) == {k \in AllKeys : KeyState(r, k)}

LEMMA HeldIs ==
  ASSUME NEW r \in Reports
  PROVE  Held(r) = r.mods \union {k \in Keys : \E i \in 1..r.len : r.slots[i] = k}
  BY KeysAssumption DEF Held, KeyState, Reports, AllKeys

(* In a packed report slot i is in use just if it is one of the first len. *)
LEMMA PackedSlots ==
  ASSUME NEW r \in Reports, Packed(r)
  PROVE  /\ r.len = 0 => r.mods = {} /\ \A i \in 1..Slots : r.slots[i] = None
         /\ r.slots[1] = None => \A i \in 1..Slots : r.slots[i] = None
         /\ r.slots[1] # None => r.len \in 1..Slots
                                 /\ \A i \in 1..Slots : r.slots[i] \in Keys <=> i <= r.len
  BY KeysAssumption, SlotsAssumption DEF Reports, Packed, AllKeys

LEMMA FirstIs ==
  ASSUME NEW S \in SUBSET Int, NEW i \in S, \A j \in S : i <= j
  PROVE  First(S) = i
<1>1. \A m \in S : (\A j \in S : m <= j) => m = i
  OBVIOUS
<1> QED
  BY <1>1 DEF First

-----------------------------------------------------------------------------
(* Modifiers.                                                              *)
LEMMA PressModifierPacks ==
  ASSUME NEW r \in Reports, Packed(r), NEW k \in Modifiers
  PROVE  /\ PressModifier(r, k) \in Reports /\ Packed(PressModifier(r, k))
         /\ Held(PressModifier(r, k)) = Held(r) \union {k}
<1> DEFINE started == IF r.len = 0 THEN [r EXCEPT !.len = 1, !.slots[1] = None] ELSE r
<1>0. PressModifier(r, k) = [started EXCEPT !.mods = @ \union {k}]
  BY DEF PressModifier
<1>1. CASE r.len = 0
  <2> DEFINE new == [len |-> 1, mods |-> r.mods \union {k}, slots |-> r.slots]
  <2>1. [r.slots EXCEPT ![1] = None] = r.slots
    BY <1>1, PackedSlots, SlotsAssumption DEF Reports
  <2>2. started = [r EXCEPT !.len = 1]
    BY <1>1, <2>1 DEF Reports
  <2> HIDE DEF started
  <2>6. PressModifier(r, k) = new
    BY <1>0, <2>2 DEF Reports
  <2>3. new \in Reports /\ Packed(new)
    BY <1>1, PackedSlots, SlotsAssumption DEF Reports, Packed
  <2>4. Held(new) = new.mods \union {j \in Keys : \E i \in 1..new.len : new.slots[i] = j}
    BY <2>3, HeldIs
  <2>5. Held(r) = {} /\ Held(new) = {k}
    BY <2>4, <1>1, HeldIs, PackedSlots, KeysAssumption, SlotsAssumption DEF Reports, AllKeys
  <2> QED
    BY <2>3, <2>5, <2>6
<1>2. CASE r.len # 0
  <2> DEFINE new == [len |-> r.len, mods |-> r.mods \union {k}, slots |-> r.slots]
  <2>4. started = r
    BY <1>2
  <2> HIDE DEF started
  <2>1. PressModifier(r, k) = new
    BY <1>0, <2>4 DEF Reports
  <2>2. new \in Reports /\ Packed(new)
    BY <1>2, SlotsAssumption DEF Reports, Packed
  <2>3. Held(new) = Held(r) \union {k}
    BY <2>2, HeldIs
  <2> QED
    BY <2>1, <2>2, <2>3
<1> QED
  BY <1>1, <1>2

LEMMA EmptyPacked == Empty \in Reports /\ Packed(Empty) /\ Held(Empty) = {}
<1>1. Empty \in Reports /\ Packed(Empty)
  BY SlotsAssumption DEF Empty, Reports, Packed
<1>2. Held(Empty) = Empty.mods \union {k \in Keys : \E i \in 1..Empty.len : Empty.slots[i] = k}
  BY <1>1, HeldIs
<1>3. Empty.mods = {} /\ Empty.len = 0
  BY DEF Empty
<1> QED
  BY <1>1, <1>2, <1>3

LEMMA ReleaseModifierPacks ==
  ASSUME NEW r \in Reports, Packed(r), NEW k \in Modifiers
  PROVE  /\ ReleaseModifier(r, k) \in Reports /\ Packed(ReleaseModifier(r, k))
         /\ Held(ReleaseModifier(r, k)) = Held(r) \ {k}
<1>1. CASE r.len = 0
  <2>1. ReleaseModifier(r, k) = Empty
    BY <1>1 DEF ReleaseModifier
  <2>2. Held(r) = {}
    BY <1>1, HeldIs, PackedSlots, SlotsAssumption DEF Reports
  <2> QED
    BY <2>1, <2>2, EmptyPacked
<1>2. CASE r.len # 0
  <2> DEFINE new == [len |-> r.len, mods |-> r.mods \ {k}, slots |-> r.slots]
  <2>1. ReleaseModifier(r, k) = new
    BY <1>2 DEF ReleaseModifier, Reports
  <2>2. new \in Reports /\ Packed(new)
    BY <1>2, SlotsAssumption DEF Reports, Packed
  <2>3. Held(new) = Held(r) \ {k}
    BY <2>2, HeldIs, KeysAssumption
  <2> QED
    BY <2>1, <2>2, <2>3
<1> QED
  BY <1>1, <1>2

-----------------------------------------------------------------------------
(* An ordinary key pressed.                                                *)
LEMMA PressKeyPacks ==
  ASSUME NEW r \in Reports, Packed(r), NEW k \in Keys
  PROVE  /\ PressKey(r, k) \in Reports /\ Packed(PressKey(r, k))
         /\ \/ Held(PressKey(r, k)) = Held(r) \union {k}
            \/ /\ k \notin Held(r) /\ r.len = Slots /\ r.slots[1] # None
               /\ Held(PressKey(r, k)) = (Held(r) \ {r.slots[Slots]}) \union {k}
<1> DEFINE fitting == {i \in 1..Slots : r.slots[i] \in {None, k}}
           slot == IF fitting = {} THEN Slots ELSE First(fitting)
<1> USE KeysAssumption, SlotsAssumption
<1>a. k # None /\ k \notin Modifiers /\ None \notin Keys
  BY DEF AllKeys
<1>b. PressKey(r, k) = IF r.len = 0
                       THEN [len |-> 1, mods |-> {}, slots |-> [r.slots EXCEPT ![1] = k]]
                       ELSE [r EXCEPT !.slots[slot] = k, !.len = IF r.slots[slot] = k THEN @ ELSE slot]
  BY DEF PressKey
<1>1. CASE r.len = 0
  <2> DEFINE new == [len |-> 1, mods |-> {}, slots |-> [r.slots EXCEPT ![1] = k]]
  <2>1. PressKey(r, k) = new
    BY <1>1, <1>b
  <2>2. \A i \in 1..Slots : r.slots[i] = None
    BY <1>1, PackedSlots
  <2>3. new \in Reports /\ Packed(new)
    BY <2>2, <1>a DEF Reports, Packed
  <2>4. Held(new) = new.mods \union {j \in Keys : \E i \in 1..new.len : new.slots[i] = j}
    BY <2>3, HeldIs
  <2>5. Held(new) = {k}
    <3>1. new.mods = {} /\ new.len = 1 /\ new.slots[1] = k
      BY DEF Reports
    <3> HIDE DEF new
    <3> QED
      BY <2>4, <3>1
  <2>6. Held(r) = {}
    BY <1>1, HeldIs, PackedSlots
  <2> QED
    BY <2>1, <2>3, <2>5, <2>6
<1>2. CASE r.len # 0 /\ \E i \in 1..r.len : r.slots[i] = k
  <2> PICK i \in 1..r.len : r.slots[i] = k
    BY <1>2
  <2>1. i \in fitting /\ \A j \in fitting : i <= j
    BY <1>a, PackedSlots DEF Reports, Packed
  <2>2. slot = i
    <3>1. fitting \in SUBSET Int
      OBVIOUS
    <3> HIDE DEF fitting
    <3> QED
      BY <2>1, <3>1, FirstIs
  <2> HIDE DEF slot
  <2>3. [r.slots EXCEPT ![i] = k] = r.slots
    BY DEF Reports
  <2>4. PressKey(r, k) = r
    BY <1>2, <1>b, <2>2, <2>3 DEF Reports
  <2> QED
    BY <2>4, HeldIs
<1>3. CASE r.len # 0 /\ (\A i \in 1..r.len : r.slots[i] # k) /\ fitting # {}
  <2> DEFINE i == IF r.slots[1] = None THEN 1 ELSE r.len + 1
  <2>1. i \in fitting /\ \A j \in fitting : i <= j
    BY <1>3, <1>a, PackedSlots DEF Reports, Packed
  <2>2. slot = i
    <3>1. fitting \in SUBSET Int
      OBVIOUS
    <3> HIDE DEF fitting, i
    <3> QED
      BY <2>1, <3>1, FirstIs
  <2>3. r.slots[i] = None /\ i \in 1..Slots
    BY <2>1, <1>3, <1>a, PackedSlots DEF Reports
  <2> HIDE DEF i, slot
  <2> DEFINE new == [len |-> i, mods |-> r.mods, slots |-> [r.slots EXCEPT ![i] = k]]
  <2>4. PressKey(r, k) = new
    BY <1>3, <1>a, <1>b, <2>2, <2>3 DEF Reports
  <2>5. new \in Reports
    BY <2>3 DEF Reports
  <2>6. Packed(new)
    BY <2>3, <1>3, <1>a, PackedSlots DEF Reports, Packed, i
  <2>7. Held(new) = new.mods \union {j \in Keys : \E m \in 1..new.len : new.slots[m] = j}
    BY <2>5, HeldIs
  <2>8. {j \in Keys : \E m \in 1..new.len : new.slots[m] = j}
          = {j \in Keys : \E m \in 1..r.len : r.slots[m] = j} \union {k}
    BY <2>3, <1>3, <1>a, PackedSlots DEF Reports, i
  <2>9. Held(new) = Held(r) \union {k}
    BY <2>7, <2>8, HeldIs
  <2> QED
    BY <2>4, <2>5, <2>6, <2>9
<1>4. CASE r.len # 0 /\ fitting = {}
  <2>1. r.slots[1] # None /\ r.len = Slots
    BY <1>4, PackedSlots DEF Reports, Packed
  <2>2. \A i \in 1..Slots : r.slots[i] \in Keys \ {k}
    BY <1>4 DEF Reports
  <2> DEFINE new == [len |-> Slots, mods |-> r.mods, slots |-> [r.slots EXCEPT ![Slots] = k]]
  <2>3. PressKey(r, k) = new
    BY <1>4, <1>b, <2>1, <2>2 DEF Reports
  <2>4. new \in Reports /\ Packed(new)
    BY <2>1, <2>2, <1>a DEF Reports, Packed
  <2>5. k \notin Held(r)
    BY <2>2, <1>a, HeldIs DEF Reports
  <2>6. Held(new) = new.mods \union {j \in Keys : \E m \in 1..new.len : new.slots[m] = j}
    BY <2>4, HeldIs
  <2>7. {j \in Keys : \E m \in 1..new.len : new.slots[m] = j}
          = ({j \in Keys : \E m \in 1..r.len : r.slots[m] = j} \ {r.slots[Slots]}) \union {k}
    BY <2>1, <2>2, <1>a DEF Reports, Packed
  <2>8. Held(new) = (Held(r) \ {r.slots[Slots]}) \union {k}
    <3>1. r.slots[Slots] \notin r.mods
      BY <2>2 DEF Reports
    <3> QED
      BY <2>6, <2>7, <3>1, HeldIs
  <2> QED
    BY <2>1, <2>3, <2>4, <2>5, <2>8
<1> QED
  BY <1>1, <1>2, <1>3, <1>4

-----------------------------------------------------------------------------
(* An ordinary key released: the keys behind it move up.                   *)
LEMMA CloseGapIs ==
  ASSUME NEW r \in Reports, Packed(r), NEW p \in 1..r.len, r.slots[1] # None
  PROVE  CloseGap(r, p) =
           [len   |-> IF r.len > 1 THEN r.len - 1 ELSE 1,
            mods  |-> r.mods,
            slots |-> [i \in 1..Slots |-> IF i \in p..(r.len - 1) THEN r.slots[i + 1]
                                          ELSE IF i = r.len THEN None ELSE r.slots[i]]]
<1>1. {i \in (p + 1)..r.len : r.slots[i] = None} = {}
  BY PackedSlots, SlotsAssumption, KeysAssumption DEF Reports, AllKeys
<1>2. r.len \in Nat /\ r.len + 1 \in {r.len + 1} /\ \A j \in {r.len + 1} : r.len + 1 <= j
  BY SlotsAssumption DEF Reports
<1>3. First({r.len + 1}) = r.len + 1
  BY <1>2, FirstIs
<1>4. FirstFree(r, p) = r.len + 1
  BY <1>1, <1>3 DEF FirstFree
<1>5. r = [len |-> r.len, mods |-> r.mods, slots |-> r.slots]
  BY DEF Reports
<1> DEFINE free == FirstFree(r, p)
<1>6. CloseGap(r, p) =
        [r EXCEPT !.len   = IF free > 2 THEN free - 2 ELSE 1,
                  !.slots = [i \in 1..Slots |->
                               IF i \in p..(free - 2) THEN r.slots[i + 1]
                               ELSE IF i = free - 1 THEN None ELSE r.slots[i]]]
  BY DEF CloseGap
<1>7. free > 2 <=> r.len > 1
  BY <1>2, <1>4
<1>8. free - 2 = r.len - 1 /\ free - 1 = r.len
  BY <1>2, <1>4
<1> HIDE DEF free
<1>9. [i \in 1..Slots |-> IF i \in p..(free - 2) THEN r.slots[i + 1]
                          ELSE IF i = free - 1 THEN None ELSE r.slots[i]]
        = [i \in 1..Slots |-> IF i \in p..(r.len - 1) THEN r.slots[i + 1]
                              ELSE IF i = r.len THEN None ELSE r.slots[i]]
  BY <1>8
<1>10. (IF free > 2 THEN free - 2 ELSE 1) = IF r.len > 1 THEN r.len - 1 ELSE 1
  BY <1>7, <1>8
<1> QED
  BY <1>5, <1>6, <1>9, <1>10

LEMMA ReleaseKeyPacks ==
  ASSUME NEW r \in Reports, Packed(r), NEW k \in Keys
  PROVE  /\ ReleaseKey(r, k) \in Reports /\ Packed(ReleaseKey(r, k))
         /\ Held(ReleaseKey(r, k)) = Held(r) \ {k}
<1> USE KeysAssumption, SlotsAssumption
<1>a. k # None /\ k \notin Modifiers /\ None \notin Keys
  BY DEF AllKeys
<1> DEFINE closed == IF Found(r, k) = {} THEN r ELSE CloseGap(r, First(Found(r, k)))
           last   == Found(r, k) # {} /\ closed.slots[1] = None
<1>b. ReleaseKey(r, k) = IF r.len = 0 \/ (last /\ r.mods = {}) THEN Empty ELSE closed
  BY DEF ReleaseKey
<1>1. CASE r.len = 0
  <2>1. Held(r) = {}
    BY <1>1, HeldIs, PackedSlots
  <2> QED
    BY <1>1, <1>b, <2>1, EmptyPacked
<1>2. CASE r.len # 0 /\ \A i \in 1..r.len : r.slots[i] # k
  <2>1. Found(r, k) = {}
    BY <1>2 DEF Found
  <2>2. ReleaseKey(r, k) = r
    BY <1>2, <1>b, <2>1
  <2>3. k \notin Held(r)
    BY <1>2, <1>a, HeldIs DEF Reports
  <2> QED
    BY <2>2, <2>3
<1>3. CASE r.len # 0 /\ \E i \in 1..r.len : r.slots[i] = k
  <2> PICK p \in 1..r.len : r.slots[p] = k
    BY <1>3
  <2>1. r.slots[1] # None /\ r.len \in 1..Slots /\ \A i \in 1..Slots : r.slots[i] \in Keys <=> i <= r.len
    BY <1>a, PackedSlots DEF Reports
  <2>2. Found(r, k) = {p}
    BY <2>1, <1>a DEF Found, Packed, Reports
  <2>3. First(Found(r, k)) = p
    <3>1. {p} \in SUBSET Int /\ p \in {p} /\ \A j \in {p} : p <= j
      BY DEF Reports
    <3>2. First({p}) = p
      BY <3>1, FirstIs
    <3> QED
      BY <2>2, <3>2
  <2> DEFINE new == [len   |-> IF r.len > 1 THEN r.len - 1 ELSE 1,
                     mods  |-> r.mods,
                     slots |-> [i \in 1..Slots |-> IF i \in p..(r.len - 1) THEN r.slots[i + 1]
                                                   ELSE IF i = r.len THEN None ELSE r.slots[i]]]
  <2>4. closed = new
    BY <2>1, <2>2, <2>3, CloseGapIs
  <2>5. new \in Reports
    BY <2>1 DEF Reports
  <2>6. \A i \in 1..Slots : new.slots[i] # None <=> i <= r.len - 1
    BY <2>1, <1>a DEF Reports
  <2>7. new.slots[1] = None <=> r.len = 1
    BY <2>1, <2>6 DEF Reports
  <2>8. \A i, j \in 1..Slots : new.slots[i] = new.slots[j] /\ new.slots[i] # None => i = j
    BY <2>1, <2>6 DEF Packed, Reports
  <2>9. Packed(new)
    BY <2>1, <2>6, <2>7, <2>8 DEF Packed, Reports
  <2>10. \A j \in Keys : (\E i \in 1..new.len : new.slots[i] = j)
                           <=> j # k /\ \E i \in 1..r.len : r.slots[i] = j
    <3> SUFFICES ASSUME NEW j \in Keys
                 PROVE  (\E i \in 1..new.len : new.slots[i] = j)
                           <=> j # k /\ \E i \in 1..r.len : r.slots[i] = j
      OBVIOUS
    <3>1. ASSUME NEW i \in 1..new.len, new.slots[i] = j
          PROVE  j # k /\ \E m \in 1..r.len : r.slots[m] = j
      BY <3>1, <2>1, <1>a DEF Packed, Reports
    <3>2. ASSUME j # k, NEW m \in 1..r.len, r.slots[m] = j
          PROVE  \E i \in 1..new.len : new.slots[i] = j
      <4>1. CASE m < p
        BY <3>2, <4>1, <2>1
      <4>2. CASE m > p
        <5>1. m - 1 \in 1..new.len /\ new.slots[m - 1] = j
          BY <3>2, <4>2, <2>1
        <5> QED
          BY <5>1
      <4>3. m # p /\ m \in Nat /\ p \in Nat
        BY <3>2, <2>1
      <4> QED
        BY <4>1, <4>2, <4>3
    <3> QED
      BY <3>1, <3>2
  <2>11. Held(new) = new.mods \union {j \in Keys : \E i \in 1..new.len : new.slots[i] = j}
    BY <2>5, HeldIs
  <2>12. new.mods = r.mods /\ k \notin r.mods
    BY <1>a DEF Reports
  <2> HIDE DEF new
  <2>13. Held(new) = Held(r) \ {k}
    BY <2>10, <2>11, <2>12, HeldIs
  <2>14. CASE new.slots[1] = None /\ r.mods = {}
    <3>1. Held(r) \ {k} = {}
      <4>1. \A j \in Keys : ~\E i \in 1..new.len : new.slots[i] = j
        BY <2>14, <2>5, <2>9, <1>a, PackedSlots DEF Reports
      <4>2. {j \in Keys : \E i \in 1..new.len : new.slots[i] = j} = {}
        BY <4>1
      <4>3. new.mods = {}
        BY <2>14, <2>12
      <4>4. Held(new) = {} \union {}
        BY <4>2, <4>3, <2>11
      <4> QED
        BY <4>4, <2>13
    <3>2. ReleaseKey(r, k) = Empty
      BY <2>14, <1>b, <2>2, <2>4
    <3> QED
      BY <3>1, <3>2, EmptyPacked
  <2>15. CASE ~(new.slots[1] = None /\ r.mods = {})
    <3>1. ReleaseKey(r, k) = new
      BY <2>15, <1>3, <1>b, <2>2, <2>4
    <3> QED
      BY <3>1, <2>5, <2>9, <2>13
  <2> QED
    BY <2>14, <2>15
<1> QED
  BY <1>1, <1>2, <1>3

-----------------------------------------------------------------------------
(* What the machine makes of a packed report is the keys held.             *)
LEMMA ReportedIsHeld ==
  ASSUME NEW r \in Reports, Packed(r)
  PROVE  Reported(r) = Held(r)
<1> USE KeysAssumption, SlotsAssumption
<1>1. CASE r.len = 0
  <2>1. Held(r) = {}
    BY <1>1, HeldIs, PackedSlots
  <2> QED
    BY <1>1, <2>1 DEF Reported
<1>2. CASE r.len # 0
  <2>1. r.slots \in [1..Slots -> Keys \union {None}] /\ r.len \in 1..Slots /\ None \notin Keys
    BY <1>2 DEF Reports, AllKeys
  <2>2. {r.slots[i] : i \in 1..r.len} \ {None} = {k \in Keys : \E i \in 1..r.len : r.slots[i] = k}
    BY <2>1
  <2> QED
    BY <1>2, <2>2, HeldIs DEF Reported
<1> QED
  BY <1>1, <1>2

(* A report whose slots are all in use holds as many ordinary keys.        *)
LEMMA SlotsFull ==
  ASSUME NEW r \in Reports, Packed(r), r.len = Slots, r.slots[1] # None
  PROVE  Cardinality(Held(r) \intersect Keys) = Slots
<1> USE KeysAssumption, SlotsAssumption
<1> DEFINE ordinary == Held(r) \intersect Keys
<1>1. \A i \in 1..Slots : r.slots[i] \in Keys
  BY PackedSlots DEF Reports
<1>2. \A k \in Keys : k \in ordinary <=> \E i \in 1..Slots : r.slots[i] = k
  <2>1. \A k \in Keys : k \notin r.mods
    BY DEF Reports
  <2> QED
    BY <2>1, HeldIs
<1>3. r.slots \in [1..Slots -> ordinary]
  BY <1>1, <1>2 DEF Reports
<1>4. \A i, j \in 1..Slots : r.slots[i] = r.slots[j] => i = j
  BY <1>1 DEF Packed, AllKeys
<1>5. \A k \in ordinary : \E i \in 1..Slots : r.slots[i] = k
  BY <1>2
<1> HIDE DEF ordinary
<1>6. r.slots \in Bijection(1..Slots, ordinary)
  BY <1>3, <1>4, <1>5 DEF Bijection, Injection, Surjection, IsInjective
<1> QED
  BY <1>6, FS_CountingElements DEF ExistsBijection, ordinary

(* The keyboard's part of the handle.  A key that is being pressed is one. *)
KeysInv ==
  /\ KeysTypeOK
  /\ Packed(report)
  /\ typing.left # 0 => typing.key \in AllKeys

(* What remains to be said of the answer once the report is sent.          *)
Answers(x) == keyResult' \in {"ok", "running", "failed"} /\ (keyResult' # "failed" => x.ok)

LEMMA SendTells ==
  ASSUME KeysInv, NEW r \in Reports, Packed(r), NEW x \in Exchanges(KeysMayFail), Send(r, x),
         Answers(x)
  PROVE  /\ report' = r /\ Held(report') = Held(r)
         /\ pressed' \subseteq AllKeys
         /\ pressed' \in {pressed, Held(r)}
         /\ keyResult' # "failed" => pressed' = Held(r)
         /\ Promise!Tell
<1>1. Reported(r) = Held(r) /\ Held(r) \subseteq AllKeys
  BY ReportedIsHeld DEF Held
<1>2. x.ok => x.delivered
  BY DEF Exchanges
<1>3. report' = r /\ pressed' = IF x.delivered THEN Held(r) ELSE pressed
  BY <1>1 DEF Send
<1>4. pressed' \in {pressed, Held(r)} /\ (keyResult' # "failed" => pressed' = Held(r))
  BY <1>2, <1>3 DEF Answers
<1>5. Held(report') = Held(r)
  BY <1>3
<1>6. pressed' \in {pressed, Held(report')}
      /\ keyResult' \in {"ok", "running", "failed"}
      /\ (keyResult' # "failed" => pressed' = Held(report'))
  BY <1>4, <1>5 DEF Answers
<1>7. Promise!Tell
  BY <1>6 DEF Promise!Tell, Held
<1> QED
  BY <1>1, <1>3, <1>4, <1>5, <1>7 DEF KeysInv, KeysTypeOK

(* M_KeyDown(), and the first half of a press.                             *)
LEMMA DownKeeps ==
  ASSUME KeysInv, NEW k \in AllKeys, NEW x \in Exchanges(KeysMayFail),
         Send(Down(report, k), x), Answers(x)
  PROVE  report' \in Reports /\ Packed(report') /\ pressed' \subseteq AllKeys /\ Promise!Down(k)
<1> DEFINE r == Down(report, k)
<1>1. report \in Reports /\ Packed(report)
  BY DEF KeysInv, KeysTypeOK
<1>2. /\ r \in Reports /\ Packed(r)
      /\ \/ Held(r) = Held(report) \union {k}
         \/ /\ k \in Keys \ Held(report) /\ report.len = Slots /\ report.slots[1] # None
            /\ Held(r) = (Held(report) \ {report.slots[Slots]}) \union {k}
  <2>1. CASE k \in Modifiers
    BY <1>1, <2>1, PressModifierPacks DEF Down
  <2>2. CASE k \in Keys
    <3>1. k \notin Modifiers
      BY <2>2, KeysAssumption
    <3> QED
      BY <1>1, <2>2, <3>1, PressKeyPacks DEF Down
  <2> QED
    BY <2>1, <2>2 DEF AllKeys
<1> HIDE DEF r
<1>3. Send(r, x)
  BY DEF r
<1>4. report' = r /\ Held(report') = Held(r) /\ pressed' \subseteq AllKeys /\ Promise!Tell
  BY <1>2, <1>3, SendTells
<1>5. \E lost \in SUBSET Held(report) :
        /\ Held(report') = (Held(report) \ lost) \union {k}
        /\ lost # {} =>
             /\ k \in Keys \ Held(report)
             /\ Cardinality(Held(report) \intersect Keys) = Slots
             /\ Cardinality(lost) = 1
             /\ lost \subseteq Keys
  <2>1. CASE Held(r) = Held(report) \union {k}
    <3>1. Held(report') = (Held(report) \ {}) \union {k}
      BY <2>1, <1>4
    <3> QED
      BY <3>1
  <2>2. CASE /\ k \in Keys \ Held(report) /\ report.len = Slots /\ report.slots[1] # None
             /\ Held(r) = (Held(report) \ {report.slots[Slots]}) \union {k}
    <3> DEFINE lost == {report.slots[Slots]}
    <3>1. report.slots[Slots] \in Keys /\ report.slots[Slots] \in Held(report)
      BY <2>2, <1>1, PackedSlots, HeldIs, SlotsAssumption DEF Reports
    <3>2. Cardinality(Held(report) \intersect Keys) = Slots
      BY <2>2, <1>1, SlotsFull
    <3>3. Cardinality(lost) = 1
      BY FS_Singleton
    <3>4. Held(report') = (Held(report) \ lost) \union {k}
      BY <2>2, <1>4
    <3> QED
      BY <2>2, <3>1, <3>2, <3>3, <3>4
  <2> QED
    BY <1>2, <2>1, <2>2
<1>6. Promise!Down(k)
  <2> PICK lost \in SUBSET Held(report) :
         /\ Held(report') = (Held(report) \ lost) \union {k}
         /\ lost # {} =>
              /\ k \in Keys \ Held(report)
              /\ Cardinality(Held(report) \intersect Keys) = Slots
              /\ Cardinality(lost) = 1
              /\ lost \subseteq Keys
    BY <1>5
  <2>1. Held(report) = {j \in AllKeys : KeyState(report, j)}
        /\ Held(report') = {j \in AllKeys : KeyState(report', j)}
    BY DEF Held
  <2>2. ASSUME NEW S PROVE Promise!Cardinality(S) = Cardinality(S)
    BY DEF Promise!Cardinality, Cardinality
  <2> QED
    BY <1>4, <2>1, <2>2 DEF Promise!Down
<1> QED
  BY <1>2, <1>4, <1>6

(* M_KeyUp(), and the other half.                                          *)
LEMMA UpKeeps ==
  ASSUME KeysInv, NEW k \in AllKeys, NEW x \in Exchanges(KeysMayFail),
         Send(Up(report, k), x), Answers(x)
  PROVE  report' \in Reports /\ Packed(report') /\ pressed' \subseteq AllKeys /\ Promise!Up(k)
<1> DEFINE r == Up(report, k)
<1>1. report \in Reports /\ Packed(report)
  BY DEF KeysInv, KeysTypeOK
<1>2. r \in Reports /\ Packed(r) /\ Held(r) = Held(report) \ {k}
  <2>1. CASE k \in Modifiers
    BY <1>1, <2>1, ReleaseModifierPacks DEF Up
  <2>2. CASE k \in Keys
    <3>1. k \notin Modifiers
      BY <2>2, KeysAssumption
    <3> QED
      BY <1>1, <2>2, <3>1, ReleaseKeyPacks DEF Up
  <2> QED
    BY <2>1, <2>2 DEF AllKeys
<1> HIDE DEF r
<1>3. Send(r, x)
  BY DEF r
<1>4. report' = r /\ Held(report') = Held(r) /\ pressed' \subseteq AllKeys /\ Promise!Tell
  BY <1>2, <1>3, SendTells
<1>5. Held(report') = Held(report) \ {k}
  BY <1>2, <1>4
<1>6. Promise!Up(k)
  BY <1>4, <1>5 DEF Promise!Up, Held
<1> QED
  BY <1>2, <1>4, <1>6

LEMMA KeyDownStep ==
  ASSUME KeysInv, NEW k \in AllKeys, KeyDown(k)
  PROVE  KeysInv' /\ Promise!Next
<1> PICK x \in Exchanges(KeysMayFail) : Send(Down(report, k), x) /\ KeyAnswer(x)
  BY DEF KeyDown
<1>1. Answers(x)
  BY DEF KeyAnswer, Answers
<1>2. report' \in Reports /\ Packed(report') /\ pressed' \subseteq AllKeys /\ Promise!Down(k)
  BY <1>1, DownKeeps
<1> QED
  BY <1>1, <1>2 DEF KeyDown, KeysInv, KeysTypeOK, Answers, Promise!Next, AllKeys

LEMMA KeyUpStep ==
  ASSUME KeysInv, NEW k \in AllKeys, KeyUp(k)
  PROVE  KeysInv' /\ Promise!Next
<1> PICK x \in Exchanges(KeysMayFail) : Send(Up(report, k), x) /\ KeyAnswer(x)
  BY DEF KeyUp
<1>1. Answers(x)
  BY DEF KeyAnswer, Answers
<1>2. report' \in Reports /\ Packed(report') /\ pressed' \subseteq AllKeys /\ Promise!Up(k)
  BY <1>1, UpKeeps
<1> QED
  BY <1>1, <1>2 DEF KeyUp, KeysInv, KeysTypeOK, Answers, Promise!Next, AllKeys

LEMMA KeyPressStep ==
  ASSUME KeysInv, NEW k \in AllKeys, KeyPress(k)
  PROVE  KeysInv' /\ Promise!Next
<1>1. \E n \in 1..MaxPresses : typing' = [key |-> k, left |-> 2 * n]
  BY DEF KeyPress
<1>2. typing' \in [key : AllKeys \union {None}, left : 0..(2 * MaxPresses)] /\ typing'.key = k
  BY <1>1, SlotsAssumption
<1>3. UNCHANGED <<report, pressed>> /\ keyResult' = "running"
  BY DEF KeyPress
<1>4. Promise!Begin
  BY <1>3 DEF Promise!Begin
<1> QED
  BY <1>2, <1>3, <1>4 DEF KeysInv, KeysTypeOK, Packed, Promise!Next

(* Half a press: the key goes down when an even number of halves is left.  *)
LEMMA TypeStep ==
  ASSUME KeysInv, Type
  PROVE  KeysInv' /\ Promise!Next
<1>1. /\ typing.left \in 1..(2 * MaxPresses) /\ typing.key \in AllKeys
      /\ typing \in [key : AllKeys \union {None}, left : 0..(2 * MaxPresses)]
  BY SlotsAssumption DEF Type, KeysIdle, KeysInv, KeysTypeOK
<1> PICK x \in Exchanges(KeysMayFail) :
      /\ IF typing.left % 2 = 0
         THEN Send(Down(report, typing.key), x)
         ELSE Send(Up(report, typing.key), x)
      /\ IF x.ok /\ typing.left > 1
         THEN typing' = [typing EXCEPT !.left = @ - 1] /\ keyResult' = "running"
         ELSE typing' = [key |-> None, left |-> 0] /\ KeyAnswer(x)
  BY DEF Type
<1>2. Answers(x)
  BY DEF KeyAnswer, Answers
<1>3. /\ report' \in Reports /\ Packed(report') /\ pressed' \subseteq AllKeys
      /\ Promise!Down(typing.key) \/ Promise!Up(typing.key)
  BY <1>1, <1>2, DownKeeps, UpKeeps
<1>4. Promise!Next
  BY <1>1, <1>3 DEF Promise!Next, AllKeys
<1>5. /\ typing' \in [key : AllKeys \union {None}, left : 0..(2 * MaxPresses)]
      /\ typing'.left # 0 => typing'.key \in AllKeys
  BY <1>1, SlotsAssumption
<1> QED
  BY <1>2, <1>3, <1>4, <1>5 DEF KeysInv, KeysTypeOK, Answers

(* M_ReleaseAllKey() and M_Open().                                         *)
LEMMA ClearStep ==
  ASSUME KeysInv, ReleaseAllKey \/ OpenKeys
  PROVE  KeysInv' /\ Promise!Next
<1>1. Empty \in Reports /\ Packed(Empty) /\ Held(Empty) = {} /\ Reported(Empty) = {}
  BY EmptyPacked, ReportedIsHeld
<1>2. report' = Empty /\ Held(report') = {} /\ keyResult' = "ok" /\ UNCHANGED typing
      /\ pressed' \in {pressed, {}}
  BY <1>1 DEF ReleaseAllKey, OpenKeys, Send
<1>3. {k \in AllKeys : KeyState(report', k)} = {}
  BY <1>2 DEF Held
<1>4. KeysInv'
  BY <1>1, <1>2 DEF KeysInv, KeysTypeOK
<1>5. CASE ReleaseAllKey
  BY <1>2, <1>3, <1>4 DEF Promise!ReleaseAll, Promise!Next
<1>6. CASE OpenKeys
  BY <1>2, <1>3, <1>4, <1>6 DEF OpenKeys, Promise!Reopen, Promise!Next
<1> QED
  BY <1>5, <1>6

LEMMA KeysKept ==
  ASSUME KeysInv, UNCHANGED keyVars
  PROVE  KeysInv' /\ UNCHANGED Promise!vars
  BY DEF KeysInv, KeysTypeOK, Packed, keyVars, Promise!vars

LEMMA KeysStep ==
  ASSUME KeysInv, [Next]_vars
  PROVE  KeysInv' /\ [Promise!Next]_Promise!vars
<1>1. CASE Open
  BY <1>1, ClearStep DEF Open
<1>2. CASE UseKeys
  BY <1>2, KeyDownStep, KeyUpStep, KeyPressStep, TypeStep, ClearStep DEF UseKeys, KeyCall
<1>3. CASE OpenFails \/ Close \/ UseMouse \/ UNCHANGED vars
  BY <1>3, KeysKept DEF OpenFails, Close, UseMouse, vars
<1> QED
  BY <1>1, <1>2, <1>3 DEF Next

LEMMA KeysInitInv == Init => KeysInv /\ Promise!Init
<1> SUFFICES ASSUME Init PROVE KeysInv /\ Promise!Init
  OBVIOUS
<1>1. report = Empty /\ typing = [key |-> None, left |-> 0] /\ pressed = {} /\ keyResult = "ok"
  BY DEF Init, KeysInit
<1>2. KeysInv
  BY <1>1, EmptyPacked, SlotsAssumption DEF KeysInv, KeysTypeOK
<1>3. Held(report) = {}
  BY <1>1, EmptyPacked
<1> QED
  BY <1>1, <1>2, <1>3 DEF Promise!Init, Held

LEMMA KeysInvariant == Spec => []KeysInv
<1>1. KeysInv /\ [Next]_vars => KeysInv'
  BY KeysStep
<1> QED
  BY KeysInitInv, <1>1, PTL DEF Spec

(* For any keys and slots, in any program with any exchanges that fail,    *)
(* CurrKbOp[] stays packed: no gap, no key twice, and a length that fits.  *)
THEOREM ReportStaysPacked == Spec => []ReportPacked
<1>1. KeysInv => ReportPacked
  BY DEF KeysInv, ReportPacked
<1> QED
  BY KeysInvariant, <1>1, PTL

(* msdk.c implements KeySet: each call changes the key it names, and only  *)
(* a key too many displaces another; after a call that succeeds the        *)
(* machine holds the keys M_KeyState() tells.                              *)
THEOREM KeyboardKeepsPromise == Spec => KeySetSpec
<1>1. KeysInv /\ [Next]_vars => [Promise!Next]_Promise!vars
  BY KeysStep
<1>2. Init => Promise!Init
  BY KeysInitInv
<1> QED
  BY <1>1, <1>2, KeysInvariant, PTL DEF Spec, KeySetSpec, Promise!Spec

-----------------------------------------------------------------------------
(* The mouse: arithmetic of the reports.                                   *)

(* A position is a vector with coordinates of the screen.                  *)
LEMMA PositionsAre ==
  \A p : p \in Positions <=>
           p \in [Axes -> Int] /\ \A a \in Axes : 0 <= p[a] /\ p[a] < Screen[a]
<1>1. Screen["x"] \in Nat \ {0} /\ Screen["y"] \in Nat \ {0}
  BY ScreenAssumption DEF Axes
<1>2. ASSUME NEW p \in Positions
      PROVE  p \in [Axes -> Int] /\ \A a \in Axes : 0 <= p[a] /\ p[a] < Screen[a]
  <2>1. PICK i \in 0..(Screen.x - 1), j \in 0..(Screen.y - 1) : p = [x |-> i, y |-> j]
    BY DEF Positions
  <2>2. p = [a \in {"x", "y"} |-> IF a = "x" THEN i ELSE j]
    BY <2>1
  <2> QED
    BY <1>1, <2>2 DEF Axes
<1>3. ASSUME NEW p \in [Axes -> Int], \A a \in Axes : 0 <= p[a] /\ p[a] < Screen[a]
      PROVE  p \in Positions
  <2>1. p["x"] \in 0..(Screen.x - 1) /\ p["y"] \in 0..(Screen.y - 1)
    BY <1>1, <1>3 DEF Axes
  <2>2. p = [x |-> p["x"], y |-> p["y"]]
    BY DEF Axes
  <2> QED
    BY <2>1, <2>2 DEF Positions
<1> QED
  BY <1>2, <1>3

LEMMA ZeroIsPosition == Zero \in Positions /\ Zero \in [Axes -> Nat]
  BY PositionsAre, ScreenAssumption DEF Zero

(* What a part of a move is, as it is sent and as it is counted.           *)
LEMMA SignedCharIs ==
  ASSUME NEW n \in -MaxStep..MaxStep
  PROVE  SignedChar(n) = n
<1>1. \A m \in Int, d \in Nat : 0 <= m /\ m < d => m % d = m
  BY Z3
<1> QED
  BY <1>1, StepsAssumption DEF SignedChar

LEMMA PartIs ==
  ASSUME NEW rest \in Int, NEW most \in MinStep..MaxStep
  PROVE  /\ Part(rest, most) \in -MaxStep..MaxStep
         /\ rest >= 0 => 0 <= Part(rest, most) /\ Part(rest, most) <= rest
         /\ rest <= 0 => rest <= Part(rest, most) /\ Part(rest, most) <= 0
  BY StepsAssumption DEF Part, Toward, Abs

(* Where a report takes the pointer on one axis: it stops at the edges.    *)
Moved(from, by, size) == Greater(0, Lesser(size - 1, from + by))

LEMMA MovedInside ==
  ASSUME NEW size \in Nat \ {0}, NEW from \in Int, NEW by \in Int
  PROVE  /\ Moved(from, by, size) \in Int
         /\ 0 <= Moved(from, by, size) /\ Moved(from, by, size) < size
         /\ 0 <= from + by /\ from + by < size => Moved(from, by, size) = from + by
         /\ from + by <= 0 => Moved(from, by, size) = 0
  BY DEF Moved, Greater, Lesser

(* Near is an order within AbsoluteError, and stopping at the edges never  *)
(* takes two points further apart.                                         *)
LEMMA NearIs ==
  ASSUME NEW m \in Int, NEW n \in Int
  PROVE  /\ Near(m, n) <=> (m - n <= AbsoluteError /\ n - m <= AbsoluteError)
         /\ m = n => Near(m, n)
  BY ErrorAssumption DEF Near, Abs

LEMMA NearMoved ==
  ASSUME NEW size \in Nat \ {0}, NEW p \in Int, NEW q \in Int, NEW by \in Int, NEW t \in Int,
         Near(p, q), p + by = t, t < size
  PROVE  Near(Greater(0, t), Moved(q, by, size))
<1>1. AbsoluteError \in Nat /\ p - q <= AbsoluteError /\ q - p <= AbsoluteError
  BY NearIs, ErrorAssumption
<1>2. Greater(0, t) \in Int /\ Moved(q, by, size) \in Int
  BY DEF Greater, Moved, Lesser
<1>3. /\ Greater(0, t) - Moved(q, by, size) <= AbsoluteError
      /\ Moved(q, by, size) - Greater(0, t) <= AbsoluteError
  BY <1>1 DEF Greater, Moved, Lesser
<1> QED
  BY <1>2, <1>3, NearIs

(* The program of an absolute command: on the scale of the device.         *)
LEMMA DivisionIs ==
  ASSUME NEW m \in Nat, NEW d \in Nat \ {0}
  PROVE  /\ m \div d \in Nat
         /\ d * (m \div d) <= m /\ m < d * (m \div d) + d
  BY Z3

LEMMA CommandInScale ==
  ASSUME NEW p \in [Axes -> Nat], NEW a \in Axes
  PROVE  AbsoluteCommand(p, Screen)[a] \in 0..ScaleMax
<1>1. Screen["x"] \in Nat \ {0} /\ Screen["y"] \in Nat \ {0} /\ p["x"] \in Nat /\ p["y"] \in Nat
  BY ScreenAssumption DEF Axes
<1>2. ScaleMax \in Nat /\ ScaleMax \div Screen["x"] \in Nat /\ ScaleMax \div Screen["x"] <= ScaleMax
  <2>1. \A d \in Nat \ {0}, n \in Nat : n \div d \in Nat /\ n \div d <= n
    BY Z3
  <2> QED
    BY <1>1, <2>1 DEF ScaleMax
<1>3. Quarter(Screen["x"]) \in 0..ScaleMax
  <2>1. \A n \in Nat : n \div 4 \in 0..n
    OBVIOUS
  <2> QED
    BY <1>2, <2>1 DEF Quarter
<1>4. \A b \in Axes : Scale(p[b], Screen[b], Screen["x"]) \in Nat
  <2>1. \A n \in Nat : ScaleMax * n \in Nat
    BY DEF ScaleMax
  <2>2. \A b \in Axes : (ScaleMax * p[b]) \div Screen[b] \in Nat
    BY <1>1, <2>1, DivisionIs DEF Axes
  <2> QED
    BY <2>2, <1>3 DEF Scale
<1>5. Scale(p["x"], Screen["x"], Screen["x"]) \in Nat /\ Scale(p["y"], Screen["y"], Screen["x"]) \in Nat
  BY <1>4 DEF Axes
<1> DEFINE cx == Lesser(ScaleMax, Scale(p["x"], Screen["x"], Screen["x"]))
           sy == Scale(p["y"], Screen["y"], Screen["x"])
           cy == IF cx = 0 /\ sy = 0 THEN Quarter(Screen["x"]) ELSE Lesser(ScaleMax, sy)
<1>6. AbsoluteCommand(p, Screen) = [x |-> cx, y |-> cy]
  BY DEF AbsoluteCommand
<1>7. cx \in 0..ScaleMax /\ cy \in 0..ScaleMax
  BY <1>2, <1>3, <1>5 DEF Lesser
<1> HIDE DEF cx, cy
<1> QED
  BY <1>6, <1>7 DEF Axes

LEMMA PixelOnScreen ==
  ASSUME NEW c \in 0..ScaleMax, NEW size \in Nat \ {0}
  PROVE  PixelAt(c, size) \in Nat /\ PixelAt(c, size) < size
<1>1. c * size \in Nat /\ c * size < 32768 * size
  BY DEF ScaleMax
<1> DEFINE n == c * size
           q == n \div 32768
<1>2. q \in Nat /\ 32768 * q <= n
  BY <1>1, DivisionIs
<1>3. PixelAt(c, size) = q
  BY DEF PixelAt, ScaleMax
<1>4. n \in Nat /\ n < 32768 * size
  BY <1>1
<1> HIDE DEF q, n
<1>5. q < size
  BY <1>2, <1>4
<1> QED
  BY <1>2, <1>3, <1>5

(* The coordinates sent for a pixel are those of the pixel, as long as a   *)
(* quarter of a pixel is at least two steps of the scale and the screen is *)
(* not much higher than it is wide.                                        *)
ScreenFits == Screen["x"] <= 4095 /\ Screen["y"] <= 4 * Screen["x"]

LEMMA ScaleExact ==
  ASSUME NEW w \in Nat \ {0}, w <= 4095, NEW size \in Nat \ {0}, size <= 4 * w,
         NEW n \in Nat, n < size
  PROVE  /\ Scale(n, size, w) \in 2..ScaleMax
         /\ PixelAt(Scale(n, size, w), size) = n
<1> DEFINE third == 32767 \div w
           q == third \div 4
           m == 32767 * n
           k == m \div size
           c == k + q
<1>1. third \in Nat /\ w * third <= 32767 /\ 32767 < w * third + w
  BY DivisionIs
<1>2. q \in Nat /\ 4 * q <= third /\ third < 4 * q + 4
  <2> HIDE DEF third
  <2> QED
    BY <1>1, DivisionIs
<1>3. m \in Nat /\ k \in Nat /\ size * k <= m /\ m < size * k + size
  <2>1. m \in Nat
    OBVIOUS
  <2> HIDE DEF m
  <2> QED
    BY <2>1, DivisionIs
<1>4. Scale(n, size, w) = c
  BY DEF Scale, Quarter, ScaleMax
<1>5. PixelAt(c, size) = (c * size) \div 32768
  BY DEF PixelAt, ScaleMax
<1>6. m <= 32767 * size - 32767
  OBVIOUS
<1>7. m = 32767 * n
  OBVIOUS
<1> HIDE DEF third, q, m, k
<1>8. third >= 8
  <2>1. SUFFICES ASSUME third <= 7 PROVE FALSE
    BY <1>1
  <2>2. w * third <= w * 7
    BY <1>1, <2>1
  <2> QED
    BY <1>1, <2>2
<1>9. q >= 2
  BY <1>1, <1>2, <1>8
<1>10. q * size <= 32767
  <2>1. size * q <= (4 * w) * q
    BY <1>2
  <2>2. w * (4 * q) <= w * third
    BY <1>1, <1>2
  <2> QED
    BY <1>1, <1>2, <2>1, <2>2
<1>11. q * size >= 2 * size
  BY <1>2, <1>9
<1>12. c * size = size * k + q * size
  BY <1>2, <1>3
<1>13. 32768 * n <= c * size /\ c * size < 32768 * (n + 1)
  BY <1>2, <1>3, <1>6, <1>7, <1>10, <1>11, <1>12
<1>14. c \in Nat /\ c >= 2
  BY <1>2, <1>3, <1>9
<1>15. c <= 32767
  <2>1. c * size < 32768 * size
    BY <1>13, <1>14
  <2>2. SUFFICES ASSUME c >= 32768 PROVE FALSE
    BY <1>14
  <2>3. c * size >= 32768 * size
    BY <1>14, <2>2
  <2> QED
    BY <1>14, <2>1, <2>3
<1> DEFINE t == c * size
           p == t \div 32768
<1>16. t \in Nat /\ 32768 * n <= t /\ t < 32768 * (n + 1)
  BY <1>13, <1>14
<1> HIDE DEF c, t
<1>17. p = n
  <2>1. p \in Nat /\ 32768 * p <= t /\ t < 32768 * p + 32768
    BY <1>16, DivisionIs
  <2> HIDE DEF p
  <2> QED
    BY <1>16, <2>1
<1> QED
  BY <1>4, <1>5, <1>14, <1>15, <1>17 DEF t, ScaleMax

LEMMA CommandExact ==
  ASSUME ScreenFits, NEW p \in Positions, NEW a \in Axes
  PROVE  PixelAt(AbsoluteCommand(p, Screen)[a], Screen[a]) = p[a]
<1>1. Screen["x"] \in Nat \ {0} /\ Screen["y"] \in Nat \ {0} /\ p["x"] \in Nat /\ p["y"] \in Nat
      /\ p["x"] < Screen["x"] /\ p["y"] < Screen["y"]
  BY ScreenAssumption, PositionsAre DEF Axes
<1> DEFINE sx == Scale(p["x"], Screen["x"], Screen["x"])
           sy == Scale(p["y"], Screen["y"], Screen["x"])
           cx == Lesser(ScaleMax, sx)
           cy == IF cx = 0 /\ sy = 0 THEN Quarter(Screen["x"]) ELSE Lesser(ScaleMax, sy)
<1>2. sx \in 2..ScaleMax /\ PixelAt(sx, Screen["x"]) = p["x"]
  BY <1>1, ScaleExact DEF ScreenFits
<1>3. sy \in 2..ScaleMax /\ PixelAt(sy, Screen["y"]) = p["y"]
  BY <1>1, ScaleExact DEF ScreenFits
<1>4. AbsoluteCommand(p, Screen) = [x |-> cx, y |-> cy]
  BY DEF AbsoluteCommand
<1> HIDE DEF sx, sy
<1>5. cx = sx /\ cy = sy
  BY <1>2, <1>3 DEF Lesser, ScaleMax
<1> HIDE DEF cx, cy
<1> QED
  BY <1>2, <1>3, <1>4, <1>5 DEF Axes

-----------------------------------------------------------------------------
(* The mouse: types, and the motion that is left in the report.  Each call *)
(* has the locals of its loop, and a loop of absolute moves has been given *)
(* the size of the screen.                                                 *)
Calls ==
  {NoCall}
    \union [op : {"press"}, button : Buttons, left : 1..(2 * MaxCount)]
    \union [op : {"wheel"}, left : 1..MaxCount]
    \union [op : Relative, rest : [Axes -> Int], target : Positions, failure : {"ok", "failed"}]
    \union [op : {"jump"}, target : Positions]
    \union [op : {"curve"}, rest : [Axes -> Int], target : Positions, main : Axes]

MouseInv ==
  /\ buttons \subseteq Buttons /\ hostButtons \subseteq Buttons
  /\ shift \in [Axes -> -CharRange..(CharRange - 1)] /\ wheel \in -1..1
  /\ known \in BOOLEAN
  /\ pos \in [Axes -> Nat] /\ pointer \in Positions
  /\ resolution \in {Zero, Screen} /\ (call.op \in {"jump", "curve"} => resolution = Screen)
  /\ call \in Calls
  /\ result \in {"ok", "running", "failed"}

MotionInv == MouseInv /\ MotionCleared

LEMMA CallIs ==
  ASSUME NEW c \in Calls
  PROVE  /\ c.op = "idle" <=> c = NoCall
         /\ c.op = "press" <=> c \in [op : {"press"}, button : Buttons, left : 1..(2 * MaxCount)]
         /\ c.op = "wheel" <=> c \in [op : {"wheel"}, left : 1..MaxCount]
         /\ c.op \in Relative <=>
              c \in [op : Relative, rest : [Axes -> Int], target : Positions,
                     failure : {"ok", "failed"}]
         /\ c.op = "jump" <=> c \in [op : {"jump"}, target : Positions]
         /\ c.op = "curve" <=>
              c \in [op : {"curve"}, rest : [Axes -> Int], target : Positions, main : Axes]
  BY DEF Calls, NoCall, Relative

LEMMA MouseTypes == MouseInv => MouseTypeOK
<1> SUFFICES ASSUME MouseInv PROVE MouseTypeOK
  OBVIOUS
<1>1. Positions \subseteq [Axes -> Nat]
  <2>1. ASSUME NEW p \in Positions PROVE p \in [Axes -> Nat]
    <3>1. p \in [Axes -> Int] /\ \A a \in Axes : p[a] >= 0
      BY PositionsAre
    <3> QED
      BY <3>1
  <2> QED
    BY <2>1
<1>2. resolution \in [Axes -> Nat]
  BY ZeroIsPosition, ScreenAssumption DEF MouseInv
<1>3. /\ call.op \in Relative =>
           call.rest \in [Axes -> Int] /\ call.target \in [Axes -> Nat]
      /\ call.op = "curve" =>
           call.rest \in [Axes -> Int] /\ call.target \in Positions /\ call.main \in Axes
      /\ call.op = "jump" => call.target \in Positions
      /\ call.op = "press" => call.button \in Buttons /\ call.left \in 1..(2 * MaxCount)
      /\ call.op = "wheel" => call.left \in 1..MaxCount
      /\ call.op \notin Relative \union {"curve", "jump", "press", "wheel"} => call = NoCall
  <2>1. call \in Calls
    BY DEF MouseInv
  <2>2. call.op \in Relative \union {"curve", "jump", "press", "wheel", "idle"}
    BY <2>1 DEF Calls, NoCall
  <2> QED
    BY <1>1, <2>1, <2>2, CallIs
<1> QED
  BY <1>2, <1>3 DEF MouseInv, MouseTypeOK, Relative

(* A report moves the pointer within the screen.                           *)
LEMMA ReportMoves ==
  ASSUME MouseInv, NEW motion \in [Axes -> Int], NEW B \in SUBSET Buttons, NEW x,
         SendReport(motion, B, x)
  PROVE  /\ pointer' \in Positions /\ hostButtons' \subseteq Buttons
         /\ x.delivered =>
              \A a \in Axes : pointer'[a] = Moved(pointer[a], motion[a], Screen[a])
         /\ (\A a \in Axes : motion[a] = 0) => pointer' = pointer
<1>1. /\ pointer \in Positions /\ pointer \in [Axes -> Int] /\ hostButtons \subseteq Buttons
      /\ \A a \in Axes : 0 <= pointer[a] /\ pointer[a] < Screen[a]
  BY PositionsAre DEF MouseInv
<1>2. \A a \in Axes : Screen[a] \in Nat \ {0}
  BY ScreenAssumption
<1>3. CASE x.delivered
  <2>1. pointer' = [a \in Axes |-> Moved(pointer[a], motion[a], Screen[a])] /\ hostButtons' = B
    BY <1>3 DEF SendReport, Moved
  <2>2. ASSUME NEW a \in Axes
        PROVE  /\ Moved(pointer[a], motion[a], Screen[a]) \in Int
               /\ 0 <= Moved(pointer[a], motion[a], Screen[a])
               /\ Moved(pointer[a], motion[a], Screen[a]) < Screen[a]
               /\ motion[a] = 0 => Moved(pointer[a], motion[a], Screen[a]) = pointer[a]
    <3>1. pointer[a] \in Int /\ motion[a] \in Int /\ Screen[a] \in Nat \ {0}
          /\ 0 <= pointer[a] /\ pointer[a] < Screen[a]
      BY <1>1, <1>2
    <3> QED
      BY <3>1, MovedInside
  <2>3. pointer' \in Positions
    BY <2>1, <2>2, PositionsAre
  <2>4. (\A a \in Axes : motion[a] = 0) => pointer' = pointer
    BY <1>1, <2>1, <2>2
  <2> QED
    BY <2>1, <2>3, <2>4
<1>4. CASE ~x.delivered
  BY <1>1, <1>4 DEF SendReport, host
<1> QED
  BY <1>3, <1>4

(* An absolute command does, too, and on a screen that fits it misses by   *)
(* no more than the controlled machine does.                               *)
LEMMA CommandMoves ==
  ASSUME MouseInv, resolution = Screen, NEW p \in [Axes -> Nat], NEW x, SendAbsolute(p, x)
  PROVE  /\ pointer' \in Positions
         /\ ScreenFits /\ x.delivered /\ p \in Positions =>
              \A a \in Axes : Near(p[a], pointer'[a])
<1>1. CASE x.delivered
  <2>1. /\ pointer' \in Positions
        /\ \A a \in Axes : Near(pointer'[a], PixelAt(AbsoluteCommand(p, Screen)[a], Screen[a]))
    BY <1>1 DEF SendAbsolute, Reached
  <2>2. ASSUME ScreenFits, p \in Positions, NEW a \in Axes PROVE Near(p[a], pointer'[a])
    <3>1. Near(pointer'[a], p[a])
      BY <2>1, <2>2, CommandExact
    <3>2. pointer'[a] \in Int /\ p[a] \in Int
      BY <2>1, <2>2, PositionsAre
    <3> QED
      BY <3>1, <3>2, NearIs
  <2> QED
    BY <2>1, <2>2
<1>2. CASE ~x.delivered
  BY <1>2 DEF SendAbsolute, MouseInv
<1> QED
  BY <1>1, <1>2

(* Steps of the calls that do not move.                                    *)
LEMMA ButtonsStep ==
  ASSUME MotionInv, ChangeButtons
  PROVE  MotionInv'
<1> PICK B \in {buttons \union {b} : b \in Buttons} \union {buttons \ {b} : b \in Buttons} \union {{}},
         x \in RelativeExchanges : SetButtons(B, x) /\ Return(Answer(x))
  BY DEF ChangeButtons
<1>1. B \subseteq Buttons
  BY DEF MotionInv, MouseInv
<1>2. pointer' \in Positions /\ hostButtons' \subseteq Buttons
  <2>1. MouseInv /\ Zero \in [Axes -> Int] /\ SendReport(Zero, B, x)
    BY ZeroIsPosition DEF SetButtons, MotionInv
  <2> QED
    BY <1>1, <2>1, ReportMoves
<1>3. call' = NoCall /\ result' \in {"ok", "failed"}
  BY DEF Return, Answer
<1> QED
  BY <1>1, <1>2, <1>3, StepsAssumption
  DEF MotionInv, MouseInv, MotionCleared, SetButtons, ClearMotion, Zero, Calls, NoCall

LEMMA ClickSteps ==
  ASSUME MotionInv, Click
  PROVE  MotionInv'
<1> PICK b \in Buttons, n \in 1..MaxCount : Continue([op |-> "press", button |-> b, left |-> 2 * n])
  BY DEF Click
<1>1. /\ call' \in [op : {"press"}, button : Buttons, left : 1..(2 * MaxCount)]
      /\ result' = "running" /\ UNCHANGED <<handle, host>>
  BY MouseInputsAssumption DEF Continue, Click
<1> QED
  BY <1>1 DEF MotionInv, MouseInv, MotionCleared, Calls, Click, MouseIdle, Relative, handle, host

LEMMA ClickStepStep ==
  ASSUME MotionInv, ClickStep
  PROVE  MotionInv'
<1> PICK x \in RelativeExchanges :
       /\ SetButtons(IF call.left % 2 = 0 THEN buttons \union {call.button}
                                          ELSE buttons \ {call.button}, x)
       /\ IF x.ok /\ call.left > 1 THEN Continue([call EXCEPT !.left = @ - 1])
                                   ELSE Return(Answer(x))
  BY DEF ClickStep
<1> PICK B : /\ B = IF call.left % 2 = 0 THEN buttons \union {call.button}
                                         ELSE buttons \ {call.button}
             /\ SetButtons(B, x)
  OBVIOUS
<1>1. call \in [op : {"press"}, button : Buttons, left : 1..(2 * MaxCount)]
  BY CallIs DEF MotionInv, MouseInv, ClickStep
<1>2. B \subseteq Buttons
  BY <1>1 DEF MotionInv, MouseInv
<1>3. pointer' \in Positions /\ hostButtons' \subseteq Buttons
  <2>1. MouseInv /\ Zero \in [Axes -> Int] /\ SendReport(Zero, B, x)
    BY ZeroIsPosition DEF SetButtons, MotionInv
  <2> QED
    BY <1>2, <2>1, ReportMoves
<1>4. \/ call' = [call EXCEPT !.left = @ - 1] /\ call.left > 1 /\ result' = "running"
      \/ call' = NoCall /\ result' \in {"ok", "failed"}
  BY DEF Return, Answer, Continue
<1>5. call' \in [op : {"press"}, button : Buttons, left : 1..(2 * MaxCount)] \union {NoCall}
  BY <1>1, <1>4, MouseInputsAssumption
<1>6. call' \in Calls /\ call'.op \in {"press", "idle"}
  BY <1>5 DEF Calls, NoCall
<1> QED
  BY <1>2, <1>3, <1>4, <1>6, StepsAssumption
  DEF MotionInv, MouseInv, MotionCleared, SetButtons, ClearMotion, Zero

LEMMA WheelSteps ==
  ASSUME MotionInv, MouseWheel
  PROVE  MotionInv'
<1>1. /\ call' \in [op : {"wheel"}, left : 1..MaxCount] /\ result' = "running"
      /\ wheel' \in {1, -1}
      /\ UNCHANGED <<buttons, shift, known, pos, resolution, host>>
  BY DEF MouseWheel, Continue
<1> QED
  BY <1>1 DEF MotionInv, MouseInv, MotionCleared, Calls, MouseWheel, MouseIdle, Relative, host

LEMMA WheelStepStep ==
  ASSUME MotionInv, WheelStep
  PROVE  MotionInv'
<1> PICK x \in RelativeExchanges :
       /\ SendReport(shift, buttons, x)
       /\ IF x.ok /\ call.left > 1
          THEN Continue([call EXCEPT !.left = @ - 1]) /\ UNCHANGED <<shift, wheel>>
          ELSE Return(Answer(x)) /\ ClearMotion
  BY DEF WheelStep
<1>1. call \in [op : {"wheel"}, left : 1..MaxCount]
  BY CallIs DEF MotionInv, MouseInv, WheelStep
<1>2. shift \in [Axes -> Int]
  BY StepsAssumption DEF MotionInv, MouseInv
<1>3. pointer' \in Positions /\ hostButtons' \subseteq Buttons
  <2>1. MouseInv /\ buttons \subseteq Buttons /\ SendReport(shift, buttons, x)
    BY DEF MotionInv, MouseInv
  <2> QED
    BY <1>2, <2>1, ReportMoves
<1>4. \/ call' = [call EXCEPT !.left = @ - 1] /\ call.left > 1 /\ result' = "running"
         /\ UNCHANGED <<shift, wheel>>
      \/ call' = NoCall /\ result' \in {"ok", "failed"} /\ shift' = Zero /\ wheel' = 0
  BY DEF Return, Answer, Continue, ClearMotion
<1>5. call' \in [op : {"wheel"}, left : 1..MaxCount] \/ (call' = NoCall /\ wheel' = 0)
  BY <1>1, <1>4, MouseInputsAssumption
<1>6. call' \in Calls /\ call'.op \in {"wheel", "idle"} /\ (call'.op # "wheel" => wheel' = 0)
  BY <1>5 DEF Calls, NoCall
<1>7. shift' = Zero
  BY <1>1, <1>4 DEF MotionInv, MotionCleared, Relative
<1>8. wheel' \in -1..1 /\ Zero \in [Axes -> -CharRange..(CharRange - 1)]
  BY <1>4, StepsAssumption DEF MotionInv, MouseInv, Zero
<1> QED
  BY <1>3, <1>4, <1>6, <1>7, <1>8 DEF MotionInv, MouseInv, MotionCleared, WheelStep

LEMMA ClearedStep ==
  ASSUME MotionInv, ResolutionUsed \/ OpenMouse \/ UNCHANGED mouseVars
  PROVE  MotionInv'
<1>1. Zero \in [Axes -> -CharRange..(CharRange - 1)]
  BY StepsAssumption DEF Zero
<1>2. CASE ResolutionUsed
  BY <1>2 DEF ResolutionUsed, MotionInv, MouseInv, MotionCleared, host
<1>3. CASE OpenMouse
  BY <1>3, <1>1, ZeroIsPosition DEF OpenMouse, MouseIdle, MotionInv, MouseInv, MotionCleared, host
<1>4. CASE UNCHANGED mouseVars
  BY <1>4 DEF mouseVars, handle, host, MotionInv, MouseInv, MotionCleared
<1> QED
  BY <1>2, <1>3, <1>4

-----------------------------------------------------------------------------
(* Relative moves: what a turn of the loop leaves.                         *)
LEMMA StartMoveIs ==
  ASSUME MotionInv, MouseIdle, NEW op \in Relative, NEW d \in [Axes -> Int], NEW t \in Positions,
         NEW failure \in {"ok", "failed"}, known' \in BOOLEAN, StartMove(op, d, t, failure)
  PROVE  /\ MotionInv'
         /\ call' = [op |-> op, rest |-> d, target |-> t, failure |-> failure]
         /\ pointer' = pointer
         /\ known' => pos' = [a \in Axes |-> Greater(0, pos[a] + d[a])]
<1>1. /\ call' = [op |-> op, rest |-> d, target |-> t, failure |-> failure]
      /\ result' = "running" /\ UNCHANGED <<buttons, shift, wheel, resolution, host>>
      /\ pos' = IF known' THEN [a \in Axes |-> Greater(0, pos[a] + d[a])] ELSE pos
  BY DEF StartMove, Continue
<1>2. call' \in Calls /\ call'.op = op
  BY <1>1 DEF Calls
<1>3. \A a \in Axes : Greater(0, pos[a] + d[a]) \in Nat
  <2>1. \A a \in Axes : pos[a] \in Nat /\ d[a] \in Int
    BY DEF MotionInv, MouseInv
  <2> QED
    BY <2>1 DEF Greater
<1>4. pos' \in [Axes -> Nat]
  BY <1>1, <1>3 DEF MotionInv, MouseInv
<1>5. call'.op \notin {"jump", "curve", "wheel"}
  BY <1>2 DEF Relative
<1>6. shift = Zero /\ wheel = 0
  BY DEF MotionInv, MotionCleared, MouseIdle, Relative
<1> QED
  BY <1>1, <1>2, <1>4, <1>5, <1>6 DEF MotionInv, MouseInv, MotionCleared, host

LEMMA MoveRStep ==
  ASSUME MotionInv, MoveR
  PROVE  MotionInv'
<1> PICK d \in Distances : StartMove("moveR", d, Zero, "failed")
  BY DEF MoveR
<1>1. d \in [Axes -> Int] /\ "moveR" \in Relative /\ known' \in BOOLEAN
  BY MouseInputsAssumption DEF Relative, MoveR, MotionInv, MouseInv
<1> QED
  BY <1>1, StartMoveIs, ZeroIsPosition DEF MoveR

LEMMA HomeIs == Home \in [Axes -> Int]
  BY HomeAssumption DEF Home

LEMMA PositionsNat == Positions \subseteq [Axes -> Nat]
<1>1. ASSUME NEW p \in Positions PROVE p \in [Axes -> Nat]
  <2>1. p \in [Axes -> Int] /\ \A a \in Axes : p[a] >= 0
    BY PositionsAre
  <2> QED
    BY <2>1
<1> QED
  BY <1>1

LEMMA MoveToStep ==
  ASSUME MotionInv, MoveTo
  PROVE  MotionInv'
<1> PICK t \in Positions :
       IF known
       THEN StartMove("moveTo", [a \in Axes |-> t[a] - pos[a]], t, "failed")
       ELSE StartMove("home", Home, t, "failed")
  BY DEF MoveTo
<1>1. [a \in Axes |-> t[a] - pos[a]] \in [Axes -> Int]
  BY PositionsNat DEF MotionInv, MouseInv
<1>2. "moveTo" \in Relative /\ "home" \in Relative /\ MouseIdle /\ known' \in BOOLEAN
  BY DEF Relative, MoveTo, MotionInv, MouseInv
<1>3. CASE known
  BY <1>1, <1>2, <1>3, StartMoveIs
<1>4. CASE ~known
  BY <1>2, <1>4, StartMoveIs, HomeIs
<1> QED
  BY <1>3, <1>4

LEMMA ResetStep ==
  ASSUME MotionInv, ResetMousePos
  PROVE  MotionInv'
<1>1. "home" \in Relative /\ MouseIdle /\ known' \in BOOLEAN /\ StartMove("home", Home, Zero, "ok")
  BY DEF Relative, ResetMousePos
<1> QED
  BY <1>1, StartMoveIs, HomeIs, ZeroIsPosition

MoveCalls ==
  [op : Relative, rest : [Axes -> Int], target : Positions, failure : {"ok", "failed"}]

(* A turn of the loop: the pointer moves by the part, or stops at an edge, *)
(* and the part is no longer left; or the call fails.                      *)
LEMMA MoveStepIs ==
  ASSUME MotionInv, MoveStep
  PROVE  /\ MotionInv' /\ call \in MoveCalls /\ UNCHANGED pos
         /\ \/ /\ call' = NoCall /\ known' = FALSE /\ result' = call.failure
            \/ /\ call' \in MoveCalls /\ call'.op = call.op /\ call'.target = call.target
               /\ call'.failure = call.failure /\ call.rest # Zero /\ known' = known
               /\ \E part \in [Axes -> Int] : \A a \in Axes :
                    /\ call.rest[a] >= 0 => 0 <= part[a] /\ part[a] <= call.rest[a]
                    /\ call.rest[a] <= 0 => call.rest[a] <= part[a] /\ part[a] <= 0
                    /\ call'.rest[a] = call.rest[a] - part[a]
                    /\ pointer'[a] = Moved(pointer[a], part[a], Screen[a])
<1> PICK most \in [Axes -> MinStep..MaxStep], x \in RelativeExchanges :
       LET part == [a \in Axes |-> Part(call.rest[a], most[a])]
       IN  /\ SendReport(part, buttons, x)
           /\ IF x.ok
              THEN /\ shift' = part /\ UNCHANGED <<wheel, known>>
                   /\ Continue([call EXCEPT !.rest =
                                  [a \in Axes |-> @[a] - SignedChar(part[a])]])
              ELSE /\ ClearMotion /\ LosePosition
                   /\ Return(call.failure)
  BY DEF MoveStep
<1> DEFINE part == [a \in Axes |-> Part(call.rest[a], most[a])]
<1>1. /\ SendReport(part, buttons, x)
      /\ IF x.ok
         THEN /\ shift' = part /\ UNCHANGED <<wheel, known>>
              /\ call' = [call EXCEPT !.rest = [a \in Axes |-> @[a] - SignedChar(part[a])]]
              /\ result' = "running"
         ELSE /\ shift' = Zero /\ wheel' = 0 /\ known' = FALSE
              /\ call' = NoCall /\ result' = call.failure
  BY DEF ClearMotion, LosePosition, Return, Continue
<1>2. call \in MoveCalls
  BY CallIs DEF MotionInv, MouseInv, MoveStep, MoveCalls
<1>3. ASSUME NEW a \in Axes
      PROVE  /\ part[a] \in -MaxStep..MaxStep /\ SignedChar(part[a]) = part[a]
             /\ call.rest[a] >= 0 => 0 <= part[a] /\ part[a] <= call.rest[a]
             /\ call.rest[a] <= 0 => call.rest[a] <= part[a] /\ part[a] <= 0
  <2>1. call.rest[a] \in Int /\ most[a] \in MinStep..MaxStep
    BY <1>2 DEF MoveCalls
  <2>2. part[a] = Part(call.rest[a], most[a])
    OBVIOUS
  <2> HIDE DEF part
  <2> QED
    BY <2>1, <2>2, PartIs, SignedCharIs
<1>4. part = [a \in Axes |-> part[a]]
  OBVIOUS
<1> HIDE DEF part
<1>5. part \in [Axes -> -MaxStep..MaxStep]
  BY <1>3, <1>4
<1>6. part \in [Axes -> Int] /\ part \in [Axes -> -CharRange..(CharRange - 1)]
  BY <1>5, StepsAssumption
<1>7. Zero \in [Axes -> -CharRange..(CharRange - 1)]
  BY StepsAssumption DEF Zero
<1>8. MouseInv /\ buttons \subseteq Buttons /\ UNCHANGED <<buttons, pos, resolution>>
  BY DEF MotionInv, MouseInv, MoveStep
<1>9. /\ pointer' \in Positions /\ hostButtons' \subseteq Buttons
      /\ x.delivered => \A a \in Axes : pointer'[a] = Moved(pointer[a], part[a], Screen[a])
  BY <1>1, <1>6, <1>8, ReportMoves
<1>10. CASE x.ok
  <2>1. x.delivered
    BY <1>10 DEF RelativeExchanges, Exchanges
  <2>2. /\ shift' = part /\ wheel' = wheel /\ known' = known /\ result' = "running"
        /\ call' = [call EXCEPT !.rest = [a \in Axes |-> @[a] - SignedChar(part[a])]]
    BY <1>1, <1>10
  <2>3. /\ call' = [op |-> call.op, rest |-> [a \in Axes |-> call.rest[a] - part[a]],
                    target |-> call.target, failure |-> call.failure]
    BY <1>2, <1>3, <2>2 DEF MoveCalls
  <2>4. [a \in Axes |-> call.rest[a] - part[a]] \in [Axes -> Int]
    BY <1>2, <1>6 DEF MoveCalls
  <2>5. call' \in MoveCalls /\ call'.op = call.op
    BY <1>2, <2>3, <2>4 DEF MoveCalls
  <2>6. call' \in Calls /\ call'.op \in Relative
    BY <2>5 DEF Calls, MoveCalls
  <2>7. call'.op \notin {"wheel", "jump", "curve"} /\ call.op # "wheel"
    BY <2>5, <2>6 DEF Relative
  <2>8. MotionInv'
    BY <1>6, <1>8, <1>9, <2>2, <2>6, <2>7 DEF MotionInv, MouseInv, MotionCleared
  <2> QED
    BY <1>2, <1>3, <1>6, <1>8, <1>9, <2>1, <2>2, <2>3, <2>5, <2>8 DEF MoveStep
<1>11. CASE ~x.ok
  <2>1. /\ shift' = Zero /\ wheel' = 0 /\ known' = FALSE
        /\ call' = NoCall /\ result' = call.failure
    BY <1>1, <1>11
  <2>2. call' \in Calls /\ call'.op = "idle" /\ result' \in {"ok", "failed"}
    BY <1>2, <2>1 DEF Calls, NoCall, MoveCalls
  <2>3. buttons' \subseteq Buttons /\ pos' \in [Axes -> Nat] /\ resolution' \in {Zero, Screen}
    BY <1>8 DEF MouseInv
  <2>4. /\ wheel' \in -1..1 /\ known' \in BOOLEAN
        /\ shift' \in [Axes -> -CharRange..(CharRange - 1)]
    <3>1. wheel' \in -1..1
      BY <2>1
    <3>2. known' \in BOOLEAN
      BY <2>1, Zenon
    <3>3. shift' \in [Axes -> -CharRange..(CharRange - 1)]
      BY <1>7, <2>1, Zenon
    <3> QED
      BY <3>1, <3>2, <3>3
  <2>5. MouseInv'
    BY <1>9, <2>2, <2>3, <2>4 DEF MouseInv
  <2>6. MotionInv'
    BY <2>1, <2>2, <2>5 DEF MotionInv, MotionCleared
  <2> QED
    BY <1>2, <1>8, <2>1, <2>6
<1> QED
  BY <1>10, <1>11

LEMMA MoveEndsIs ==
  ASSUME MotionInv, MoveEnds
  PROVE  /\ MotionInv' /\ call \in MoveCalls /\ UNCHANGED pointer
         /\ call.op = "home" =>
              /\ call' = [op |-> "moveTo", rest |-> call.target, target |-> call.target,
                          failure |-> call.failure]
              /\ UNCHANGED <<known, pos>>
         /\ call.op # "home" => call' = NoCall /\ result' = "ok"
         /\ call.op = "moveTo" => known' = TRUE /\ pos' = call.target
         /\ call.op # "moveTo" => UNCHANGED <<known, pos>>
<1>1. /\ call.op \in Relative /\ call.rest = Zero /\ shift' = Zero /\ wheel' = 0
      /\ IF call.op = "home"
         THEN call' = [call EXCEPT !.op = "moveTo", !.rest = call.target] /\ result' = "running"
         ELSE call' = NoCall /\ result' = "ok"
      /\ IF call.op = "moveTo"
         THEN known' = TRUE /\ pos' = call.target
         ELSE UNCHANGED <<known, pos>>
      /\ UNCHANGED <<buttons, resolution, pointer, hostButtons>>
  BY DEF MoveEnds, ClearMotion, Continue, Return, host
<1>2. call \in MoveCalls
  BY <1>1, CallIs DEF MotionInv, MouseInv, MoveCalls
<1>3. call.op = "home" => call' = [op |-> "moveTo", rest |-> call.target,
                                   target |-> call.target, failure |-> call.failure]
  BY <1>1, <1>2 DEF MoveCalls
<1>4. call.target \in Positions /\ call.target \in [Axes -> Nat]
      /\ call.failure \in {"ok", "failed"}
  BY <1>2, PositionsNat DEF MoveCalls
<1>5. call' \in Calls /\ call'.op \in {"moveTo", "idle"}
  BY <1>1, <1>3, <1>4 DEF Calls, NoCall, Relative
<1>6. /\ known' \in BOOLEAN /\ pos' \in [Axes -> Nat] /\ result' \in {"ok", "running"}
      /\ Zero \in [Axes -> -CharRange..(CharRange - 1)]
  <2>1. Zero \in [Axes -> -CharRange..(CharRange - 1)]
    BY StepsAssumption DEF Zero
  <2>2. known' \in BOOLEAN
    BY <1>1 DEF MotionInv, MouseInv
  <2>3. pos' \in [Axes -> Nat]
    BY <1>1, <1>4 DEF MotionInv, MouseInv
  <2> QED
    BY <1>1, <2>1, <2>2, <2>3
<1>7. MotionInv'
  BY <1>1, <1>5, <1>6 DEF MotionInv, MouseInv, MotionCleared
<1> QED
  BY <1>1, <1>2, <1>3, <1>7

-----------------------------------------------------------------------------
(* Absolute moves: the points of a curve.                                  *)
LEMMA LengthsAre ==
  ASSUME NEW rest \in Int, rest # 0, NEW n \in Lengths(rest)
  PROVE  /\ n \in Nat \ {0}
         /\ n >= Abs(rest) => Abs(rest) <= MaxStep
<1>1. Abs(rest) \in Nat \ {0}
  BY DEF Abs
<1> DEFINE d == Abs(rest)
<1>2. /\ d \div 2 \in Nat /\ 2 * (d \div 2) <= d /\ d < 2 * (d \div 2) + 2
      /\ MinStep \div 2 \in Nat /\ 2 * (MinStep \div 2) <= MinStep
  BY <1>1, DivisionIs, StepsAssumption
<1>3. n \in IF d \in (MinStep + 1)..(2 * MinStep - 1)
            THEN (d \div 2)..(d \div 2 + MinStep \div 2 - 1)
            ELSE MinStep..MaxStep
  BY DEF Lengths
<1> DEFINE h == d \div 2  g == MinStep \div 2
<1>4. \/ /\ d >= MinStep + 1 /\ n \in h..(h + g - 1)
      \/ n \in MinStep..MaxStep
  BY <1>3
<1>5. d \in Nat \ {0} /\ h \in Nat /\ g \in Nat
      /\ 2 * h <= d /\ d < 2 * h + 2 /\ 2 * g <= MinStep
  BY <1>1, <1>2
<1> HIDE DEF d, h, g
<1>6. n \in Nat \ {0} /\ (n >= d => d <= MaxStep)
  BY <1>4, <1>5, StepsAssumption
<1> QED
  BY <1>6 DEF d

LEMMA SideStep ==
  ASSUME NEW from \in Nat, NEW e \in -MaxStep..MaxStep
  PROVE  /\ Greater(-from, e) \in -MaxStep..MaxStep
         /\ from + Greater(-from, e) \in Nat
  BY StepsAssumption DEF Greater

LEMMA AheadStep ==
  ASSUME NEW from \in Nat, NEW rest \in Int, rest # 0, NEW n \in Nat \ {0}, n < Abs(rest)
  PROVE  /\ Toward(Lesser(n, MaxStep), rest) \in -MaxStep..MaxStep
         /\ from + rest >= 0 => Greater(-from, Toward(Lesser(n, MaxStep), rest)) # rest
<1>1. Lesser(n, MaxStep) \in 1..MaxStep /\ Lesser(n, MaxStep) < Abs(rest)
  BY StepsAssumption DEF Lesser, Abs
<1> QED
  BY <1>1, StepsAssumption DEF Toward, Greater, Abs

CurveCalls == [op : {"curve"}, rest : [Axes -> Int], target : Positions, main : Axes]

(* The next point is the target, within reach of it, or a step ahead that  *)
(* ends before it.                                                         *)
LEMMA CurvePointIs ==
  ASSUME pos \in [Axes -> Nat], call \in CurveCalls, call.rest[call.main] # 0,
         NEW next \in CurvePoints
  PROVE  \/ /\ next.to = call.target /\ next.by = call.rest
            /\ call.rest[call.main] \in -MaxStep..MaxStep
         \/ /\ next.by \in [Axes -> -MaxStep..MaxStep]
            /\ next.to \in [Axes -> Nat] /\ \A a \in Axes : next.to[a] = pos[a] + next.by[a]
            /\ pos[call.main] + call.rest[call.main] >= 0 =>
                 next.by[call.main] # call.rest[call.main]
<1> DEFINE m == call.main
           rest == call.rest[m]
           Bend(n, side) == [a \in Axes |-> Greater(-pos[a],
                               IF a = m THEN Toward(Lesser(n, MaxStep), rest) ELSE side)]
<1>1. m \in Axes /\ rest \in Int /\ rest # 0 /\ pos[m] \in Nat
  BY DEF CurveCalls
<1>2. \/ /\ \E n \in Lengths(rest) : n >= Abs(rest)
         /\ next = [to |-> call.target, by |-> call.rest]
      \/ \E n \in {i \in Lengths(rest) : i < Abs(rest)}, side \in -MaxStep..MaxStep :
           next = [to |-> [a \in Axes |-> pos[a] + Bend(n, side)[a]], by |-> Bend(n, side)]
  <2>1. CurvePoints =
          (IF \E n \in Lengths(rest) : n >= Abs(rest)
           THEN {[to |-> call.target, by |-> call.rest]} ELSE {})
          \union {[to |-> [a \in Axes |-> pos[a] + by[a]], by |-> by] :
                    by \in {Bend(n, side) : n \in {i \in Lengths(rest) : i < Abs(rest)},
                                            side \in -MaxStep..MaxStep}}
    BY DEF CurvePoints
  <2> HIDE DEF rest, m, Bend
  <2> QED
    BY <2>1
<1>3. CASE /\ \E n \in Lengths(rest) : n >= Abs(rest)
           /\ next = [to |-> call.target, by |-> call.rest]
  <2>1. Abs(rest) <= MaxStep
    BY <1>1, <1>3, LengthsAre
  <2>2. rest \in -MaxStep..MaxStep
    BY <1>1, <2>1, StepsAssumption DEF Abs
  <2> QED
    BY <1>3, <2>2
<1>4. ASSUME NEW n \in {i \in Lengths(rest) : i < Abs(rest)}, NEW side \in -MaxStep..MaxStep,
             next = [to |-> [a \in Axes |-> pos[a] + Bend(n, side)[a]], by |-> Bend(n, side)]
      PROVE  /\ next.by \in [Axes -> -MaxStep..MaxStep]
             /\ next.to \in [Axes -> Nat] /\ \A a \in Axes : next.to[a] = pos[a] + next.by[a]
             /\ pos[m] + rest >= 0 => next.by[m] # rest
  <2> DEFINE ahead == Toward(Lesser(n, MaxStep), rest)
             e(a) == IF a = m THEN ahead ELSE side
  <2>1. n \in Nat \ {0} /\ n < Abs(rest)
    BY <1>1, <1>4, LengthsAre
  <2>2. ahead \in -MaxStep..MaxStep /\ (pos[m] + rest >= 0 => Greater(-pos[m], ahead) # rest)
    BY <1>1, <2>1, AheadStep
  <2>3. Bend(n, side) = [a \in Axes |-> Greater(-pos[a], e(a))]
    OBVIOUS
  <2>4. next.by = Bend(n, side) /\ next.to = [a \in Axes |-> pos[a] + Bend(n, side)[a]]
    BY <1>4
  <2> HIDE DEF Bend, ahead
  <2>5. \A a \in Axes : e(a) \in -MaxStep..MaxStep
    BY <2>2
  <2>6. e(m) = ahead
    OBVIOUS
  <2> HIDE DEF e
  <2>7. \A a \in Axes : /\ Greater(-pos[a], e(a)) \in -MaxStep..MaxStep
                        /\ pos[a] + Greater(-pos[a], e(a)) \in Nat
    BY <2>5, SideStep
  <2> QED
    BY <1>1, <2>2, <2>3, <2>4, <2>6, <2>7
<1> QED
  BY <1>2, <1>3, <1>4

LEMMA MoveTo3Is ==
  ASSUME MotionInv, MoveTo3
  PROVE  /\ MotionInv' /\ UNCHANGED <<pos, known, pointer>> /\ MouseIdle
         /\ \/ call' \in [op : {"jump"}, target : Positions] /\ (~known \/ call'.target = pos)
            \/ /\ call' \in CurveCalls /\ known /\ call'.rest[call'.main] # 0
               /\ \A a \in Axes : pos[a] + call'.rest[a] = call'.target[a]
<1> PICK t \in Positions :
       IF ~known \/ t = pos
       THEN Continue([op |-> "jump", target |-> t])
       ELSE LET d == [a \in Axes |-> t[a] - pos[a]]
            IN  Continue([op |-> "curve", rest |-> d, target |-> t,
                          main |-> IF Abs(d["x"]) >= Abs(d["y"]) THEN "x" ELSE "y"])
  BY DEF MoveTo3
<1>1. /\ MouseIdle /\ resolution = Screen /\ UNCHANGED <<handle, host>>
      /\ shift = Zero /\ wheel = 0
  BY DEF MoveTo3, MotionInv, MouseInv, MotionCleared, MouseIdle, Relative
<1>2. ASSUME call' \in Calls, call'.op \in {"jump", "curve"}, result' = "running"
      PROVE  MotionInv'
  BY <1>1, <1>2 DEF MotionInv, MouseInv, MotionCleared, handle, host
<1>3. CASE ~known \/ t = pos
  <2>1. call' = [op |-> "jump", target |-> t] /\ result' = "running"
    BY <1>3 DEF Continue
  <2>2. call' \in [op : {"jump"}, target : Positions] /\ call'.target = t
    BY <2>1
  <2>3. call' \in Calls /\ call'.op = "jump"
    BY <2>2 DEF Calls
  <2> QED
    BY <1>1, <1>2, <1>3, <2>1, <2>2, <2>3 DEF handle, host
<1>4. CASE ~(~known \/ t = pos)
  <2> DEFINE d == [a \in Axes |-> t[a] - pos[a]]
             m == IF Abs(d["x"]) >= Abs(d["y"]) THEN "x" ELSE "y"
  <2>1. call' = [op |-> "curve", rest |-> d, target |-> t, main |-> m] /\ result' = "running"
    BY <1>4 DEF Continue
  <2>2. t \in [Axes -> Nat] /\ pos \in [Axes -> Nat]
    BY PositionsNat DEF MotionInv, MouseInv
  <2>3. d \in [Axes -> Int] /\ m \in Axes /\ \A a \in Axes : pos[a] + d[a] = t[a]
    BY <2>2 DEF Axes
  <2>4. d[m] # 0
    <3>1. SUFFICES ASSUME d[m] = 0 PROVE FALSE
      OBVIOUS
    <3>2. d["x"] \in Int /\ d["y"] \in Int
      BY <2>3 DEF Axes
    <3>3. d["x"] = 0 /\ d["y"] = 0
      <4> HIDE DEF d
      <4> QED
        BY <3>1, <3>2 DEF Abs
    <3>4. t["x"] = pos["x"] /\ t["y"] = pos["y"]
      BY <2>2, <3>3 DEF Axes
    <3>5. t = pos
      BY <2>2, <3>4 DEF Axes
    <3> QED
      BY <1>4, <3>5
  <2> HIDE DEF d, m
  <2>5. /\ call' \in CurveCalls /\ call'.rest = d /\ call'.main = m /\ call'.target = t
        /\ call'.op = "curve"
    BY <2>1, <2>3 DEF CurveCalls
  <2>6. call' \in Calls
    BY <2>5 DEF Calls, CurveCalls
  <2> QED
    BY <1>1, <1>2, <1>4, <2>1, <2>3, <2>4, <2>5, <2>6 DEF handle, host
<1> QED
  BY <1>3, <1>4

LEMMA JumpIs ==
  ASSUME MotionInv, Jump
  PROVE  /\ MotionInv' /\ call' = NoCall
         /\ call \in [op : {"jump"}, target : Positions]
         /\ ScreenFits /\ "absolute" \notin Faults =>
              pos' = call.target /\ \A a \in Axes : Near(call.target[a], pointer'[a])
<1> PICK x \in AbsoluteExchanges :
       /\ SendAbsolute(call.target, x)
       /\ pos' = IF x.ok THEN call.target ELSE pos
       /\ Return(Answer(x))
  BY DEF Jump
<1>1. /\ call \in [op : {"jump"}, target : Positions] /\ call.op = "jump" /\ resolution = Screen
      /\ call.target \in Positions /\ call.target \in [Axes -> Nat] /\ MouseInv
  BY CallIs, PositionsNat DEF Jump, MotionInv, MouseInv
<1>2. /\ pointer' \in Positions
      /\ ScreenFits /\ x.delivered => \A a \in Axes : Near(call.target[a], pointer'[a])
  BY <1>1, CommandMoves
<1>3. /\ call' = NoCall /\ call'.op = "idle" /\ call' \in Calls /\ result' \in {"ok", "failed"}
      /\ UNCHANGED <<buttons, shift, wheel, resolution, hostButtons>>
  BY DEF Return, Answer, SendAbsolute, NoCall, Calls
<1>4. known' = (known \/ x.ok) /\ shift = Zero /\ wheel = 0
  BY <1>1 DEF SendAbsolute, MotionInv, MotionCleared, Relative
<1>5. known' \in BOOLEAN
  BY <1>4
<1>6. pos' \in [Axes -> Nat]
  BY <1>1 DEF MouseInv
<1>7. MouseInv'
  BY <1>1, <1>2, <1>3, <1>5, <1>6 DEF MouseInv
<1>8. MotionInv'
  BY <1>3, <1>4, <1>7 DEF MotionInv, MotionCleared
<1>9. "absolute" \notin Faults => x.ok /\ x.delivered
  BY DEF AbsoluteExchanges, Exchanges
<1> QED
  BY <1>1, <1>2, <1>3, <1>8, <1>9

LEMMA CurveStepIs ==
  ASSUME MotionInv, CurveStep
  PROVE  /\ MotionInv' /\ call \in CurveCalls /\ call.rest[call.main] # 0
         /\ call' = NoCall => result' # "ok"
         /\ "absolute" \notin Faults =>
              /\ call' \in CurveCalls /\ call'.target = call.target /\ call'.main = call.main
              /\ known' = TRUE
              /\ \/ /\ pos' = call.target
                    /\ ScreenFits => \A a \in Axes : Near(call.target[a], pointer'[a])
                    /\ call'.rest[call.main] = 0
                 \/ /\ \A a \in Axes : pos'[a] + call'.rest[a] = pos[a] + call.rest[a]
                    /\ pos[call.main] + call.rest[call.main] >= 0 => call'.rest[call.main] # 0
<1> PICK next \in CurvePoints, x \in AbsoluteExchanges :
       /\ pos' = next.to
       /\ SendAbsolute(next.to, x)
       /\ IF x.ok
          THEN Continue([call EXCEPT !.rest =
                           [a \in Axes |-> @[a] - SignedChar(next.by[a])]])
          ELSE Return("failed")
  BY DEF CurveStep
<1>1. /\ call \in CurveCalls /\ call.op = "curve" /\ call.rest[call.main] # 0
      /\ resolution = Screen /\ MouseInv /\ pos \in [Axes -> Nat]
      /\ call.target \in Positions /\ call.target \in [Axes -> Nat] /\ call.main \in Axes
      /\ call.rest \in [Axes -> Int]
  BY CallIs, PositionsNat DEF CurveStep, MotionInv, MouseInv, CurveCalls
<1> DEFINE Straight == /\ next.to = call.target /\ next.by = call.rest
                       /\ call.rest[call.main] \in -MaxStep..MaxStep
           Bent == /\ next.by \in [Axes -> -MaxStep..MaxStep]
                   /\ next.to \in [Axes -> Nat]
                   /\ \A a \in Axes : next.to[a] = pos[a] + next.by[a]
                   /\ pos[call.main] + call.rest[call.main] >= 0 =>
                        next.by[call.main] # call.rest[call.main]
<1>2. Straight \/ Bent
  BY <1>1, CurvePointIs
<1>3. next.to \in [Axes -> Nat] /\ next.by \in [Axes -> Int]
  BY <1>1, <1>2, StepsAssumption
<1>4. /\ pointer' \in Positions
      /\ ScreenFits /\ x.delivered /\ next.to \in Positions =>
           \A a \in Axes : Near(next.to[a], pointer'[a])
  BY <1>1, <1>3, CommandMoves
<1> DEFINE left == [a \in Axes |-> call.rest[a] - SignedChar(next.by[a])]
<1>5. left \in [Axes -> Int]
  <2>1. \A n \in Int : SignedChar(n) \in Int
    <3>1. \A n \in Int, d \in Nat \ {0} : n % d \in Int
      OBVIOUS
    <3>2. CharRange \in Nat \ {0} /\ 2 * CharRange \in Nat \ {0}
      BY StepsAssumption
    <3> QED
      BY <3>1, <3>2 DEF SignedChar
  <2>2. \A a \in Axes : call.rest[a] \in Int /\ next.by[a] \in Int
    BY <1>1, <1>3
  <2> QED
    BY <2>1, <2>2
<1>6. IF x.ok THEN /\ result' = "running"
                   /\ call' = [op |-> "curve", rest |-> left, target |-> call.target,
                               main |-> call.main]
              ELSE call' = NoCall /\ result' = "failed"
  BY <1>1 DEF Continue, Return, CurveCalls
<1> HIDE DEF left
<1>7. x.ok => call' \in CurveCalls /\ call'.rest = left /\ call'.target = call.target
              /\ call'.main = call.main /\ call'.op = "curve"
  BY <1>1, <1>5, <1>6 DEF CurveCalls
<1>8. call' \in Calls /\ call'.op \in {"curve", "idle"} /\ (call' = NoCall => result' # "ok")
      /\ result' \in {"running", "failed"}
  BY <1>6, <1>7 DEF Calls, CurveCalls, NoCall
<1>9. /\ UNCHANGED <<buttons, shift, wheel, resolution, hostButtons>>
      /\ known' = (known \/ x.ok) /\ shift = Zero /\ wheel = 0
  BY <1>1 DEF SendAbsolute, MotionInv, MotionCleared, Relative
<1>10. MotionInv'
  <2>1. known' \in BOOLEAN
    BY <1>9
  <2>2. MouseInv'
    BY <1>1, <1>3, <1>4, <1>8, <1>9, <2>1 DEF MouseInv
  <2> QED
    BY <1>8, <1>9, <2>2 DEF MotionInv, MotionCleared
<1>11. ASSUME "absolute" \notin Faults
       PROVE  /\ call' \in CurveCalls /\ call'.target = call.target /\ call'.main = call.main
              /\ known' = TRUE
              /\ \/ /\ pos' = call.target
                    /\ ScreenFits => \A a \in Axes : Near(call.target[a], pointer'[a])
                    /\ call'.rest[call.main] = 0
                 \/ /\ \A a \in Axes : pos'[a] + call'.rest[a] = pos[a] + call.rest[a]
                    /\ pos[call.main] + call.rest[call.main] >= 0 => call'.rest[call.main] # 0
  <2>1. x.ok /\ x.delivered
    BY <1>11 DEF AbsoluteExchanges, Exchanges
  <2>2. call' \in CurveCalls /\ call'.rest = left /\ call'.target = call.target
        /\ call'.main = call.main /\ known' = TRUE
    BY <1>7, <1>9, <2>1
  <2>3. CASE Straight
    <3>1. left[call.main] = 0
      BY <1>1, <2>3, SignedCharIs DEF left
    <3> QED
      BY <1>1, <1>4, <2>1, <2>2, <2>3, <3>1
  <2>4. CASE Bent
    <3>1. \A a \in Axes : left[a] = call.rest[a] - next.by[a]
      BY <2>4, SignedCharIs DEF left
    <3>2. \A a \in Axes : /\ call.rest[a] \in Int /\ next.by[a] \in Int /\ pos[a] \in Int
                          /\ next.to[a] = pos[a] + next.by[a]
      BY <1>1, <1>3, <2>4
    <3>3. \A a \in Axes : next.to[a] + left[a] = pos[a] + call.rest[a]
      BY <3>1, <3>2
    <3>4. pos[call.main] + call.rest[call.main] >= 0 => left[call.main] # 0
      <4>1. /\ left[call.main] = call.rest[call.main] - next.by[call.main]
            /\ call.rest[call.main] \in Int /\ next.by[call.main] \in Int
        BY <1>1, <3>1, <3>2
      <4>2. pos[call.main] + call.rest[call.main] >= 0 =>
              next.by[call.main] # call.rest[call.main]
        BY <2>4
      <4> QED
        BY <4>1, <4>2
    <3> QED
      BY <2>2, <3>3, <3>4
  <2> QED
    BY <1>2, <2>3, <2>4
<1> QED
  BY <1>1, <1>8, <1>10, <1>11

LEMMA CurveEndsIs ==
  ASSUME MotionInv, CurveEnds
  PROVE  /\ MotionInv' /\ call \in CurveCalls /\ call.rest[call.main] = 0
         /\ UNCHANGED <<pos, known, pointer>>
         /\ \/ call' = NoCall
            \/ call' = [op |-> "jump", target |-> call.target]
<1>1. /\ call \in CurveCalls /\ call.op = "curve" /\ call.rest[call.main] = 0
      /\ resolution = Screen /\ MouseInv /\ call.target \in Positions
      /\ UNCHANGED <<handle, host>> /\ shift = Zero /\ wheel = 0
  BY CallIs DEF CurveEnds, MotionInv, MouseInv, MotionCleared, Relative, CurveCalls
<1>2. \/ call' = NoCall /\ result' = "ok"
      \/ call' = [op |-> "jump", target |-> call.target] /\ result' = "running"
  BY DEF CurveEnds, Return, Continue
<1>3. call' \in Calls /\ call'.op \in {"jump", "idle"} /\ result' \in {"ok", "running"}
  BY <1>1, <1>2 DEF Calls, NoCall
<1>4. MotionInv'
  BY <1>1, <1>3 DEF MotionInv, MouseInv, MotionCleared, handle, host
<1> QED
  BY <1>1, <1>2, <1>4 DEF handle, host

LEMMA MotionStep ==
  ASSUME MotionInv, [Next]_vars
  PROVE  MotionInv'
<1>1. CASE MouseCall
  BY <1>1, ButtonsStep, ClickSteps, ClickStepStep, WheelSteps, WheelStepStep, MoveRStep, MoveToStep,
     ResetStep, ClearedStep, MoveStepIs, MoveEndsIs, MoveTo3Is, JumpIs, CurveStepIs, CurveEndsIs
  DEF MouseCall, Loop
<1>2. CASE OpenMouse
  BY <1>2, ClearedStep
<1>3. CASE UNCHANGED mouseVars
  BY <1>3, ClearedStep
<1> QED
  BY <1>1, <1>2, <1>3 DEF Next, Open, OpenFails, Close, UseKeys, UseMouse, vars

LEMMA MotionInit == Init => MotionInv
<1> SUFFICES ASSUME Init PROVE MotionInv
  OBVIOUS
<1>1. /\ buttons = {} /\ shift = Zero /\ wheel = 0
      /\ known = FALSE /\ pos = Zero /\ resolution = Zero
      /\ call = NoCall /\ result = "ok"
      /\ pointer \in Positions /\ hostButtons = {}
  BY DEF Init, MouseInit
<1>2. Zero \in [Axes -> Nat] /\ Zero \in [Axes -> -CharRange..(CharRange - 1)]
  BY StepsAssumption DEF Zero
<1>3. call.op = "idle" /\ call \in Calls
  BY <1>1 DEF NoCall, Calls
<1>4. known \in BOOLEAN
  BY <1>1, Zenon
<1> QED
  BY <1>1, <1>2, <1>3, <1>4 DEF MotionInv, MouseInv, MotionCleared

LEMMA MotionInvariant == Spec => []MotionInv
<1>1. MotionInv /\ [Next]_vars => MotionInv'
  BY MotionStep
<1> QED
  BY MotionInit, <1>1, PTL DEF Spec

-----------------------------------------------------------------------------
(* The position: what is recorded is near where the pointer will be once   *)
(* what is left of the call has been sent, and near where it is when       *)
(* nothing is.                                                             *)
Resting == call.op \in {"idle", "press", "wheel", "jump"}

TrackInv ==
  /\ Resting /\ known => \A a \in Axes : Near(pos[a], pointer[a])
  /\ call.op = "moveR" /\ known =>
       \A a \in Axes : Near(pos[a], Moved(pointer[a], call.rest[a], Screen[a]))
  /\ call.op = "moveTo" =>
       /\ \A a \in Axes : Near(call.target[a], Moved(pointer[a], call.rest[a], Screen[a]))
       /\ call.failure = "ok" => call.rest = Zero
  /\ call.op = "home" =>
       /\ ~known /\ \A a \in Axes : pointer[a] + call.rest[a] <= 0
       /\ call.failure = "ok" => call.target = Zero
  /\ call.op = "curve" =>
       /\ known
       /\ call.rest[call.main] = 0 =>
            pos = call.target /\ \A a \in Axes : Near(call.target[a], pointer[a])
       /\ call.rest[call.main] # 0 =>
            \A a \in Axes : pos[a] + call.rest[a] = call.target[a]

Reliable == ScreenFits /\ "absolute" \notin Faults

LEMMA TrackRests ==
  ASSUME MotionInv, TrackInv, Resting, UNCHANGED <<pos, known, pointer>>,
         call'.op \in {"idle", "press", "wheel", "jump"}
  PROVE  TrackInv'
  BY DEF TrackInv, Resting

(* Buttons and the wheel leave the pointer where it is.                    *)
LEMMA TrackButtons ==
  ASSUME MotionInv, TrackInv,
         ChangeButtons \/ Click \/ ClickStep \/ MouseWheel \/ WheelStep \/ ResolutionUsed
  PROVE  TrackInv'
<1> USE DEF MouseIdle, Resting
<1>1. MouseInv /\ call \in Calls /\ buttons \subseteq Buttons /\ Zero \in [Axes -> Int]
      /\ \A a \in Axes : Zero[a] = 0
  BY ZeroIsPosition DEF MotionInv, MouseInv, Zero
<1>2. ASSUME NEW B \in SUBSET Buttons, NEW x, SendReport(Zero, B, x) PROVE pointer' = pointer
  BY <1>1, <1>2, ReportMoves
<1>3. CASE ChangeButtons
  <2> PICK B \in {buttons \union {b} : b \in Buttons} \union {buttons \ {b} : b \in Buttons} \union {{}},
           x \in RelativeExchanges : SetButtons(B, x) /\ Return(Answer(x))
    BY <1>3 DEF ChangeButtons
  <2>1. B \subseteq Buttons
    BY <1>1
  <2>2. pointer' = pointer /\ UNCHANGED <<pos, known>>
    BY <1>2, <2>1 DEF SetButtons
  <2>3. call.op = "idle" /\ call'.op = "idle"
    BY <1>3 DEF ChangeButtons, Return, NoCall
  <2> QED
    BY <2>2, <2>3, TrackRests
<1>4. CASE Click
  <2>1. call'.op = "press" /\ UNCHANGED <<pos, known, pointer>>
    BY <1>4 DEF Click, Continue, handle, host
  <2> QED
    BY <1>4, <2>1, TrackRests DEF Click
<1>5. CASE ClickStep
  <2> PICK x \in RelativeExchanges :
         /\ SetButtons(IF call.left % 2 = 0 THEN buttons \union {call.button}
                                            ELSE buttons \ {call.button}, x)
         /\ IF x.ok /\ call.left > 1 THEN Continue([call EXCEPT !.left = @ - 1])
                                     ELSE Return(Answer(x))
    BY <1>5 DEF ClickStep
  <2> PICK B : /\ B = IF call.left % 2 = 0 THEN buttons \union {call.button}
                                           ELSE buttons \ {call.button}
               /\ SetButtons(B, x)
    OBVIOUS
  <2>1. call \in [op : {"press"}, button : Buttons, left : 1..(2 * MaxCount)]
    BY <1>1, <1>5, CallIs DEF ClickStep
  <2>2. B \subseteq Buttons
    BY <1>1, <2>1
  <2>3. pointer' = pointer /\ UNCHANGED <<pos, known>>
    BY <1>2, <2>2 DEF SetButtons
  <2>4. call'.op \in {"press", "idle"}
    BY <2>1 DEF Continue, Return, NoCall
  <2> QED
    BY <1>5, <2>3, <2>4, TrackRests DEF ClickStep
<1>6. CASE MouseWheel
  <2>1. call'.op = "wheel" /\ UNCHANGED <<pos, known, pointer>>
    BY <1>6 DEF MouseWheel, Continue, host
  <2> QED
    BY <1>6, <2>1, TrackRests DEF MouseWheel
<1>7. CASE WheelStep
  <2> PICK x \in RelativeExchanges :
         /\ SendReport(shift, buttons, x)
         /\ IF x.ok /\ call.left > 1
            THEN Continue([call EXCEPT !.left = @ - 1]) /\ UNCHANGED <<shift, wheel>>
            ELSE Return(Answer(x)) /\ ClearMotion
    BY <1>7 DEF WheelStep
  <2>1. call \in [op : {"wheel"}, left : 1..MaxCount] /\ shift = Zero
    BY <1>1, <1>7, CallIs DEF WheelStep, MotionInv, MotionCleared, Relative
  <2>2. pointer' = pointer
    BY <1>1, <1>2, <2>1
  <2>3. call'.op \in {"wheel", "idle"} /\ UNCHANGED <<pos, known>>
    BY <1>7, <2>1 DEF Continue, Return, NoCall, WheelStep
  <2> QED
    BY <1>7, <2>2, <2>3, TrackRests DEF WheelStep
<1>8. CASE ResolutionUsed
  <2>1. UNCHANGED <<call, pos, known, pointer>>
    BY <1>8 DEF ResolutionUsed, host
  <2> QED
    BY <1>8, <2>1, TrackRests DEF ResolutionUsed
<1> QED
  BY <1>3, <1>4, <1>5, <1>6, <1>7, <1>8

LEMMA PointerIs ==
  ASSUME MotionInv
  PROVE  /\ \A a \in Axes : /\ pointer[a] \in Int /\ 0 <= pointer[a] /\ pointer[a] < Screen[a]
                            /\ Screen[a] \in Nat \ {0} /\ Screen[a] <= HomeDistance
                            /\ pos[a] \in Nat
         /\ pointer \in [Axes -> Int] /\ pos \in [Axes -> Nat]
  BY PositionsAre, ScreenAssumption, HomeAssumption DEF MotionInv, MouseInv

LEMMA TrackStarts ==
  ASSUME MotionInv, TrackInv, MoveR \/ MoveTo \/ ResetMousePos
  PROVE  TrackInv'
<1>1. /\ call.op = "idle" /\ MouseIdle /\ known \in BOOLEAN
      /\ known => \A a \in Axes : Near(pos[a], pointer[a])
  BY DEF MoveR, MoveTo, ResetMousePos, MouseIdle, TrackInv, Resting, MotionInv, MouseInv
<1>2. CASE MoveR
  <2> PICK d \in Distances : /\ known => \A a \in Axes : pos[a] + d[a] < Screen[a]
                             /\ StartMove("moveR", d, Zero, "failed")
    BY <1>2 DEF MoveR
  <2>1. d \in [Axes -> Int] /\ "moveR" \in Relative /\ known' \in BOOLEAN /\ known' = known
    BY <1>1, <1>2, MouseInputsAssumption DEF Relative, MoveR
  <2>2. /\ call' = [op |-> "moveR", rest |-> d, target |-> Zero, failure |-> "failed"]
        /\ pointer' = pointer
        /\ known' => pos' = [a \in Axes |-> Greater(0, pos[a] + d[a])]
    BY <1>1, <2>1, StartMoveIs, ZeroIsPosition
  <2>3. ASSUME known', NEW a \in Axes
        PROVE  Near(pos'[a], Moved(pointer[a], d[a], Screen[a]))
    <3>1. /\ pos[a] \in Int /\ pointer[a] \in Int /\ d[a] \in Int /\ pos[a] + d[a] \in Int
          /\ Screen[a] \in Nat \ {0}
      BY <2>1, PointerIs
    <3>2. Near(pos[a], pointer[a]) /\ pos[a] + d[a] < Screen[a]
      BY <1>1, <2>1, <2>3
    <3>3. pos'[a] = Greater(0, pos[a] + d[a])
      BY <2>2, <2>3
    <3> QED
      BY <3>1, <3>2, <3>3, NearMoved
  <2> QED
    BY <1>1, <2>1, <2>2, <2>3 DEF TrackInv, Resting
<1>3. CASE MoveTo
  <2> PICK t \in Positions :
         IF known
         THEN StartMove("moveTo", [a \in Axes |-> t[a] - pos[a]], t, "failed")
         ELSE StartMove("home", Home, t, "failed")
    BY <1>3 DEF MoveTo
  <2>1. known' = known /\ "moveTo" \in Relative /\ "home" \in Relative /\ known' \in BOOLEAN
    BY <1>1, <1>3 DEF MoveTo, Relative
  <2>2. CASE known
    <3> DEFINE d == [a \in Axes |-> t[a] - pos[a]]
    <3>1. t \in [Axes -> Nat]
      BY PositionsNat
    <3>2. d \in [Axes -> Int] /\ \A a \in Axes : pos[a] + d[a] = t[a]
      BY <3>1, PointerIs
    <3> HIDE DEF d
    <3>3. StartMove("moveTo", d, t, "failed")
      BY <2>2 DEF d
    <3>4. /\ call' = [op |-> "moveTo", rest |-> d, target |-> t, failure |-> "failed"]
          /\ pointer' = pointer
      BY <1>1, <2>1, <3>2, <3>3, StartMoveIs
    <3>5. ASSUME NEW a \in Axes PROVE Near(t[a], Moved(pointer[a], d[a], Screen[a]))
      <4>1. /\ pos[a] \in Int /\ pointer[a] \in Int /\ d[a] \in Int /\ t[a] \in Int
            /\ Screen[a] \in Nat \ {0} /\ 0 <= t[a] /\ t[a] < Screen[a]
        BY <3>1, <3>2, PointerIs, PositionsAre
      <4>2. Near(pos[a], pointer[a]) /\ pos[a] + d[a] = t[a] /\ Greater(0, t[a]) = t[a]
        BY <1>1, <2>2, <3>2, <4>1 DEF Greater
      <4> QED
        BY <4>1, <4>2, NearMoved
    <3> QED
      BY <1>1, <2>2, <3>4, <3>5 DEF TrackInv, Resting
  <2>3. CASE ~known
    <3>1. /\ call' = [op |-> "home", rest |-> Home, target |-> t, failure |-> "failed"]
          /\ pointer' = pointer
      BY <1>1, <2>1, <2>3, StartMoveIs, HomeIs
    <3>2. \A a \in Axes : pointer[a] + Home[a] <= 0
      BY PointerIs, HomeAssumption DEF Home
    <3> QED
      BY <2>1, <2>3, <3>1, <3>2 DEF TrackInv, Resting
  <2> QED
    BY <2>2, <2>3
<1>4. CASE ResetMousePos
  <2>1. "home" \in Relative /\ known' = FALSE /\ StartMove("home", Home, Zero, "ok")
    BY <1>4 DEF Relative, ResetMousePos
  <2>2. /\ call' = [op |-> "home", rest |-> Home, target |-> Zero, failure |-> "ok"]
        /\ pointer' = pointer
    BY <1>1, <2>1, StartMoveIs, HomeIs, ZeroIsPosition
  <2>3. \A a \in Axes : pointer[a] + Home[a] <= 0
    BY PointerIs, HomeAssumption DEF Home
  <2> QED
    BY <2>1, <2>2, <2>3 DEF TrackInv, Resting
<1> QED
  BY <1>2, <1>3, <1>4

(* A part of a move on one axis: the pointer ends where it would have.     *)
LEMMA PartMoves ==
  ASSUME NEW size \in Nat \ {0}, NEW from \in Int, 0 <= from, from < size,
         NEW rest \in Int, NEW part \in Int,
         rest >= 0 => 0 <= part /\ part <= rest,
         rest <= 0 => rest <= part /\ part <= 0
  PROVE  /\ Moved(Moved(from, part, size), rest - part, size) = Moved(from, rest, size)
         /\ from + rest <= 0 => Moved(from, part, size) + (rest - part) <= 0
  BY DEF Moved, Greater, Lesser

LEMMA TrackMove ==
  ASSUME MotionInv, TrackInv, MoveStep
  PROVE  TrackInv'
<1>1. call \in MoveCalls /\ call.op \in Relative /\ UNCHANGED pos
  BY MoveStepIs DEF MoveCalls
<1>2. CASE call' = NoCall /\ known' = FALSE
  <2>1. call'.op = "idle" /\ ~known'
    BY <1>2 DEF NoCall
  <2> QED
    BY <2>1 DEF TrackInv, Resting
<1>3. CASE /\ call' \in MoveCalls /\ call'.op = call.op /\ call'.target = call.target
           /\ call'.failure = call.failure /\ call.rest # Zero /\ known' = known
           /\ \E part \in [Axes -> Int] : \A a \in Axes :
                /\ call.rest[a] >= 0 => 0 <= part[a] /\ part[a] <= call.rest[a]
                /\ call.rest[a] <= 0 => call.rest[a] <= part[a] /\ part[a] <= 0
                /\ call'.rest[a] = call.rest[a] - part[a]
                /\ pointer'[a] = Moved(pointer[a], part[a], Screen[a])
  <2> PICK part \in [Axes -> Int] : \A a \in Axes :
              /\ call.rest[a] >= 0 => 0 <= part[a] /\ part[a] <= call.rest[a]
              /\ call.rest[a] <= 0 => call.rest[a] <= part[a] /\ part[a] <= 0
              /\ call'.rest[a] = call.rest[a] - part[a]
              /\ pointer'[a] = Moved(pointer[a], part[a], Screen[a])
    BY <1>3
  <2>1. ASSUME NEW a \in Axes
        PROVE  /\ Moved(pointer'[a], call'.rest[a], Screen[a])
                    = Moved(pointer[a], call.rest[a], Screen[a])
               /\ pointer[a] + call.rest[a] <= 0 => pointer'[a] + call'.rest[a] <= 0
    <3>1. /\ call.rest[a] \in Int /\ part[a] \in Int /\ pointer[a] \in Int
          /\ 0 <= pointer[a] /\ pointer[a] < Screen[a] /\ Screen[a] \in Nat \ {0}
      BY <1>1, PointerIs DEF MoveCalls
    <3>2. /\ call.rest[a] >= 0 => 0 <= part[a] /\ part[a] <= call.rest[a]
          /\ call.rest[a] <= 0 => call.rest[a] <= part[a] /\ part[a] <= 0
          /\ call'.rest[a] = call.rest[a] - part[a]
          /\ pointer'[a] = Moved(pointer[a], part[a], Screen[a])
      OBVIOUS
    <3> QED
      BY <3>1, <3>2, PartMoves
  <2>2. CASE call.op = "moveR"
    BY <1>1, <1>3, <2>1, <2>2 DEF TrackInv, Resting
  <2>3. CASE call.op = "moveTo"
    <3>1. \A a \in Axes : Near(call'.target[a], Moved(pointer'[a], call'.rest[a], Screen[a]))
      BY <1>3, <2>1, <2>3 DEF TrackInv
    <3>2. call'.failure # "ok"
      BY <1>3, <2>3 DEF TrackInv
    <3> QED
      BY <1>3, <2>3, <3>1, <3>2 DEF TrackInv, Resting
  <2>4. CASE call.op = "home"
    BY <1>1, <1>3, <2>1, <2>4 DEF TrackInv, Resting
  <2> QED
    BY <1>1, <2>2, <2>3, <2>4 DEF Relative
<1> QED
  BY <1>2, <1>3, MoveStepIs

LEMMA TrackMoveEnds ==
  ASSUME MotionInv, TrackInv, MoveEnds
  PROVE  /\ TrackInv'
         /\ call.op = "moveTo" => \A a \in Axes : Near(call.target[a], pointer'[a])
<1>1. /\ MotionInv' /\ call \in MoveCalls /\ UNCHANGED pointer
      /\ call.op = "home" =>
           /\ call' = [op |-> "moveTo", rest |-> call.target, target |-> call.target,
                       failure |-> call.failure]
           /\ UNCHANGED <<known, pos>>
      /\ call.op # "home" => call' = NoCall /\ result' = "ok"
      /\ call.op = "moveTo" => known' = TRUE /\ pos' = call.target
      /\ call.op # "moveTo" => UNCHANGED <<known, pos>>
  BY MoveEndsIs
<1>2. \A a \in Axes : call.rest[a] = 0
  BY DEF MoveEnds, Zero
<1>6. \A a \in Axes : Moved(pointer[a], call.rest[a], Screen[a]) = pointer[a]
  BY <1>2, PointerIs DEF Moved, Greater, Lesser
<1>3. CASE call.op = "moveR"
  <2>1. known => \A a \in Axes : Near(pos[a], pointer[a])
    BY <1>3, <1>6 DEF TrackInv
  <2>2. call'.op = "idle"
    BY <1>1, <1>3 DEF NoCall
  <2> QED
    BY <1>1, <1>3, <2>1, <2>2 DEF TrackInv, Resting
<1>4. CASE call.op = "moveTo"
  <2>1. \A a \in Axes : Near(call.target[a], pointer[a])
    BY <1>4, <1>6 DEF TrackInv
  <2>2. call'.op = "idle"
    BY <1>1, <1>4 DEF NoCall
  <2> QED
    BY <1>1, <1>4, <2>1, <2>2 DEF TrackInv, Resting
<1>5. CASE call.op = "home"
  <2>1. \A a \in Axes : pointer[a] + 0 <= 0
    BY <1>2, <1>5 DEF TrackInv
  <2>2. \A a \in Axes : pointer[a] = 0
    BY <2>1, PointerIs
  <2>3. \A a \in Axes : /\ call.target[a] \in Int /\ 0 <= call.target[a] /\ call.target[a] < Screen[a]
                        /\ Screen[a] \in Nat
    BY <1>1, PositionsAre, ScreenAssumption DEF MoveCalls
  <2>4. /\ call'.op = "moveTo" /\ call'.rest = call.target /\ call'.target = call.target
        /\ call'.failure = call.failure /\ UNCHANGED <<known, pos, pointer>>
    BY <1>1, <1>5
  <2>5. ASSUME NEW a \in Axes
        PROVE  Near(call'.target[a], Moved(pointer'[a], call'.rest[a], Screen[a]))
    <3>1. Moved(0, call.target[a], Screen[a]) = call.target[a]
      BY <2>3 DEF Moved, Greater, Lesser
    <3> QED
      BY <2>2, <2>3, <2>4, <3>1, NearIs
  <2>6. call'.failure = "ok" => call'.rest = Zero
    BY <1>5, <2>4 DEF TrackInv
  <2> QED
    BY <1>5, <2>4, <2>5, <2>6 DEF TrackInv, Resting
<1> QED
  BY <1>3, <1>4, <1>5 DEF MoveEnds, Relative

(* Absolute moves, when the device takes every command.                    *)
LEMMA TrackAbsolute ==
  ASSUME MotionInv, TrackInv, Reliable, MoveTo3 \/ Jump \/ CurveStep \/ CurveEnds
  PROVE  /\ TrackInv'
         /\ call'.op = "idle" /\ result' = "ok" /\ call.op \in {"jump", "curve"} =>
              \A a \in Axes : Near(call.target[a], pointer'[a])
<1>1. CASE MoveTo3
  <2>1. /\ UNCHANGED <<pos, known, pointer>> /\ MouseIdle
        /\ \/ call' \in [op : {"jump"}, target : Positions]
           \/ /\ call' \in CurveCalls /\ known /\ call'.rest[call'.main] # 0
              /\ \A a \in Axes : pos[a] + call'.rest[a] = call'.target[a]
    BY <1>1, MoveTo3Is
  <2>2. call.op = "idle" /\ call'.op # "idle"
    BY <2>1 DEF MouseIdle, CurveCalls
  <2> QED
    BY <2>1, <2>2 DEF TrackInv, Resting, CurveCalls
<1>2. CASE Jump
  <2>1. /\ call'.op = "idle" /\ pos' = call.target
        /\ \A a \in Axes : Near(call.target[a], pointer'[a])
    BY <1>2, JumpIs DEF Reliable, NoCall
  <2> QED
    BY <2>1 DEF TrackInv, Resting
<1>3. CASE CurveStep
  <2>1. /\ call \in CurveCalls /\ call.rest[call.main] # 0
        /\ call' \in CurveCalls /\ call'.target = call.target /\ call'.main = call.main
        /\ known' = TRUE
        /\ \/ /\ pos' = call.target /\ \A a \in Axes : Near(call.target[a], pointer'[a])
              /\ call'.rest[call.main] = 0
           \/ /\ \A a \in Axes : pos'[a] + call'.rest[a] = pos[a] + call.rest[a]
              /\ pos[call.main] + call.rest[call.main] >= 0 => call'.rest[call.main] # 0
    BY <1>3, CurveStepIs DEF Reliable
  <2>2. call.op = "curve" /\ call'.op = "curve" /\ call.main \in Axes
        /\ call.target[call.main] >= 0
    BY <2>1, PositionsAre DEF CurveCalls
  <2>3. \A a \in Axes : pos[a] + call.rest[a] = call.target[a]
    BY <2>1, <2>2 DEF TrackInv
  <2>4. pos[call.main] + call.rest[call.main] >= 0
    BY <2>2, <2>3
  <2> QED
    BY <2>1, <2>2, <2>3, <2>4 DEF TrackInv, Resting
<1>4. CASE CurveEnds
  <2>1. /\ call \in CurveCalls /\ call.op = "curve" /\ call.rest[call.main] = 0
        /\ UNCHANGED <<pos, known, pointer>>
        /\ \/ call' = NoCall
           \/ call' = [op |-> "jump", target |-> call.target]
    BY <1>4, CurveEndsIs DEF CurveEnds
  <2>2. pos = call.target /\ \A a \in Axes : Near(call.target[a], pointer[a])
    BY <2>1 DEF TrackInv
  <2>3. call'.op \in {"idle", "jump"}
    BY <2>1 DEF NoCall
  <2> QED
    BY <2>1, <2>2, <2>3 DEF TrackInv, Resting
<1> QED
  BY <1>1, <1>2, <1>3, <1>4

LEMMA TrackStep ==
  ASSUME MotionInv, TrackInv, Reliable, [Next]_vars
  PROVE  TrackInv'
<1>1. CASE MouseCall
  BY <1>1, TrackButtons, TrackStarts, TrackMove, TrackMoveEnds, TrackAbsolute DEF MouseCall, Loop
<1>2. CASE OpenMouse
  BY <1>2 DEF OpenMouse, MouseIdle, TrackInv, Resting
<1>3. CASE UNCHANGED mouseVars
  BY <1>3 DEF mouseVars, handle, host, TrackInv, Resting
<1> QED
  BY <1>1, <1>2, <1>3 DEF Next, Open, OpenFails, Close, UseKeys, UseMouse, vars

LEMMA TrackInvariant ==
  ASSUME Reliable
  PROVE  Spec => []TrackInv
<1>1. Init => TrackInv
  BY DEF Init, MouseInit, NoCall, TrackInv, Resting
<1>2. MotionInv /\ TrackInv /\ [Next]_vars => TrackInv'
  BY TrackStep
<1> QED
  BY <1>1, <1>2, MotionInvariant, PTL DEF Spec

(* The types of msdk, the values that a report can carry among them:       *)
(* whatever fails, and whatever the size of the screen.                    *)
THEOREM TypesHold == Spec => []TypeOK
<1> DEFINE SessionOK == session \in {"null", "open", "undefined"}
<1>1. Init => SessionOK
  BY DEF Init
<1>2. SessionOK /\ [Next]_vars => SessionOK'
  BY DEF Next, Open, OpenFails, Close, UseKeys, UseMouse, vars
<1>3. KeysInv /\ MotionInv /\ SessionOK => TypeOK
  BY MouseTypes DEF KeysInv, MotionInv, TypeOK
<1> HIDE DEF SessionOK
<1> QED
  BY <1>1, <1>2, <1>3, KeysInvariant, MotionInvariant, PTL DEF Spec

(* M_GetCurrMousePos() never drifts on a screen on which a quarter of a    *)
(* pixel is two steps of the device, if absolute moves do not fail: after  *)
(* any calls, of relative moves that failed too, a recorded position is    *)
(* within AbsoluteError of the pointer, and nothing is left that would     *)
(* move it.                                                                *)
THEOREM PositionIsTracked ==
  ASSUME Reliable
  PROVE  Spec => []PositionTracked
<1>1. MotionInv /\ TrackInv => PositionTracked
  BY DEF MotionInv, TrackInv, Resting, MouseIdle, PositionTracked
<1> QED
  BY <1>1, MotionInvariant, TrackInvariant, PTL

(* Under the same conditions a move to a position that reports success has *)
(* taken the pointer there, but for the same error.                        *)
THEOREM MovesArrive ==
  ASSUME Reliable
  PROVE  Spec => MoveArrives
<1> DEFINE Arrived == call.op \in {"moveTo", "jump", "curve"} /\ call'.op = "idle" /\ result' = "ok"
                        => \A a \in Axes : Near(call.target[a], pointer'[a])
<1>1. ASSUME MotionInv, TrackInv, [Next]_vars
      PROVE  [Arrived]_mouseVars
  <2>1. CASE MouseCall
    <3>1. CASE MoveStep
      <4>1. call \in MoveCalls /\ call.rest # Zero
        BY <1>1, <3>1, MoveStepIs DEF MoveStep
      <4>2. call'.op = "idle" => result' = call.failure
        BY <1>1, <3>1, MoveStepIs DEF MoveStep, MoveCalls, Relative
      <4>3. call.op = "moveTo" => call.failure # "ok"
        BY <1>1, <4>1 DEF TrackInv
      <4> QED
        BY <4>1, <4>2, <4>3 DEF MoveCalls, Relative
    <3>2. CASE MoveEnds
      BY <1>1, <3>2, TrackMoveEnds DEF MoveEnds, Relative
    <3>3. CASE Jump \/ CurveStep \/ CurveEnds
      BY <1>1, <3>3, TrackAbsolute DEF Jump, CurveStep, CurveEnds
    <3>4. CASE ClickStep \/ WheelStep
      BY <3>4 DEF ClickStep, WheelStep
    <3>5. CASE \/ ChangeButtons \/ Click \/ MouseWheel \/ MoveR \/ MoveTo \/ ResetMousePos
               \/ ResolutionUsed \/ MoveTo3
      BY <3>5 DEF ChangeButtons, Click, MouseWheel, MoveR, MoveTo, ResetMousePos, ResolutionUsed,
                  MoveTo3, MouseIdle
    <3> QED
      BY <2>1, <3>1, <3>2, <3>3, <3>4, <3>5 DEF MouseCall, Loop
  <2>2. CASE OpenMouse
    BY <2>2 DEF OpenMouse, MouseIdle
  <2>3. CASE UNCHANGED mouseVars
    BY <2>3
  <2> QED
    BY <1>1, <2>1, <2>2, <2>3 DEF Next, Open, OpenFails, Close, UseKeys, UseMouse, vars
<1>2. MotionInv /\ TrackInv /\ [Next]_vars => [Arrived]_mouseVars
  BY <1>1
<1>3. MoveArrives <=> [][Arrived]_mouseVars
  BY DEF MoveArrives
<1> HIDE DEF Arrived
<1> QED
  BY <1>2, <1>3, MotionInvariant, TrackInvariant, PTL DEF Spec
=============================================================================
