-------------------------- MODULE ComponentsProofs --------------------------
(***************************************************************************)
(* Proofs about the enumeration on Windows (WindowsDevices.tla), for any   *)
(* tree of devices, and about all components together (MCComponents.tla).  *)
(* First the tree: the ancestors of a device are hubs up to one controller,*)
(* no more than seven, so a depth never overflows but that of a root hub.  *)
(* Then what init_device() computes, and the types.  Then the invariant:   *)
(* HCD_PASS numbers the controllers in their order; HUB_PASS makes every   *)
(* hub known that is plugged in, so that GEN_PASS finds for each device    *)
(* its own hub, and among the ancestors a bus; and what was there all the  *)
(* time is not passed over by the later passes.  Last the composition: a   *)
(* step is one of a single component, whose types are proved here or in    *)
(* the modules extended, and leaves the state of the others alone.         *)
(***************************************************************************)
EXTENDS MCComponents, LinuxUrbsProofs, DevicesProofs, PlatformProofs

UsbNodes == TreeNodes \union HcdNodes

(* The heights of the tree: controllers are at 0.                          *)
LevelsOf(height) ==
  /\ height \in [UsbNodes -> 0..7]
  /\ \A n \in UsbNodes : n \in HcdNodes <=> height[n] = 0
  /\ \A n \in TreeNodes :
       /\ height[n] = height[NodeParent[n]] + 1 /\ NodeParent[n] \in UsbNodes
       /\ NodeParent[n] \in TreeNodes => NodeKind[NodeParent[n]] = "hub"
       /\ NodeParent[n] \in HcdNodes => NodeKind[n] = "hub"

LEMMA LevelsExist == \E height : LevelsOf(height)
<1>1. PICK tier \in [TreeNodes -> 0..6] : \A n \in TreeNodes :
        \/ NodeParent[n] \in HcdNodes /\ NodeKind[n] = "hub" /\ tier[n] = 0
        \/ /\ NodeParent[n] \in TreeNodes /\ NodeKind[NodeParent[n]] = "hub"
           /\ tier[n] = tier[NodeParent[n]] + 1
  BY WinDevAssumption
<1> DEFINE height == [n \in UsbNodes |-> IF n \in HcdNodes THEN 0 ELSE tier[n] + 1]
<1>2. HcdNodes \cap TreeNodes = {} /\ \A n \in TreeNodes : NodeParent[n] \in UsbNodes
  BY WinDevAssumption DEF UsbNodes
<1>3. \A n \in TreeNodes : tier[n] \in 0..6 /\ n \notin HcdNodes /\ n \in UsbNodes
  BY <1>2 DEF UsbNodes
<1>4. \A n \in TreeNodes : height[n] = tier[n] + 1
  BY <1>3
<1>5. \A c \in HcdNodes : height[c] = 0
  BY DEF UsbNodes
<1>6. height \in [UsbNodes -> 0..7]
  BY <1>3 DEF UsbNodes
<1>7. \A n \in UsbNodes : n \in HcdNodes <=> height[n] = 0
  BY <1>3, <1>4, <1>5 DEF UsbNodes
<1>8. ASSUME NEW n \in TreeNodes
      PROVE  /\ height[n] = height[NodeParent[n]] + 1 /\ NodeParent[n] \in UsbNodes
             /\ NodeParent[n] \in TreeNodes => NodeKind[NodeParent[n]] = "hub"
             /\ NodeParent[n] \in HcdNodes => NodeKind[n] = "hub"
  <2> HIDE DEF height
  <2>1. NodeParent[n] \notin HcdNodes \/ NodeParent[n] \notin TreeNodes
    BY <1>2
  <2> QED
    BY <1>1, <1>2, <1>4, <1>5, <2>1
<1> HIDE DEF height
<1> QED
  BY <1>6, <1>7, <1>8 DEF LevelsOf

LEMMA AncestorsAre ==
  /\ \A c \in HcdNodes : Ancestors[c] = <<>>
  /\ \A n \in TreeNodes : Ancestors[n] = <<NodeParent[n]>> \o Ancestors[NodeParent[n]]
<1> DEFINE Above(A, n) == IF n \in HcdNodes THEN <<>> ELSE <<NodeParent[n]>> \o A[NodeParent[n]]
<1>1. PICK height : LevelsOf(height)
  BY LevelsExist
<1> DEFINE Is(A, m) == /\ A = [n \in UsbNodes |-> A[n]]
                       /\ \A n \in UsbNodes : height[n] <= m => A[n] = Above(A, n)
           S == {m \in Nat : \E A : Is(A, m)}
<1>2. \A n \in UsbNodes : height[n] \in 0..7 /\ (n \in HcdNodes <=> height[n] = 0)
  BY <1>1 DEF LevelsOf
<1>3. \A n \in UsbNodes : n \notin HcdNodes =>
        NodeParent[n] \in UsbNodes /\ height[n] = height[NodeParent[n]] + 1
  BY <1>1 DEF LevelsOf, UsbNodes
<1>4. 0 \in S
  <2> DEFINE A == [n \in UsbNodes |-> <<>>]
  <2>1. \A n \in UsbNodes : height[n] <= 0 => n \in HcdNodes
    BY <1>2
  <2>2. Is(A, 0)
    BY <2>1
  <2> HIDE DEF A, Is
  <2> QED
    BY <2>2
<1>5. ASSUME NEW m \in Nat, m \in S PROVE m + 1 \in S
  <2>1. PICK A : Is(A, m)
    BY <1>5
  <2> DEFINE g == [n \in UsbNodes |-> IF height[n] = m + 1 THEN Above(A, n) ELSE A[n]]
  <2>2. ASSUME NEW n \in UsbNodes, height[n] <= m + 1 PROVE g[n] = Above(g, n)
    <3>1. Above(g, n) = Above(A, n)
      <4>1. CASE n \in HcdNodes
        BY <4>1
      <4>2. CASE n \notin HcdNodes
        <5> DEFINE p == NodeParent[n]
        <5>1. p \in UsbNodes /\ height[n] = height[p] + 1 /\ height[p] \in 0..7
          BY <4>2, <1>2, <1>3
        <5>2. height[p] # m + 1
          BY <5>1, <2>2
        <5>3. g[p] = A[p]
          BY <5>1, <5>2
        <5> HIDE DEF g
        <5> QED
          BY <5>3, <4>2
      <4> QED
        BY <4>1, <4>2
    <3>2. CASE height[n] = m + 1
      BY <3>1, <3>2
    <3>3. CASE height[n] # m + 1
      <4>1. height[n] <= m
        BY <3>3, <2>2, <1>2
      <4>2. A[n] = Above(A, n)
        BY <2>1, <4>1
      <4>3. g[n] = A[n]
        BY <3>3
      <4> QED
        BY <3>1, <4>2, <4>3
    <3> QED
      BY <3>2, <3>3
  <2>3. g = [n \in UsbNodes |-> g[n]]
    OBVIOUS
  <2>4. Is(g, m + 1)
    <3> HIDE DEF g, Above
    <3> QED
      BY <2>2, <2>3
  <2> HIDE DEF g, Is
  <2> QED
    BY <2>4
<1>6. 7 \in S
  <2> HIDE DEF S
  <2> QED
    BY <1>4, <1>5, NaturalsInduct
<1>7. PICK A : Is(A, 7)
  <2> HIDE DEF Is
  <2> QED
    BY <1>6
<1>8. A = [n \in UsbNodes |-> Above(A, n)]
  <2>1. ASSUME NEW n \in UsbNodes PROVE A[n] = Above(A, n)
    <3>1. height[n] <= 7
      BY <1>2
    <3>2. height[n] <= 7 => A[n] = Above(A, n)
      <4> HIDE DEF Above
      <4> QED
        BY <1>7
    <3> QED
      BY <3>1, <3>2
  <2>2. A = [n \in UsbNodes |-> A[n]]
    BY <1>7
  <2> HIDE DEF Above, Is
  <2> QED
    BY <2>1, <2>2
<1>9. Ancestors = CHOOSE B : B = [n \in UsbNodes |-> Above(B, n)]
  BY DEF Ancestors, UsbNodes
<1>10. Ancestors = [n \in UsbNodes |-> Above(Ancestors, n)]
  <2> HIDE DEF Above
  <2> QED
    BY <1>8, <1>9
<1>11. \A n \in UsbNodes : Ancestors[n] = Above(Ancestors, n)
  <2> HIDE DEF Above
  <2> QED
    BY <1>10
<1>12. \A n \in TreeNodes : n \notin HcdNodes
  BY WinDevAssumption
<1> QED
  BY <1>11, <1>12 DEF UsbNodes

LEMMA AncestorsLength ==
  /\ \A n \in UsbNodes : Ancestors[n] \in Seq(UsbNodes) /\ Len(Ancestors[n]) \in 0..7
  /\ \A n \in UsbNodes : Len(Ancestors[n]) = 0 <=> n \in HcdNodes
  /\ \A n \in TreeNodes :
       /\ NodeParent[n] \in UsbNodes /\ Len(Ancestors[n]) = Len(Ancestors[NodeParent[n]]) + 1
       /\ DOMAIN Ancestors[n] = 1..Len(Ancestors[n])
       /\ Ancestors[n][1] = NodeParent[n]
       /\ \A i \in 2..Len(Ancestors[n]) : Ancestors[n][i] = Ancestors[NodeParent[n]][i - 1]
<1>1. PICK height : LevelsOf(height)
  BY LevelsExist
<1>2. \A n \in UsbNodes : height[n] \in 0..7 /\ (n \in HcdNodes <=> height[n] = 0)
  BY <1>1 DEF LevelsOf
<1>3. \A n \in TreeNodes : NodeParent[n] \in UsbNodes /\ height[n] = height[NodeParent[n]] + 1
  BY <1>1 DEF LevelsOf
<1> DEFINE S == {m \in Nat : \A n \in UsbNodes : height[n] = m =>
                   Ancestors[n] \in Seq(UsbNodes) /\ Len(Ancestors[n]) = m}
<1>4. ASSUME NEW n \in TreeNodes, Ancestors[NodeParent[n]] \in Seq(UsbNodes)
      PROVE  /\ Ancestors[n] \in Seq(UsbNodes)
             /\ Len(Ancestors[n]) = Len(Ancestors[NodeParent[n]]) + 1
             /\ DOMAIN Ancestors[n] = 1..Len(Ancestors[n])
             /\ Ancestors[n][1] = NodeParent[n]
             /\ \A i \in 2..Len(Ancestors[n]) :
                  Ancestors[n][i] = Ancestors[NodeParent[n]][i - 1]
  <2>1. PICK p, s : p = NodeParent[n] /\ s = Ancestors[NodeParent[n]]
    OBVIOUS
  <2>2. p \in UsbNodes /\ s \in Seq(UsbNodes) /\ Ancestors[n] = <<p>> \o s
    BY <2>1, <1>3, <1>4, AncestorsAre
  <2>3. /\ <<p>> \o s \in Seq(UsbNodes) /\ DOMAIN (<<p>> \o s) = 1..(Len(s) + 1)
        /\ (<<p>> \o s)[1] = p
        /\ \A i \in DOMAIN (<<p>> \o s) \ {1} : (<<p>> \o s)[i] = s[i - 1]
    BY <2>2, PutFirst
  <2>4. Len(<<p>> \o s) = Len(s) + 1 /\ Len(s) \in Nat
    BY <2>2, LenProperties, ConcatProperties
  <2>5. \A i \in 2..(Len(s) + 1) : (<<p>> \o s)[i] = s[i - 1]
    BY <2>3, <2>4
  <2> QED
    BY <2>1, <2>2, <2>3, <2>4, <2>5
<1>5. 0 \in S
  <2> SUFFICES ASSUME NEW n \in UsbNodes, height[n] = 0
               PROVE  Ancestors[n] \in Seq(UsbNodes) /\ Len(Ancestors[n]) = 0
    OBVIOUS
  <2>1. Ancestors[n] = <<>>
    BY <1>2, AncestorsAre
  <2> QED
    BY <2>1, EmptySeq
<1>6. ASSUME NEW m \in Nat, m \in S PROVE m + 1 \in S
  <2> SUFFICES ASSUME NEW n \in UsbNodes, height[n] = m + 1
               PROVE  Ancestors[n] \in Seq(UsbNodes) /\ Len(Ancestors[n]) = m + 1
    OBVIOUS
  <2>1. n \in TreeNodes
    BY <1>2 DEF UsbNodes
  <2>2. NodeParent[n] \in UsbNodes /\ height[NodeParent[n]] = m
    BY <2>1, <1>2, <1>3
  <2>3. Ancestors[NodeParent[n]] \in Seq(UsbNodes) /\ Len(Ancestors[NodeParent[n]]) = m
    BY <1>6, <2>2
  <2> QED
    BY <2>1, <2>3, <1>4
<1>7. \A m \in Nat : m \in S
  <2> HIDE DEF S
  <2> QED
    BY <1>5, <1>6, NaturalsInduct
<1>8. \A n \in UsbNodes : Ancestors[n] \in Seq(UsbNodes) /\ Len(Ancestors[n]) = height[n]
  BY <1>2, <1>7
<1>9. \A n \in TreeNodes : n \in UsbNodes
  BY DEF UsbNodes
<1> QED
  BY <1>2, <1>3, <1>4, <1>8, <1>9

(* What is closed under parents has all ancestors of what it has.          *)
LEMMA AncestorsWithin ==
  ASSUME NEW P, \A n \in TreeNodes \cap P : NodeParent[n] \in P,
         NEW n \in TreeNodes, NodeParent[n] \in P
  PROVE  \A i \in 1..Len(Ancestors[n]) : Ancestors[n][i] \in P
<1> DEFINE S == {m \in Nat : \A k \in TreeNodes : NodeParent[k] \in P /\ Len(Ancestors[k]) = m =>
                   \A i \in 1..m : Ancestors[k][i] \in P}
<1>1. 0 \in S
  OBVIOUS
<1>2. ASSUME NEW m \in Nat, m \in S PROVE m + 1 \in S
  <2> SUFFICES ASSUME NEW k \in TreeNodes, NodeParent[k] \in P, Len(Ancestors[k]) = m + 1,
                      NEW i \in 1..(m + 1)
               PROVE  Ancestors[k][i] \in P
    OBVIOUS
  <2>1. PICK p : p = NodeParent[k]
    OBVIOUS
  <2>2. /\ p \in UsbNodes /\ Len(Ancestors[p]) + 1 = m + 1 /\ Ancestors[k][1] = p
        /\ \A j \in 2..(m + 1) : Ancestors[k][j] = Ancestors[p][j - 1]
    BY <2>1, AncestorsLength
  <2>3. Len(Ancestors[p]) = m
    BY <2>2, AncestorsLength
  <2>4. CASE i = 1
    BY <2>1, <2>2, <2>4
  <2>5. CASE i # 1
    <3>1. i \in 2..(m + 1) /\ i - 1 \in 1..m
      BY <2>5
    <3>2. p \in TreeNodes
      <4>1. m # 0
        BY <3>1
      <4>2. p \notin HcdNodes
        BY <4>1, <2>2, <2>3, AncestorsLength
      <4> QED
        BY <4>2, <2>2 DEF UsbNodes
    <3>3. NodeParent[p] \in P
      BY <2>1, <3>2
    <3>4. Ancestors[p][i - 1] \in P
      BY <1>2, <2>3, <3>1, <3>2, <3>3
    <3> QED
      BY <3>1, <3>4, <2>2
  <2> QED
    BY <2>4, <2>5
<1>3. Len(Ancestors[n]) \in S
  <2>1. Len(Ancestors[n]) \in Nat
    BY AncestorsLength DEF UsbNodes
  <2> HIDE DEF S
  <2> QED
    BY <1>1, <1>2, <2>1, NaturalsInduct
<1> QED
  BY <1>3

(* The controller something is at.                                         *)
ControllerOf(n) == IF n \in HcdNodes THEN n ELSE Last(Ancestors[n])

LEMMA ControllerOfParent ==
  ASSUME NEW n \in TreeNodes
  PROVE  ControllerOf(n) = ControllerOf(NodeParent[n])
<1>1. PICK p : p = NodeParent[n]
  OBVIOUS
<1>2. n \notin HcdNodes /\ n \in UsbNodes
  BY WinDevAssumption DEF UsbNodes
<1>3. /\ p \in UsbNodes /\ Len(Ancestors[n]) = Len(Ancestors[p]) + 1 /\ Len(Ancestors[p]) \in 0..7
      /\ Ancestors[n][1] = p
      /\ \A i \in 2..Len(Ancestors[n]) : Ancestors[n][i] = Ancestors[p][i - 1]
  BY <1>1, AncestorsLength
<1>4. CASE p \in HcdNodes
  <2>1. Len(Ancestors[n]) = 1
    BY <1>3, <1>4, AncestorsLength
  <2> QED
    BY <1>1, <1>2, <1>3, <1>4, <2>1 DEF ControllerOf, Last
<1>5. CASE p \notin HcdNodes
  <2>1. PICK len : len = Len(Ancestors[p])
    OBVIOUS
  <2>2. len # 0 /\ len \in 0..7
    BY <1>3, <1>5, <2>1, AncestorsLength
  <2>3. len + 1 \in 2..(len + 1) /\ (len + 1) - 1 = len
    BY <2>2
  <2>4. Ancestors[n][len + 1] = Ancestors[p][len]
    BY <1>3, <2>1, <2>3
  <2> QED
    BY <1>1, <1>2, <1>3, <1>5, <2>1, <2>4 DEF ControllerOf, Last
<1> QED
  BY <1>4, <1>5

LEMMA ControllerOfAncestors ==
  ASSUME NEW n \in TreeNodes, NEW i \in 1..Len(Ancestors[n])
  PROVE  ControllerOf(Ancestors[n][i]) = ControllerOf(n)
<1>1. PICK P : P = {m \in UsbNodes : ControllerOf(m) = ControllerOf(n)}
  OBVIOUS
<1>2. \A m \in TreeNodes : NodeParent[m] \in UsbNodes
  BY AncestorsLength
<1>3. \A m \in TreeNodes \cap P : NodeParent[m] \in P
  BY <1>1, <1>2, ControllerOfParent
<1>4. NodeParent[n] \in P
  BY <1>1, <1>2, ControllerOfParent
<1>5. Ancestors[n][i] \in P
  BY <1>3, <1>4, AncestorsWithin
<1> QED
  BY <1>1, <1>5

LEMMA ControllerIs == \A n \in UsbNodes : ControllerOf(n) \in HcdNodes
<1> DEFINE S == {k \in Nat : \A m \in UsbNodes : Len(Ancestors[m]) = k => ControllerOf(m) \in HcdNodes}
<1>1. 0 \in S
  BY AncestorsLength DEF ControllerOf
<1>2. ASSUME NEW k \in Nat, k \in S PROVE k + 1 \in S
  <2> SUFFICES ASSUME NEW m \in UsbNodes, Len(Ancestors[m]) = k + 1 PROVE ControllerOf(m) \in HcdNodes
    OBVIOUS
  <2>1. m \in TreeNodes
    BY AncestorsLength DEF UsbNodes
  <2>2. PICK p : p = NodeParent[m]
    OBVIOUS
  <2>3. p \in UsbNodes /\ Len(Ancestors[p]) = k
    <3>1. p \in UsbNodes /\ Len(Ancestors[m]) = Len(Ancestors[p]) + 1
      BY <2>1, <2>2, AncestorsLength
    <3>2. Len(Ancestors[p]) \in 0..7
      BY <3>1, AncestorsLength
    <3> QED
      BY <3>1, <3>2
  <2>4. ControllerOf(p) \in HcdNodes
    BY <1>2, <2>3
  <2> QED
    BY <2>1, <2>2, <2>4, ControllerOfParent
<1>3. \A k \in Nat : k \in S
  <2> HIDE DEF S
  <2> QED
    BY <1>1, <1>2, NaturalsInduct
<1>4. \A n \in UsbNodes : Len(Ancestors[n]) \in Nat
  BY AncestorsLength
<1> QED
  BY <1>3, <1>4

(* The last ancestor is a controller, all others are hubs.                 *)
LEMMA AncestorsKinds ==
  ASSUME NEW n \in TreeNodes
  PROVE  /\ ControllerOf(n) = Ancestors[n][Len(Ancestors[n])] /\ ControllerOf(n) \in HcdNodes
         /\ n \notin HcdNodes /\ Len(Ancestors[n]) \in 1..7
         /\ \A i \in 1..Len(Ancestors[n]) :
              /\ Ancestors[n][i] \in UsbNodes
              /\ Ancestors[n][i] \in TreeNodes => NodeKind[Ancestors[n][i]] = "hub"
<1>1. n \notin HcdNodes /\ n \in UsbNodes
  BY WinDevAssumption DEF UsbNodes
<1>2. Len(Ancestors[n]) \in 1..7
  <2>1. Len(Ancestors[n]) # 0 /\ Len(Ancestors[n]) \in 0..7
    BY <1>1, AncestorsLength
  <2> QED
    BY <2>1
<1>3. ControllerOf(n) = Ancestors[n][Len(Ancestors[n])]
  BY <1>1 DEF ControllerOf, Last
<1>4. PICK height : LevelsOf(height)
  BY LevelsExist
<1>5. PICK P : P = {m \in UsbNodes : m \in TreeNodes => NodeKind[m] = "hub"}
  OBVIOUS
<1>6. \A m \in TreeNodes : NodeParent[m] \in P
  BY <1>4, <1>5 DEF LevelsOf
<1>7. \A i \in 1..Len(Ancestors[n]) : Ancestors[n][i] \in P
  BY <1>6, AncestorsWithin
<1>8. ControllerOf(n) \in HcdNodes
  BY <1>1, ControllerIs
<1> QED
  BY <1>1, <1>2, <1>3, <1>5, <1>7, <1>8

-----------------------------------------------------------------------------
(* Types *)

LEMMA BusesAre ==
  /\ Len(HostControllers) \in 0..255 /\ DOMAIN HostControllers = 1..Len(HostControllers)
  /\ \A c \in HcdNodes : BusOf(c) \in 1..Len(HostControllers) /\ HostControllers[BusOf(c)] = c
  /\ \A i \in 1..Len(HostControllers) :
       HostControllers[i] \in HcdNodes /\ BusOf(HostControllers[i]) = i
<1>1. /\ HostControllers \in Seq(HcdNodes) /\ Len(HostControllers) <= 255
      /\ IsInjective(HostControllers)
  BY WinDevAssumption
<1>2. Len(HostControllers) \in 0..255 /\ DOMAIN HostControllers = 1..Len(HostControllers)
  <2>1. PICK len : len = Len(HostControllers)
    OBVIOUS
  <2>2. len \in Nat /\ DOMAIN HostControllers = 1..len
    BY <1>1, <2>1, LenProperties
  <2>3. len <= 255
    BY <1>1, <2>1
  <2>4. len \in 0..255
    BY <2>2, <2>3
  <2> QED
    BY <2>1, <2>2, <2>4
<1>3. ASSUME NEW c \in HcdNodes
      PROVE  BusOf(c) \in 1..Len(HostControllers) /\ HostControllers[BusOf(c)] = c
  <2>1. \E i \in DOMAIN HostControllers : HostControllers[i] = c
    BY DEF HcdNodes, Range
  <2> QED
    BY <2>1, <1>2 DEF BusOf
<1>4. ASSUME NEW i \in 1..Len(HostControllers)
      PROVE  HostControllers[i] \in HcdNodes /\ BusOf(HostControllers[i]) = i
  <2>1. HostControllers[i] \in HcdNodes
    BY <1>2 DEF HcdNodes, Range
  <2> QED
    BY <2>1, <1>1, <1>2, <1>3 DEF IsInjective
<1> QED
  BY <1>2, <1>3, <1>4

LEMMA BusesCount == Len(HostControllers) \in Nat
<1>1. Len(HostControllers) \in 0..255
  BY ZenonT(30), BusesAre
<1>2. 0..255 \subseteq Nat
  OBVIOUS
<1> QED
  BY <1>1, <1>2

LEMMA NodesFinite == IsFiniteSet(UsbNodes)
<1>1. IsFiniteSet(1..Len(HostControllers))
  BY BusesCount, FS_Interval
<1>2. HostControllers \in Surjection(1..Len(HostControllers), HcdNodes)
  <2>1. HostControllers \in [1..Len(HostControllers) -> HcdNodes]
    BY WinDevAssumption, LenProperties
  <2>2. \A c \in HcdNodes : \E i \in 1..Len(HostControllers) : HostControllers[i] = c
    BY BusesAre
  <2> QED
    BY <2>1, <2>2 DEF Surjection
<1>3. IsFiniteSet(HcdNodes)
  BY <1>1, <1>2, FS_Surjection
<1> QED
  BY <1>3, WinDevAssumption, FS_Union DEF UsbNodes

(* There is an address for what is plugged in.                             *)
LEMMA FreeAddress ==
  ASSUME addressOf \in [TreeNodes -> 0..MaxAddress], NEW n \in TreeNodes, n \notin present
  PROVE  Min(1..MaxAddress \ {addressOf[m] : m \in InUse}) \in 1..MaxAddress
<1> DEFINE inUse == {addressOf[m] : m \in InUse}
           free == 1..MaxAddress \ inUse
<1>1. IsFiniteSet(TreeNodes) /\ MaxAddress \in Cardinality(TreeNodes)..254
  BY WinDevAssumption
<1>2. InUse \subseteq TreeNodes \ {n}
  BY DEF InUse
<1>3. /\ IsFiniteSet(TreeNodes \ {n}) /\ Cardinality(TreeNodes \ {n}) = Cardinality(TreeNodes) - 1
      /\ Cardinality(TreeNodes) \in Nat
  BY <1>1, FS_RemoveElement, FS_CardinalityType
<1>4. IsFiniteSet(InUse) /\ Cardinality(InUse) <= Cardinality(TreeNodes) - 1
  BY <1>2, <1>3, FS_Subset
<1>5. IsFiniteSet(inUse) /\ Cardinality(inUse) <= Cardinality(InUse)
  <2> DEFINE f == [m \in InUse |-> addressOf[m]]
  <2>1. f \in Surjection(InUse, inUse)
    BY DEF Surjection
  <2> HIDE DEF f, inUse
  <2> QED
    BY <2>1, <1>4, FS_Surjection
<1>6. free # {}
  <2> SUFFICES ASSUME 1..MaxAddress \subseteq inUse PROVE FALSE
    OBVIOUS
  <2> HIDE DEF inUse
  <2>1. Cardinality(1..MaxAddress) <= Cardinality(inUse)
    BY <1>5, FS_Subset
  <2>2. MaxAddress \in Nat /\ Cardinality(TreeNodes) <= MaxAddress
    BY <1>1, <1>3
  <2>3. Cardinality(1..MaxAddress) = MaxAddress
    BY <2>2, FS_Interval
  <2>4. Cardinality(InUse) \in Nat /\ Cardinality(inUse) \in Nat
    BY <1>4, <1>5, FS_CardinalityType
  <2> QED
    BY <2>1, <2>2, <2>3, <2>4, <1>3, <1>4, <1>5
<1>7. free \in SUBSET Nat
  <2> HIDE DEF inUse
  <2> QED
    OBVIOUS
<1> HIDE DEF free
<1>8. Min(free) \in free
  BY <1>6, <1>7, LeastElement
<1> QED
  BY <1>8 DEF free

(* What is taken from the objects, kept of them and added to them.         *)
LEMMA WithType ==
  ASSUME NEW n, objects \in [DOMAIN objects -> WinObject]
  PROVE  /\ With(n) \in [DOMAIN objects \union {n} -> WinObject]
         /\ \A m \in DOMAIN objects : With(n)[m] = objects[m]
         /\ n \notin DOMAIN objects => With(n)[n] = NewObject
<1>1. NewObject \in WinObject
  BY DEF NewObject, WinObject
<1>2. PICK objs : objs = objects
  OBVIOUS
<1>3. With(n) = [m \in DOMAIN objs \union {n} |-> IF m \in DOMAIN objs THEN objs[m] ELSE NewObject]
  BY <1>2 DEF With
<1>4. \A m \in DOMAIN objs : objs[m] \in WinObject
  BY <1>2
<1> QED
  BY <1>1, <1>2, <1>3, <1>4

LEMMA KeepType ==
  ASSUME NEW set, objects \in [DOMAIN objects -> WinObject], Keep(set)
  PROVE  /\ objects' \in [DOMAIN objects \cap set -> WinObject]
         /\ \A n \in DOMAIN objects \cap set : objects'[n] = objects[n]
<1>1. PICK objs : objs = objects
  OBVIOUS
<1>2. objects' = [n \in DOMAIN objs \cap set |-> objs[n]]
  BY <1>1 DEF Keep, Restrict
<1>3. \A n \in DOMAIN objs : objs[n] \in WinObject
  BY <1>1
<1> QED
  BY <1>1, <1>2, <1>3

LEMMA SetUpType ==
  ASSUME NEW objs, objs \in [DOMAIN objs -> WinObject], NEW n \in TreeNodes, n \in DOMAIN objs
  PROVE  /\ SetUp(objs, n) \in [DOMAIN objs -> WinObject]
         /\ \A m \in DOMAIN objs \ {n} : SetUp(objs, n)[m] = objs[m]
         /\ objs[n].path => SetUp(objs, n)[n] = objs[n]
         /\ ~objs[n].path => SetUp(objs, n)[n] = [objs[n] EXCEPT !.path = TRUE, !.api = NodeKind[n]]
<1>1. NodeKind[n] \in {"hub", "composite", "plain"}
  BY WinDevAssumption
<1>2. objs[n] \in WinObject
  OBVIOUS
<1>3. CASE objs[n].path
  <2>1. SetUp(objs, n) = objs
    BY <1>3 DEF SetUp
  <2> QED
    BY <2>1, <1>3
<1>4. CASE ~objs[n].path
  <2>1. SetUp(objs, n) = [objs EXCEPT ![n].path = TRUE, ![n].api = NodeKind[n]]
    BY <1>4 DEF SetUp
  <2>2. PICK o : o = [objs[n] EXCEPT !.path = TRUE, !.api = NodeKind[n]]
    OBVIOUS
  <2>3. o \in WinObject
    BY <1>1, <1>2, <2>2 DEF WinObject
  <2>4. SetUp(objs, n) = [objs EXCEPT ![n] = o]
    BY <2>1, <2>2
  <2> QED
    BY <2>2, <2>3, <2>4, <1>4
<1> QED
  BY <1>3, <1>4

(* The bus number an ancestor has, or 0.                                   *)
LEMMA AncestorBusIs ==
  ASSUME NEW objs, objs \in [DOMAIN objs -> WinObject], NEW n \in TreeNodes
  PROVE  \/ /\ AncestorBus(objs, n) = 0
            /\ \A i \in 2..Len(Ancestors[n]) :
                 (\A j \in 2..i : Ancestors[n][j] \in DOMAIN objs)
                   => objs[Ancestors[n][i]].busNumber = 0
         \/ \E i \in 2..Len(Ancestors[n]) :
              /\ Ancestors[n][i] \in DOMAIN objs
              /\ AncestorBus(objs, n) = objs[Ancestors[n][i]].busNumber
              /\ AncestorBus(objs, n) \in Nat \ {0}
<1>1. PICK a : a = Ancestors[n]
  OBVIOUS
<1>2. Len(a) \in 1..7
  BY <1>1, AncestorsKinds
<1>3. PICK found : found = {i \in 2..Len(a) : /\ \A j \in 2..i : a[j] \in DOMAIN objs
                                             /\ objs[a[i]].busNumber # 0}
  OBVIOUS
<1>4. AncestorBus(objs, n) = IF found = {} THEN 0 ELSE objs[a[Min(found)]].busNumber
  BY <1>1, <1>3 DEF AncestorBus
<1>5. CASE found = {}
  <2>1. AncestorBus(objs, n) = 0
    BY <1>4, <1>5
  <2>2. \A i \in 2..Len(a) : (\A j \in 2..i : a[j] \in DOMAIN objs) => objs[a[i]].busNumber = 0
    BY <1>3, <1>5
  <2> QED
    BY <1>1, <2>1, <2>2
<1>6. CASE found # {}
  <2>1. found \in SUBSET Nat
    BY <1>2, <1>3
  <2>2. PICK i : i = Min(found)
    OBVIOUS
  <2>3. i \in found
    BY <1>6, <2>1, <2>2, LeastElement
  <2>4. i \in 2..Len(a) /\ i \in 2..i /\ objs[a[i]].busNumber # 0
    BY <1>2, <1>3, <2>3
  <2>5. a[i] \in DOMAIN objs
    BY <1>3, <2>3, <2>4
  <2>6. objs[a[i]].busNumber \in Nat
    <3>1. objs[a[i]] \in WinObject
      BY <2>5
    <3> QED
      BY <3>1 DEF WinObject
  <2>7. AncestorBus(objs, n) = objs[a[i]].busNumber
    BY <1>4, <1>6, <2>2
  <2> QED
    BY <1>1, <2>4, <2>5, <2>6, <2>7
<1> QED
  BY <1>5, <1>6

Numbered(o, number, hops) == [o EXCEPT !.busNumber = number, !.depth = hops]

LEMMA NumberedIs ==
  ASSUME NEW o \in WinObject, NEW number \in Nat, NEW hops \in 0..255
  PROVE  /\ Numbered(o, number, hops) \in WinObject
         /\ Numbered(o, number, hops).busNumber = number /\ Numbered(o, number, hops).depth = hops
         /\ Numbered(o, number, hops).address = o.address /\ Numbered(o, number, hops).path = o.path
         /\ Numbered(o, number, hops).api = o.api /\ Numbered(o, number, hops).configs = o.configs
         /\ Numbered(o, number, hops).parts = o.parts
  BY DEF Numbered, WinObject

(* init_device() fails or goes on with both devices on the bus.            *)
LEMMA InitDeviceIs ==
  ASSUME objects \in [DOMAIN objects -> WinObject], NEW n \in TreeNodes, NEW p \in DOMAIN objects,
         InitDevice(n, p)
  PROVE  \E number \in Nat :
           /\ number = IF With(n)[p].busNumber # 0 THEN With(n)[p].busNumber
                       ELSE AncestorBus(With(n), n)
           /\ number = 0 => GenFails(With(n))
           /\ number # 0 => \E objs \in [DOMAIN objects \union {n} -> WinObject] :
                /\ Connect(n, p, objs)
                /\ \A m \in DOMAIN objects \ {n, p} : objs[m] = objects[m]
                /\ n # p => objs[p] = Numbered(objects[p], number, objects[p].depth)
                /\ n # p => objs[n] = Numbered(With(n)[n], number, (objects[p].depth + 1) % 256)
<1>1. PICK with : with = With(n)
  OBVIOUS
<1>2. PICK D : D = DOMAIN objects \union {n}
  OBVIOUS
<1>3. with \in [D -> WinObject] /\ \A m \in DOMAIN objects : with[m] = objects[m]
  BY <1>1, <1>2, WithType
<1>4. n \in D /\ p \in D /\ DOMAIN with = D
  BY <1>2, <1>3
<1>5. with[p] \in WinObject /\ with[n] \in WinObject
  BY <1>3, <1>4
<1>6. PICK number : number = IF with[p].busNumber # 0 THEN with[p].busNumber
                             ELSE AncestorBus(with, n)
  OBVIOUS
<1>7. number \in Nat
  <2>1. with[p].busNumber \in Nat
    BY <1>5 DEF WinObject
  <2>2. AncestorBus(with, n) \in Nat
    BY <1>3, <1>4, AncestorBusIs
  <2> QED
    BY <1>6, <2>1, <2>2
<1>8. PICK d : d = (with[p].depth + 1) % 256
  OBVIOUS
<1>9. d \in 0..255
  <2>1. with[p].depth \in 0..255
    BY <1>5 DEF WinObject
  <2>2. \A k \in 0..255 : (k + 1) % 256 \in 0..255
    OBVIOUS
  <2> QED
    BY <1>8, <2>1, <2>2
<1>10. IF number = 0 THEN GenFails(with)
       ELSE Connect(n, p, [with EXCEPT ![p].busNumber = number, ![n].busNumber = number,
                                       ![n].depth = d])
  BY <1>1, <1>6, <1>8 DEF InitDevice
<1>11. PICK objs : objs = [with EXCEPT ![p].busNumber = number, ![n].busNumber = number,
                                       ![n].depth = d]
  OBVIOUS
<1>12. PICK first : first = [with EXCEPT ![p].busNumber = number]
  OBVIOUS
<1>13. first \in [D -> WinObject]
  <2>1. [with[p] EXCEPT !.busNumber = number] \in WinObject
    BY <1>5, <1>7 DEF WinObject
  <2> QED
    BY <2>1, <1>3, <1>12
<1>14. objs = [first EXCEPT ![n].busNumber = number, ![n].depth = d]
  BY <1>11, <1>12
<1>15. PICK o : o = [first[n] EXCEPT !.busNumber = number, !.depth = d]
  OBVIOUS
<1>16. o \in WinObject
  <2>1. first[n] \in WinObject
    BY <1>4, <1>13
  <2> QED
    BY <2>1, <1>7, <1>9, <1>15 DEF WinObject
<1>17. objs = [first EXCEPT ![n] = o]
  BY <1>4, <1>13, <1>14, <1>15
<1>18. objs \in [D -> WinObject]
  BY <1>13, <1>16, <1>17
<1>19. \A m \in DOMAIN objects \ {n, p} : objs[m] = objects[m]
  <2>1. \A m \in D \ {n, p} : objs[m] = with[m]
    BY <1>3, <1>12, <1>17
  <2> QED
    BY <2>1, <1>2, <1>3
<1>20. n # p => objs[p] = Numbered(objects[p], number, objects[p].depth)
  <2> SUFFICES ASSUME n # p PROVE objs[p] = Numbered(objects[p], number, objects[p].depth)
    OBVIOUS
  <2>1. PICK q : q = with[p]
    OBVIOUS
  <2>2. q \in WinObject /\ q = objects[p] /\ objs[p] = [q EXCEPT !.busNumber = number]
    BY <1>3, <1>4, <1>5, <1>12, <1>13, <1>17, <2>1
  <2>3. Numbered(q, number, q.depth) = [q EXCEPT !.busNumber = number]
    BY <2>2 DEF Numbered, WinObject
  <2> QED
    BY <2>2, <2>3
<1>21. n # p => objs[n] = Numbered(with[n], number, (objects[p].depth + 1) % 256)
  <2> SUFFICES ASSUME n # p
               PROVE  objs[n] = Numbered(with[n], number, (objects[p].depth + 1) % 256)
    OBVIOUS
  <2>1. first[n] = with[n]
    BY <1>3, <1>4, <1>12
  <2>2. objs[n] = o
    BY <1>4, <1>13, <1>17
  <2>3. d = (objects[p].depth + 1) % 256
    BY <1>3, <1>8
  <2> QED
    BY <2>1, <2>2, <2>3, <1>15 DEF Numbered
<1>22. number # 0 => Connect(n, p, objs)
  BY <1>10, <1>11
<1>23. number = 0 => GenFails(with)
  BY <1>10
<1>24. number # 0 => \E more \in [D -> WinObject] :
                /\ Connect(n, p, more)
                /\ \A m \in DOMAIN objects \ {n, p} : more[m] = objects[m]
                /\ n # p => more[p] = Numbered(objects[p], number, objects[p].depth)
                /\ n # p => more[n] = Numbered(with[n], number, (objects[p].depth + 1) % 256)
  BY <1>18, <1>19, <1>20, <1>21, <1>22
<1>25. number = IF With(n)[p].busNumber # 0 THEN With(n)[p].busNumber ELSE AncestorBus(With(n), n)
  BY <1>1, <1>6
<1>26. number = 0 => GenFails(With(n))
  BY <1>1, <1>23
<1>27. number # 0 => \E more \in [DOMAIN objects \union {n} -> WinObject] :
                /\ Connect(n, p, more)
                /\ \A m \in DOMAIN objects \ {n, p} : more[m] = objects[m]
                /\ n # p => more[p] = Numbered(objects[p], number, objects[p].depth)
                /\ n # p => more[n] = Numbered(With(n)[n], number, (objects[p].depth + 1) % 256)
  BY <1>1, <1>2, <1>24
<1> WITNESS number \in Nat
<1> QED
  BY <1>25, <1>26, <1>27

(* What the node at the port of the hub tells of it.                       *)
LEMMA ConnectIs ==
  ASSUME NEW n, NEW p, NEW objs, Connect(n, p, objs)
  PROVE  \/ objs[n].address # 0 /\ objects' = objs /\ Discovers(n)
         \/ /\ objs[n].address = 0 /\ objs[n].depth = 0
            /\ objects' = [objs EXCEPT ![n].address = 255] /\ Discovers(n)
         \/ /\ objs[n].address = 0 /\ objs[n].depth # 0
            /\ \/ (p \notin present \/ "no_access" \in WinDevFaults) /\ GenFails(objs)
               \/ /\ p \in present /\ Connected(p, NodePort[n]) = {}
                  /\ objects' = objs /\ UNCHANGED <<discdevs, status>>
               \/ \E m \in Connected(p, NodePort[n]), read \in ConfigsCached :
                    /\ objects' = [objs EXCEPT ![n].address = addressOf[m], ![n].configs = read]
                    /\ Discovers(n)
<1>1. CASE objs[n].address # 0
  BY <1>1 DEF Connect
<1>2. CASE objs[n].address = 0 /\ objs[n].depth = 0
  BY <1>2 DEF Connect
<1>3. CASE objs[n].address = 0 /\ objs[n].depth # 0
  BY <1>3 DEF Connect
<1> QED
  BY <1>1, <1>2, <1>3

LEMMA ConnectType ==
  ASSUME NEW D, NEW objs \in [D -> WinObject], NEW n \in D, NEW p, Connect(n, p, objs),
         addressOf \in [TreeNodes -> 0..MaxAddress]
  PROVE  /\ objects' \in [D -> WinObject] /\ status' \in {status, "error"}
         /\ discdevs' = discdevs \/ discdevs' = discdevs \union {n}
<1>1. objs[n] \in WinObject
  OBVIOUS
<1>2. \A a \in 0..255, read \in BOOLEAN :
        [objs EXCEPT ![n].address = a, ![n].configs = read] \in [D -> WinObject]
  <2> SUFFICES ASSUME NEW a \in 0..255, NEW read \in BOOLEAN
               PROVE  [objs EXCEPT ![n].address = a, ![n].configs = read] \in [D -> WinObject]
    OBVIOUS
  <2>1. [objs[n] EXCEPT !.address = a, !.configs = read] \in WinObject
    BY <1>1 DEF WinObject
  <2>2. [objs EXCEPT ![n] = [objs[n] EXCEPT !.address = a, !.configs = read]] \in [D -> WinObject]
    BY <2>1
  <2> QED
    BY <2>2
<1>3. CASE objects' = objs /\ Discovers(n)
  BY <1>3 DEF Discovers
<1>4. CASE objects' = [objs EXCEPT ![n].address = 255] /\ Discovers(n)
  <2>1. [objs[n] EXCEPT !.address = 255] \in WinObject
    BY <1>1 DEF WinObject
  <2>2. [objs EXCEPT ![n].address = 255] = [objs EXCEPT ![n] = [objs[n] EXCEPT !.address = 255]]
    OBVIOUS
  <2> QED
    BY <1>4, <2>1, <2>2 DEF Discovers
<1>5. CASE GenFails(objs)
  BY <1>5 DEF GenFails
<1>6. CASE objects' = objs /\ UNCHANGED <<discdevs, status>>
  BY <1>6
<1>7. ASSUME NEW m \in Connected(p, NodePort[n]), NEW read \in ConfigsCached,
             objects' = [objs EXCEPT ![n].address = addressOf[m], ![n].configs = read], Discovers(n)
      PROVE  /\ objects' \in [D -> WinObject] /\ status' \in {status, "error"}
             /\ discdevs' = discdevs \/ discdevs' = discdevs \union {n}
  <2>1. m \in TreeNodes
    BY DEF Connected
  <2>2. addressOf[m] \in 0..255
    <3>1. addressOf[m] \in 0..MaxAddress /\ MaxAddress \in Nat /\ MaxAddress <= 254
      <4>1. Cardinality(TreeNodes) \in Nat
        BY WinDevAssumption, FS_CardinalityType
      <4> QED
        BY <2>1, <4>1, WinDevAssumption
    <3> QED
      BY <3>1
  <2>3. read \in BOOLEAN
    BY DEF ConfigsCached
  <2> QED
    BY <1>2, <1>7, <2>2, <2>3 DEF Discovers
<1>8. \/ objects' = objs /\ Discovers(n)
      \/ objects' = [objs EXCEPT ![n].address = 255] /\ Discovers(n)
      \/ GenFails(objs)
      \/ objects' = objs /\ UNCHANGED <<discdevs, status>>
      \/ \E m \in Connected(p, NodePort[n]), read \in ConfigsCached :
           /\ objects' = [objs EXCEPT ![n].address = addressOf[m], ![n].configs = read]
           /\ Discovers(n)
  BY ConnectIs
<1>9. CASE \E m \in Connected(p, NodePort[n]), read \in ConfigsCached :
             /\ objects' = [objs EXCEPT ![n].address = addressOf[m], ![n].configs = read]
             /\ Discovers(n)
  <2> PICK m \in Connected(p, NodePort[n]), read \in ConfigsCached :
             /\ objects' = [objs EXCEPT ![n].address = addressOf[m], ![n].configs = read]
             /\ Discovers(n)
    BY <1>9
  <2> QED
    BY <1>7
<1> QED
  BY <1>3, <1>4, <1>5, <1>6, <1>8, <1>9

LEMMA AppendLists ==
  ASSUME NEW S, NEW s \in Seq(S), NEW e \in S
  PROVE  /\ Append(s, e) \in Seq(S) /\ Len(Append(s, e)) = Len(s) + 1 /\ Len(s) \in Nat
         /\ Range(Append(s, e)) = Range(s) \union {e}
         /\ Append(s, e) # <<>> /\ Last(Append(s, e)) = e
<1>1. PICK t : t = Append(s, e)
  OBVIOUS
<1>2. /\ t \in Seq(S) /\ Len(t) = Len(s) + 1 /\ t # <<>>
      /\ \A i \in 1..Len(s) : t[i] = s[i]
      /\ t[Len(s) + 1] = e
  BY <1>1, AppendProperties
<1>3. Len(s) \in Nat /\ DOMAIN s = 1..Len(s) /\ DOMAIN t = 1..Len(t)
  BY <1>2, LenProperties
<1>4. Last(t) = e
  BY <1>2 DEF Last
<1>5. PICK len : len = Len(s)
  OBVIOUS
<1>6. DOMAIN t = DOMAIN s \union {len + 1} /\ t[len + 1] = e
  BY <1>2, <1>3, <1>5
<1>7. \A i \in DOMAIN s : t[i] = s[i]
  BY <1>2, <1>3
<1>8. Range(t) = Range(s) \union {e}
  BY <1>6, <1>7 DEF Range
<1> QED
  BY <1>1, <1>2, <1>3, <1>4, <1>8

LEMMA TailLists ==
  ASSUME NEW S, NEW s \in Seq(S), s # <<>>
  PROVE  /\ Tail(s) \in Seq(S) /\ Len(Tail(s)) = Len(s) - 1 /\ Len(s) \in Nat
         /\ Range(Tail(s)) \subseteq Range(s)
         /\ Tail(s) # <<>> => Last(Tail(s)) = Last(s)
<1>1. PICK t : t = Tail(s)
  OBVIOUS
<1>2. /\ t \in Seq(S) /\ Len(t) = Len(s) - 1
      /\ \A i \in 1..Len(t) : t[i] = s[i + 1]
  BY <1>1, HeadTailProperties
<1>3. /\ Len(s) \in Nat /\ DOMAIN s = 1..Len(s) /\ Len(t) \in Nat /\ DOMAIN t = 1..Len(t)
  BY <1>2, LenProperties
<1>4. Range(t) \subseteq Range(s)
  <2> SUFFICES ASSUME NEW i \in DOMAIN t PROVE t[i] \in Range(s)
    BY DEF Range
  <2>1. i \in 1..Len(t) /\ i + 1 \in DOMAIN s
    BY <1>2, <1>3
  <2> QED
    BY <2>1, <1>2 DEF Range
<1>5. t # <<>> => Last(t) = Last(s)
  <2> SUFFICES ASSUME t # <<>> PROVE Last(t) = Last(s)
    OBVIOUS
  <2>1. Len(t) # 0
    BY <1>2, EmptySeq
  <2>2. Len(t) \in 1..Len(t) /\ Len(t) + 1 = Len(s)
    BY <2>1, <1>2, <1>3
  <2> QED
    BY <2>2, <1>2 DEF Last
<1> QED
  BY <1>1, <1>2, <1>3, <1>4, <1>5

LEMMA LastLists ==
  ASSUME NEW S, NEW s \in Seq(S), s # <<>>
  PROVE  Last(s) \in Range(s)
<1>1. Len(s) \in Nat /\ DOMAIN s = 1..Len(s) /\ Len(s) # 0
  BY LenProperties, EmptySeq
<1>2. Len(s) \in DOMAIN s
  BY <1>1
<1> QED
  BY <1>2 DEF Last, Range

(* Only an enumeration fails, and one begins only if there is room for its *)
(* list.                                                                   *)
EnumerationType ==
  /\ WinDevTypeOK
  /\ pass # "none" => Len(lists) < 2
  /\ status = "error" => pass # "none"
  /\ pass = "none" => unrefList = {} /\ discdevs = {}

LEMMA EnumerationInitType == WinDevInit => EnumerationType
<1> SUFFICES ASSUME WinDevInit PROVE EnumerationType
  OBVIOUS
<1>1. MaxAddress \in Nat
  <2>1. Cardinality(TreeNodes) \in Nat
    BY WinDevAssumption, FS_CardinalityType
  <2> QED
    BY <2>1, WinDevAssumption
<1>2. /\ present \subseteq TreeNodes \union HcdNodes /\ steady \subseteq present
      /\ addressOf \in [TreeNodes -> 0..MaxAddress]
  BY <1>1 DEF WinDevInit
<1>3. DOMAIN objects = {} /\ objects \in [DOMAIN objects -> WinObject]
  BY DEF WinDevInit
<1>4. /\ lists \in Seq(SUBSET TreeNodes) /\ Len(lists) = 0
      /\ UNION Range(lists) \subseteq DOMAIN objects
  <2>1. lists \in Seq(SUBSET TreeNodes) /\ Len(lists) = 0
    BY EmptySeq DEF WinDevInit
  <2>2. DOMAIN lists = {}
    BY <2>1, LenProperties
  <2> QED
    BY <2>1, <2>2 DEF Range
<1> QED
  BY <1>2, <1>3, <1>4 DEF WinDevInit, EnumerationType, WinDevTypeOK

(* Only the objects, and what is listed of them, change.                   *)
LEMMA ObjectsType ==
  ASSUME EnumerationType, UNCHANGED <<busVars, pass, lists>>, pass # "none",
         NEW n \in UsbNodes, objects' \in [DOMAIN objects \union {n} -> WinObject] \union
                                       [DOMAIN objects -> WinObject],
         unrefList' \subseteq DOMAIN objects', discdevs' \subseteq DOMAIN objects' \cap TreeNodes,
         status' \in {"ok", "error"}
  PROVE  EnumerationType'
<1>1. PICK D : D = DOMAIN objects
  OBVIOUS
<1>2. /\ DOMAIN objects' \in {D, D \union {n}}
      /\ objects' \in [DOMAIN objects' -> WinObject]
  BY <1>1
<1>3. DOMAIN objects \subseteq DOMAIN objects'
  BY <1>1, <1>2
<1>4. DOMAIN objects' \subseteq TreeNodes \union HcdNodes
  BY <1>1, <1>2 DEF EnumerationType, WinDevTypeOK, UsbNodes
<1> QED
  BY <1>2, <1>3, <1>4 DEF EnumerationType, WinDevTypeOK, busVars

LEMMA HcdPassType ==
  ASSUME EnumerationType, NEW c \in HcdNodes, HcdPass(c)
  PROVE  EnumerationType'
<1>1. PICK with : with = With(c)
  OBVIOUS
<1>2. PICK D : D = DOMAIN objects \union {c}
  OBVIOUS
<1>3. with \in [D -> WinObject] /\ c \in D
  BY <1>1, <1>2, WithType DEF EnumerationType, WinDevTypeOK
<1>4. PICK number : number = 1 + Cardinality(unrefList)
  OBVIOUS
<1>5. number \in Nat
  <2>1. unrefList \subseteq UsbNodes
    BY DEF EnumerationType, WinDevTypeOK, UsbNodes
  <2>2. Cardinality(unrefList) \in Nat
    BY <2>1, NodesFinite, FS_Subset, FS_CardinalityType
  <2> QED
    BY <2>2, <1>4
<1>6. objects' \in [D -> WinObject]
  <2>1. objects' = [with EXCEPT ![c].busNumber = number, ![c].address = 0, ![c].depth = 255,
                                ![c].api = "hub", ![c].path = TRUE]
    BY <1>1, <1>4 DEF HcdPass, HcdHubDepth
  <2>2. PICK o : o = [with[c] EXCEPT !.busNumber = number, !.address = 0, !.depth = 255,
                                     !.api = "hub", !.path = TRUE]
    OBVIOUS
  <2>3. o \in WinObject
    <3>1. PICK w \in WinObject : w = with[c]
      BY <1>3
    <3>2. o = [w EXCEPT !.busNumber = number, !.address = 0, !.depth = 255, !.api = "hub", !.path = TRUE]
      BY <2>2, <3>1
    <3>3. o.parts = w.parts /\ o.configs = w.configs
      BY <3>2 DEF WinObject
    <3>4. o = [busNumber |-> number, address |-> 0, depth |-> 255, path |-> TRUE, api |-> "hub",
               configs |-> w.configs, parts |-> w.parts]
      BY <3>2 DEF WinObject
    <3>5. w.configs \in BOOLEAN /\ w.parts \in SUBSET Parts
      BY DEF WinObject
    <3> QED
      BY <3>4, <3>5, <1>5 DEF WinObject
  <2>4. objects' = [with EXCEPT ![c] = o]
    BY ZenonT(30), <2>1, <2>2, <1>3
  <2> QED
    BY <2>3, <2>4, <1>3
<1>7. unrefList' \subseteq D /\ discdevs' = discdevs /\ status' = status
  BY <1>2 DEF HcdPass, Allocate, EnumerationType, WinDevTypeOK
<1> QED
  BY <1>2, <1>6, <1>7, ObjectsType DEF HcdPass, Visit, EnumerationType, WinDevTypeOK, UsbNodes

LEMMA HubPassType ==
  ASSUME EnumerationType, NEW n \in TreeNodes, HubPass(n)
  PROVE  EnumerationType'
<1>1. PICK D : D = DOMAIN objects \union {n}
  OBVIOUS
<1>2. With(n) \in [D -> WinObject] /\ n \in D
  BY <1>1, WithType DEF EnumerationType, WinDevTypeOK
<1>3. DOMAIN With(n) = D
  BY <1>2
<1>4. objects' \in [D -> WinObject]
  BY <1>2, <1>3, SetUpType DEF HubPass
<1>5. unrefList' \subseteq D /\ discdevs' = discdevs /\ status' = status
  BY <1>1 DEF HubPass, Allocate, EnumerationType, WinDevTypeOK
<1> QED
  BY <1>1, <1>4, <1>5, ObjectsType DEF HubPass, Visit, EnumerationType, WinDevTypeOK, UsbNodes

LEMMA DevPassType ==
  ASSUME EnumerationType, NEW n \in TreeNodes, DevPass(n)
  PROVE  EnumerationType'
<1>1. objects' \in [DOMAIN objects -> WinObject]
  BY SetUpType DEF DevPass, EnumerationType, WinDevTypeOK
<1>2. unrefList' = unrefList /\ discdevs' = discdevs /\ status' = status
  BY DEF DevPass
<1> QED
  BY <1>1, <1>2, ObjectsType DEF DevPass, Visit, EnumerationType, WinDevTypeOK, UsbNodes

LEMMA PartsType ==
  ASSUME NEW o \in WinObject, NEW i \in Parts
  PROVE  [o EXCEPT !.parts = o.parts \union {i}] \in WinObject
<1>1. o.parts \union {i} \in SUBSET Parts
  BY DEF WinObject
<1> QED
  BY <1>1 DEF WinObject

LEMMA ExtPassType ==
  ASSUME EnumerationType, NEW n \in TreeNodes, NEW i \in Parts, ExtPass(n, i)
  PROVE  EnumerationType'
<1>1. objects' \in [DOMAIN objects -> WinObject]
  <2>1. CASE n \in DOMAIN objects /\ objects[n].api = "composite"
    <3>1. objects[n] \in WinObject /\ objects \in [DOMAIN objects -> WinObject]
      BY <2>1 DEF EnumerationType, WinDevTypeOK
    <3>2. PICK o : o = [objects[n] EXCEPT !.parts = objects[n].parts \union {i}]
      OBVIOUS
    <3>3. o \in WinObject
      BY <3>1, <3>2, PartsType
    <3>4. objects' = [objects EXCEPT ![n] = o]
      BY <2>1, <3>2 DEF ExtPass
    <3> QED
      BY <3>1, <3>3, <3>4
  <2>2. CASE ~(n \in DOMAIN objects /\ objects[n].api = "composite")
    BY <2>2 DEF ExtPass, EnumerationType, WinDevTypeOK
  <2> QED
    BY <2>1, <2>2
<1>2. unrefList' = unrefList /\ discdevs' = discdevs /\ status' = status
  BY DEF ExtPass
<1> QED
  BY <1>1, <1>2, ObjectsType DEF ExtPass, Visit, EnumerationType, WinDevTypeOK, UsbNodes

LEMMA InitDeviceType ==
  ASSUME EnumerationType, NEW n \in TreeNodes, NEW p \in DOMAIN objects, InitDevice(n, p)
  PROVE  /\ objects' \in [DOMAIN objects \union {n} -> WinObject]
         /\ status' \in {status, "error"} /\ discdevs' \in {discdevs, discdevs \union {n}}
<1>1. PICK D : D = DOMAIN objects \union {n}
  OBVIOUS
<1>2. objects \in [DOMAIN objects -> WinObject] /\ addressOf \in [TreeNodes -> 0..MaxAddress]
  BY DEF EnumerationType, WinDevTypeOK
<1>3. With(n) \in [D -> WinObject] /\ n \in D
  BY <1>1, <1>2, WithType
<1>4. \/ GenFails(With(n))
      \/ \E objs \in [D -> WinObject] : Connect(n, p, objs)
  BY <1>1, <1>2, InitDeviceIs
<1>5. CASE GenFails(With(n))
  BY <1>1, <1>3, <1>5 DEF GenFails
<1>6. ASSUME NEW objs \in [D -> WinObject], Connect(n, p, objs)
      PROVE  /\ objects' \in [D -> WinObject]
             /\ status' \in {status, "error"} /\ discdevs' \in {discdevs, discdevs \union {n}}
  BY <1>2, <1>3, <1>6, ConnectType
<1> QED
  BY <1>1, <1>4, <1>5, <1>6

LEMMA GenPassType ==
  ASSUME EnumerationType, NEW n \in TreeNodes, GenPass(n)
  PROVE  EnumerationType'
<1>1. CASE Ignored
  <2>1. objects' \in [DOMAIN objects -> WinObject]
    BY <1>1 DEF Ignored, EnumerationType, WinDevTypeOK
  <2>2. unrefList' = unrefList /\ discdevs' = discdevs /\ status' = status /\ objects' = objects
    BY <1>1 DEF Ignored
  <2> QED
    BY <2>1, <2>2, ObjectsType DEF GenPass, Visit, EnumerationType, WinDevTypeOK, UsbNodes
<1>2. ASSUME NEW p \in DOMAIN objects, Allocate(n), InitDevice(n, p) PROVE EnumerationType'
  <2>1. PICK D : D = DOMAIN objects \union {n}
    OBVIOUS
  <2>2. /\ objects' \in [D -> WinObject]
        /\ status' \in {status, "error"} /\ discdevs' \in {discdevs, discdevs \union {n}}
    BY <1>2, <2>1, InitDeviceType
  <2>3. /\ unrefList' \subseteq D /\ discdevs' \subseteq D \cap TreeNodes
        /\ status' \in {"ok", "error"}
    BY <1>2, <2>1, <2>2 DEF Allocate, EnumerationType, WinDevTypeOK
  <2> QED
    BY <2>1, <2>2, <2>3, ObjectsType DEF GenPass, Visit, UsbNodes
<1>3. Ignored \/ \E p \in DOMAIN objects : Allocate(n) /\ InitDevice(n, p)
  <2>1. PICK faces, face : faces = KnownAncestors(n) /\ face = Ancestors[n][Min(faces)]
    OBVIOUS
  <2>2. Ignored \/ (faces # {} /\ Allocate(n) /\ InitDevice(n, face))
    BY <2>1 DEF GenPass
  <2>3. faces # {} => face \in DOMAIN objects
    <3> SUFFICES ASSUME faces # {} PROVE face \in DOMAIN objects
      OBVIOUS
    <3>1. DOMAIN Ancestors[n] = 1..Len(Ancestors[n]) /\ Len(Ancestors[n]) \in 1..7
      BY AncestorsLength, AncestorsKinds
    <3>2. faces \in SUBSET Nat
      BY <2>1, <3>1 DEF KnownAncestors
    <3>3. Min(faces) \in faces
      BY <3>2, LeastElement
    <3> QED
      BY <2>1, <3>3 DEF KnownAncestors
  <2> QED
    BY <2>2, <2>3
<1> QED
  BY <1>1, <1>2, <1>3

LEMMA PlugType ==
  ASSUME EnumerationType, NEW n \in UsbNodes, PlugNode(n) \/ UnplugNode(n)
  PROVE  EnumerationType'
<1>1. n \in HcdNodes \/ n \in TreeNodes
  BY DEF UsbNodes
<1>2. CASE PlugNode(n)
  <2>1. MaxAddress \in Nat
    <3>1. Cardinality(TreeNodes) \in Nat
      BY WinDevAssumption, FS_CardinalityType
    <3> QED
      BY <3>1, WinDevAssumption
  <2>2. addressOf' \in [TreeNodes -> 0..MaxAddress]
    <3>1. CASE n \in HcdNodes
      BY <1>2, <3>1 DEF PlugNode, EnumerationType, WinDevTypeOK
    <3>2. CASE n \notin HcdNodes
      <4>1. PICK a : a = Min(1..MaxAddress \ {addressOf[m] : m \in InUse})
        OBVIOUS
      <4>2. a \in 1..MaxAddress
        BY <1>1, <1>2, <3>2, <4>1, FreeAddress DEF PlugNode, EnumerationType, WinDevTypeOK
      <4>3. addressOf' = [addressOf EXCEPT ![n] = a]
        BY <1>2, <3>2, <4>1 DEF PlugNode
      <4>4. a \in 0..MaxAddress
        BY <2>1, <4>2
      <4> QED
        BY <4>3, <4>4 DEF EnumerationType, WinDevTypeOK
    <3> QED
      BY <3>1, <3>2
  <2>3. present' \subseteq TreeNodes \union HcdNodes /\ steady' \subseteq present'
    BY <1>1, <1>2 DEF PlugNode, EnumerationType, WinDevTypeOK
  <2> QED
    BY <1>2, <2>2, <2>3 DEF PlugNode, EnumerationType, WinDevTypeOK
<1>3. CASE UnplugNode(n)
  BY <1>3 DEF UnplugNode, EnumerationType, WinDevTypeOK
<1> QED
  BY <1>2, <1>3

LEMMA ListsType ==
  ASSUME EnumerationType, UNCHANGED busVars, pass' = "none", status' = "ok",
         unrefList' = {}, discdevs' = {}, lists' \in Seq(SUBSET TreeNodes), Len(lists') <= 2,
         UNION Range(lists') \subseteq DOMAIN objects, Keep(UNION Range(lists'))
  PROVE  EnumerationType'
<1>1. PICK D, U : D = DOMAIN objects /\ U = UNION Range(lists')
  OBVIOUS
<1>2. objects' \in [D \cap U -> WinObject]
  BY <1>1, KeepType DEF EnumerationType, WinDevTypeOK
<1>3. DOMAIN objects' = D \cap U /\ U \subseteq DOMAIN objects'
  BY <1>1, <1>2
<1>4. UNION Range(lists') \subseteq DOMAIN objects' /\ DOMAIN objects' \subseteq TreeNodes \union HcdNodes
  BY <1>1, <1>3 DEF EnumerationType, WinDevTypeOK
<1>5. objects' \in [DOMAIN objects' -> WinObject]
  BY <1>2, <1>3
<1> QED
  BY <1>4, <1>5 DEF EnumerationType, WinDevTypeOK, busVars

LEMMA ContextType ==
  ASSUME EnumerationType,
         GetWinDeviceList \/ NextPass \/ EndEnumeration \/ FreeWinDeviceList
  PROVE  EnumerationType'
<1>0. lists \in Seq(SUBSET TreeNodes) /\ discdevs \in SUBSET TreeNodes /\ Len(lists) \in Nat
  <2>1. lists \in Seq(SUBSET TreeNodes) /\ discdevs \in SUBSET TreeNodes
    BY DEF EnumerationType, WinDevTypeOK
  <2> QED
    BY <2>1, LenProperties
<1>1. CASE GetWinDeviceList
  BY <1>1 DEF GetWinDeviceList, EnumerationType, WinDevTypeOK
<1>2. CASE NextPass
  <2>1. pass \in {"hcd", "hub", "gen", "dev", "ext"}
    BY <1>2 DEF NextPass, After
  <2>2. pass' \in {"hub", "gen", "dev", "ext", "end"}
    BY <1>2, <2>1 DEF NextPass, After
  <2>3. pass # "none" /\ pass' # "none"
    BY <2>1, <2>2
  <2> QED
    BY <1>2, <2>2, <2>3 DEF NextPass, busVars, EnumerationType, WinDevTypeOK
<1>3. CASE EndEnumeration
  <2>1. pass # "none" /\ Len(lists) < 2
    BY <1>3 DEF EndEnumeration, EnumerationType
  <2>2. CASE status = "ok"
    <3>1. lists' = Append(lists, discdevs)
      BY <1>3, <2>2 DEF EndEnumeration
    <3>2. /\ Append(lists, discdevs) \in Seq(SUBSET TreeNodes)
          /\ Len(Append(lists, discdevs)) = Len(lists) + 1
          /\ Range(Append(lists, discdevs)) = Range(lists) \union {discdevs}
      BY <1>0, AppendLists
    <3>3. Len(lists') <= 2
      BY <3>1, <3>2, <2>1, <1>0
    <3>4. UNION Range(lists') \subseteq DOMAIN objects
      BY <3>1, <3>2 DEF EnumerationType, WinDevTypeOK
    <3> QED
      BY <1>3, <3>1, <3>2, <3>3, <3>4, ListsType DEF EndEnumeration
  <2>3. CASE status # "ok"
    BY <1>3, <2>3, ListsType DEF EndEnumeration, EnumerationType, WinDevTypeOK
  <2> QED
    BY <2>2, <2>3
<1>4. CASE FreeWinDeviceList
  <2>1. lists' = Tail(lists) /\ lists # <<>> /\ pass = "none"
    BY <1>4 DEF FreeWinDeviceList
  <2>2. /\ Tail(lists) \in Seq(SUBSET TreeNodes) /\ Len(Tail(lists)) = Len(lists) - 1
        /\ Range(Tail(lists)) \subseteq Range(lists)
    BY <1>0, <2>1, TailLists
  <2>3. Len(lists') <= 2
    BY <1>0, <2>1, <2>2 DEF EnumerationType, WinDevTypeOK
  <2>4. UNION Range(lists') \subseteq DOMAIN objects
    BY <2>1, <2>2 DEF EnumerationType, WinDevTypeOK
  <2>5. PICK D, U : D = DOMAIN objects /\ U = UNION Range(lists')
    OBVIOUS
  <2>6. objects' \in [D \cap U -> WinObject]
    BY <1>4, <2>5, KeepType DEF FreeWinDeviceList, EnumerationType, WinDevTypeOK
  <2>7. DOMAIN objects' = D \cap U /\ U \subseteq DOMAIN objects'
    BY <2>4, <2>5, <2>6
  <2>8. pass = "none" => unrefList = {} /\ discdevs = {}
    BY DEF EnumerationType
  <2> QED
    BY <1>4, <2>1, <2>2, <2>3, <2>4, <2>5, <2>6, <2>7, <2>8
    DEF FreeWinDeviceList, busVars, EnumerationType, WinDevTypeOK
<1> QED
  BY <1>1, <1>2, <1>3, <1>4

LEMMA EnumerationNextType == EnumerationType /\ [WinDevNext]_winDevVars => EnumerationType'
<1> SUFFICES ASSUME EnumerationType, [WinDevNext]_winDevVars PROVE EnumerationType'
  OBVIOUS
<1>1. CASE UNCHANGED winDevVars
  BY <1>1 DEF winDevVars, busVars, EnumerationType, WinDevTypeOK
<1>2. CASE GetWinDeviceList \/ NextPass \/ EndEnumeration \/ FreeWinDeviceList
  BY <1>2, ContextType
<1>3. ASSUME NEW n \in TreeNodes \union HcdNodes, PlugNode(n) \/ UnplugNode(n)
      PROVE  EnumerationType'
  BY <1>3, PlugType DEF UsbNodes
<1>4. ASSUME NEW c \in HcdNodes, HcdPass(c) PROVE EnumerationType'
  BY <1>4, HcdPassType
<1>5. ASSUME NEW n \in TreeNodes, HubPass(n) \/ GenPass(n) \/ DevPass(n) PROVE EnumerationType'
  BY <1>5, HubPassType, GenPassType, DevPassType
<1>6. ASSUME NEW n \in TreeNodes, NEW i \in Parts, ExtPass(n, i) PROVE EnumerationType'
  BY <1>6, ExtPassType
<1> QED
  BY <1>1, <1>2, <1>3, <1>4, <1>5, <1>6 DEF WinDevNext

(* Objects, lists and addresses are what they are declared to be, whatever *)
(* goes wrong: a number or a depth does not leave its byte, there is an    *)
(* address for everything plugged in, and no list names an object that is  *)
(* gone (windows_get_device_list()).                                       *)
THEOREM EnumerationTyped == WinDevSpec => []WinDevTypeOK
<1>1. EnumerationType => WinDevTypeOK
  BY DEF EnumerationType
<1> QED
  BY <1>1, EnumerationInitType, EnumerationNextType, PTL DEF WinDevSpec

-----------------------------------------------------------------------------
(* While hubs and controllers stay, nothing is plugged in where another    *)
(* device was that the program still has, hubs can be opened and           *)
(* descriptors read.                                                       *)

BusAt(n) == BusOf(ControllerOf(n))
Hub(n) == NodeKind[n] = "hub"

(* What is plugged in hangs together and has addresses.                    *)
TreeInv ==
  /\ HcdNodes \subseteq present
  /\ \A n \in TreeNodes : RootHub(n) => n \in present
  /\ \A n \in TreeNodes \cap present :
       NodeParent[n] \in present /\ (~RootHub(n) => addressOf[n] # 0)

(* A device object has no data but that of the node it stands for.         *)
NodeObject(n, o, address) ==
  /\ o.busNumber \in {0, BusAt(n)} /\ o.depth < Len(Ancestors[n])
  /\ o.path => o.api = NodeKind[n]
  /\ o.address # 0 => /\ o.busNumber = BusAt(n)
                      /\ RootHub(n) => o.address = 255
                      /\ ~RootHub(n) => o.address = address /\ o.configs

ControllerObject(c, o) == o.busNumber = BusOf(c) /\ o.depth = 255 /\ o.api = "hub"

ObjectsInv ==
  \A n \in DOMAIN objects :
    /\ n \in TreeNodes => NodeObject(n, objects[n], addressOf[n])
    /\ n \in HcdNodes => ControllerObject(n, objects[n])

(* What is listed is set up.                                               *)
FilledInv ==
  /\ status = "ok"
  /\ \A n \in discdevs \union UNION Range(lists) : objects[n].address # 0

HasPath(n) == n \in DOMAIN objects /\ objects[n].path
HasParts(n) == NodeKind[n] = "composite" => n \in DOMAIN objects /\ objects[n].parts = Parts

(* HCD_PASS: the controllers had are the first ones.                       *)
ControllersInv ==
  /\ pass = "hcd" => \E k \in 0..Len(HostControllers) :
       /\ unrefList = DOMAIN objects \cap HcdNodes
       /\ DOMAIN objects \cap HcdNodes = {HostControllers[i] : i \in 1..k}
       /\ todo = {HostControllers[i] : i \in (k + 1)..Len(HostControllers)}
  /\ pass \in {"hub", "gen", "dev", "ext", "end"} => HcdNodes \subseteq DOMAIN objects

(* HUB_PASS: every hub becomes known, so that in GEN_PASS it is the parent *)
(* itself that is found for a device.                                      *)
HubsInv ==
  \A h \in TreeNodes \cap present : Hub(h) =>
    /\ pass = "hub" => h \in todo \/ HasPath(h)
    /\ pass \in {"gen", "dev", "ext", "end"} => HasPath(h)

(* GEN_PASS: the hub of what is still to come is there, and what was there *)
(* all the time is listed.                                                 *)
DiscoveryInv ==
  /\ pass = "gen" => \A n \in todo : n \in TreeNodes /\ NodeParent[n] \in present
  /\ \A n \in steady \cap TreeNodes :
       /\ pass = "gen" => n \in todo \union discdevs
       /\ pass \in {"dev", "ext", "end"} => n \in discdevs

(* DEV_PASS and the later ones.                                            *)
DriversInv ==
  \A n \in steady \cap TreeNodes : ~Hub(n) =>
    /\ pass = "dev" => n \in todo \/ HasPath(n)
    /\ pass \in {"ext", "end"} => HasPath(n)

PartsInv ==
  \A n \in steady \cap TreeNodes : NodeKind[n] = "composite" =>
    /\ pass = "ext" => \A i \in Parts : <<n, i>> \in todo \/ i \in objects[n].parts
    /\ pass = "end" => HasParts(n)

(* Afterwards nothing else is left, and what was there all the time and    *)
(* still is has its driver and parts.                                      *)
ListedInv ==
  pass = "none" =>
    /\ DOMAIN objects \subseteq UNION Range(lists)
    /\ lists # <<>> => \A n \in steady \cap TreeNodes :
         n \in Last(lists) /\ HasPath(n) /\ HasParts(n)

EnumerationInv ==
  /\ EnumerationType /\ TreeInv /\ ObjectsInv /\ FilledInv /\ ControllersInv /\ HubsInv
  /\ DiscoveryInv /\ DriversInv /\ PartsInv /\ ListedInv


LEMMA TreeOnHubs ==
  ASSUME NEW n \in TreeNodes
  PROVE  /\ NodeParent[n] \in TreeNodes => Hub(NodeParent[n])
         /\ RootHub(n) => Hub(n)
         /\ NodeParent[n] \in TreeNodes \union HcdNodes /\ NodeParent[n] # n
         /\ RootHub(n) <=> Len(Ancestors[n]) = 1
         /\ Len(Ancestors[NodeParent[n]]) < Len(Ancestors[n])
<1>1. PICK height : LevelsOf(height)
  BY LevelsExist
<1>2. PICK p : p = NodeParent[n]
  OBVIOUS
<1>3. /\ p \in UsbNodes /\ Len(Ancestors[n]) = Len(Ancestors[p]) + 1
      /\ Len(Ancestors[p]) \in 0..7 /\ (Len(Ancestors[p]) = 0 <=> p \in HcdNodes)
  BY <1>2, AncestorsLength
<1>4. p # n
  BY <1>3
<1>5. p \in HcdNodes <=> Len(Ancestors[n]) = 1
  BY <1>3
<1>6. Len(Ancestors[p]) < Len(Ancestors[n])
  BY <1>3
<1> QED
  BY <1>1, <1>2, <1>3, <1>4, <1>5, <1>6 DEF LevelsOf, RootHub, Hub, UsbNodes

LEMMA EnumerationInitInv == WinDevInit => EnumerationInv
<1> SUFFICES ASSUME WinDevInit PROVE EnumerationInv
  OBVIOUS
<1>1. EnumerationType
  BY EnumerationInitType
<1>2. TreeInv
  <2>1. \A n \in TreeNodes \cap present : RootHub(n)
    BY WinDevAssumption DEF WinDevInit
  <2> QED
    BY <2>1 DEF TreeInv, WinDevInit, RootHub
<1>3. DOMAIN objects = {} /\ discdevs = {} /\ status = "ok" /\ pass = "none" /\ lists = <<>>
  BY DEF WinDevInit
<1>4. UNION Range(lists) = {}
  BY <1>3 DEF Range
<1>5. ObjectsInv /\ FilledInv /\ ListedInv
  BY <1>3, <1>4 DEF ObjectsInv, FilledInv, ListedInv
<1>6. ControllersInv /\ HubsInv /\ DiscoveryInv /\ DriversInv /\ PartsInv
  BY <1>3 DEF ControllersInv, HubsInv, DiscoveryInv, DriversInv, PartsInv
<1> QED
  BY <1>1, <1>2, <1>5, <1>6 DEF EnumerationInv

(* A pass goes through what it has to do: x is done, objects only grow.    *)
LEMMA PassGoesOn ==
  ASSUME EnumerationInv, EnumerationType', UNCHANGED <<busVars, pass, lists>>, pass # "none",
         status' = "ok",
         \A n \in DOMAIN objects :
           /\ n \in DOMAIN objects' /\ objects[n].parts \subseteq objects'[n].parts
           /\ objects[n].address # 0 => objects'[n].address # 0
           /\ objects[n].path => objects'[n].path,
         ObjectsInv', ControllersInv',
         discdevs \subseteq discdevs', \A n \in discdevs' \ discdevs : objects'[n].address # 0,
         NEW x, todo' = todo \ {x},
         pass = "hub" => \A h \in TreeNodes : x = h => HasPath(h)',
         pass = "gen" => \A n \in steady \cap TreeNodes : x = n => n \in discdevs',
         pass = "dev" => \A n \in steady \cap TreeNodes : x = n => HasPath(n)',
         pass = "ext" => \A n \in steady \cap TreeNodes : \A i \in Parts :
                           x = <<n, i>> /\ NodeKind[n] = "composite" => i \in objects'[n].parts
  PROVE  EnumerationInv'
<1>1. \A n : HasPath(n) => HasPath(n)'
  BY DEF HasPath
<1>2. TreeInv'
  BY DEF EnumerationInv, TreeInv, busVars
<1>3. FilledInv'
  <2>1. \A n \in discdevs \union UNION Range(lists) : n \in DOMAIN objects /\ objects[n].address # 0
    BY DEF EnumerationInv, EnumerationType, WinDevTypeOK, FilledInv
  <2>2. \A n \in discdevs \union UNION Range(lists) : objects'[n].address # 0
    BY <2>1
  <2> QED
    BY <2>2 DEF FilledInv
<1>4. HubsInv'
  <2>1. present' = present
    BY DEF busVars
  <2> QED
    BY <1>1, <2>1 DEF EnumerationInv, HubsInv
<1>5. DiscoveryInv'
  BY DEF EnumerationInv, DiscoveryInv, busVars
<1>6. DriversInv'
  <2>1. steady' = steady
    BY DEF busVars
  <2> QED
    BY <1>1, <2>1 DEF EnumerationInv, DriversInv
<1>7. PartsInv'
  <2>1. steady' = steady /\ pass' = pass
    BY DEF busVars
  <2>2. \A n \in steady \cap TreeNodes : pass \in {"ext", "end"} => n \in DOMAIN objects
    BY DEF EnumerationInv, DiscoveryInv, EnumerationType, WinDevTypeOK
  <2>3. ASSUME NEW n \in steady \cap TreeNodes, NodeKind[n] = "composite", pass = "ext", NEW i \in Parts
        PROVE  <<n, i>> \in todo' \/ i \in objects'[n].parts
    <3>1. <<n, i>> \in todo \/ i \in objects[n].parts
      BY <2>3 DEF EnumerationInv, PartsInv
    <3>2. <<n, i>> \in todo => <<n, i>> \in todo' \/ x = <<n, i>>
      OBVIOUS
    <3>3. objects[n].parts \subseteq objects'[n].parts
      BY <2>2, <2>3
    <3> QED
      BY <2>3, <3>1, <3>2, <3>3
  <2>4. ASSUME NEW n \in steady \cap TreeNodes, NodeKind[n] = "composite", pass = "end"
        PROVE  HasParts(n)'
    <3>1. n \in DOMAIN objects /\ objects[n].parts = Parts
      BY <2>4 DEF EnumerationInv, PartsInv, HasParts
    <3>2. n \in DOMAIN objects' /\ Parts \subseteq objects'[n].parts
      BY <3>1
    <3>3. objects'[n] \in WinObject
      BY <3>2 DEF EnumerationType, WinDevTypeOK
    <3>4. objects'[n].parts \subseteq Parts
      BY <3>3 DEF WinObject
    <3> QED
      BY <3>2, <3>4 DEF HasParts
  <2> QED
    BY <2>1, <2>3, <2>4 DEF PartsInv
<1>8. ListedInv'
  BY DEF ListedInv
<1> QED
  BY <1>2, <1>3, <1>4, <1>5, <1>6, <1>7, <1>8 DEF EnumerationInv

(* Beyond the first pass all controllers are known, and stay.              *)
LEMMA ControllersStay ==
  ASSUME EnumerationInv, pass' = pass, pass \in {"hub", "gen", "dev", "ext", "end"},
         DOMAIN objects \subseteq DOMAIN objects'
  PROVE  ControllersInv'
  BY DEF EnumerationInv, ControllersInv

(* A new object stands for its node, it has no data yet.                   *)
LEMMA NewNodeObject ==
  ASSUME NEW n \in TreeNodes, NEW a
  PROVE  NodeObject(n, NewObject, a)
<1>1. Len(Ancestors[n]) \in 1..7
  BY AncestorsKinds
<1>2. \A k \in 1..7 : 0 < k
  OBVIOUS
<1>3. 0 < Len(Ancestors[n])
  BY <1>1, <1>2
<1> QED
  BY <1>3 DEF NodeObject, NewObject

LEMMA SetUpNodeObject ==
  ASSUME NEW n \in TreeNodes, NEW a, NEW o \in WinObject, NodeObject(n, o, a)
  PROVE  /\ NodeObject(n, [o EXCEPT !.path = TRUE, !.api = NodeKind[n]], a)
         /\ [o EXCEPT !.path = TRUE, !.api = NodeKind[n]].path
         /\ [o EXCEPT !.path = TRUE, !.api = NodeKind[n]].address = o.address
         /\ [o EXCEPT !.path = TRUE, !.api = NodeKind[n]].parts = o.parts
<1>1. PICK p : p = [o EXCEPT !.path = TRUE, !.api = NodeKind[n]]
  OBVIOUS
<1>2. /\ p.path /\ p.api = NodeKind[n] /\ p.busNumber = o.busNumber /\ p.address = o.address
      /\ p.depth = o.depth /\ p.configs = o.configs /\ p.parts = o.parts
  BY <1>1 DEF WinObject
<1>3. NodeObject(n, p, a)
  BY <1>2 DEF NodeObject
<1> QED
  BY <1>1, <1>2, <1>3

(* HUB_PASS and DEV_PASS: objs are those before, and perhaps a new one.    *)
LEMMA SetUpInv ==
  ASSUME EnumerationInv, NEW n \in TreeNodes, UNCHANGED addressOf,
         \/ objects' = SetUp(With(n), n)
         \/ n \in DOMAIN objects /\ objects' = SetUp(objects, n)
  PROVE  /\ ObjectsInv' /\ HasPath(n)'
         /\ \A m \in DOMAIN objects :
              /\ m \in DOMAIN objects' /\ objects[m].parts \subseteq objects'[m].parts
              /\ objects[m].address # 0 => objects'[m].address # 0
              /\ objects[m].path => objects'[m].path
<1>1. objects \in [DOMAIN objects -> WinObject]
  BY DEF EnumerationInv, EnumerationType, WinDevTypeOK
<1>2. PICK objs : /\ objs \in {objects, With(n)} /\ n \in DOMAIN objs /\ objects' = SetUp(objs, n)
  <2>1. With(n) \in [DOMAIN objects \union {n} -> WinObject]
    BY <1>1, WithType
  <2>2. n \in DOMAIN With(n)
    BY <2>1
  <2> QED
    BY <2>2
<1>3. /\ objs \in [DOMAIN objs -> WinObject] /\ DOMAIN objects \subseteq DOMAIN objs
      /\ DOMAIN objs \subseteq DOMAIN objects \union {n}
      /\ \A m \in DOMAIN objects : objs[m] = objects[m]
      /\ n \notin DOMAIN objects => objs[n] = NewObject
  <2>1. CASE objs = objects
    BY <1>1, <1>2, <2>1
  <2>2. CASE objs = With(n)
    <3>1. /\ objs \in [DOMAIN objects \union {n} -> WinObject]
          /\ \A m \in DOMAIN objects : objs[m] = objects[m]
          /\ n \notin DOMAIN objects => objs[n] = NewObject
      BY <1>1, <2>2, WithType
    <3>2. DOMAIN objs = DOMAIN objects \union {n}
      BY <3>1
    <3> QED
      BY <3>1, <3>2
  <2> QED
    BY <1>2, <2>1, <2>2
<1>4. NodeObject(n, objs[n], addressOf[n])
  <2>1. CASE n \in DOMAIN objects
    BY <1>3, <2>1 DEF EnumerationInv, ObjectsInv
  <2>2. CASE n \notin DOMAIN objects
    BY <1>3, <2>2, NewNodeObject
  <2> QED
    BY <2>1, <2>2
<1>5. objs[n] \in WinObject
  BY <1>2, <1>3
<1>6. PICK o : o = [objs[n] EXCEPT !.path = TRUE, !.api = NodeKind[n]]
  OBVIOUS
<1>7. /\ NodeObject(n, o, addressOf[n]) /\ o.path /\ o.address = objs[n].address
      /\ o.parts = objs[n].parts
  BY ZenonT(30), <1>4, <1>5, <1>6, SetUpNodeObject
<1>8. /\ objects' \in [DOMAIN objs -> WinObject]
      /\ \A m \in DOMAIN objs \ {n} : objects'[m] = objs[m]
      /\ objs[n].path => objects'[n] = objs[n]
      /\ ~objs[n].path => objects'[n] = o
  <2>1. /\ SetUp(objs, n) \in [DOMAIN objs -> WinObject]
        /\ \A m \in DOMAIN objs \ {n} : SetUp(objs, n)[m] = objs[m]
        /\ objs[n].path => SetUp(objs, n)[n] = objs[n]
    BY ZenonT(30), <1>2, <1>3, SetUpType
  <2>2. ~objs[n].path => SetUp(objs, n)[n] = o
    <3>1. ~objs[n].path =>
            SetUp(objs, n)[n] = [objs[n] EXCEPT !.path = TRUE, !.api = NodeKind[n]]
      BY ZenonT(30), <1>2, <1>3, SetUpType
    <3> QED
      BY <1>6, <3>1
  <2> QED
    BY <1>2, <2>1, <2>2
<1>9. DOMAIN objects' = DOMAIN objs
  BY <1>8
<1>10. /\ NodeObject(n, objects'[n], addressOf[n]) /\ objects'[n].path
       /\ objects'[n].address = objs[n].address /\ objects'[n].parts = objs[n].parts
  BY <1>4, <1>7, <1>8
<1>11. ObjectsInv'
  <2> SUFFICES ASSUME NEW m \in DOMAIN objects'
               PROVE  /\ m \in TreeNodes => NodeObject(m, objects'[m], addressOf'[m])
                      /\ m \in HcdNodes => ControllerObject(m, objects'[m])
    BY DEF ObjectsInv
  <2>1. CASE m = n
    <3>1. n \notin HcdNodes
      BY AncestorsKinds
    <3> QED
      BY <1>10, <2>1, <3>1
  <2>2. CASE m # n
    <3>1. m \in DOMAIN objects /\ objects'[m] = objects[m]
      BY <1>3, <1>8, <1>9, <2>2
    <3> QED
      BY <3>1 DEF EnumerationInv, ObjectsInv
  <2> QED
    BY <2>1, <2>2
<1>12. HasPath(n)'
  BY <1>2, <1>9, <1>10 DEF HasPath
<1>13. ASSUME NEW m \in DOMAIN objects
       PROVE  /\ m \in DOMAIN objects' /\ objects[m].parts \subseteq objects'[m].parts
              /\ objects[m].address # 0 => objects'[m].address # 0
              /\ objects[m].path => objects'[m].path
  <2>1. m \in DOMAIN objects' /\ objs[m] = objects[m]
    BY <1>3, <1>9
  <2>2. CASE m = n
    BY <1>10, <2>1, <2>2
  <2>3. CASE m # n
    BY <1>8, <1>9, <2>1, <2>3
  <2> QED
    BY <2>1, <2>2, <2>3
<1> QED
  BY <1>11, <1>12, <1>13

LEMMA HubPassInv ==
  ASSUME EnumerationInv, NEW n \in TreeNodes, HubPass(n)
  PROVE  EnumerationInv'
<1>1. EnumerationType'
  BY HubPassType DEF EnumerationInv
<1>2. /\ UNCHANGED <<busVars, pass, lists>> /\ pass = "hub" /\ todo' = todo \ {n}
      /\ objects' = SetUp(With(n), n) /\ UNCHANGED <<discdevs, status>>
  BY DEF HubPass, Visit
<1>3. /\ ObjectsInv' /\ HasPath(n)'
      /\ \A m \in DOMAIN objects :
           /\ m \in DOMAIN objects' /\ objects[m].parts \subseteq objects'[m].parts
           /\ objects[m].address # 0 => objects'[m].address # 0
           /\ objects[m].path => objects'[m].path
  BY <1>2, SetUpInv DEF busVars
<1>4. ControllersInv'
  BY <1>2, <1>3, ControllersStay
<1>5. status' = "ok"
  BY <1>2 DEF EnumerationInv, FilledInv
<1> QED
  BY <1>1, <1>2, <1>3, <1>4, <1>5, PassGoesOn

LEMMA DevPassInv ==
  ASSUME EnumerationInv, NEW n \in TreeNodes, DevPass(n)
  PROVE  EnumerationInv'
<1>1. EnumerationType'
  BY DevPassType DEF EnumerationInv
<1>2. /\ UNCHANGED <<busVars, pass, lists>> /\ pass = "dev" /\ todo' = todo \ {n}
      /\ UNCHANGED <<discdevs, status>>
  BY DEF DevPass, Visit
<1>3. CASE n \in DOMAIN objects
  <2>1. /\ ObjectsInv' /\ HasPath(n)'
        /\ \A m \in DOMAIN objects :
             /\ m \in DOMAIN objects' /\ objects[m].parts \subseteq objects'[m].parts
             /\ objects[m].address # 0 => objects'[m].address # 0
             /\ objects[m].path => objects'[m].path
    BY <1>2, <1>3, SetUpInv DEF busVars, DevPass
  <2>2. ControllersInv'
    BY <1>2, <2>1, ControllersStay
  <2>3. status' = "ok"
    BY <1>2 DEF EnumerationInv, FilledInv
  <2> QED
    BY <1>1, <1>2, <2>1, <2>2, <2>3, PassGoesOn
<1>4. CASE n \notin DOMAIN objects
  <2>1. objects' = objects
    BY <1>4 DEF DevPass
  <2>2. ObjectsInv'
    BY <1>2, <2>1 DEF EnumerationInv, ObjectsInv, busVars
  <2>3. ControllersInv'
    BY <1>2, <2>1, ControllersStay
  <2>4. status' = "ok"
    BY <1>2 DEF EnumerationInv, FilledInv
  <2>5. n \notin steady \cap TreeNodes
    BY <1>2, <1>4 DEF EnumerationInv, DiscoveryInv, EnumerationType, WinDevTypeOK
  <2> QED
    BY <1>1, <1>2, <2>1, <2>2, <2>3, <2>4, <2>5, PassGoesOn
<1> QED
  BY <1>3, <1>4

LEMMA ExtPassInv ==
  ASSUME EnumerationInv, NEW n \in TreeNodes, NEW i \in Parts, ExtPass(n, i)
  PROVE  EnumerationInv'
<1>1. EnumerationType'
  BY ExtPassType DEF EnumerationInv
<1>2. /\ UNCHANGED <<busVars, pass, lists>> /\ pass = "ext" /\ todo' = todo \ {<<n, i>>}
      /\ UNCHANGED <<discdevs, status>>
  BY DEF ExtPass, Visit
<1>3. status' = "ok"
  BY <1>2 DEF EnumerationInv, FilledInv
<1>4. objects \in [DOMAIN objects -> WinObject]
  BY DEF EnumerationInv, EnumerationType, WinDevTypeOK
<1>5. CASE n \in DOMAIN objects /\ objects[n].api = "composite"
  <2>1. PICK o : o = [objects[n] EXCEPT !.parts = objects[n].parts \union {i}]
    OBVIOUS
  <2>2. PICK q \in WinObject : q = objects[n]
    BY <1>4, <1>5
  <2>3. o = [q EXCEPT !.parts = q.parts \union {i}]
    BY <2>1, <2>2
  <2>4. /\ o.busNumber = q.busNumber /\ o.depth = q.depth /\ o.path = q.path /\ o.api = q.api
        /\ o.address = q.address /\ o.configs = q.configs /\ o.parts = q.parts \union {i}
    BY <2>3 DEF WinObject
  <2>5. objects' = [objects EXCEPT ![n] = o]
    BY <1>5, <2>1 DEF ExtPass
  <2>6. /\ DOMAIN objects' = DOMAIN objects /\ objects'[n] = o
        /\ \A m \in DOMAIN objects \ {n} : objects'[m] = objects[m]
    BY <1>4, <1>5, <2>5
  <2>7. NodeObject(n, o, addressOf[n])
    <3>1. NodeObject(n, q, addressOf[n])
      BY <1>5, <2>2 DEF EnumerationInv, ObjectsInv
    <3> QED
      BY <2>4, <3>1 DEF NodeObject
  <2>8. ObjectsInv'
    <3> SUFFICES ASSUME NEW m \in DOMAIN objects'
                 PROVE  /\ m \in TreeNodes => NodeObject(m, objects'[m], addressOf'[m])
                        /\ m \in HcdNodes => ControllerObject(m, objects'[m])
      BY DEF ObjectsInv
    <3>1. CASE m = n
      <4>1. n \notin HcdNodes
        BY AncestorsKinds
      <4> QED
        BY <1>2, <2>6, <2>7, <3>1, <4>1 DEF busVars
    <3>2. CASE m # n
      BY <1>2, <2>6, <3>2 DEF busVars, EnumerationInv, ObjectsInv
    <3> QED
      BY <3>1, <3>2
  <2>9. \A m \in DOMAIN objects :
           /\ m \in DOMAIN objects' /\ objects[m].parts \subseteq objects'[m].parts
           /\ objects[m].address # 0 => objects'[m].address # 0
           /\ objects[m].path => objects'[m].path
    BY <2>2, <2>4, <2>6
  <2>10. ControllersInv'
    BY <1>2, <2>6, ControllersStay
  <2>11. i \in objects'[n].parts
    BY <2>4, <2>6
  <2>12. \A m \in steady \cap TreeNodes : \A j \in Parts :
           <<n, i>> = <<m, j>> /\ NodeKind[m] = "composite" => j \in objects'[m].parts
    BY <2>11
  <2> QED
    BY <1>1, <1>2, <1>3, <2>8, <2>9, <2>10, <2>12, PassGoesOn
<1>6. CASE ~(n \in DOMAIN objects /\ objects[n].api = "composite")
  <2>1. objects' = objects
    BY <1>6 DEF ExtPass
  <2>2. ObjectsInv'
    BY <1>2, <2>1 DEF EnumerationInv, ObjectsInv, busVars
  <2>3. ControllersInv'
    BY <1>2, <2>1, ControllersStay
  <2>4. n \in steady => NodeKind[n] # "composite"
    <3> SUFFICES ASSUME n \in steady, NodeKind[n] = "composite" PROVE FALSE
      OBVIOUS
    <3>1. HasPath(n)
      BY <1>2 DEF EnumerationInv, DriversInv, Hub
    <3>2. NodeObject(n, objects[n], addressOf[n])
      BY <3>1 DEF HasPath, EnumerationInv, ObjectsInv
    <3> QED
      BY <1>6, <3>1, <3>2 DEF HasPath, NodeObject
  <2>5. \A m \in steady \cap TreeNodes : \A j \in Parts :
           <<n, i>> = <<m, j>> /\ NodeKind[m] = "composite" => j \in objects'[m].parts
    BY <2>4
  <2> QED
    BY <1>1, <1>2, <1>3, <2>1, <2>2, <2>3, <2>5, PassGoesOn
<1> QED
  BY <1>5, <1>6

(* All ancestors of what GEN_PASS comes to are known, its parent is a hub. *)
LEMMA AncestorsKnown ==
  ASSUME EnumerationInv, pass = "gen", NEW n \in TreeNodes, n \in todo
  PROVE  /\ \A i \in 1..Len(Ancestors[n]) : Ancestors[n][i] \in DOMAIN objects
         /\ NodeParent[n] \in DOMAIN objects \cap present
         /\ objects[NodeParent[n]].api = "hub"
<1>1. NodeParent[n] \in present /\ \A m \in TreeNodes \cap present : NodeParent[m] \in present
  BY DEF EnumerationInv, DiscoveryInv, TreeInv
<1>2. \A i \in 1..Len(Ancestors[n]) : Ancestors[n][i] \in present
  BY <1>1, AncestorsWithin
<1>3. \A h \in TreeNodes \cap present : Hub(h) => HasPath(h)
  BY DEF EnumerationInv, HubsInv
<1>4. HcdNodes \subseteq DOMAIN objects
  BY DEF EnumerationInv, ControllersInv
<1>5. ASSUME NEW i \in 1..Len(Ancestors[n]) PROVE Ancestors[n][i] \in DOMAIN objects
  <2>1. PICK a : a = Ancestors[n][i]
    OBVIOUS
  <2>2. a \in UsbNodes /\ (a \in TreeNodes => Hub(a)) /\ a \in present
    BY <1>2, <2>1, AncestorsKinds DEF Hub
  <2> QED
    BY <1>3, <1>4, <2>1, <2>2 DEF UsbNodes, HasPath
<1>6. PICK p : p = NodeParent[n]
  OBVIOUS
<1>7. p \in present /\ (p \in TreeNodes \/ p \in HcdNodes) /\ (p \in TreeNodes => Hub(p))
  BY <1>1, <1>6, TreeOnHubs
<1>8. CASE p \in TreeNodes
  <2>1. HasPath(p)
    BY <1>3, <1>7, <1>8
  <2>2. NodeObject(p, objects[p], addressOf[p])
    BY <1>8, <2>1 DEF HasPath, EnumerationInv, ObjectsInv
  <2> QED
    BY <1>5, <1>6, <1>7, <1>8, <2>1, <2>2 DEF HasPath, NodeObject, Hub
<1>9. CASE p \in HcdNodes
  <2>1. p \in DOMAIN objects /\ ControllerObject(p, objects[p])
    BY <1>4, <1>9 DEF EnumerationInv, ObjectsInv
  <2> QED
    BY <1>5, <1>6, <1>7, <2>1 DEF ControllerObject
<1> QED
  BY <1>7, <1>8, <1>9

(* So the bus number is found, and is that of the controller.              *)
LEMMA BusFound ==
  ASSUME EnumerationInv, pass = "gen", NEW n \in TreeNodes, n \in todo, NEW p, p = NodeParent[n],
         NEW number, number = IF With(n)[p].busNumber # 0 THEN With(n)[p].busNumber
                              ELSE AncestorBus(With(n), n)
  PROVE  number = BusAt(n) /\ number \in Nat \ {0}
<1>1. objects \in [DOMAIN objects -> WinObject]
  BY DEF EnumerationInv, EnumerationType, WinDevTypeOK
<1>2. PICK with : with = With(n)
  OBVIOUS
<1>3. with \in [DOMAIN objects \union {n} -> WinObject] /\ \A m \in DOMAIN objects : with[m] = objects[m]
  BY <1>1, <1>2, WithType
<1>4. DOMAIN with = DOMAIN objects \union {n} /\ with \in [DOMAIN with -> WinObject]
  BY <1>3
<1>5. BusAt(n) \in Nat \ {0}
  <2>1. ControllerOf(n) \in HcdNodes
    BY AncestorsKinds
  <2>2. BusOf(ControllerOf(n)) \in 1..Len(HostControllers) /\ Len(HostControllers) \in 0..255
    BY <2>1, BusesAre
  <2> QED
    BY <2>2 DEF BusAt
<1>6. ASSUME NEW i \in 1..Len(Ancestors[n])
      PROVE  /\ with[Ancestors[n][i]].busNumber \in {0, BusAt(n)}
             /\ Ancestors[n][i] \in HcdNodes => with[Ancestors[n][i]].busNumber = BusAt(n)
  <2>1. PICK a : a = Ancestors[n][i]
    OBVIOUS
  <2>2. a \in DOMAIN objects /\ with[a] = objects[a]
    BY <1>3, <2>1, AncestorsKnown
  <2>3. a \in UsbNodes /\ BusAt(a) = BusAt(n)
    BY <2>1, AncestorsKinds, ControllerOfAncestors DEF BusAt
  <2>4. CASE a \in HcdNodes
    <3>1. objects[a].busNumber = BusOf(a)
      BY <2>2, <2>4 DEF EnumerationInv, ObjectsInv, ControllerObject
    <3>2. BusAt(a) = BusOf(a)
      BY <2>4 DEF BusAt, ControllerOf
    <3> QED
      BY <2>1, <2>2, <2>3, <3>1, <3>2
  <2>5. CASE a \notin HcdNodes
    <3>1. a \in TreeNodes
      BY <2>3, <2>5 DEF UsbNodes
    <3>2. objects[a].busNumber \in {0, BusAt(a)}
      BY <2>2, <3>1 DEF EnumerationInv, ObjectsInv, NodeObject
    <3> QED
      BY <2>1, <2>2, <2>3, <2>5, <3>2
  <2> QED
    BY <2>4, <2>5
<1>7. PICK len : len = Len(Ancestors[n])
  OBVIOUS
<1>8. /\ len \in 1..7 /\ Ancestors[n][1] = p /\ Ancestors[n][len] \in HcdNodes
  BY <1>7, AncestorsKinds, AncestorsLength
<1>9. 1 \in 1..len /\ len \in 1..len
  BY <1>8
<1>10. CASE with[p].busNumber # 0
  BY <1>2, <1>5, <1>6, <1>7, <1>8, <1>9, <1>10
<1>11. CASE with[p].busNumber = 0
  <2>1. number = AncestorBus(with, n)
    BY <1>2, <1>11
  <2>2. len # 1
    BY <1>5, <1>6, <1>7, <1>8, <1>9, <1>11
  <2>3. len \in 2..len
    BY <1>8, <2>2
  <2>4. \A j \in 2..len : Ancestors[n][j] \in DOMAIN with
    <3>1. \A j \in 2..len : j \in 1..len
      OBVIOUS
    <3> QED
      BY <1>4, <1>7, <3>1, AncestorsKnown
  <2>5. with[Ancestors[n][len]].busNumber # 0
    BY <1>5, <1>6, <1>7, <1>8, <1>9
  <2>6. PICK i \in 2..len : /\ AncestorBus(with, n) = with[Ancestors[n][i]].busNumber
                            /\ AncestorBus(with, n) \in Nat \ {0}
    BY <1>4, <1>7, <2>3, <2>4, <2>5, AncestorBusIs
  <2>7. i \in 1..len
    OBVIOUS
  <2> QED
    BY <1>6, <1>7, <2>1, <2>6, <2>7
<1> QED
  BY <1>10, <1>11

(* On the bus, with its depth: 0 for root hubs only.                       *)
LEMMA OnBus ==
  ASSUME NEW n \in TreeNodes, NEW a, NEW o \in WinObject, NodeObject(n, o, a),
         NEW hops \in 0..255, hops < Len(Ancestors[n]), BusAt(n) \in Nat
  PROVE  /\ NodeObject(n, Numbered(o, BusAt(n), hops), a)
         /\ Numbered(o, BusAt(n), hops).path = o.path /\ Numbered(o, BusAt(n), hops).parts = o.parts
         /\ Numbered(o, BusAt(n), hops).address = o.address
         /\ Numbered(o, BusAt(n), hops).busNumber = BusAt(n)
         /\ Numbered(o, BusAt(n), hops).depth = hops
<1>1. PICK number : number = BusAt(n)
  OBVIOUS
<1>2. PICK d \in 0..255 : d = hops
  OBVIOUS
<1>3. PICK q : q = Numbered(o, number, d)
  OBVIOUS
<1>4. /\ q.busNumber = number /\ q.depth = d /\ q.address = o.address
      /\ q.path = o.path /\ q.api = o.api /\ q.configs = o.configs /\ q.parts = o.parts
  BY <1>3 DEF Numbered, WinObject
<1>5. q.busNumber = BusAt(n) /\ q.depth < Len(Ancestors[n])
  BY <1>1, <1>2, <1>4
<1>6. NodeObject(n, q, a)
  BY <1>4, <1>5 DEF NodeObject
<1> QED
  BY <1>1, <1>2, <1>3, <1>4, <1>6

LEMMA DepthIs ==
  ASSUME EnumerationInv, NEW n \in TreeNodes, NEW p \in DOMAIN objects, p = NodeParent[n],
         NEW hops, hops = (objects[p].depth + 1) % 256
  PROVE  hops \in 0..255 /\ hops < Len(Ancestors[n]) /\ (hops = 0 <=> RootHub(n))
<1>1. p \in UsbNodes /\ Len(Ancestors[n]) = Len(Ancestors[p]) + 1 /\ Len(Ancestors[p]) \in 0..7
  BY AncestorsLength
<1>2. objects[p] \in WinObject
  BY DEF EnumerationInv, EnumerationType, WinDevTypeOK
<1>3. PICK d, len : d = objects[p].depth /\ len = Len(Ancestors[p])
  OBVIOUS
<1>4. d \in 0..255 /\ hops = (d + 1) % 256 /\ len \in 0..7 /\ Len(Ancestors[n]) = len + 1
  BY <1>1, <1>2, <1>3 DEF WinObject
<1>5. CASE p \in HcdNodes
  <2>1. d = 255
    BY <1>3, <1>5 DEF EnumerationInv, ObjectsInv, ControllerObject
  <2>2. hops = 0
    BY <1>4, <2>1
  <2> QED
    BY <1>4, <1>5, <2>2 DEF RootHub
<1>6. CASE p \notin HcdNodes
  <2>1. p \in TreeNodes
    BY <1>1, <1>6 DEF UsbNodes
  <2>2. d < len
    BY <1>3, <2>1 DEF EnumerationInv, ObjectsInv, NodeObject
  <2>3. d + 1 \in 0..7
    <3>1. d \in Nat /\ len \in Nat /\ len <= 7
      BY <1>4
    <3> QED
      BY <2>2, <3>1
  <2>4. hops = d + 1
    <3>1. \A k \in 0..7 : k % 256 = k
      OBVIOUS
    <3> QED
      BY <1>4, <2>3, <3>1
  <2>5. hops \in 0..255 /\ hops < len + 1 /\ hops # 0
    <3>1. d \in Nat /\ len \in Nat
      BY <1>4
    <3> QED
      BY <2>2, <2>3, <2>4, <3>1
  <2> QED
    BY <1>4, <1>6, <2>5 DEF RootHub
<1> QED
  BY <1>5, <1>6

(* What the port tells is of the device itself, if it is still there.      *)
LEMMA AtPort ==
  ASSUME WinDevFaults = {}, EnumerationInv, NEW n \in TreeNodes, NEW p, p = NodeParent[n]
  PROVE  /\ Connected(p, NodePort[n]) = {n} \cap present /\ ConfigsCached = {TRUE}
         /\ "no_access" \notin WinDevFaults
         /\ n \in present /\ ~RootHub(n) => addressOf[n] # 0
<1>1. \A m \in TreeNodes : NodeParent[m] = NodeParent[n] /\ NodePort[m] = NodePort[n] => m = n
  BY WinDevAssumption
<1>2. Connected(p, NodePort[n]) = {n} \cap present
  BY <1>1 DEF Connected
<1> QED
  BY <1>2 DEF ConfigsCached, EnumerationInv, TreeInv

LEMMA ConnectInv ==
  ASSUME WinDevFaults = {}, EnumerationInv, NEW n \in TreeNodes, NEW p, p = NodeParent[n],
         p \in present, NEW D, NEW objs \in [D -> WinObject], n \in D, Connect(n, p, objs),
         NodeObject(n, objs[n], addressOf[n]), objs[n].busNumber = BusAt(n),
         objs[n].depth = 0 <=> RootHub(n)
  PROVE  /\ objects' \in [D -> WinObject] /\ \A m \in D \ {n} : objects'[m] = objs[m]
         /\ NodeObject(n, objects'[n], addressOf[n])
         /\ objects'[n].path = objs[n].path /\ objects'[n].parts = objs[n].parts
         /\ objs[n].address # 0 => objects'[n].address # 0
         /\ status' = "ok"
         /\ \/ discdevs' = discdevs \union {n} /\ objects'[n].address # 0
            \/ discdevs' = discdevs /\ n \notin present
<1> DEFINE Goal ==
         /\ objects' \in [D -> WinObject] /\ \A m \in D \ {n} : objects'[m] = objs[m]
         /\ NodeObject(n, objects'[n], addressOf[n])
         /\ objects'[n].path = objs[n].path /\ objects'[n].parts = objs[n].parts
         /\ objs[n].address # 0 => objects'[n].address # 0
         /\ status' = "ok"
         /\ \/ discdevs' = discdevs \union {n} /\ objects'[n].address # 0
            \/ discdevs' = discdevs /\ n \notin present
<1>1. status = "ok" /\ addressOf \in [TreeNodes -> 0..MaxAddress]
  BY DEF EnumerationInv, FilledInv, EnumerationType, WinDevTypeOK
<1>2. objects' \in [D -> WinObject]
  BY <1>1, ConnectType
<1>3. PICK o \in WinObject : o = objs[n]
  OBVIOUS
<1>4. \/ objects' = objs /\ Discovers(n) /\ objs[n].address # 0
      \/ RootHub(n) /\ objects' = [objs EXCEPT ![n].address = 255] /\ Discovers(n)
      \/ ~RootHub(n) /\ Connected(p, NodePort[n]) = {} /\ objects' = objs /\ UNCHANGED <<discdevs, status>>
      \/ /\ ~RootHub(n) /\ Discovers(n)
         /\ \E m \in Connected(p, NodePort[n]), read \in ConfigsCached :
              objects' = [objs EXCEPT ![n].address = addressOf[m], ![n].configs = read]
  <2>1. ~(p \notin present \/ "no_access" \in WinDevFaults)
    BY AtPort
  <2>2. PICK address, hops : address = objs[n].address /\ hops = objs[n].depth
    OBVIOUS
  <2>3. hops = 0 <=> RootHub(n)
    BY <2>2
  <2>4. \/ objects' = objs /\ Discovers(n) /\ address # 0
        \/ hops = 0 /\ objects' = [objs EXCEPT ![n].address = 255] /\ Discovers(n)
        \/ hops # 0 /\ Connected(p, NodePort[n]) = {} /\ objects' = objs /\ UNCHANGED <<discdevs, status>>
        \/ /\ hops # 0 /\ Discovers(n)
           /\ \E m \in Connected(p, NodePort[n]), read \in ConfigsCached :
                objects' = [objs EXCEPT ![n].address = addressOf[m], ![n].configs = read]
    <3>1. \/ objs[n].address # 0 /\ objects' = objs /\ Discovers(n)
          \/ /\ objs[n].address = 0 /\ objs[n].depth = 0
             /\ objects' = [objs EXCEPT ![n].address = 255] /\ Discovers(n)
          \/ /\ objs[n].address = 0 /\ objs[n].depth # 0
             /\ \/ (p \notin present \/ "no_access" \in WinDevFaults) /\ GenFails(objs)
                \/ /\ p \in present /\ Connected(p, NodePort[n]) = {}
                   /\ objects' = objs /\ UNCHANGED <<discdevs, status>>
                \/ \E m \in Connected(p, NodePort[n]), read \in ConfigsCached :
                     /\ objects' = [objs EXCEPT ![n].address = addressOf[m], ![n].configs = read]
                     /\ Discovers(n)
      BY ConnectIs
    <3>2. CASE objs[n].address # 0 /\ objects' = objs /\ Discovers(n)
      BY <2>2, <3>2
    <3>3. CASE objs[n].depth = 0 /\ objects' = [objs EXCEPT ![n].address = 255] /\ Discovers(n)
      BY <2>2, <3>3
    <3>4. CASE /\ objs[n].depth # 0 /\ Connected(p, NodePort[n]) = {}
               /\ objects' = objs /\ UNCHANGED <<discdevs, status>>
      BY <2>2, <3>4
    <3>5. CASE /\ objs[n].depth # 0
               /\ \E m \in Connected(p, NodePort[n]), read \in ConfigsCached :
                    /\ objects' = [objs EXCEPT ![n].address = addressOf[m], ![n].configs = read]
                    /\ Discovers(n)
      <4>1. PICK m \in Connected(p, NodePort[n]), read \in ConfigsCached :
              /\ objects' = [objs EXCEPT ![n].address = addressOf[m], ![n].configs = read]
              /\ Discovers(n)
        BY <3>5
      <4>2. \E k \in Connected(p, NodePort[n]), r \in ConfigsCached :
              objects' = [objs EXCEPT ![n].address = addressOf[k], ![n].configs = r]
        BY <4>1
      <4> QED
        BY <2>2, <3>5, <4>1, <4>2
    <3> QED
      BY <2>1, <3>1, <3>2, <3>3, <3>4, <3>5
  <2> QED
    BY <2>2, <2>3, <2>4
<1>5. CASE objects' = objs /\ Discovers(n) /\ objs[n].address # 0
  BY <1>1, <1>2, <1>3, <1>5 DEF Discovers
<1>6. CASE ~RootHub(n) /\ Connected(p, NodePort[n]) = {} /\ objects' = objs /\ UNCHANGED <<discdevs, status>>
  <2>1. n \notin present
    BY <1>6, AtPort
  <2> QED
    BY <1>1, <1>2, <1>6, <2>1
<1>7. ASSUME Discovers(n), NEW q, objects' = [objs EXCEPT ![n] = q],
             q.busNumber = o.busNumber, q.depth = o.depth, q.path = o.path, q.api = o.api,
             q.parts = o.parts, q.address # 0,
             RootHub(n) => q.address = 255, ~RootHub(n) => q.address = addressOf[n] /\ q.configs
      PROVE  Goal
  <2>1. NodeObject(n, q, addressOf[n])
    <3>1. NodeObject(n, o, addressOf[n]) /\ o.busNumber = BusAt(n)
      BY <1>3
    <3> QED
      BY <1>7, <3>1 DEF NodeObject
  <2>2. objects'[n] = q /\ \A m \in D \ {n} : objects'[m] = objs[m]
    BY <1>7
  <2>3. status' = "ok" /\ discdevs' = discdevs \union {n}
    BY <1>1, <1>7 DEF Discovers
  <2> QED
    BY <1>2, <1>3, <1>7, <2>1, <2>2, <2>3
<1>8. CASE RootHub(n) /\ objects' = [objs EXCEPT ![n].address = 255] /\ Discovers(n)
  <2>1. PICK q : q = [o EXCEPT !.address = 255]
    OBVIOUS
  <2>2. /\ q.busNumber = o.busNumber /\ q.depth = o.depth /\ q.path = o.path /\ q.api = o.api
        /\ q.parts = o.parts /\ q.address = 255 /\ q.address # 0
    BY <2>1 DEF WinObject
  <2>3. objects' = [objs EXCEPT ![n] = q]
    BY <1>3, <1>8, <2>1
  <2> HIDE DEF Goal
  <2>4. Goal
    BY <1>7, <1>8, <2>2, <2>3
  <2> QED
    BY <2>4 DEF Goal
<1>9. CASE /\ ~RootHub(n) /\ Discovers(n)
           /\ \E m \in Connected(p, NodePort[n]), read \in ConfigsCached :
                objects' = [objs EXCEPT ![n].address = addressOf[m], ![n].configs = read]
  <2>1. PICK m \in Connected(p, NodePort[n]), read \in ConfigsCached :
          objects' = [objs EXCEPT ![n].address = addressOf[m], ![n].configs = read]
    BY <1>9
  <2>2. m = n /\ n \in present /\ read = TRUE
    <3>1. Connected(p, NodePort[n]) = {n} \cap present
      BY AtPort
    <3>2. ConfigsCached = {TRUE}
      BY AtPort
    <3>3. m \in {n} \cap present
      BY <3>1
    <3>4. read \in {TRUE}
      BY <3>2
    <3> QED
      BY <3>3, <3>4
  <2>3. PICK a : a = addressOf[n]
    OBVIOUS
  <2>4. a # 0
    BY <1>9, <2>2, <2>3, AtPort
  <2>5. PICK q : q = [o EXCEPT !.address = a, !.configs = TRUE]
    OBVIOUS
  <2>6. objects' = [objs EXCEPT ![n] = q]
    BY <1>3, <2>1, <2>2, <2>3, <2>5
  <2>7. /\ q.busNumber = o.busNumber /\ q.depth = o.depth /\ q.path = o.path /\ q.api = o.api
        /\ q.parts = o.parts /\ q.address = a /\ q.configs
    BY <2>5 DEF WinObject
  <2> HIDE DEF Goal
  <2>8. Goal
    BY ZenonT(30), <1>7, <1>9, <2>3, <2>4, <2>6, <2>7
  <2> QED
    BY <2>8 DEF Goal
<1> QED
  BY <1>4, <1>5, <1>6, <1>8, <1>9

LEMMA InitDeviceInv ==
  ASSUME WinDevFaults = {}, EnumerationInv, pass = "gen", NEW n \in TreeNodes, n \in todo,
         NEW p, p = NodeParent[n], InitDevice(n, p), UNCHANGED addressOf
  PROVE  /\ ObjectsInv' /\ status' = "ok"
         /\ \A m \in DOMAIN objects :
              /\ m \in DOMAIN objects' /\ objects[m].parts \subseteq objects'[m].parts
              /\ objects[m].address # 0 => objects'[m].address # 0
              /\ objects[m].path => objects'[m].path
         /\ \/ discdevs' = discdevs \union {n} /\ objects'[n].address # 0
            \/ discdevs' = discdevs /\ n \notin present
<1>1. objects \in [DOMAIN objects -> WinObject]
  BY DEF EnumerationInv, EnumerationType, WinDevTypeOK
<1>2. p \in DOMAIN objects /\ p \in present
  BY AncestorsKnown
<1>3. p # n /\ p \in UsbNodes
  BY TreeOnHubs DEF UsbNodes
<1>4. PICK D : D = DOMAIN objects \union {n}
  OBVIOUS
<1>5. PICK with : with = With(n)
  OBVIOUS
<1>6. /\ with \in [D -> WinObject] /\ n \in D /\ p \in D
      /\ \A m \in DOMAIN objects : with[m] = objects[m]
      /\ n \notin DOMAIN objects => with[n] = NewObject
  BY <1>1, <1>2, <1>4, <1>5, WithType
<1>7. BusAt(n) \in Nat \ {0} /\ BusAt(p) = BusAt(n)
  <2>1. PICK number : number = IF With(n)[p].busNumber # 0 THEN With(n)[p].busNumber
                               ELSE AncestorBus(With(n), n)
    OBVIOUS
  <2>2. number = BusAt(n) /\ number \in Nat \ {0}
    BY <2>1, BusFound
  <2> QED
    BY <2>2, ControllerOfParent DEF BusAt
<1>8. PICK hops : hops = (objects[p].depth + 1) % 256
  OBVIOUS
<1>9. hops \in 0..255 /\ hops < Len(Ancestors[n]) /\ (hops = 0 <=> RootHub(n))
  BY <1>2, <1>8, DepthIs
<1>10. PICK objs \in [D -> WinObject] :
         /\ Connect(n, p, objs)
         /\ \A m \in DOMAIN objects \ {n, p} : objs[m] = objects[m]
         /\ objs[p] = Numbered(objects[p], BusAt(n), objects[p].depth)
         /\ objs[n] = Numbered(with[n], BusAt(n), hops)
  <2>1. PICK number \in Nat :
           /\ number = IF With(n)[p].busNumber # 0 THEN With(n)[p].busNumber
                       ELSE AncestorBus(With(n), n)
           /\ number = 0 => GenFails(With(n))
           /\ number # 0 => \E objs \in [DOMAIN objects \union {n} -> WinObject] :
                /\ Connect(n, p, objs)
                /\ \A m \in DOMAIN objects \ {n, p} : objs[m] = objects[m]
                /\ n # p => objs[p] = Numbered(objects[p], number, objects[p].depth)
                /\ n # p => objs[n] = Numbered(With(n)[n], number, (objects[p].depth + 1) % 256)
    BY ZenonT(60), <1>1, <1>2, InitDeviceIs
  <2>2. number = BusAt(n)
    BY <2>1, BusFound
  <2>3. \E objs \in [D -> WinObject] :
         /\ Connect(n, p, objs)
         /\ \A m \in DOMAIN objects \ {n, p} : objs[m] = objects[m]
         /\ n # p => objs[p] = Numbered(objects[p], BusAt(n), objects[p].depth)
         /\ n # p => objs[n] = Numbered(with[n], BusAt(n), hops)
    BY ZenonT(30), <1>4, <1>5, <1>7, <1>8, <2>1, <2>2
  <2> QED
    BY <1>3, <2>3
<1>11. with[n] \in WinObject /\ NodeObject(n, with[n], addressOf[n])
  <2>1. CASE n \in DOMAIN objects
    BY <1>6, <2>1 DEF EnumerationInv, ObjectsInv
  <2>2. CASE n \notin DOMAIN objects
    BY <1>6, <2>2, NewNodeObject
  <2> QED
    BY <2>1, <2>2
<1>12. /\ NodeObject(n, objs[n], addressOf[n]) /\ objs[n].busNumber = BusAt(n)
       /\ objs[n].depth = hops /\ objs[n].path = with[n].path /\ objs[n].parts = with[n].parts
       /\ objs[n].address = with[n].address
  <2>1. PICK q \in WinObject : q = with[n]
    BY <1>11
  <2>2. NodeObject(n, q, addressOf[n]) /\ BusAt(n) \in Nat /\ hops < Len(Ancestors[n]) /\ hops \in 0..255
    BY <1>7, <1>9, <1>11, <2>1
  <2>3. /\ NodeObject(n, Numbered(q, BusAt(n), hops), addressOf[n])
        /\ Numbered(q, BusAt(n), hops).path = q.path /\ Numbered(q, BusAt(n), hops).parts = q.parts
        /\ Numbered(q, BusAt(n), hops).address = q.address
        /\ Numbered(q, BusAt(n), hops).busNumber = BusAt(n)
        /\ Numbered(q, BusAt(n), hops).depth = hops
    BY <2>2, OnBus
  <2> QED
    BY <1>10, <2>1, <2>3
<1>13. /\ objects' \in [D -> WinObject] /\ \A m \in D \ {n} : objects'[m] = objs[m]
       /\ NodeObject(n, objects'[n], addressOf[n])
       /\ objects'[n].path = objs[n].path /\ objects'[n].parts = objs[n].parts
       /\ objs[n].address # 0 => objects'[n].address # 0
       /\ status' = "ok"
       /\ \/ discdevs' = discdevs \union {n} /\ objects'[n].address # 0
          \/ discdevs' = discdevs /\ n \notin present
  BY <1>2, <1>6, <1>9, <1>10, <1>12, ConnectInv
<1>14. /\ p \in TreeNodes => NodeObject(p, objs[p], addressOf[p])
       /\ p \in HcdNodes => ControllerObject(p, objs[p])
       /\ objs[p].path = objects[p].path /\ objs[p].parts = objects[p].parts
       /\ objs[p].address = objects[p].address
  <2>1. objects[p] \in WinObject
    BY <1>1, <1>2
  <2>2. PICK o \in WinObject : o = objects[p]
    BY <2>1
  <2>3. o.depth \in 0..255
    BY DEF WinObject
  <2>4. objs[p] = Numbered(o, BusAt(p), o.depth)
    BY <1>7, <1>10, <2>2
  <2>5. CASE p \in TreeNodes
    <3>1. NodeObject(p, o, addressOf[p])
      BY <1>2, <2>2, <2>5 DEF EnumerationInv, ObjectsInv
    <3>2. o.depth < Len(Ancestors[p])
      BY <3>1 DEF NodeObject
    <3>3. p \notin HcdNodes
      BY <2>5, AncestorsKinds
    <3>4. BusAt(p) \in Nat
      BY <1>7
    <3>5. /\ NodeObject(p, Numbered(o, BusAt(p), o.depth), addressOf[p])
          /\ Numbered(o, BusAt(p), o.depth).path = o.path
          /\ Numbered(o, BusAt(p), o.depth).parts = o.parts
          /\ Numbered(o, BusAt(p), o.depth).address = o.address
      <4>1. PICK d, q, a : d = o.depth /\ q = p /\ a = addressOf[p]
        OBVIOUS
      <4>2. /\ q \in TreeNodes /\ NodeObject(q, o, a) /\ d < Len(Ancestors[q]) /\ BusAt(q) \in Nat
            /\ d \in 0..255
        BY <2>3, <2>5, <3>1, <3>2, <3>4, <4>1
      <4>3. /\ NodeObject(q, Numbered(o, BusAt(q), d), a)
            /\ Numbered(o, BusAt(q), d).path = o.path /\ Numbered(o, BusAt(q), d).parts = o.parts
            /\ Numbered(o, BusAt(q), d).address = o.address
        BY ZenonT(30), <4>2, OnBus
      <4> QED
        BY <4>1, <4>3
    <3> QED
      BY <2>2, <2>4, <2>5, <3>3, <3>5
  <2>6. CASE p \notin TreeNodes
    <3>1. p \in HcdNodes
      BY <1>3, <2>6 DEF UsbNodes
    <3>2. ControllerObject(p, o)
      BY <1>2, <2>2, <3>1 DEF EnumerationInv, ObjectsInv
    <3>3. PICK q : q = objs[p]
      OBVIOUS
    <3>4. /\ q.busNumber = BusAt(p) /\ q.depth = o.depth /\ q.api = o.api
          /\ q.path = o.path /\ q.parts = o.parts /\ q.address = o.address
      BY <2>4, <3>3 DEF Numbered, WinObject
    <3>5. BusAt(p) = BusOf(p)
      BY <3>1 DEF BusAt, ControllerOf
    <3>6. ControllerObject(p, q)
      BY <3>2, <3>4, <3>5 DEF ControllerObject
    <3> QED
      BY <2>2, <2>6, <3>3, <3>4, <3>6
  <2> QED
    BY <2>5, <2>6
<1>15. DOMAIN objects' = D
  BY <1>13
<1>16. ObjectsInv'
  <2> SUFFICES ASSUME NEW m \in DOMAIN objects'
               PROVE  /\ m \in TreeNodes => NodeObject(m, objects'[m], addressOf'[m])
                      /\ m \in HcdNodes => ControllerObject(m, objects'[m])
    BY DEF ObjectsInv
  <2>1. CASE m = n
    <3>1. n \notin HcdNodes
      BY AncestorsKinds
    <3> QED
      BY <1>13, <2>1, <3>1
  <2>2. CASE m = p
    <3>1. objects'[p] = objs[p]
      BY <1>3, <1>6, <1>13
    <3> QED
      BY <1>14, <2>2, <3>1
  <2>3. CASE m # n /\ m # p
    <3>1. m \in DOMAIN objects /\ objects'[m] = objects[m]
      BY <1>4, <1>10, <1>13, <1>15, <2>3
    <3> QED
      BY <3>1 DEF EnumerationInv, ObjectsInv
  <2> QED
    BY <2>1, <2>2, <2>3
<1>17. ASSUME NEW m \in DOMAIN objects
       PROVE  /\ m \in DOMAIN objects' /\ objects[m].parts \subseteq objects'[m].parts
              /\ objects[m].address # 0 => objects'[m].address # 0
              /\ objects[m].path => objects'[m].path
  <2>1. m \in DOMAIN objects' /\ m \in D
    BY <1>4, <1>15
  <2>2. CASE m = n
    <3>1. with[n] = objects[n]
      BY <1>6, <2>2
    <3> QED
      BY <1>12, <1>13, <2>1, <2>2, <3>1
  <2>3. CASE m = p
    BY <1>3, <1>13, <1>14, <2>1, <2>3
  <2>4. CASE m # n /\ m # p
    BY <1>10, <1>13, <2>1, <2>4
  <2> QED
    BY <2>2, <2>3, <2>4
<1> QED
  BY <1>13, <1>16, <1>17

LEMMA GenPassInv ==
  ASSUME WinDevFaults = {}, EnumerationInv, NEW n \in TreeNodes, GenPass(n)
  PROVE  EnumerationInv'
<1>1. EnumerationType'
  BY GenPassType DEF EnumerationInv
<1>2. /\ UNCHANGED <<busVars, pass, lists>> /\ pass = "gen" /\ todo' = todo \ {n} /\ n \in todo
  BY DEF GenPass, Visit
<1>3. PICK p : p = NodeParent[n]
  OBVIOUS
<1>4. p \in DOMAIN objects /\ p \in present /\ objects[p].api = "hub"
  BY <1>2, <1>3, AncestorsKnown
<1>5. PICK faces, face : faces = KnownAncestors(n) /\ face = Ancestors[n][Min(faces)]
  OBVIOUS
<1>6. faces # {} /\ face = p
  <2>1. /\ DOMAIN Ancestors[n] = 1..Len(Ancestors[n]) /\ Len(Ancestors[n]) \in 1..7
        /\ Ancestors[n][1] = p
    BY <1>3, AncestorsLength, AncestorsKinds
  <2>2. 1 \in faces /\ faces \in SUBSET Nat /\ \A i \in faces : 1 <= i
    BY <1>4, <1>5, <2>1 DEF KnownAncestors
  <2>3. PICK least : least = Min(faces)
    OBVIOUS
  <2>4. least \in faces /\ least <= 1
    BY <2>2, <2>3, LeastElement
  <2>5. least = 1
    <3>1. least \in Nat /\ 1 <= least
      BY <2>2, <2>4
    <3> QED
      BY <2>4, <3>1
  <2> QED
    BY <1>5, <2>1, <2>2, <2>3, <2>5
<1>7. InitDevice(n, p) \/ (n \notin present /\ Ignored)
  BY <1>4, <1>5, <1>6 DEF GenPass
<1>8. CASE InitDevice(n, p)
  <2>1. /\ ObjectsInv' /\ status' = "ok"
        /\ \A m \in DOMAIN objects :
             /\ m \in DOMAIN objects' /\ objects[m].parts \subseteq objects'[m].parts
             /\ objects[m].address # 0 => objects'[m].address # 0
             /\ objects[m].path => objects'[m].path
        /\ \/ discdevs' = discdevs \union {n} /\ objects'[n].address # 0
           \/ discdevs' = discdevs /\ n \notin present
    BY <1>2, <1>3, <1>8, InitDeviceInv DEF busVars
  <2>2. ControllersInv'
    BY <1>2, <2>1, ControllersStay
  <2>3. steady \subseteq present
    BY DEF EnumerationInv, EnumerationType, WinDevTypeOK
  <2> QED
    BY <1>1, <1>2, <2>1, <2>2, <2>3, PassGoesOn
<1>9. CASE n \notin present /\ Ignored
  <2>1. objects' = objects /\ discdevs' = discdevs /\ status' = status
    BY <1>9 DEF Ignored
  <2>2. ObjectsInv'
    BY <1>2, <2>1 DEF EnumerationInv, ObjectsInv, busVars
  <2>3. ControllersInv'
    BY <1>2, <2>1, ControllersStay
  <2>4. status' = "ok"
    BY <2>1 DEF EnumerationInv, FilledInv
  <2>5. steady \subseteq present
    BY DEF EnumerationInv, EnumerationType, WinDevTypeOK
  <2> QED
    BY <1>1, <1>2, <1>9, <2>1, <2>2, <2>3, <2>4, <2>5, PassGoesOn
<1> QED
  BY <1>7, <1>8, <1>9

LEMMA FirstControllers ==
  ASSUME NEW k \in 0..Len(HostControllers)
  PROVE  Cardinality({HostControllers[i] : i \in 1..k}) = k
<1> DEFINE first == {HostControllers[i] : i \in 1..k}
           f == [i \in 1..k |-> HostControllers[i]]
<1>1. \A i \in 1..k : i \in 1..Len(HostControllers)
  BY BusesAre
<1>2. \A i, j \in 1..k : HostControllers[i] = HostControllers[j] => i = j
  <2> SUFFICES ASSUME NEW i \in 1..k, NEW j \in 1..k, HostControllers[i] = HostControllers[j]
               PROVE  i = j
    OBVIOUS
  <2>1. BusOf(HostControllers[i]) = i /\ BusOf(HostControllers[j]) = j
    BY <1>1, BusesAre
  <2> QED
    BY <2>1
<1>3. f \in Bijection(1..k, first)
  <2>1. f \in [1..k -> first] /\ \A e \in first : \E i \in 1..k : f[i] = e
    OBVIOUS
  <2>2. \A i, j \in 1..k : f[i] = f[j] => i = j
    BY <1>2
  <2> HIDE DEF f, first
  <2> QED
    BY <2>1, <2>2 DEF Bijection, Injection, Surjection, IsInjective
<1>4. k \in Nat
  BY BusesAre
<1>5. IsFiniteSet(1..k) /\ Cardinality(1..k) = k
  BY <1>4, FS_Interval
<1> HIDE DEF f, first
<1>6. Cardinality(first) = Cardinality(1..k)
  BY <1>3, <1>5, FS_Bijection DEF ExistsBijection
<1> QED
  BY <1>5, <1>6 DEF first

LEMMA HcdPassInv ==
  ASSUME EnumerationInv, NEW c \in HcdNodes, HcdPass(c)
  PROVE  EnumerationInv'
<1>1. EnumerationType'
  BY HcdPassType DEF EnumerationInv
<1>2. /\ UNCHANGED <<busVars, pass, lists>> /\ pass = "hcd" /\ todo' = todo \ {c} /\ c \in todo
      /\ UNCHANGED <<discdevs, status>> /\ \A other \in todo \ {c} : BusOf(c) < BusOf(other)
  BY DEF HcdPass, Visit
<1>3. PICK len : len = Len(HostControllers)
  OBVIOUS
<1>4. PICK k \in 0..len :
        /\ unrefList = DOMAIN objects \cap HcdNodes
        /\ DOMAIN objects \cap HcdNodes = {HostControllers[i] : i \in 1..k}
        /\ todo = {HostControllers[i] : i \in (k + 1)..len}
  BY <1>2, <1>3 DEF EnumerationInv, ControllersInv
<1>5. /\ len \in 0..255
      /\ \A i \in 1..len : HostControllers[i] \in HcdNodes /\ BusOf(HostControllers[i]) = i
  BY <1>3, BusesAre
<1>6. k + 1 \in 1..len /\ c = HostControllers[k + 1] /\ BusOf(c) = k + 1
  <2>1. PICK j \in (k + 1)..len : c = HostControllers[j]
    BY <1>2, <1>4
  <2>2. j \in 1..len /\ k + 1 \in 1..len /\ k + 1 \in (k + 1)..len /\ k + 1 <= j
    BY <1>4, <1>5
  <2>3. BusOf(c) = j /\ BusOf(HostControllers[k + 1]) = k + 1 /\ HostControllers[k + 1] \in todo
    BY <1>4, <1>5, <2>1, <2>2
  <2>4. HostControllers[k + 1] # c => j < k + 1
    BY <1>2, <2>3
  <2>5. HostControllers[k + 1] = c
    BY <2>2, <2>4
  <2> QED
    BY <2>2, <2>3, <2>5
<1>7. c \notin DOMAIN objects
  <2> SUFFICES ASSUME c \in DOMAIN objects PROVE FALSE
    OBVIOUS
  <2>1. PICK i \in 1..k : c = HostControllers[i]
    BY <1>4
  <2>2. i \in 1..len /\ i # k + 1
    BY <1>4, <1>5
  <2> QED
    BY <1>5, <1>6, <2>1, <2>2
<1>8. objects \in [DOMAIN objects -> WinObject]
  BY DEF EnumerationInv, EnumerationType, WinDevTypeOK
<1>9. PICK with : with = With(c)
  OBVIOUS
<1>10. PICK D : D = DOMAIN objects \union {c}
  OBVIOUS
<1>11. with \in [D -> WinObject] /\ c \in D /\ \A m \in DOMAIN objects : with[m] = objects[m]
  BY <1>8, <1>9, <1>10, WithType
<1>12. PICK number : number = 1 + Cardinality(unrefList)
  OBVIOUS
<1>13. number = k + 1
  <2>1. Cardinality(unrefList) = k
    BY <1>3, <1>4, FirstControllers
  <2> QED
    BY <1>4, <1>12, <2>1
<1>14. PICK w \in WinObject : w = with[c]
  BY <1>11
<1>15. PICK o : o = [w EXCEPT !.busNumber = number, !.address = 0, !.depth = 255,
                              !.api = "hub", !.path = TRUE]
  OBVIOUS
<1>16. o.busNumber = number /\ o.depth = 255 /\ o.api = "hub"
  BY <1>15 DEF WinObject
<1>17. objects' = [with EXCEPT ![c] = o]
  <2>1. objects' = [with EXCEPT ![c].busNumber = number, ![c].address = 0, ![c].depth = 255,
                                ![c].api = "hub", ![c].path = TRUE]
    BY <1>9, <1>12 DEF HcdPass, HcdHubDepth
  <2> QED
    BY ZenonT(30), <1>11, <1>14, <1>15, <2>1
<1>18. /\ DOMAIN objects' = D /\ objects'[c] = o
       /\ \A m \in DOMAIN objects : objects'[m] = objects[m]
  BY <1>7, <1>10, <1>11, <1>17
<1>19. ObjectsInv'
  <2> SUFFICES ASSUME NEW m \in DOMAIN objects'
               PROVE  /\ m \in TreeNodes => NodeObject(m, objects'[m], addressOf'[m])
                      /\ m \in HcdNodes => ControllerObject(m, objects'[m])
    BY DEF ObjectsInv
  <2>1. CASE m = c
    <3>1. c \notin TreeNodes
      BY AncestorsKinds
    <3>2. ControllerObject(c, o)
      BY <1>6, <1>13, <1>16 DEF ControllerObject
    <3> QED
      BY <1>18, <2>1, <3>1, <3>2
  <2>2. CASE m # c
    <3>1. m \in DOMAIN objects /\ objects'[m] = objects[m]
      BY <1>10, <1>18, <2>2
    <3> QED
      BY <1>2, <3>1 DEF EnumerationInv, ObjectsInv, busVars
  <2> QED
    BY <2>1, <2>2
<1>20. ControllersInv'
  <2>1. unrefList' = unrefList \union {c}
    BY <1>7 DEF HcdPass, Allocate
  <2>2. DOMAIN objects' \cap HcdNodes = (DOMAIN objects \cap HcdNodes) \union {c}
    BY <1>10, <1>18
  <2>3. {HostControllers[i] : i \in 1..(k + 1)} = {HostControllers[i] : i \in 1..k} \union {c}
    <3>1. 1..(k + 1) = (1..k) \union {k + 1}
      BY <1>4
    <3> QED
      BY <1>6, <3>1
  <2>4. todo' = {HostControllers[i] : i \in (k + 2)..len}
    <3>1. (k + 1)..len = ((k + 2)..len) \union {k + 1}
      BY <1>4, <1>6
    <3>2. \A i \in (k + 2)..len : HostControllers[i] # c
      <4> SUFFICES ASSUME NEW i \in (k + 2)..len, HostControllers[i] = c PROVE FALSE
        OBVIOUS
      <4>1. i \in 1..len /\ i # k + 1
        BY <1>4
      <4> QED
        BY <1>5, <1>6, <4>1
    <3>3. todo = {HostControllers[i] : i \in (k + 2)..len} \union {c}
      BY <1>4, <1>6, <3>1
    <3> QED
      BY <1>2, <3>2, <3>3
  <2>5. PICK j : j = k + 1
    OBVIOUS
  <2>6. j \in 0..len /\ j + 1 = k + 2
    BY <1>4, <1>5, <1>6, <2>5
  <2>7. /\ unrefList' = DOMAIN objects' \cap HcdNodes
        /\ DOMAIN objects' \cap HcdNodes = {HostControllers[i] : i \in 1..j}
        /\ todo' = {HostControllers[i] : i \in (j + 1)..len}
    BY <1>4, <2>1, <2>2, <2>3, <2>4, <2>5, <2>6
  <2>8. pass' = "hcd"
    BY <1>2
  <2> QED
    BY <1>3, <2>6, <2>7, <2>8 DEF ControllersInv
<1>21. status' = "ok"
  BY <1>2 DEF EnumerationInv, FilledInv
<1>22. \A n \in DOMAIN objects :
           /\ n \in DOMAIN objects' /\ objects[n].parts \subseteq objects'[n].parts
           /\ objects[n].address # 0 => objects'[n].address # 0
           /\ objects[n].path => objects'[n].path
  BY <1>10, <1>18
<1> QED
  BY <1>1, <1>2, <1>19, <1>20, <1>21, <1>22, PassGoesOn

-----------------------------------------------------------------------------
(* What comes and goes meanwhile.                                          *)

LEMMA BelowIs ==
  ASSUME NEW n \in TreeNodes
  PROVE  /\ \A k \in TreeNodes : NodeParent[k] \in Below(n) => k \in Below(n)
         /\ ~Hub(n) => \A k \in TreeNodes : NodeParent[k] \notin Below(n)
         /\ \A k \in TreeNodes : RootHub(k) /\ k \in Below(n) => k = n
         /\ Below(n) \cap HcdNodes = {}
<1>1. ASSUME NEW k \in TreeNodes
      PROVE  Range(Ancestors[k]) = {Ancestors[k][i] : i \in 1..Len(Ancestors[k])}
  <2>1. DOMAIN Ancestors[k] = 1..Len(Ancestors[k])
    BY AncestorsLength
  <2> QED
    BY <2>1 DEF Range
<1>2. TreeNodes \cap HcdNodes = {}
  BY WinDevAssumption
<1>3. ASSUME NEW k \in TreeNodes, NodeParent[k] \in Below(n) PROVE k \in Below(n) /\ Hub(n)
  <2>1. PICK p : p = NodeParent[k]
    OBVIOUS
  <2>2. p \in UsbNodes /\ Len(Ancestors[k]) = Len(Ancestors[p]) + 1 /\ Len(Ancestors[p]) \in 0..7
        /\ Ancestors[k][1] = p
        /\ \A i \in 2..Len(Ancestors[k]) : Ancestors[k][i] = Ancestors[p][i - 1]
    BY <2>1, AncestorsLength
  <2>3. CASE p = n
    <3>1. 1 \in 1..Len(Ancestors[k])
      BY <2>2
    <3>2. n \in Range(Ancestors[k])
      BY <1>1, <2>2, <2>3, <3>1
    <3>3. Hub(n)
      BY <2>1, <2>3, TreeOnHubs
    <3> QED
      BY <3>2, <3>3 DEF Below
  <2>4. CASE p # n
    <3>1. p \in TreeNodes /\ n \in Range(Ancestors[p])
      BY <1>3, <2>1, <2>4 DEF Below
    <3>2. PICK j \in 1..Len(Ancestors[p]) : n = Ancestors[p][j]
      BY <1>1, <3>1
    <3>3. j + 1 \in 2..Len(Ancestors[k]) /\ j + 1 \in 1..Len(Ancestors[k]) /\ (j + 1) - 1 = j
      BY <2>2
    <3>4. Ancestors[k][j + 1] = n
      BY <2>2, <3>2, <3>3
    <3>5. n \in Range(Ancestors[k])
      BY <1>1, <3>3, <3>4
    <3>6. Hub(n)
      BY <3>1, <3>2, AncestorsKinds DEF Hub
    <3> QED
      BY <3>5, <3>6 DEF Below
  <2> QED
    BY <2>3, <2>4
<1>4. ASSUME NEW k \in TreeNodes, RootHub(k), k \in Below(n) PROVE k = n
  <2> SUFFICES ASSUME n \in Range(Ancestors[k]) PROVE FALSE
    BY <1>4 DEF Below
  <2>1. Len(Ancestors[k]) = 1 /\ Ancestors[k][1] = NodeParent[k]
    BY <1>4, TreeOnHubs, AncestorsLength
  <2>2. PICK i \in 1..1 : n = Ancestors[k][i]
    BY <1>1, <2>1
  <2>3. i = 1
    OBVIOUS
  <2>4. n = NodeParent[k]
    BY <2>1, <2>2, <2>3
  <2> QED
    BY <1>2, <1>4, <2>4 DEF RootHub
<1>5. Below(n) \subseteq TreeNodes
  BY DEF Below
<1> QED
  BY <1>2, <1>3, <1>4, <1>5

LEMMA UnplugNodeInv ==
  ASSUME WinDevFaults = {}, EnumerationInv, NEW n \in UsbNodes, UnplugNode(n)
  PROVE  EnumerationInv'
<1>1. EnumerationType'
  BY PlugType DEF EnumerationInv
<1>2. n \in TreeNodes /\ ~RootHub(n) /\ (Hub(n) => pass = "none")
  BY DEF UnplugNode, UsbNodes, Hub
<1>3. /\ present' = present \ Below(n) /\ steady' \subseteq steady
      /\ UNCHANGED <<addressOf, objects, pass, todo, unrefList, discdevs, status, lists>>
  BY DEF UnplugNode
<1>4. /\ \A k \in TreeNodes : NodeParent[k] \in Below(n) => k \in Below(n)
      /\ ~Hub(n) => \A k \in TreeNodes : NodeParent[k] \notin Below(n)
      /\ \A k \in TreeNodes : RootHub(k) /\ k \in Below(n) => k = n
      /\ Below(n) \cap HcdNodes = {}
  BY <1>2, BelowIs
<1>5. TreeInv'
  BY <1>2, <1>3, <1>4 DEF EnumerationInv, TreeInv
<1>6. ObjectsInv' /\ FilledInv' /\ ControllersInv'
  BY <1>3 DEF EnumerationInv, ObjectsInv, FilledInv, ControllersInv
<1>7. \A m : (HasPath(m))' = HasPath(m) /\ (HasParts(m))' = HasParts(m)
  BY <1>3 DEF HasPath, HasParts
<1>8. HubsInv' /\ DriversInv' /\ PartsInv'
  BY <1>3, <1>7 DEF EnumerationInv, HubsInv, DriversInv, PartsInv
<1>9. DiscoveryInv'
  <2>1. ASSUME pass = "gen", NEW k \in todo PROVE k \in TreeNodes /\ NodeParent[k] \in present'
    <3>1. k \in TreeNodes /\ NodeParent[k] \in present
      BY <2>1 DEF EnumerationInv, DiscoveryInv
    <3>2. ~Hub(n)
      BY <1>2, <2>1
    <3> QED
      BY <1>3, <1>4, <3>1, <3>2
  <2> QED
    BY <1>3, <2>1 DEF EnumerationInv, DiscoveryInv
<1>10. ListedInv'
  BY <1>3, <1>7 DEF EnumerationInv, ListedInv
<1> QED
  BY <1>1, <1>5, <1>6, <1>8, <1>9, <1>10 DEF EnumerationInv

LEMMA PlugNodeInv ==
  ASSUME WinDevFaults = {}, EnumerationInv, NEW n \in UsbNodes, PlugNode(n)
  PROVE  EnumerationInv'
<1>1. EnumerationType'
  BY PlugType DEF EnumerationInv
<1>2. /\ n \in TreeNodes /\ n \notin HcdNodes /\ ~RootHub(n) /\ NodeParent[n] \in present
      /\ (Hub(n) => pass = "none") /\ n \notin DOMAIN objects /\ n \notin present
  <2>1. n \in TreeNodes
    BY DEF PlugNode, UsbNodes
  <2>2. n \notin HcdNodes
    BY <2>1, AncestorsKinds
  <2> QED
    BY <2>1, <2>2 DEF PlugNode, Hub
<1>3. UNCHANGED <<steady, objects, pass, todo, unrefList, discdevs, status, lists>>
  BY DEF PlugNode
<1>4. present' = present \union {n}
  <2>1. \A m \in TreeNodes : RootHub(m) => NodeParent[m] # n
    BY <1>2 DEF RootHub
  <2> QED
    BY <2>1 DEF PlugNode
<1>5. PICK a : a = Min(1..MaxAddress \ {addressOf[m] : m \in InUse})
  OBVIOUS
<1>6. addressOf \in [TreeNodes -> 0..MaxAddress]
  BY DEF EnumerationInv, EnumerationType, WinDevTypeOK
<1>7. a \in 1..MaxAddress
  BY <1>2, <1>5, <1>6, FreeAddress
<1>8. a # 0
  <2>1. MaxAddress \in Nat
    <3>1. Cardinality(TreeNodes) \in Nat
      BY WinDevAssumption, FS_CardinalityType
    <3> QED
      BY <3>1, WinDevAssumption
  <2> QED
    BY <1>7, <2>1
<1>9. addressOf' = [addressOf EXCEPT ![n] = a]
  BY <1>2, <1>5 DEF PlugNode
<1>10. addressOf'[n] = a /\ \A m \in TreeNodes \ {n} : addressOf'[m] = addressOf[m]
  BY <1>2, <1>6, <1>9
<1>11. TreeInv'
  BY <1>2, <1>4, <1>8, <1>10 DEF EnumerationInv, TreeInv
<1>12. ObjectsInv'
  BY <1>2, <1>3, <1>10 DEF EnumerationInv, ObjectsInv
<1>13. FilledInv' /\ ControllersInv'
  BY <1>3 DEF EnumerationInv, FilledInv, ControllersInv
<1>14. \A m : (HasPath(m))' = HasPath(m) /\ (HasParts(m))' = HasParts(m)
  BY <1>3 DEF HasPath, HasParts
<1>15. HubsInv'
  BY <1>2, <1>3, <1>4, <1>14 DEF EnumerationInv, HubsInv
<1>16. DriversInv' /\ PartsInv' /\ ListedInv'
  BY <1>3, <1>14 DEF EnumerationInv, DriversInv, PartsInv, ListedInv
<1>17. DiscoveryInv'
  BY <1>3, <1>4 DEF EnumerationInv, DiscoveryInv
<1> QED
  BY <1>1, <1>11, <1>12, <1>13, <1>15, <1>16, <1>17 DEF EnumerationInv

(* What is kept stays as it is.                                            *)
LEMMA KeepInv ==
  ASSUME EnumerationInv, NEW set, set \subseteq DOMAIN objects, Keep(set), UNCHANGED addressOf
  PROVE  /\ ObjectsInv' /\ DOMAIN objects' = set
         /\ \A n \in set : objects'[n] = objects[n]
         /\ \A n \in set : HasPath(n) => (HasPath(n))'
         /\ \A n \in set : HasParts(n) => (HasParts(n))'
<1>1. objects \in [DOMAIN objects -> WinObject]
  BY DEF EnumerationInv, EnumerationType, WinDevTypeOK
<1>2. PICK D : D = DOMAIN objects \cap set
  OBVIOUS
<1>3. objects' \in [D -> WinObject] /\ \A n \in D : objects'[n] = objects[n]
  BY <1>1, <1>2, KeepType
<1>4. D = set /\ DOMAIN objects' = set
  BY <1>2, <1>3
<1>5. \A n \in set : objects'[n] = objects[n]
  BY <1>3, <1>4
<1>6. ObjectsInv'
  BY <1>4, <1>5 DEF EnumerationInv, ObjectsInv
<1> QED
  BY <1>4, <1>5, <1>6 DEF HasPath, HasParts

LEMMA GetWinDeviceListInv ==
  ASSUME EnumerationInv, GetWinDeviceList
  PROVE  EnumerationInv'
<1>1. EnumerationType'
  BY ContextType DEF EnumerationInv
<1>2. /\ pass = "none" /\ pass' = "hcd" /\ todo' = present \cap HcdNodes /\ steady' = present
      /\ UNCHANGED <<present, addressOf, objects, unrefList, discdevs, status, lists>>
  BY DEF GetWinDeviceList, OfPass
<1>3. TreeInv' /\ ObjectsInv' /\ FilledInv'
  BY <1>2 DEF EnumerationInv, TreeInv, ObjectsInv, FilledInv
<1>4. HubsInv' /\ DiscoveryInv' /\ DriversInv' /\ PartsInv' /\ ListedInv'
  BY <1>2 DEF HubsInv, DiscoveryInv, DriversInv, PartsInv, ListedInv
<1>5. ControllersInv'
  <2>1. DOMAIN objects \cap HcdNodes = {} /\ unrefList = {}
    <3>1. DOMAIN objects \subseteq UNION Range(lists)
      BY <1>2 DEF EnumerationInv, ListedInv
    <3>2. UNION Range(lists) \subseteq TreeNodes
      BY LastLists DEF EnumerationInv, EnumerationType, WinDevTypeOK, Range
    <3>3. TreeNodes \cap HcdNodes = {}
      BY WinDevAssumption
    <3>4. unrefList = {}
      BY <1>2 DEF EnumerationInv, EnumerationType
    <3> QED
      BY <3>1, <3>2, <3>3, <3>4
  <2>2. todo' = HcdNodes
    BY <1>2 DEF EnumerationInv, TreeInv
  <2>3. HcdNodes = {HostControllers[i] : i \in 1..Len(HostControllers)}
    BY BusesAre DEF HcdNodes, Range
  <2>4. PICK len : len = Len(HostControllers) /\ len \in Nat
    BY BusesCount
  <2>5. 0 \in 0..len /\ 1..0 = {} /\ (0 + 1)..len = 1..len
    BY <2>4
  <2>6. {HostControllers[i] : i \in 1..0} = {}
    BY <2>5
  <2> QED
    BY <1>2, <2>1, <2>2, <2>3, <2>4, <2>5, <2>6 DEF ControllersInv
<1> QED
  BY <1>1, <1>3, <1>4, <1>5 DEF EnumerationInv

LEMMA NextPassInv ==
  ASSUME EnumerationInv, NextPass
  PROVE  EnumerationInv'
<1>1. EnumerationType'
  BY ContextType DEF EnumerationInv
<1>2. /\ UNCHANGED <<busVars, objects, unrefList, discdevs, status, lists>>
      /\ todo = {} /\ todo' = OfPass(pass')
      /\ \/ pass = "hcd" /\ pass' = "hub"
         \/ pass = "hub" /\ pass' = "gen"
         \/ pass = "gen" /\ pass' = "dev"
         \/ pass = "dev" /\ pass' = "ext"
         \/ pass = "ext" /\ pass' = "end"
  BY DEF NextPass, After
<1>3. steady' = steady /\ present' = present /\ addressOf' = addressOf /\ steady \subseteq present
  BY <1>2 DEF busVars, EnumerationInv, EnumerationType, WinDevTypeOK
<1>4. \A m : (HasPath(m))' = HasPath(m) /\ (HasParts(m))' = HasParts(m)
  BY <1>2 DEF HasPath, HasParts
<1>5. TreeInv' /\ ObjectsInv' /\ FilledInv' /\ ListedInv'
  BY <1>2, <1>3 DEF EnumerationInv, TreeInv, ObjectsInv, FilledInv, ListedInv
<1>6. ControllersInv'
  <2>1. CASE pass = "hcd"
    <3>1. PICK k \in 0..Len(HostControllers) :
            /\ DOMAIN objects \cap HcdNodes = {HostControllers[i] : i \in 1..k}
            /\ todo = {HostControllers[i] : i \in (k + 1)..Len(HostControllers)}
      BY <2>1 DEF EnumerationInv, ControllersInv
    <3>2. PICK len : len = Len(HostControllers) /\ len \in Nat
      BY BusesCount
    <3>3. k + 1 \notin (k + 1)..len
      <4> SUFFICES ASSUME NEW j \in (k + 1)..len PROVE FALSE
        OBVIOUS
      <4>1. HostControllers[j] \in {HostControllers[i] : i \in (k + 1)..len}
        OBVIOUS
      <4>2. HostControllers[j] \in todo
        BY <3>1, <3>2, <4>1
      <4> QED
        BY <1>2, <4>2
    <3>4. k = len
      <4>1. k \in 0..len
        BY <3>1, <3>2
      <4> QED
        BY <3>2, <3>3, <4>1
    <3>5. HcdNodes = {HostControllers[i] : i \in 1..len}
      BY <3>2, BusesAre DEF HcdNodes, Range
    <3>6. HcdNodes \subseteq DOMAIN objects
      BY <3>1, <3>4, <3>5
    <3> QED
      BY <1>2, <2>1, <3>6 DEF ControllersInv
  <2>2. CASE pass # "hcd"
    BY <1>2, <2>2 DEF EnumerationInv, ControllersInv
  <2> QED
    BY <2>1, <2>2
<1>7. HubsInv'
  <2>1. pass' = "hub" => todo' = {m \in present \cap TreeNodes : Hub(m)}
    BY <1>2, <1>3 DEF OfPass, Hub
  <2> QED
    BY <1>2, <1>3, <1>4, <2>1 DEF EnumerationInv, HubsInv
<1>8. DiscoveryInv'
  <2>1. pass' = "gen" => todo' = present \cap TreeNodes
    BY <1>2, <1>3 DEF OfPass
  <2> QED
    BY <1>2, <1>3, <2>1 DEF EnumerationInv, DiscoveryInv, TreeInv
<1>9. DriversInv'
  <2>1. pass' = "dev" => todo' = {m \in present \cap TreeNodes : ~Hub(m)}
    BY <1>2, <1>3 DEF OfPass, Hub
  <2> QED
    BY <1>2, <1>3, <1>4, <2>1 DEF EnumerationInv, DriversInv
<1>10. PartsInv'
  <2>1. pass' = "ext" => todo' = {m \in present \cap TreeNodes : NodeKind[m] = "composite"} \X Parts
    BY <1>2, <1>3 DEF OfPass
  <2>2. ASSUME NEW n \in steady \cap TreeNodes, NodeKind[n] = "composite", pass = "ext"
        PROVE  HasParts(n)
    <3>1. n \in DOMAIN objects
      BY <2>2 DEF EnumerationInv, DiscoveryInv, EnumerationType, WinDevTypeOK
    <3>2. \A i \in Parts : i \in objects[n].parts
      BY <1>2, <2>2 DEF EnumerationInv, PartsInv
    <3>3. objects[n] \in WinObject
      BY <3>1 DEF EnumerationInv, EnumerationType, WinDevTypeOK
    <3>4. objects[n].parts \subseteq Parts
      BY <3>3 DEF WinObject
    <3> QED
      BY <3>1, <3>2, <3>4 DEF HasParts
  <2>3. ASSUME NEW n \in steady \cap TreeNodes, NodeKind[n] = "composite", pass' = "ext", NEW i \in Parts
        PROVE  <<n, i>> \in todo'
    <3>1. n \in present \cap TreeNodes
      BY <1>3
    <3> QED
      BY <2>1, <2>3, <3>1
  <2> QED
    BY <1>2, <1>3, <1>4, <2>2, <2>3 DEF PartsInv
<1> QED
  BY <1>1, <1>5, <1>6, <1>7, <1>8, <1>9, <1>10 DEF EnumerationInv

(* Between enumerations: what the lists name is there and set up.          *)
LEMMA BetweenEnumerations ==
  ASSUME EnumerationInv, EnumerationType', UNCHANGED busVars, status' = "ok", pass' = "none",
         discdevs' = {}, UNION Range(lists') \subseteq DOMAIN objects,
         Keep(UNION Range(lists')),
         \A n \in UNION Range(lists') : objects[n].address # 0,
         lists' # <<>> => \A n \in steady \cap TreeNodes :
           n \in Last(lists') /\ HasPath(n) /\ HasParts(n)
  PROVE  EnumerationInv'
<1>1. PICK set : set = UNION Range(lists')
  OBVIOUS
<1>2. steady' = steady /\ present' = present /\ addressOf' = addressOf
  BY DEF busVars
<1>3. /\ ObjectsInv' /\ DOMAIN objects' = set
      /\ \A n \in set : objects'[n] = objects[n]
      /\ \A n \in set : HasPath(n) => (HasPath(n))'
      /\ \A n \in set : HasParts(n) => (HasParts(n))'
  BY <1>1, <1>2, KeepInv
<1>4. TreeInv'
  BY <1>2 DEF EnumerationInv, TreeInv
<1>5. FilledInv'
  <2>1. \A n \in set : objects'[n].address # 0
    BY <1>1, <1>3
  <2> QED
    BY <1>1, <2>1 DEF FilledInv
<1>6. ControllersInv' /\ HubsInv' /\ DiscoveryInv' /\ DriversInv' /\ PartsInv'
  BY DEF ControllersInv, HubsInv, DiscoveryInv, DriversInv, PartsInv
<1>7. lists' # <<>> => Last(lists') \subseteq set
  <2>1. lists' \in Seq(SUBSET TreeNodes)
    BY DEF EnumerationType, WinDevTypeOK
  <2>2. lists' # <<>> => Last(lists') \in Range(lists')
    BY <2>1, LastLists
  <2> QED
    BY <1>1, <2>2
<1>8. ListedInv'
  BY <1>1, <1>2, <1>3, <1>7 DEF ListedInv
<1> QED
  BY <1>3, <1>4, <1>5, <1>6, <1>8 DEF EnumerationInv

LEMMA EndEnumerationInv ==
  ASSUME EnumerationInv, EndEnumeration
  PROVE  EnumerationInv'
<1>1. EnumerationType'
  BY ContextType DEF EnumerationInv
<1>2. status = "ok" /\ pass = "end"
  BY DEF EndEnumeration, EnumerationInv, FilledInv
<1>3. /\ UNCHANGED busVars /\ status' = "ok" /\ pass' = "none" /\ discdevs' = {}
      /\ lists' = Append(lists, discdevs) /\ Keep(UNION Range(lists'))
  BY <1>2 DEF EndEnumeration
<1>4. /\ lists \in Seq(SUBSET TreeNodes) /\ discdevs \in SUBSET TreeNodes
      /\ UNION Range(lists) \subseteq DOMAIN objects /\ discdevs \subseteq DOMAIN objects
      /\ steady \subseteq present
  BY DEF EnumerationInv, EnumerationType, WinDevTypeOK
<1>5. Range(lists') = Range(lists) \union {discdevs} /\ Last(lists') = discdevs
  BY <1>3, <1>4, AppendLists
<1>6. UNION Range(lists') \subseteq DOMAIN objects
  BY <1>4, <1>5
<1>7. \A n \in UNION Range(lists') : objects[n].address # 0
  <2>1. \A n : n \in discdevs \/ n \in UNION Range(lists) => objects[n].address # 0
    BY DEF EnumerationInv, FilledInv
  <2> SUFFICES ASSUME NEW n \in UNION Range(lists') PROVE n \in discdevs \/ n \in UNION Range(lists)
    BY <2>1
  <2>2. PICK s \in Range(lists') : n \in s
    OBVIOUS
  <2>3. s \in Range(lists) \/ s = discdevs
    BY <1>5, <2>2
  <2> QED
    BY <2>2, <2>3
<1>8. ASSUME NEW n \in steady \cap TreeNodes
      PROVE  n \in Last(lists') /\ HasPath(n) /\ HasParts(n)
  <2>1. n \in discdevs
    BY <1>2 DEF EnumerationInv, DiscoveryInv
  <2>2. HasPath(n)
    BY <1>2, <1>4 DEF EnumerationInv, HubsInv, DriversInv
  <2>3. HasParts(n)
    BY <1>2 DEF EnumerationInv, PartsInv, HasParts
  <2> QED
    BY <1>5, <2>1, <2>2, <2>3
<1>9. lists' # <<>> => \A n \in steady \cap TreeNodes :
         n \in Last(lists') /\ HasPath(n) /\ HasParts(n)
  BY <1>8
<1> QED
  BY <1>1, <1>3, <1>6, <1>7, <1>9, BetweenEnumerations

LEMMA FreeWinDeviceListInv ==
  ASSUME EnumerationInv, FreeWinDeviceList
  PROVE  EnumerationInv'
<1>1. EnumerationType'
  BY ContextType DEF EnumerationInv
<1>2. /\ UNCHANGED busVars /\ pass = "none" /\ UNCHANGED <<pass, discdevs, status>>
      /\ lists # <<>> /\ lists' = Tail(lists) /\ Keep(UNION Range(lists'))
  BY DEF FreeWinDeviceList
<1>3. /\ lists \in Seq(SUBSET TreeNodes) /\ discdevs = {} /\ status = "ok"
      /\ UNION Range(lists) \subseteq DOMAIN objects
  BY <1>2 DEF EnumerationInv, EnumerationType, WinDevTypeOK, FilledInv
<1>4. Range(lists') \subseteq Range(lists) /\ (lists' # <<>> => Last(lists') = Last(lists))
  BY <1>2, <1>3, TailLists
<1>5. UNION Range(lists') \subseteq UNION Range(lists)
  BY <1>4
<1>6. \A n \in UNION Range(lists') : objects[n].address # 0
  BY <1>5 DEF EnumerationInv, FilledInv
<1>7. lists' # <<>> => \A n \in steady \cap TreeNodes :
        n \in Last(lists') /\ HasPath(n) /\ HasParts(n)
  BY <1>2, <1>4 DEF EnumerationInv, ListedInv
<1> QED
  BY <1>1, <1>2, <1>3, <1>5, <1>6, <1>7, BetweenEnumerations

LEMMA EnumerationNextInv ==
  ASSUME WinDevFaults = {}, EnumerationInv, [WinDevNext]_winDevVars
  PROVE  EnumerationInv'
<1>1. CASE UNCHANGED winDevVars
  <2>1. EnumerationType'
    BY <1>1, EnumerationNextType DEF EnumerationInv
  <2>2. TreeInv' /\ ObjectsInv' /\ FilledInv' /\ ControllersInv'
    BY <1>1 DEF winDevVars, busVars, EnumerationInv, TreeInv, ObjectsInv, FilledInv, ControllersInv
  <2>3. \A m : (HasPath(m))' = HasPath(m) /\ (HasParts(m))' = HasParts(m)
    BY <1>1 DEF winDevVars, HasPath, HasParts
  <2>4. HubsInv' /\ DriversInv' /\ PartsInv' /\ ListedInv' /\ DiscoveryInv'
    BY <1>1, <2>3 DEF winDevVars, busVars, EnumerationInv, HubsInv, DriversInv, PartsInv, ListedInv,
                      DiscoveryInv
  <2> QED
    BY <2>1, <2>2, <2>4 DEF EnumerationInv
<1>2. CASE GetWinDeviceList \/ NextPass \/ EndEnumeration \/ FreeWinDeviceList
  BY <1>2, GetWinDeviceListInv, NextPassInv, EndEnumerationInv, FreeWinDeviceListInv
<1>3. ASSUME NEW n \in TreeNodes \union HcdNodes, PlugNode(n) \/ UnplugNode(n)
      PROVE  EnumerationInv'
  BY <1>3, PlugNodeInv, UnplugNodeInv DEF UsbNodes
<1>4. ASSUME NEW c \in HcdNodes, HcdPass(c) PROVE EnumerationInv'
  BY <1>4, HcdPassInv
<1>5. ASSUME NEW n \in TreeNodes, HubPass(n) \/ GenPass(n) \/ DevPass(n) PROVE EnumerationInv'
  BY <1>5, HubPassInv, GenPassInv, DevPassInv
<1>6. ASSUME NEW n \in TreeNodes, NEW i \in Parts, ExtPass(n, i) PROVE EnumerationInv'
  BY <1>6, ExtPassInv
<1> QED
  BY <1>1, <1>2, <1>3, <1>4, <1>5, <1>6 DEF WinDevNext

LEMMA ListedFromInv == EnumerationInv => ListedAsTheyAre
<1> SUFFICES ASSUME EnumerationInv PROVE ListedAsTheyAre
  OBVIOUS
<1>1. status = "ok"
  BY DEF EnumerationInv, FilledInv
<1> SUFFICES ASSUME pass = "none", lists # <<>>
             PROVE  /\ steady \cap TreeNodes \subseteq Last(lists)
                    /\ \A n \in Last(lists) :
                         LET o == objects[n] IN
                         /\ o.busNumber = BusOf(Last(Ancestors[n])) /\ (o.configs \/ RootHub(n))
                         /\ o.address = IF RootHub(n) THEN 255 ELSE addressOf[n]
                         /\ n \in steady => /\ o.path /\ o.api = NodeKind[n]
                                            /\ NodeKind[n] = "composite" => o.parts = Parts
  BY <1>1 DEF ListedAsTheyAre
<1>2. \A n \in steady \cap TreeNodes : n \in Last(lists) /\ HasPath(n) /\ HasParts(n)
  BY DEF EnumerationInv, ListedInv
<1>3. ASSUME NEW n \in Last(lists)
      PROVE  LET o == objects[n] IN
             /\ o.busNumber = BusOf(Last(Ancestors[n])) /\ (o.configs \/ RootHub(n))
             /\ o.address = IF RootHub(n) THEN 255 ELSE addressOf[n]
             /\ n \in steady => /\ o.path /\ o.api = NodeKind[n]
                                /\ NodeKind[n] = "composite" => o.parts = Parts
  <2>1. lists \in Seq(SUBSET TreeNodes) /\ UNION Range(lists) \subseteq DOMAIN objects
    BY DEF EnumerationInv, EnumerationType, WinDevTypeOK
  <2>2. Last(lists) \in Range(lists) /\ Range(lists) \subseteq SUBSET TreeNodes
    <3>1. Range(lists) \subseteq SUBSET TreeNodes
      BY <2>1 DEF Range
    <3> QED
      BY <2>1, <3>1, LastLists
  <2>3. n \in TreeNodes /\ n \in UNION Range(lists) /\ n \in DOMAIN objects
    BY <2>1, <2>2
  <2>4. PICK o : o = objects[n]
    OBVIOUS
  <2>5. o.address # 0
    BY <2>3, <2>4 DEF EnumerationInv, FilledInv
  <2>6. NodeObject(n, o, addressOf[n])
    BY <2>3, <2>4 DEF EnumerationInv, ObjectsInv
  <2>7. ControllerOf(n) = Last(Ancestors[n])
    <3>1. n \notin HcdNodes
      BY <2>3, WinDevAssumption
    <3> QED
      BY <3>1 DEF ControllerOf
  <2>8. /\ o.busNumber = BusOf(Last(Ancestors[n])) /\ (o.configs \/ RootHub(n))
        /\ o.address = IF RootHub(n) THEN 255 ELSE addressOf[n]
    BY <2>5, <2>6, <2>7 DEF NodeObject, BusAt
  <2>9. n \in steady => /\ o.path /\ o.api = NodeKind[n]
                        /\ NodeKind[n] = "composite" => o.parts = Parts
    BY <1>2, <2>3, <2>4, <2>6 DEF HasPath, HasParts, NodeObject
  <2> QED
    BY <2>4, <2>8, <2>9
<1> QED
  BY <1>2, <1>3

(* windows_get_device_list(), while no hub comes or goes during an         *)
(* enumeration, hubs can be opened and descriptors read: no enumeration    *)
(* fails, in whatever order Windows lists hubs and devices and though      *)
(* devices come and go meanwhile; what is listed has the bus, the address  *)
(* and the descriptors of the device it stands for, and what was there all *)
(* the time is listed, with its driver and all its parts.                  *)
THEOREM DevicesListedAsTheyAre == WinDevFaults = {} => (WinDevSpec => []ListedAsTheyAre)
<1> SUFFICES ASSUME WinDevFaults = {} PROVE WinDevSpec => []ListedAsTheyAre
  OBVIOUS
<1>1. WinDevInit => EnumerationInv
  BY EnumerationInitInv
<1>2. EnumerationInv /\ [WinDevNext]_winDevVars => EnumerationInv'
  BY EnumerationNextInv
<1>3. EnumerationInv => ListedAsTheyAre
  BY ListedFromInv
<1> QED
  BY <1>1, <1>2, <1>3, PTL DEF WinDevSpec

-----------------------------------------------------------------------------
(* All components together (MCComponents.tla)                              *)

(* A step is one of a single component, and the others keep their state.   *)
Alone ==
  /\ [UrbsNext]_urbVars
  /\ [DevicesNext]_deviceVars
  /\ [InterfacesNext]_ifaceVars
  /\ [ThreadsNext]_condVars
  /\ [ClockNext]_clockVars
  /\ [WinNext]_winVars
  /\ [DarwinNext]_darwinVars
  /\ [ObsdNext]_obsdVars
  /\ [DpNext]_dpVars
  /\ [DescNext]_descVars
  /\ [ActiveNext]_configAllVars
  /\ [PipeNext]_pipeVars
  /\ [DeadlinesNext]_deadlineVars
  /\ [WinDevNext]_winDevVars

LEMMA OneRuns == [Next]_allVars => Alone
<1> SUFFICES ASSUME [Next]_allVars PROVE Alone
  OBVIOUS
<1>1. CASE Urbs
  BY <1>1 DEF Urbs, Alone
<1>2. CASE DeviceObjects
  BY <1>2 DEF DeviceObjects, Alone
<1>3. CASE InterfaceCalls
  BY <1>3 DEF InterfaceCalls, Alone
<1>4. CASE CondThreads
  BY <1>4 DEF CondThreads, Alone
<1>5. CASE ClockThreads
  BY <1>5 DEF ClockThreads, Alone
<1>6. CASE Windows
  BY <1>6 DEF Windows, Alone
<1>7. CASE Darwin
  BY <1>7 DEF Darwin, Alone
<1>8. CASE ObsdCalls
  BY <1>8 DEF ObsdCalls, Alone
<1>9. CASE Scanners
  BY <1>9 DEF Scanners, Alone
<1>10. CASE DescriptorReads
  BY <1>10 DEF DescriptorReads, Alone
<1>11. CASE ActiveConfiguration
  BY <1>11 DEF ActiveConfiguration, Alone
<1>12. CASE PipeCalls
  BY <1>12 DEF PipeCalls, Alone
<1>13. CASE Timing
  BY <1>13 DEF Timing, Alone
<1>14. CASE DeviceTree
  BY <1>14 DEF DeviceTree, Alone
<1>15. CASE UNCHANGED allVars
  BY <1>15 DEF allVars, Alone
<1> QED
  BY <1>1, <1>2, <1>3, <1>4, <1>5, <1>6, <1>7, <1>8, <1>9, <1>10, <1>11, <1>12, <1>13, <1>14, <1>15 DEF Next

(* Every component has its types when they run together, whichever of them *)
(* it is and whatever the constants: the faults that are excluded are those*)
(* that break the types' own proofs, all others may happen.                *)
THEOREM ComponentsTyped ==
  ASSUME "lone_stall" \notin UrbFaults, "early_error" \notin UrbFaults,
         DeviceRaces \subseteq {"no memory"}, "freed" \notin DeadlineFaults,
         NothingStale, RoomForAnswers,
         IsFiniteSet(Sessions), IsFiniteSet(DarwinHandles)
  PROVE  Spec => []TypesOK
<1>1. UrbsInit /\ [][UrbsNext]_urbVars => []UrbsTypeOK
  BY UrbsTypesLast
<1>2. DevicesInit /\ [][DevicesNext]_deviceVars => [](DevicesTypeOK /\ HoldersType)
  BY DevicesTyped DEF DevicesSpec
<1>3. InterfacesInit /\ [][InterfacesNext]_ifaceVars => [](InterfacesTypeOK /\ ContextCounted)
  BY InterfacesTyped DEF InterfacesSpec
<1>4. ThreadsInit /\ [][ThreadsNext]_condVars => []ThreadsTypeOK
  BY ThreadsTypeCorrect DEF ThreadsSpec
<1>5. ClockInit /\ [][ClockNext]_clockVars => []ClockTypeOK
  BY ClockTyped DEF ClockSpec
<1>6. WinInit /\ [][WinNext]_winVars => []WinTypeOK
  BY WinTyped DEF WinSpec
<1>7. DarwinInit /\ [][DarwinNext]_darwinVars => []DarwinTypeOK
  BY DarwinTyped DEF DarwinSpec
<1>8. ObsdInit /\ [][ObsdNext]_obsdVars => []ObsdTypeOK
  BY ObsdTyped DEF ObsdSpec
<1>9. DpInit /\ [][DpNext]_dpVars => []DpTypeOK
  BY DpTyped DEF DpSpec
<1>10. DescInit /\ [][DescNext]_descVars => []DescTypeOK
  BY DescTyped DEF DescSpec
<1>11. ActiveInit /\ [][ActiveNext]_configAllVars => []ActiveTypeOK
  BY ActiveTyped DEF ActiveSpec
<1>12. PipeInit /\ [][PipeNext]_pipeVars => []PipeTypeOK
  BY PipeTyped DEF PipeSpec
<1>13. DeadlinesInit /\ [][DeadlinesNext]_deadlineVars => []DeadlinesTypeOK
  BY DeadlinesTyped DEF DeadlinesSpec
<1>14. WinDevInit /\ [][WinDevNext]_winDevVars => []WinDevTypeOK
  BY EnumerationTyped DEF WinDevSpec
<1>15. Init => /\ UrbsInit /\ DevicesInit /\ InterfacesInit /\ ThreadsInit /\ ClockInit /\ WinInit
               /\ DarwinInit /\ ObsdInit /\ DpInit /\ DescInit /\ ActiveInit /\ PipeInit
               /\ DeadlinesInit /\ WinDevInit
  BY DEF Init
<1>16. [Next]_allVars => Alone
  BY OneRuns
<1> QED
  BY <1>1, <1>2, <1>3, <1>4, <1>5, <1>6, <1>7, <1>8, <1>9, <1>10, <1>11, <1>12, <1>13, <1>14, <1>15, <1>16, PTL DEF Spec, Alone, TypesOK
=============================================================================
